--------------------------- MODULE DiscoveryProofs ---------------------------
(***************************************************************************)
(* What is proved about how files and peers are found: the start of a KAD  *)
(* command (Bootstrap), buddies (Buddy), the spider's node pool (KadPool), *)
(* the ED2K servers (Server), the lookups (KadLookup) and the routing      *)
(* table (KadRouting).                                                     *)
(***************************************************************************)
EXTENDS Buddy, Bootstrap, Server, KadPool, KadLookup, KadRouting, Induction,
        FiniteSetTheorems, SequenceTheorems, TLAPS

-----------------------------------------------------------------------------
(* Bootstrap.                                                              *)

(* Who was heard or named is known, and those who were heard by their own  *)
(* word; those who were asked wait until they speak.                       *)
Recorded ==
    /\ DOMAIN live = heard \cup named
    /\ \A e \in heard : live[e] # "told"
    /\ pending = asked \ spoken

(* What has been offered so far.                                           *)
Offered ==
    /\ stage \in {"start", "seeds"} => heard = {} /\ named = {} /\ spoken = {}
    /\ stage \in {"seeds", "listening"} => offered = Cached \cap Usable
    /\ stage = "over" => offered = (Cached \cap Usable) \cup heard \cup named

BootstrapInv == Recorded /\ Offered

LEMMA BootstrapStart == BootstrapInit => BootstrapInv
BY DEF BootstrapInit, BootstrapInv, Recorded, Offered

LEMMA BootstrapStep == BootstrapInv /\ [BootstrapNext]_bootstrapVars => BootstrapInv'
<1> SUFFICES ASSUME BootstrapInv, [BootstrapNext]_bootstrapVars
             PROVE  BootstrapInv'
  OBVIOUS
<1> USE DEF BootstrapInv, Recorded, Offered, history
<1>1. CASE LoadKadRuntime
  BY <1>1 DEF LoadKadRuntime
<1>2. CASE Ask
  BY <1>2 DEF Ask
<1>3. ASSUME NEW e \in Endpoints, OnDatagram(e)
      PROVE  BootstrapInv'
  <2>1. /\ stage = "listening" /\ pending' = pending \ {e} /\ spoken' = spoken \cup {e}
        /\ UNCHANGED <<stage, offered, asked>>
    BY <1>3 DEF OnDatagram
  <2>2. CASE UNCHANGED <<live, heard, named>>
    BY <2>1, <2>2
  <2>3. ASSUME NEW opcode \in {"bootstrap", "hello", "pong"}, NEW contacts \in SUBSET Endpoints,
               live' = Learnt(e, opcode, contacts),
               heard' = heard \cup {e}, named' = named \cup contacts
        PROVE  BootstrapInv'
    <3>1. OwnWord(e, opcode) # "told"
      BY DEF OwnWord
    <3>2. /\ DOMAIN live' = DOMAIN live \cup {e} \cup contacts
          /\ live'[e] = OwnWord(e, opcode)
          /\ \A c \in DOMAIN live : c # e => live'[c] = live[c]
      BY <2>3 DEF Learnt
    <3> QED
      BY <2>1, <2>3, <3>1, <3>2
  <2> QED
    BY <1>3, <2>2, <2>3 DEF OnDatagram
<1>4. CASE Deadline
  BY <1>4 DEF Deadline
<1>5. CASE UNCHANGED bootstrapVars
  BY <1>5 DEF bootstrapVars
<1> QED
  BY <1>1, <1>2, <1>3, <1>4, <1>5 DEF BootstrapNext

(* Whatever arrives twice, unasked, broken or out of turn: a node's word   *)
(* on itself stays, all who answered and all they named are offered, and   *)
(* the failed are the silent (bootstrap_nodes, bootstrap_runtime).         *)
THEOREM AnswersStay == BootstrapSpec => []AnswersKept
<1>1. BootstrapInv => AnswersKept
  BY DEF BootstrapInv, Recorded, Offered, AnswersKept
<1> QED
  BY <1>1, BootstrapStart, BootstrapStep, PTL DEF BootstrapSpec

-----------------------------------------------------------------------------
(* Buddy.                                                                  *)

BuddyTyped ==
    /\ buddy \in [Clients -> Buddies \cup {NoBuddy}]
    /\ reg \in [Clients -> {"none", "started", "hello", "relay"}]
    /\ over \in [Clients -> Sessions \cup {Free}]
    /\ due \in [Clients -> BOOLEAN]
    /\ net \subseteq [op : {"req", "res"}, client : Clients, at : Buddies]
    /\ tcp \in [Sessions -> Session \cup {Free}]
    /\ served \in [Buddies -> [Clients -> Sessions \cup {Free}]]
    /\ last \in [Buddies -> [Clients -> Sessions \cup {Free}]]

(* A client's connection is open and its own.                              *)
OwnConnection ==
    \A c \in Clients :
       /\ reg[c] # "none" => buddy[c] \in Buddies
       /\ reg[c] \in {"hello", "relay"} => over[c] # Free
       /\ over[c] # Free => tcp[over[c]] \in Session /\ tcp[over[c]].open /\ tcp[over[c]].client = c

(* An entry of the registry is a session that is held for that client.     *)
EntryIsHeld ==
    \A b \in Buddies, c \in Clients :
       /\ last[b][c] # Free => tcp[last[b][c]] \in Session
       /\ served[b][c] # Free => /\ tcp[served[b][c]] \in Session
                                 /\ tcp[served[b][c]].held = "yes"
                                 /\ tcp[served[b][c]].at = b /\ tcp[served[b][c]].client = c

(* The session that registered last is the entry while it is held.         *)
NewestIsEntry ==
    \A b \in Buddies, c \in Clients :
       (/\ last[b][c] # Free /\ tcp[last[b][c]].held = "yes"
        /\ tcp[last[b][c]].client = c /\ tcp[last[b][c]].at = b) => served[b][c] = last[b][c]

BuddyInv == BuddyTyped /\ OwnConnection /\ EntryIsHeld /\ NewestIsEntry

LEMMA BuddyStart == BuddyInit => BuddyInv
BY DEF BuddyInit, BuddyInv, BuddyTyped, OwnConnection, EntryIsHeld, NewestIsEntry

(* A step that leaves the sessions as they are to the registry.            *)
LEMMA RegistryKept ==
    ASSUME BuddyInv, BuddyTyped', OwnConnection', UNCHANGED <<served, last>>,
           \A i \in Sessions :
              /\ tcp[i] \in Session => /\ tcp'[i] \in Session /\ tcp'[i].client = tcp[i].client
                                       /\ tcp'[i].at = tcp[i].at /\ tcp'[i].held = tcp[i].held
    PROVE  BuddyInv'
<1> USE BuddyAssumption DEF BuddyInv, BuddyTyped
<1>1. EntryIsHeld'
  <2> SUFFICES ASSUME NEW b \in Buddies, NEW c \in Clients
               PROVE  /\ last'[b][c] # Free => tcp'[last'[b][c]] \in Session
                      /\ served'[b][c] # Free =>
                            /\ tcp'[served'[b][c]] \in Session /\ tcp'[served'[b][c]].held = "yes"
                            /\ tcp'[served'[b][c]].at = b /\ tcp'[served'[b][c]].client = c
    BY DEF EntryIsHeld
  <2>1. served[b][c] \in Sessions \cup {Free} /\ last[b][c] \in Sessions \cup {Free}
    OBVIOUS
  <2>2. served'[b][c] = served[b][c] /\ last'[b][c] = last[b][c]
    OBVIOUS
  <2>3. /\ last[b][c] # Free => tcp[last[b][c]] \in Session
        /\ served[b][c] # Free => /\ tcp[served[b][c]] \in Session
                                  /\ tcp[served[b][c]].held = "yes"
                                  /\ tcp[served[b][c]].at = b /\ tcp[served[b][c]].client = c
    BY DEF EntryIsHeld
  <2>4. last'[b][c] # Free => tcp'[last'[b][c]] \in Session
    BY <2>1, <2>2, <2>3
  <2>5. ASSUME served'[b][c] # Free
        PROVE  /\ tcp'[served'[b][c]] \in Session /\ tcp'[served'[b][c]].held = "yes"
               /\ tcp'[served'[b][c]].at = b /\ tcp'[served'[b][c]].client = c
    <3>1. served[b][c] \in Sessions /\ served'[b][c] = served[b][c] /\ tcp[served[b][c]] \in Session
      BY <2>1, <2>2, <2>3, <2>5
    <3> QED
      BY <2>2, <2>3, <2>5, <3>1
  <2> QED
    BY <2>4, <2>5
<1>2. NewestIsEntry'
  <2> SUFFICES ASSUME NEW b \in Buddies, NEW c \in Clients, last'[b][c] # Free,
                      tcp'[last'[b][c]].held = "yes", tcp'[last'[b][c]].client = c,
                      tcp'[last'[b][c]].at = b
               PROVE  served'[b][c] = last'[b][c]
    BY DEF NewestIsEntry
  <2>1. /\ served'[b][c] = served[b][c] /\ last'[b][c] = last[b][c]
        /\ last[b][c] \in Sessions
    OBVIOUS
  <2>2. tcp[last[b][c]] \in Session
    BY <2>1 DEF EntryIsHeld
  <2>3. tcp[last[b][c]].held = "yes" /\ tcp[last[b][c]].client = c /\ tcp[last[b][c]].at = b
    BY <2>1, <2>2
  <2> QED
    BY <2>1, <2>3 DEF NewestIsEntry
<1> QED
  BY <1>1, <1>2

LEMMA BuddyStep == BuddyInv /\ [BuddyNext]_buddyVars => BuddyInv'
<1> SUFFICES ASSUME BuddyInv, [BuddyNext]_buddyVars
             PROVE  BuddyInv'
  OBVIOUS
<1>0. BuddyTyped /\ OwnConnection /\ EntryIsHeld /\ NewestIsEntry
  BY DEF BuddyInv
<1> USE BuddyAssumption DEF client
<1>1. ASSUME NEW c \in Clients, AskForBuddy(c) \/ Interval(c) \/ NoAnswer(c) \/ Registered(c)
      PROVE  BuddyInv'
  <2>1. BuddyTyped'
    BY <1>0, <1>1 DEF AskForBuddy, Interval, NoAnswer, Registered, BuddyTyped
  <2>2. OwnConnection'
    BY <1>0, <1>1 DEF AskForBuddy, Interval, NoAnswer, Registered, BuddyTyped, OwnConnection
  <2>3. UNCHANGED <<tcp, served, last>>
    BY <1>1 DEF AskForBuddy, Interval, NoAnswer, Registered
  <2> QED
    BY <2>1, <2>2, <2>3, RegistryKept
<1>2. ASSUME NEW c \in Clients, Connect(c)
      PROVE  BuddyInv'
  <2>1. PICK i \in Unused :
          /\ tcp' = [tcp EXCEPT ![i] = [client |-> c, at |-> buddy[c], open |-> TRUE,
                                        held |-> "no", callback |-> FALSE]]
          /\ over' = [over EXCEPT ![c] = i]
    BY <1>2 DEF Connect
  <2>2. /\ reg[c] = "started" /\ reg' = [reg EXCEPT ![c] = "hello"]
        /\ UNCHANGED <<buddy, due, net, served, last>>
    BY <1>2 DEF Connect
  <2>3. /\ i \in Sessions /\ buddy[c] \in Buddies
        /\ tcp[i] = Free \/ (~tcp[i].open /\ tcp[i].held = "over")
    BY <1>0, <2>2 DEF Unused, OwnConnection
  <2>4. [client |-> c, at |-> buddy[c], open |-> TRUE, held |-> "no", callback |-> FALSE] \in Session
    BY <2>3 DEF Session
  <2>5. BuddyTyped'
    BY <1>0, <2>1, <2>2, <2>3, <2>4 DEF BuddyTyped
  <2>6. OwnConnection'
    BY <1>0, <2>1, <2>2, <2>3, <2>4 DEF BuddyTyped, OwnConnection, Session
  <2>7. /\ tcp'[i] \in Session /\ tcp'[i].held = "no"
        /\ \A j \in Sessions : j # i => tcp'[j] = tcp[j]
    BY <1>0, <2>1, <2>3, <2>4 DEF BuddyTyped
  <2>8. \A b \in Buddies, d \in Clients :
           served[b][d] \in Sessions \cup {Free} /\ last[b][d] \in Sessions \cup {Free}
    BY <1>0 DEF BuddyTyped
  <2>9. \A b \in Buddies, d \in Clients : served[b][d] # Free => served[b][d] # i
    <3> SUFFICES ASSUME NEW b \in Buddies, NEW d \in Clients, served[b][d] # Free, served[b][d] = i
                 PROVE  FALSE
      OBVIOUS
    <3>1. tcp[i] \in Session /\ tcp[i].held = "yes"
      BY <1>0 DEF EntryIsHeld
    <3> QED
      BY <2>3, <3>1
  <2>10. EntryIsHeld'
    BY <1>0, <2>2, <2>7, <2>8, <2>9 DEF EntryIsHeld
  <2>11. NewestIsEntry'
    BY <1>0, <2>2, <2>7, <2>8, <2>9 DEF NewestIsEntry
  <2> QED
    BY <2>5, <2>6, <2>10, <2>11 DEF BuddyInv
<1>3. ASSUME NEW c \in Clients, Leave(c) \/ RestartClient(c)
      PROVE  BuddyInv'
  <2>1. /\ reg' = [reg EXCEPT ![c] = "none"] /\ buddy' = [buddy EXCEPT ![c] = NoBuddy]
        /\ over' = [over EXCEPT ![c] = Free] /\ due' \in [Clients -> BOOLEAN]
        /\ UNCHANGED <<net, served, last>>
        /\ tcp' = IF over[c] = Free THEN tcp ELSE [tcp EXCEPT ![over[c]] = Ends(@)]
    BY <1>0, <1>3 DEF Leave, RestartClient, BuddyTyped, OwnConnection
  <2>2. \A i \in Sessions : tcp[i] \in Session =>
              /\ Ends(tcp[i]) \in Session /\ Ends(tcp[i]).client = tcp[i].client
              /\ Ends(tcp[i]).at = tcp[i].at /\ Ends(tcp[i]).held = tcp[i].held
    BY DEF Ends, Session
  <2>3. over[c] # Free => over[c] \in Sessions /\ tcp[over[c]] \in Session
    BY <1>0 DEF BuddyTyped, OwnConnection
  <2>4. BuddyTyped'
    BY <1>0, <2>1, <2>2, <2>3 DEF BuddyTyped
  <2>5. OwnConnection'
    BY <1>0, <2>1, <2>2, <2>3 DEF BuddyTyped, OwnConnection
  <2>6. \A i \in Sessions : tcp'[i] = tcp[i] \/ tcp'[i] = Ends(tcp[i])
    BY <1>0, <2>1, <2>3 DEF BuddyTyped
  <2>7. \A i \in Sessions :
           tcp[i] \in Session => /\ tcp'[i] \in Session /\ tcp'[i].client = tcp[i].client
                                 /\ tcp'[i].at = tcp[i].at /\ tcp'[i].held = tcp[i].held
    BY <2>2, <2>6
  <2>8. UNCHANGED <<served, last>>
    BY <2>1
  <2> QED
    BY <1>0, <2>4, <2>5, <2>7, <2>8, RegistryKept
<1>4. ASSUME NEW c \in Clients, DialBack(c)
      PROVE  BuddyInv'
  <2>1. /\ over[c] \in Sessions /\ tcp[over[c]] \in Session
        /\ tcp' = [tcp EXCEPT ![over[c]].callback = FALSE]
        /\ UNCHANGED <<buddy, reg, over, due, net, served, last>>
    BY <1>0, <1>4 DEF DialBack, BuddyTyped, OwnConnection
  <2>a. tcp \in [Sessions -> Session \cup {Free}]
    BY <1>0 DEF BuddyTyped
  <2>b. DOMAIN tcp' = Sessions /\ \A i \in Sessions :
           /\ i # over[c] => tcp'[i] = tcp[i]
           /\ i = over[c] => /\ tcp'[i] \in Session /\ tcp'[i].open = tcp[i].open
                             /\ tcp'[i].client = tcp[i].client /\ tcp'[i].at = tcp[i].at
                             /\ tcp'[i].held = tcp[i].held
    BY <2>1, <2>a DEF Session
  <2>c. tcp' \in [Sessions -> Session \cup {Free}]
    BY <2>1, <2>a, <2>b
  <2>2. BuddyTyped' /\ OwnConnection'
    <3>1. BuddyTyped'
      BY <1>0, <2>1, <2>c DEF BuddyTyped
    <3>2. \A d \in Clients : over[d] \in Sessions \cup {Free}
      BY <1>0 DEF BuddyTyped
    <3>3. OwnConnection'
      <4> SUFFICES ASSUME NEW d \in Clients
                   PROVE  /\ reg'[d] # "none" => buddy'[d] \in Buddies
                          /\ reg'[d] \in {"hello", "relay"} => over'[d] # Free
                          /\ over'[d] # Free => /\ tcp'[over'[d]] \in Session /\ tcp'[over'[d]].open
                                                /\ tcp'[over'[d]].client = d
        BY DEF OwnConnection
      <4>1. /\ reg'[d] = reg[d] /\ buddy'[d] = buddy[d] /\ over'[d] = over[d]
            /\ reg[d] # "none" => buddy[d] \in Buddies
            /\ reg[d] \in {"hello", "relay"} => over[d] # Free
            /\ over[d] # Free => /\ tcp[over[d]] \in Session /\ tcp[over[d]].open
                                 /\ tcp[over[d]].client = d
        BY <1>0, <2>1 DEF OwnConnection
      <4>2. ASSUME over[d] # Free
            PROVE  tcp'[over[d]] \in Session /\ tcp'[over[d]].open /\ tcp'[over[d]].client = d
        <5>1. over[d] \in Sessions
          BY <3>2, <4>2
        <5>2. CASE over[d] = over[c]
          BY <2>b, <4>1, <4>2, <5>1, <5>2
        <5>3. CASE over[d] # over[c]
          BY <2>b, <4>1, <4>2, <5>1, <5>3
        <5> QED
          BY <5>2, <5>3
      <4> QED
        BY <4>1, <4>2
    <3> QED
      BY <3>1, <3>3
  <2> QED
    BY <1>0, <2>1, <2>2, RegistryKept DEF BuddyTyped, Session
<1>5. ASSUME NEW m \in net, OnRequest(m) \/ OnOffer(m)
      PROVE  BuddyInv'
  <2>1. m \in [op : {"req", "res"}, client : Clients, at : Buddies]
    BY <1>0 DEF BuddyTyped
  <2>2. BuddyTyped'
    BY <1>0, <1>5, <2>1 DEF OnRequest, OnOffer, BuddyTyped
  <2>3. OwnConnection'
    BY <1>0, <1>5, <2>1 DEF OnRequest, OnOffer, BuddyTyped, OwnConnection
  <2>4. UNCHANGED <<tcp, served, last>>
    BY <1>5 DEF OnRequest, OnOffer
  <2> QED
    BY <2>2, <2>3, <2>4, RegistryKept
<1>6. ASSUME NEW i \in Sessions, Register(i)
      PROVE  BuddyInv'
  <2>1. /\ tcp[i] \in Session /\ tcp[i].held = "no"
        /\ tcp' = [tcp EXCEPT ![i].held = "yes"]
        /\ UNCHANGED <<buddy, reg, over, due, net>>
    BY <1>0, <1>6 DEF Register, BuddyTyped
  <2> DEFINE b == tcp[i].at
             c == tcp[i].client
  <2>2. /\ b \in Buddies /\ c \in Clients
        /\ served' = [served EXCEPT ![b][c] = i] /\ last' = [last EXCEPT ![b][c] = i]
    BY <1>6, <2>1 DEF Register, Session
  <2>3. /\ tcp'[i] \in Session /\ tcp'[i].held = "yes" /\ tcp'[i].at = b /\ tcp'[i].client = c
        /\ tcp'[i].open = tcp[i].open
        /\ \A j \in Sessions : j # i => tcp'[j] = tcp[j]
    BY <1>0, <2>1 DEF BuddyTyped, Session
  <2>4. /\ \A d \in Buddies, e \in Clients :
              IF d = b /\ e = c THEN served'[d][e] = i /\ last'[d][e] = i
              ELSE served'[d][e] = served[d][e] /\ last'[d][e] = last[d][e]
    BY <1>0, <2>2 DEF BuddyTyped
  <2> HIDE DEF b, c
  <2>5. BuddyTyped'
    BY <1>0, <2>1, <2>2, <2>3 DEF BuddyTyped
  <2>6. OwnConnection'
    BY <1>0, <2>1, <2>3 DEF BuddyTyped, OwnConnection, b, c
  <2>7. EntryIsHeld'
    BY <1>0, <2>1, <2>3, <2>4 DEF BuddyTyped, EntryIsHeld
  <2>8. NewestIsEntry'
    BY <1>0, <2>3, <2>4 DEF BuddyTyped, NewestIsEntry
  <2> QED
    BY <2>5, <2>6, <2>7, <2>8 DEF BuddyInv
<1>7. ASSUME NEW i \in Sessions, HoldEnds(i)
      PROVE  BuddyInv'
  <2>1. /\ tcp[i] \in Session /\ tcp[i].held = "yes"
        /\ tcp' = [tcp EXCEPT ![i].held = "over"] /\ served' = Unregister(i)
        /\ UNCHANGED <<buddy, reg, over, due, net, last>>
    BY <1>0, <1>7 DEF HoldEnds, BuddyTyped
  <2> DEFINE b == tcp[i].at
  <2>2. /\ b \in Buddies
        /\ served' = [served EXCEPT ![b] = [c \in Clients |-> IF @[c] = i THEN Free ELSE @[c]]]
    BY <2>1 DEF Unregister, Session
  <2>3. /\ tcp'[i] \in Session /\ tcp'[i].held = "over"
        /\ tcp'[i].open = tcp[i].open /\ tcp'[i].client = tcp[i].client
        /\ \A j \in Sessions : j # i => tcp'[j] = tcp[j]
    BY <1>0, <2>1 DEF BuddyTyped, Session
  <2>4. \A d \in Buddies, e \in Clients :
           served'[d][e] = IF d = b /\ served[d][e] = i THEN Free ELSE served[d][e]
    BY <1>0, <2>2 DEF BuddyTyped
  <2>5. BuddyTyped'
    BY <1>0, <2>1, <2>2, <2>3 DEF BuddyTyped
  <2>6. OwnConnection'
    BY <1>0, <2>1, <2>3 DEF BuddyTyped, OwnConnection
  <2>7. EntryIsHeld'
    BY <1>0, <2>1, <2>3, <2>4 DEF BuddyTyped, EntryIsHeld
  <2>8. NewestIsEntry'
    BY <1>0, <2>1, <2>3, <2>4 DEF BuddyTyped, NewestIsEntry
  <2> QED
    BY <2>5, <2>6, <2>7, <2>8 DEF BuddyInv
<1>8. ASSUME NEW b \in Buddies, NEW c \in Clients, Relay(b, c)
      PROVE  BuddyInv'
  <2>1. /\ served[b][c] \in Sessions /\ tcp[served[b][c]] \in Session
        /\ tcp' = [tcp EXCEPT ![served[b][c]].callback = TRUE]
        /\ UNCHANGED <<buddy, reg, over, due, net, served, last>>
    BY <1>0, <1>8 DEF Relay, BuddyTyped, EntryIsHeld
  <2> DEFINE j == served[b][c]
  <2>2. [tcp[j] EXCEPT !.callback = TRUE] \in Session
    BY <2>1 DEF Session
  <2> HIDE DEF j
  <2>3. BuddyTyped'
    BY <1>0, <2>1, <2>2 DEF BuddyTyped, j
  <2>4. OwnConnection'
    BY <1>0, <2>1, <2>2 DEF BuddyTyped, OwnConnection, Session, j
  <2> QED
    BY <1>0, <2>1, <2>3, <2>4, RegistryKept DEF BuddyTyped, Session
<1>9. ASSUME NEW b \in Buddies, RestartBuddy(b)
      PROVE  BuddyInv'
  <2>1. /\ served' = [served EXCEPT ![b] = [c \in Clients |-> Free]]
        /\ last' = [last EXCEPT ![b] = [c \in Clients |-> Free]]
        /\ tcp' = [i \in Sessions |-> IF tcp[i] # Free /\ tcp[i].at = b
                                      THEN [tcp[i] EXCEPT !.held = "over"] ELSE tcp[i]]
        /\ UNCHANGED <<buddy, reg, over, due, net>>
    BY <1>9 DEF RestartBuddy
  <2>2. \A i \in Sessions :
           /\ tcp[i] \in Session =>
                 /\ tcp'[i] \in Session /\ tcp'[i].open = tcp[i].open
                 /\ tcp'[i].client = tcp[i].client /\ tcp'[i].at = tcp[i].at
                 /\ tcp[i].at # b => tcp'[i].held = tcp[i].held
           /\ tcp[i] \notin Session => tcp'[i] = Free
    BY <1>0, <2>1 DEF BuddyTyped, Session
  <2>3. \A d \in Buddies, e \in Clients :
           IF d = b THEN served'[d][e] = Free /\ last'[d][e] = Free
           ELSE served'[d][e] = served[d][e] /\ last'[d][e] = last[d][e]
    BY <1>0, <2>1 DEF BuddyTyped
  <2>4. BuddyTyped'
    BY <1>0, <2>1, <2>2 DEF BuddyTyped
  <2>5. OwnConnection'
    BY <1>0, <2>1, <2>2 DEF BuddyTyped, OwnConnection
  <2>6. EntryIsHeld'
    <3> SUFFICES ASSUME NEW d \in Buddies, NEW e \in Clients
                 PROVE  /\ last'[d][e] # Free => tcp'[last'[d][e]] \in Session
                        /\ served'[d][e] # Free =>
                              /\ tcp'[served'[d][e]] \in Session /\ tcp'[served'[d][e]].held = "yes"
                              /\ tcp'[served'[d][e]].at = d /\ tcp'[served'[d][e]].client = e
      BY DEF EntryIsHeld
    <3>1. CASE d = b
      BY <2>3, <3>1
    <3>2. CASE d # b
      <4>1. /\ served'[d][e] = served[d][e] /\ last'[d][e] = last[d][e]
            /\ served[d][e] \in Sessions \cup {Free} /\ last[d][e] \in Sessions \cup {Free}
        BY <1>0, <2>3, <3>2 DEF BuddyTyped
      <4>2. /\ last[d][e] # Free => tcp[last[d][e]] \in Session
            /\ served[d][e] # Free => /\ tcp[served[d][e]] \in Session /\ tcp[served[d][e]].held = "yes"
                                      /\ tcp[served[d][e]].at = d /\ tcp[served[d][e]].client = e
        BY <1>0 DEF EntryIsHeld
      <4> QED
        BY <2>2, <3>2, <4>1, <4>2
    <3> QED
      BY <3>1, <3>2
  <2>7. NewestIsEntry'
    <3> SUFFICES ASSUME NEW d \in Buddies, NEW e \in Clients, last'[d][e] # Free,
                        tcp'[last'[d][e]].held = "yes", tcp'[last'[d][e]].client = e,
                        tcp'[last'[d][e]].at = d
                 PROVE  served'[d][e] = last'[d][e]
      BY DEF NewestIsEntry
    <3>1. d # b
      BY <2>3
    <3>2. /\ served'[d][e] = served[d][e] /\ last'[d][e] = last[d][e]
          /\ last[d][e] \in Sessions
      BY <1>0, <2>3, <3>1 DEF BuddyTyped
    <3>3. tcp[last[d][e]] \in Session
      BY <1>0, <3>2 DEF EntryIsHeld
    <3>4. tcp[last[d][e]].held = "yes" /\ tcp[last[d][e]].client = e /\ tcp[last[d][e]].at = d
      BY <2>2, <3>1, <3>2, <3>3
    <3> QED
      BY <1>0, <3>2, <3>4 DEF NewestIsEntry
  <2> QED
    BY <2>4, <2>5, <2>6, <2>7 DEF BuddyInv
<1>10. CASE UNCHANGED buddyVars
  BY <1>0, <1>10 DEF buddyVars, BuddyInv, BuddyTyped, OwnConnection, EntryIsHeld, NewestIsEntry
<1> QED
  BY <1>1, <1>2, <1>3, <1>4, <1>5, <1>6, <1>7, <1>8, <1>9, <1>10 DEF BuddyNext

(* A buddy relays to the newest session of a client for as long as that    *)
(* one lives and to none that has ended, for any clients and buddies and   *)
(* in whatever order connections end, are reused and register              *)
(* (BuddyRegistry.unregister_transport).                                   *)
THEOREM RelayReachesClient == BuddySpec => []RelayFollowsSession
<1>1. BuddyInv => RelayFollowsSession
  BY DEF BuddyInv, EntryIsHeld, NewestIsEntry, RelayFollowsSession
<1> QED
  BY <1>1, BuddyStart, BuddyStep, PTL DEF BuddySpec

-----------------------------------------------------------------------------
(* KadPool.                                                                *)

Record == [hellos : {0, 1}, pings : {0, 1}, fails : Nat]

(* A pool, in memory or in the cache file.                                 *)
IsPool(p) ==
    /\ DOMAIN p \subseteq Nodes /\ p = [k \in DOMAIN p |-> p[k]]
    /\ \A k \in DOMAIN p : p[k] \in Record

PoolTyped ==
    /\ IsPool(nodes) /\ IsPool(cache)
    /\ \A k \in DOMAIN hello_sent : hello_sent[k] \in Nat
    /\ \A k \in DOMAIN ping_sent : ping_sent[k] \in Nat
    /\ silent \in [Nodes -> Nat]

(* Every failure of a node in the pool is a request it did not answer.     *)
FailsAreSilence ==
    \A k \in DOMAIN nodes : nodes[k].fails <= silent[k] \/ silent[k] >= MaxFails

PoolInv == PoolTyped /\ FailsAreSilence

LEMMA SetDefaultIs ==
    ASSUME NEW p, IsPool(p), NEW S \in SUBSET Nodes
    PROVE  /\ IsPool(SetDefault(p, S, Blank)) /\ DOMAIN SetDefault(p, S, Blank) = DOMAIN p \cup S
           /\ \A k \in DOMAIN p : SetDefault(p, S, Blank)[k] = p[k]
           /\ \A k \in S \ DOMAIN p : SetDefault(p, S, Blank)[k].fails = 0
BY DEF IsPool, SetDefault, Blank, Record

LEMMA LateIs ==
    ASSUME NEW pending_, NEW k
    PROVE  Late(pending_, k) \in {0, 1}
BY DEF Late

(* A sweep adds one failure for each request that is late, and takes out   *)
(* those that have too many.                                               *)
LEMMA StruckIs ==
    ASSUME NEW p, IsPool(p), NEW sent_, \A k \in DOMAIN sent_ : sent_[k] \in Nat
    PROVE  /\ IsPool(Struck(p, sent_)) /\ DOMAIN Struck(p, sent_) \subseteq DOMAIN p
           /\ \A k \in DOMAIN Struck(p, sent_) :
                 Struck(p, sent_)[k].fails = p[k].fails + Late(sent_, k)
           /\ \A k \in DOMAIN p \ DOMAIN Struck(p, sent_) : p[k].fails + Late(sent_, k) >= MaxFails
<1> DEFINE late == {k \in DOMAIN p : k \in DOMAIN sent_ /\ sent_[k] > Window}
           hit == [k \in DOMAIN p |-> IF k \in late THEN [p[k] EXCEPT !.fails = @ + 1] ELSE p[k]]
           left == {k \in DOMAIN hit : k \notin late \/ hit[k].fails < MaxFails}
<1>1. Struck(p, sent_) = [k \in left |-> hit[k]]
  BY DEF Struck
<1>2. \A k \in DOMAIN p : /\ hit[k] \in Record /\ hit[k].fails = p[k].fails + Late(sent_, k)
                          /\ k \notin left => hit[k].fails >= MaxFails
  BY PoolAssumption DEF IsPool, Record, Late
<1>3. left \subseteq DOMAIN p /\ DOMAIN p \subseteq Nodes
  BY DEF IsPool
<1> HIDE DEF left, hit
<1> QED
  BY <1>1, <1>2, <1>3 DEF IsPool

LEMMA PoolStart == PoolInit => PoolInv
BY PoolAssumption DEF PoolInit, PoolInv, PoolTyped, FailsAreSilence, IsPool, Blank, Record

LEMMA PoolStep == PoolInv /\ [PoolNext]_poolVars => PoolInv' /\ (OnlySilentLeave \/ UNCHANGED poolVars)
<1> SUFFICES ASSUME PoolInv, [PoolNext]_poolVars
             PROVE  PoolInv' /\ (OnlySilentLeave \/ UNCHANGED poolVars)
  OBVIOUS
<1>0. PoolTyped /\ FailsAreSilence
  BY DEF PoolInv
<1> USE PoolAssumption
<1>1. CASE Boot
  <2>1. IsPool(Pool)
    BY <1>0, SetDefaultIs DEF PoolTyped, Pool
  <2>2. /\ nodes' = Pool /\ hello_sent' = << >> /\ ping_sent' = << >> /\ cache' = cache
        /\ silent' = [n \in Nodes |-> IF n \in DOMAIN Pool THEN Pool[n].fails ELSE 0]
        /\ phase = "down"
    BY <1>1 DEF Boot
  <2> HIDE DEF Pool
  <2>3. PoolInv'
    BY <1>0, <2>1, <2>2 DEF PoolInv, PoolTyped, FailsAreSilence, IsPool, Record
  <2> QED
    BY <2>2, <2>3 DEF OnlySilentLeave
<1>2. CASE BeginCycle
  BY <1>0, <1>2 DEF BeginCycle, PoolInv, PoolTyped, FailsAreSilence, OnlySilentLeave
<1>3. CASE Send
  <2>1. /\ UNCHANGED <<nodes, cache, silent>>
        /\ hello_sent' = SetDefault(hello_sent, {Head(batch)}, 0)
        /\ ping_sent' \in {ping_sent, SetDefault(ping_sent, {Head(batch)}, 0)}
    BY <1>3 DEF Send
  <2>2. PoolInv'
    BY <1>0, <2>1 DEF PoolInv, PoolTyped, FailsAreSilence, SetDefault
  <2> QED
    BY <2>1, <2>2 DEF OnlySilentLeave
<1>4. CASE EndCycle
  <2> DEFINE once == Struck(nodes, hello_sent)
             swept == Struck(once, ping_sent)
  <2>1. /\ IsPool(once) /\ DOMAIN once \subseteq DOMAIN nodes
        /\ \A k \in DOMAIN once : once[k].fails = nodes[k].fails + Late(hello_sent, k)
        /\ \A k \in DOMAIN nodes \ DOMAIN once : nodes[k].fails + Late(hello_sent, k) >= MaxFails
    BY <1>0, StruckIs DEF PoolTyped
  <2> HIDE DEF once
  <2>2. /\ IsPool(swept) /\ DOMAIN swept \subseteq DOMAIN once
        /\ \A k \in DOMAIN swept : swept[k].fails = once[k].fails + Late(ping_sent, k)
        /\ \A k \in DOMAIN once \ DOMAIN swept : once[k].fails + Late(ping_sent, k) >= MaxFails
    BY <1>0, <2>1, StruckIs DEF PoolTyped
  <2>3. nodes' \in {swept, SetDefault(swept, Seeds, Blank)}
    <3>1. nodes' = IF ~first /\ cycle = 0 THEN SetDefault(swept, Seeds, Blank) ELSE swept
      BY <1>4 DEF EndCycle, once
    <3> HIDE DEF swept
    <3> QED
      BY <3>1
  <2> HIDE DEF swept
  <2>4. /\ IsPool(nodes') /\ DOMAIN swept \subseteq DOMAIN nodes'
        /\ \A k \in DOMAIN swept : nodes'[k] = swept[k]
        /\ \A k \in DOMAIN nodes' \ DOMAIN swept : nodes'[k].fails = 0
    <3>1. Seeds \in SUBSET Nodes
      BY PoolAssumption
    <3> DEFINE filled == SetDefault(swept, Seeds, Blank)
    <3>2. /\ IsPool(filled) /\ DOMAIN filled = DOMAIN swept \cup Seeds
          /\ \A k \in DOMAIN swept : filled[k] = swept[k]
          /\ \A k \in Seeds \ DOMAIN swept : filled[k].fails = 0
      BY <2>2, <3>1, SetDefaultIs
    <3>3. nodes' \in {swept, filled}
      BY <2>3
    <3> HIDE DEF filled
    <3> QED
      BY <2>2, <3>2, <3>3
  <2>5. /\ \A k \in Nodes : silent'[k] = IF silent[k] >= MaxFails THEN silent[k]
                                  ELSE silent[k] + Late(hello_sent, k) + Late(ping_sent, k)
        /\ silent' \in [Nodes -> Nat]
    <3>1. \A k \in Nodes : Late(hello_sent, k) \in Nat /\ Late(ping_sent, k) \in Nat
      BY LateIs
    <3>2. silent' = [k \in Nodes |-> IF silent[k] >= MaxFails THEN silent[k]
                                  ELSE silent[k] + Late(hello_sent, k) + Late(ping_sent, k)]
      BY <1>4 DEF EndCycle
    <3> QED
      BY <1>0, <3>1, <3>2 DEF PoolTyped
  <2>6. \A k \in DOMAIN nodes :
           /\ k \in Nodes /\ nodes[k].fails \in Nat /\ silent[k] \in Nat
           /\ Late(hello_sent, k) \in Nat /\ Late(ping_sent, k) \in Nat
           /\ nodes[k].fails <= silent[k] \/ silent[k] >= MaxFails
    BY <1>0, LateIs DEF PoolTyped, IsPool, Record, FailsAreSilence
  <2>7. FailsAreSilence'
    <3> SUFFICES ASSUME NEW k \in DOMAIN nodes'
                 PROVE  nodes'[k].fails <= silent'[k] \/ silent'[k] >= MaxFails
      BY DEF FailsAreSilence
    <3>1. k \in Nodes /\ silent'[k] \in Nat
      BY <2>4, <2>5 DEF IsPool
    <3>2. CASE k \in DOMAIN swept
      <4>1. k \in DOMAIN nodes /\ nodes'[k].fails = nodes[k].fails + Late(hello_sent, k) + Late(ping_sent, k)
        BY <2>1, <2>2, <2>4, <3>2
      <4> QED
        BY <2>5, <2>6, <4>1
    <3>3. CASE k \notin DOMAIN swept
      BY <2>4, <3>1, <3>3
    <3> QED
      BY <3>2, <3>3
  <2>8. ASSUME NEW k \in DOMAIN nodes, k \notin DOMAIN nodes'
        PROVE  silent'[k] >= MaxFails
    <3>1. \/ nodes[k].fails + Late(hello_sent, k) >= MaxFails
          \/ nodes[k].fails + Late(hello_sent, k) + Late(ping_sent, k) >= MaxFails
      BY <2>1, <2>2, <2>4, <2>8
    <3> QED
      BY <2>5, <2>6, <3>1
  <2>9. PoolTyped'
    <3>1. cache' \in {nodes', cache}
      BY <1>4 DEF EndCycle
    <3>2. hello_sent' = Open(hello_sent) /\ ping_sent' = Open(ping_sent)
      BY <1>4 DEF EndCycle
    <3>3. /\ \A k \in DOMAIN hello_sent' : hello_sent'[k] \in Nat
          /\ \A k \in DOMAIN ping_sent' : ping_sent'[k] \in Nat
      BY <1>0, <3>2 DEF PoolTyped, Open
    <3> QED
      BY <1>0, <2>4, <2>5, <3>1, <3>3 DEF PoolTyped
  <2> QED
    BY <2>7, <2>8, <2>9 DEF PoolInv, OnlySilentLeave
<1>5. CASE Stop
  <2>1. UNCHANGED <<nodes, hello_sent, ping_sent, silent>> /\ cache' = Snapshot /\ phase' = "down"
    BY <1>5 DEF Stop
  <2>2. IsPool(Snapshot)
    BY <1>0 DEF PoolTyped, IsPool, Snapshot
  <2> QED
    BY <1>0, <2>1, <2>2 DEF PoolInv, PoolTyped, FailsAreSilence, OnlySilentLeave
<1>6. CASE Kill
  BY <1>0, <1>6 DEF Kill, PoolInv, PoolTyped, FailsAreSilence, OnlySilentLeave
<1>7. ASSUME NEW k \in Nodes, OnHelloRes(k)
      PROVE  PoolInv' /\ OnlySilentLeave
  <2>1. /\ nodes' = HelloRes(k) /\ hello_sent' = Without(hello_sent, k)
        /\ silent' = [silent EXCEPT ![k] = 0] /\ UNCHANGED <<ping_sent, cache>>
    BY <1>7 DEF OnHelloRes
  <2>2. /\ IsPool(HelloRes(k)) /\ DOMAIN HelloRes(k) = DOMAIN nodes \cup {k}
        /\ HelloRes(k)[k].fails = 0 /\ \A x \in DOMAIN nodes : x # k => HelloRes(k)[x] = nodes[x]
    BY <1>0 DEF PoolTyped, IsPool, HelloRes, Record
  <2>3. PoolTyped'
    BY <1>0, <2>1, <2>2 DEF PoolTyped, Without
  <2>4. FailsAreSilence'
    BY <1>0, <2>1, <2>2 DEF PoolTyped, IsPool, FailsAreSilence
  <2> QED
    BY <2>1, <2>2, <2>3, <2>4 DEF PoolInv, OnlySilentLeave
<1>8. ASSUME NEW k \in Nodes, OnPong(k)
      PROVE  PoolInv' /\ OnlySilentLeave
  <2>1. /\ k \in DOMAIN nodes /\ nodes' = [nodes EXCEPT ![k].pings = 1, ![k].fails = 0]
        /\ ping_sent' = Without(ping_sent, k)
        /\ silent' = [silent EXCEPT ![k] = 0] /\ UNCHANGED <<hello_sent, cache>>
    BY <1>8 DEF OnPong
  <2>2. /\ IsPool(nodes') /\ DOMAIN nodes' = DOMAIN nodes
        /\ nodes'[k].fails = 0 /\ \A x \in DOMAIN nodes : x # k => nodes'[x] = nodes[x]
    <3> DEFINE r == [nodes[k] EXCEPT !.pings = 1, !.fails = 0]
    <3>1. nodes' = [nodes EXCEPT ![k] = r]
      BY <1>0, <2>1 DEF PoolTyped, IsPool
    <3>2. r \in Record /\ r.fails = 0
      <4>1. nodes[k] \in Record
        BY <1>0, <2>1 DEF PoolTyped, IsPool
      <4> QED
        BY <4>1 DEF Record
    <3> HIDE DEF r
    <3>3. /\ DOMAIN nodes' = DOMAIN nodes /\ nodes'[k] = r
          /\ \A x \in DOMAIN nodes : x # k => nodes'[x] = nodes[x]
      BY <2>1, <3>1
    <3>4. DOMAIN nodes \subseteq Nodes /\ \A x \in DOMAIN nodes : nodes[x] \in Record
      BY <1>0 DEF PoolTyped, IsPool
    <3>5. nodes' = [x \in DOMAIN nodes' |-> nodes'[x]]
      BY <3>1
    <3> QED
      BY <3>2, <3>3, <3>4, <3>5 DEF IsPool
  <2>3. PoolTyped'
    BY <1>0, <2>1, <2>2 DEF PoolTyped, Without
  <2>4. FailsAreSilence'
    BY <1>0, <2>1, <2>2 DEF PoolTyped, IsPool, FailsAreSilence
  <2> QED
    BY <2>2, <2>3, <2>4 DEF PoolInv, OnlySilentLeave
<1>9. ASSUME NEW k \in Nodes, OnBootstrapRes(k)
      PROVE  PoolInv' /\ OnlySilentLeave
  <2>1. PICK contacts \in SUBSET Nodes : nodes' = SetDefault(nodes, contacts, Blank)
    BY <1>9 DEF OnBootstrapRes
  <2>2. UNCHANGED <<hello_sent, ping_sent, cache, silent>>
    BY <1>9 DEF OnBootstrapRes
  <2>3. /\ IsPool(nodes') /\ DOMAIN nodes' = DOMAIN nodes \cup contacts
        /\ \A x \in DOMAIN nodes : nodes'[x] = nodes[x]
        /\ \A x \in contacts \ DOMAIN nodes : nodes'[x].fails = 0
    <3> DEFINE pool == SetDefault(nodes, contacts, Blank)
    <3>1. IsPool(nodes) /\ nodes' = pool
      BY <1>0, <2>1 DEF PoolTyped
    <3>2. /\ IsPool(pool) /\ DOMAIN pool = DOMAIN nodes \cup contacts
          /\ \A x \in DOMAIN nodes : pool[x] = nodes[x]
          /\ \A x \in contacts \ DOMAIN nodes : pool[x].fails = 0
      BY <3>1, SetDefaultIs
    <3> HIDE DEF pool
    <3> QED
      BY <3>1, <3>2
  <2>4. PoolTyped'
    BY <1>0, <2>2, <2>3 DEF PoolTyped
  <2>5. FailsAreSilence'
    BY <1>0, <2>2, <2>3 DEF PoolTyped, IsPool, FailsAreSilence
  <2> QED
    BY <2>3, <2>4, <2>5 DEF PoolInv, OnlySilentLeave
<1>10. CASE UNCHANGED poolVars
  BY <1>0, <1>10 DEF poolVars, PoolInv, PoolTyped, FailsAreSilence
<1> QED
  BY <1>1, <1>2, <1>3, <1>4, <1>5, <1>6, <1>7, <1>8, <1>9, <1>10 DEF PoolNext

(* A running node leaves the pool only when MAX_NODE_FAILS requests to it  *)
(* expired with no answer in between, for any nodes, window and batches    *)
(* and through snapshots, stops, kills and returns (SpiderEngine's sweep). *)
THEOREM SilentNodesLeave == PoolSpec => EvictedSilent
BY PoolStart, PoolStep, PTL DEF PoolSpec, EvictedSilent

-----------------------------------------------------------------------------
(* Server.                                                                 *)

(* Quotient and remainder, and two numbers that are close and congruent.   *)
LEMMA DivMod ==
    ASSUME NEW a \in Nat, NEW n \in Nat, n > 0
    PROVE  /\ a \div n \in Nat /\ a % n \in 0..(n - 1)
           /\ a = (n * (a \div n)) + (a % n)
OBVIOUS
LEMMA NearMultiples ==
    ASSUME NEW n \in Nat, NEW p \in Int, NEW q \in Int, n > 0, n * p - n * q < n, n * q - n * p < n
    PROVE  p = q
<1>1. CASE p > q
  <2>1. PICK d \in Nat : d >= 1 /\ p = q + d
    BY <1>1
  <2>2. n * p = n * q + n * d
    BY <2>1
  <2>3. n * d >= n
    BY <2>1
  <2> QED
    BY <2>2, <2>3
<1>2. CASE p < q
  <2>1. PICK d \in Nat : d >= 1 /\ q = p + d
    BY <1>2
  <2>2. n * q = n * p + n * d
    BY <2>1
  <2>3. n * d >= n
    BY <2>1
  <2> QED
    BY <2>2, <2>3
<1> QED
  BY <1>1, <1>2
LEMMA NearCongruent ==
    ASSUME NEW a \in Nat, NEW b \in Nat, NEW n \in Nat, n > 0, a % n = b % n, a - b < n, b - a < n
    PROVE  a = b
<1>1. a = (n * (a \div n)) + (a % n) /\ b = (n * (b \div n)) + (b % n) /\ a \div n \in Int /\ b \div n \in Int /\ a % n \in Int
  BY DivMod
<1> DEFINE p == a \div n
           q == b \div n
           r == a % n
<1>2. p \in Int /\ q \in Int /\ r \in Int /\ a = n * p + r /\ b = n * q + r
  BY <1>1
<1> HIDE DEF p, q, r
<1>3. n * p \in Int /\ n * q \in Int
  BY <1>2
<1>4. n * p - n * q < n /\ n * q - n * p < n
  BY <1>2, <1>3
<1>5. p = q
  BY <1>2, <1>4, NearMultiples
<1> QED
  BY <1>2, <1>5

(* A set of n numbers has a first one, a second one and so on.             *)
LEMMA NthExists ==
    ASSUME NEW m \in Nat, NEW S \in SUBSET (1..m)
    PROVE  /\ IsFiniteSet(S) /\ Cardinality(S) \in 0..m
           /\ \A n \in 1..Cardinality(S) : \E i \in S : Cardinality({j \in S : j <= i}) = n
<1> DEFINE c == Cardinality(S)
           r == [i \in S |-> Cardinality({j \in S : j <= i})]
           img == {r[i] : i \in S}
<1>1. IsFiniteSet(S) /\ c \in Nat /\ c <= m
  <2>1. IsFiniteSet(1..m) /\ Cardinality(1..m) = m
    BY FS_Interval
  <2> QED
    BY <2>1, FS_Subset, FS_CardinalityType
<1>2. ASSUME NEW i \in S
      PROVE  r[i] \in 1..c
  <2>1. {j \in S : j <= i} \subseteq S /\ i \in {j \in S : j <= i}
    OBVIOUS
  <2>2. IsFiniteSet({j \in S : j <= i}) /\ r[i] <= c /\ r[i] \in Nat
    BY <1>1, <2>1, FS_Subset, FS_CardinalityType
  <2>3. r[i] # 0
    BY <2>1, <2>2, FS_EmptySet
  <2> QED
    BY <1>1, <2>2, <2>3
<1>3. ASSUME NEW i \in S, NEW k \in S, i < k
      PROVE  r[i] # r[k]
  <2> DEFINE A == {j \in S : j <= i}
             B == {j \in S : j <= k}
  <2>1. A \in SUBSET B
    <3>1. ASSUME NEW j \in A
          PROVE  j \in B
      <4>1. j \in S /\ j <= i /\ i \in 1..m /\ j \in 1..m /\ k \in 1..m
        OBVIOUS
      <4>2. j <= k
        BY <1>3, <4>1
      <4> QED
        BY <4>1, <4>2
    <3> QED
      BY <3>1
  <2>2. k \in B /\ k \notin A
    BY <1>3
  <2>3. B \in SUBSET S
    OBVIOUS
  <2>4. r[i] = Cardinality(A) /\ r[k] = Cardinality(B)
    OBVIOUS
  <2> HIDE DEF A, B, r
  <2>5. IsFiniteSet(B)
    BY <1>1, <2>3, FS_Subset
  <2>6. Cardinality(A) # Cardinality(B)
    BY <2>1, <2>2, <2>5, FS_Subset
  <2> QED
    BY <2>4, <2>6
<1>4. r \in Bijection(S, img)
  <2>1. \A i, k \in S : r[i] = r[k] => i = k
    BY <1>3
  <2> QED
    BY <2>1 DEF Bijection, Injection, Surjection, IsInjective
<1>5. Cardinality(img) = c
  <2>1. ExistsBijection(S, img)
    BY <1>4 DEF ExistsBijection
  <2> HIDE DEF img
  <2> QED
    BY <1>1, <2>1, FS_Bijection
<1>6. img = 1..c
  <2>1. IsFiniteSet(1..c) /\ Cardinality(1..c) = c
    BY <1>1, FS_Interval
  <2>2. img \subseteq 1..c
    BY <1>2
  <2> QED
    BY <2>1, <2>2, <1>5, FS_Subset
<1> QED
  BY <1>1, <1>6

(* The candidates of a pass are servers that are not blacklisted, each     *)
(* once.                                                                   *)
LEMMA CandidatesAre ==
    /\ Candidates \in Seq(Servers) /\ Len(Candidates) <= Len(Order)
    /\ \A n \in 1..Len(Candidates) : ~Blacklisted(Candidates[n])
    /\ \A n, k \in 1..Len(Candidates) : Candidates[n] = Candidates[k] => n = k
<1> DEFINE left == {i \in DOMAIN Order : ~Blacklisted(Order[i])}
           rank(i) == Cardinality({j \in left : j <= i})
           Nth(n) == CHOOSE i \in left : rank(i) = n
           num == Cardinality(left)
<1>1. Len(Order) \in Nat /\ DOMAIN Order = 1..Len(Order) /\ left \in SUBSET (1..Len(Order))
  BY ServerAssumption
<1>2. num \in 0..Len(Order) /\ \A n \in 1..num : \E i \in left : rank(i) = n
  BY <1>1, NthExists
<1>3. Candidates = [n \in 1..num |-> Order[Nth(n)]]
  BY DEF Candidates
<1>4. \A i \in left : i \in DOMAIN Order /\ Order[i] \in Servers /\ ~Blacklisted(Order[i])
  BY ServerAssumption
<1> HIDE DEF left, rank, num
<1>5. \A n \in 1..num : Nth(n) \in left /\ rank(Nth(n)) = n
  BY <1>2
<1> HIDE DEF Nth
<1>6. \A n \in 1..num : /\ Nth(n) \in DOMAIN Order /\ Order[Nth(n)] \in Servers
                         /\ ~Blacklisted(Order[Nth(n)])
  BY <1>4, <1>5
<1>7. num \in Nat /\ num <= Len(Order)
  BY <1>1, <1>2
<1>8. ASSUME NEW n \in 1..num, NEW k \in 1..num, Order[Nth(n)] = Order[Nth(k)]
      PROVE  n = k
  <2>1. Nth(n) = Nth(k)
    BY <1>6, <1>8, ServerAssumption
  <2> QED
    BY <1>5, <2>1
<1>9. Candidates \in Seq(Servers)
  BY <1>3, <1>6, <1>7
<1>10. Len(Candidates) = num /\ \A n \in 1..num : Candidates[n] = Order[Nth(n)]
  BY <1>3, <1>7
<1> QED
  BY <1>6, <1>7, <1>8, <1>9, <1>10

(* Rotated, a pass has the same candidates.                                *)
LEMMA RotatedIs ==
    ASSUME pos \in 0..(Len(Order) - 1), Candidates # <<>>
    PROVE  /\ Rotated \in Seq(Servers \X (0..(Len(Order) - 1))) /\ Rotated # <<>>
           /\ \A i \in 1..Len(Rotated) : ~Blacklisted(Rotated[i][1])
           /\ \A i, j \in 1..Len(Rotated) : Rotated[i][1] = Rotated[j][1] => i = j
<1> DEFINE num == Len(Candidates)
           place(i) == (pos + i - 1) % num
<1>1. /\ Candidates \in Seq(Servers) /\ num \in Nat /\ num > 0 /\ num <= Len(Order)
      /\ Len(Order) \in Nat /\ pos \in Nat
      /\ \A n \in 1..num : Candidates[n] \in Servers /\ ~Blacklisted(Candidates[n])
      /\ \A n, k \in 1..num : Candidates[n] = Candidates[k] => n = k
  BY CandidatesAre, ServerAssumption
<1>2. Rotated = [i \in 1..num |-> <<Candidates[place(i) + 1], place(i)>>]
  BY DEF Rotated
<1> HIDE DEF num
<1>3. ASSUME NEW i \in 1..num
      PROVE  pos + i - 1 \in Nat /\ place(i) \in 0..(num - 1)
  <2>1. pos + i - 1 \in Nat
    BY <1>1
  <2> QED
    BY <1>1, <2>1, DivMod
<1>4. ASSUME NEW i \in 1..num, NEW j \in 1..num, place(i) = place(j)
      PROVE  i = j
  <2>1. /\ pos + i - 1 \in Nat /\ pos + j - 1 \in Nat
        /\ (pos + i - 1) - (pos + j - 1) < num /\ (pos + j - 1) - (pos + i - 1) < num
    BY <1>1
  <2>2. pos + i - 1 = pos + j - 1
    BY <1>1, <1>4, <2>1, NearCongruent
  <2> QED
    BY <1>1, <2>2
<1> HIDE DEF place
<1>5. \A i \in 1..num : place(i) \in Nat /\ place(i) + 1 \in 1..num /\ place(i) \in 0..(Len(Order) - 1)
  BY <1>1, <1>3
<1>6. /\ Rotated \in Seq(Servers \X (0..(Len(Order) - 1))) /\ Len(Rotated) = num
      /\ \A i \in 1..num : Rotated[i][1] = Candidates[place(i) + 1]
  <2>1. \A i \in 1..num : <<Candidates[place(i) + 1], place(i)>> \in Servers \X (0..(Len(Order) - 1))
    BY <1>1, <1>5
  <2> QED
    BY <1>1, <1>2, <2>1
<1>7. \A i, j \in 1..num : Candidates[place(i) + 1] = Candidates[place(j) + 1] => i = j
  <2> SUFFICES ASSUME NEW i \in 1..num, NEW j \in 1..num,
                      Candidates[place(i) + 1] = Candidates[place(j) + 1]
               PROVE  i = j
    OBVIOUS
  <2>1. place(i) + 1 = place(j) + 1
    BY <1>1, <1>5
  <2> QED
    BY <1>4, <1>5, <2>1
<1>8. Rotated # <<>>
  BY <1>1, <1>6
<1> QED
  BY <1>1, <1>5, <1>6, <1>7, <1>8

(* ServerTypeOK, and what the next steps rely on.                          *)
Link == [to : Servers, open : BOOLEAN, logged : BOOLEAN, framed : BOOLEAN]

ServerTyped ==
    /\ ServerTypeOK
    /\ \A s \in Servers : rows[s].until = "none" => rows[s].n < Threshold
    /\ todo \in Seq(Servers \X (0..(Len(Order) - 1)))
    /\ link \in Link

(* The candidates that are left of a pass are not blacklisted, since only  *)
(* the one that is tried can fail.                                         *)
PassIsClean ==
    /\ pc \in {"dial", "login"} =>
          /\ todo # <<>>
          /\ \A i \in 1..Len(todo) : ~Blacklisted(todo[i][1])
          /\ \A i, j \in 1..Len(todo) : todo[i][1] = todo[j][1] => i = j
    /\ pc = "login" => link.to = todo[1][1]

CommandIsAllowed == pc = "connect" => ~Blacklisted(link.to)

ServerInv == ServerTyped /\ PassIsClean /\ CommandIsAllowed

LEMMA ServerStart == ServerInit => ServerInv
<1>1. Order[1] \in Servers /\ Len(Order) \in Nat /\ Len(Order) > 0
  BY ServerAssumption
<1> QED
  BY <1>1, ServerAssumption DEF ServerInit, ServerInv, ServerTyped, ServerTypeOK, Link, NoLink, NoRow,
     PassIsClean, CommandIsAllowed

(* What the blacklist, a session and a login can come to.                  *)
LEMMA RowsAre ==
    ASSUME ServerTyped, NEW s \in Servers, RecordFailure(s) \/ RecordSuccess(s) \/ NoRecord
    PROVE  /\ rows' \in [Servers -> [n : 0..Threshold, until : {"none", "future", "past"}]]
           /\ \A t \in Servers : rows'[t].until = "none" => rows'[t].n < Threshold
           /\ \A t \in Servers : t # s => rows'[t] = rows[t]
           /\ RecordSuccess(s) \/ NoRecord => \A t \in Servers : Blacklisted(t)' => Blacklisted(t)
<1>1. /\ rows \in [Servers -> [n : 0..Threshold, until : {"none", "future", "past"}]]
      /\ \A t \in Servers : rows[t].until = "none" => rows[t].n < Threshold
      /\ Threshold \in Nat \ {0}
  BY ServerAssumption DEF ServerTyped, ServerTypeOK
<1>2. CASE RecordFailure(s)
  <2>1. rows' = [rows EXCEPT ![s] = Failed(rows[s])]
    BY <1>2 DEF RecordFailure
  <2>2. /\ Failed(rows[s]) \in [n : 0..Threshold, until : {"none", "future", "past"}]
        /\ Failed(rows[s]).until = "none" => Failed(rows[s]).n < Threshold
    BY <1>1 DEF Failed
  <2>3. ~(RecordSuccess(s) \/ NoRecord) \/ \A t \in Servers : Blacklisted(t)' => Blacklisted(t)
    BY <1>1, <2>1 DEF RecordSuccess, NoRecord, NoRow, Blacklisted
  <2> QED
    BY <1>1, <2>1, <2>2, <2>3
<1>3. CASE RecordSuccess(s)
  <2>1. NoRow \in [n : 0..Threshold, until : {"none", "future", "past"}] /\ NoRow.n < Threshold
        /\ NoRow.until = "none"
    BY <1>1 DEF NoRow
  <2>2. rows' = [rows EXCEPT ![s] = NoRow]
    BY <1>3 DEF RecordSuccess
  <2> QED
    BY <1>1, <2>1, <2>2 DEF Blacklisted
<1>4. CASE NoRecord
  BY <1>1, <1>4 DEF NoRecord, Blacklisted
<1> QED
  BY <1>2, <1>3, <1>4

LEMMA SessionsAre ==
    ASSUME NEW l \in Link
    PROVE  /\ Closed(l) \in Link /\ Closed(l).to = l.to /\ ~Closed(l).open
           /\ \A kinds, r : \A keep \in BOOLEAN : r \in Receive(l, keep, kinds) =>
                 r.then \in Link /\ r.then.to = l.to /\ (r.then.open => l.open)
           /\ \A r \in Logins(l) : r.then \in Link /\ r.then.to = l.to /\ (r.then.open => l.open)
<1>1. Closed(l) \in Link /\ Closed(l).to = l.to /\ ~Closed(l).open
  BY DEF Closed, Link
<1>2. /\ [l EXCEPT !.framed = FALSE] \in Link /\ [l EXCEPT !.framed = FALSE].to = l.to
      /\ [l EXCEPT !.framed = FALSE].open = l.open
  BY DEF Link
<1>3. \A kinds, r : \A keep \in BOOLEAN : r \in Receive(l, keep, kinds) =>
         r.then \in {l, Closed(l), [l EXCEPT !.framed = FALSE]}
  BY DEF Receive
<1>4. \A kinds, r : \A keep \in BOOLEAN : r \in Receive(l, keep, kinds) =>
                 r.then \in Link /\ r.then.to = l.to /\ (r.then.open => l.open)
  BY <1>1, <1>2, <1>3
<1>5. ASSUME NEW r \in Logins(l)
      PROVE  r.then \in Link /\ r.then.to = l.to /\ (r.then.open => l.open)
  <2>1. CASE l.to \in Good
    BY <1>5, <2>1 DEF Logins
  <2>2. CASE l.to \notin Good
    <3>1. r \in Receive(l, FALSE, {"aux", "idchange", "reject", "other"})
      BY <1>5, <2>2 DEF Logins
    <3> QED
      BY <1>4, <3>1
  <2> QED
    BY <2>1, <2>2
<1> QED
  BY <1>1, <1>4, <1>5

LEMMA ConnectsAre ==
    ASSUME NEW s \in Servers
    PROVE  NoLink \in Link /\ ~NoLink.open /\ \A l \in Connects(s) : l \in Link /\ l.to = s
<1>1. Order[1] \in Servers
  BY ServerAssumption
<1> QED
  BY <1>1 DEF Connects, NoLink, Link

(* A pass that is left alone while no server is added to the blacklist.    *)
LEMMA PassStays ==
    ASSUME ServerInv, todo' = todo, \A t \in Servers : Blacklisted(t)' => Blacklisted(t),
           pc' \in {"dial", "login"} => pc \in {"dial", "login"},
           pc' = "login" => (pc = "login" /\ link'.to = link.to) \/ link'.to = todo[1][1]
    PROVE  PassIsClean' /\ todo' \in Seq(Servers \X (0..(Len(Order) - 1)))
<1>1. todo \in Seq(Servers \X (0..(Len(Order) - 1))) /\ PassIsClean
  BY DEF ServerInv, ServerTyped
<1>2. \A i \in 1..Len(todo) : todo[i][1] \in Servers
  BY <1>1
<1> QED
  BY <1>1, <1>2 DEF PassIsClean

(* The first candidate of a pass fails: the others are other servers.      *)
LEMMA PassGoesOn ==
    ASSUME ServerInv, pc \in {"dial", "login"}, GiveUp,
           \A t \in Servers : t # todo[1][1] => rows'[t] = rows[t]
    PROVE  /\ PassIsClean' /\ todo' \in Seq(Servers \X (0..(Len(Order) - 1)))
           /\ pc' \in {"wait", "dial"}
<1>1. /\ todo \in Seq(Servers \X (0..(Len(Order) - 1))) /\ todo # <<>>
      /\ \A i \in 1..Len(todo) : ~Blacklisted(todo[i][1])
      /\ \A i, j \in 1..Len(todo) : todo[i][1] = todo[j][1] => i = j
  BY DEF ServerInv, ServerTyped, PassIsClean
<1>2. /\ Len(todo) \in Nat /\ Len(todo) > 0
      /\ \A i \in 1..Len(todo) : todo[i] \in Servers \X (0..(Len(Order) - 1)) /\ todo[i][1] \in Servers
  BY <1>1
<1>3. pc' \in {"wait", "dial"} /\ todo' = Tail(todo) /\ (pc' = "dial" => Len(todo) # 1)
  BY DEF GiveUp
<1> DEFINE len == Len(todo)
           rest == Len(todo')
<1>4. /\ todo' \in Seq(Servers \X (0..(Len(Order) - 1))) /\ rest = len - 1
      /\ \A i \in 1..rest : todo'[i] = todo[i + 1]
  BY <1>1, <1>2, <1>3
<1>5. /\ len \in Nat /\ len > 0 /\ rest \in Nat
      /\ \A i \in 1..rest : i + 1 \in 1..len /\ i + 1 # 1 /\ 1 \in 1..len
  BY <1>2, <1>4
<1>6. /\ \A i \in 1..len : todo[i][1] \in Servers /\ ~Blacklisted(todo[i][1])
      /\ \A i, j \in 1..len : todo[i][1] = todo[j][1] => i = j
  BY <1>1, <1>2
<1>7. pc' = "dial" => rest # 0
  BY <1>2, <1>3, <1>4
<1>8. rest # 0 => todo' # <<>>
  BY <1>4
<1> HIDE DEF len, rest
<1>9. \A i \in 1..rest : ~(rows'[todo'[i][1]].until = "future")
  <2> SUFFICES ASSUME NEW i \in 1..rest
               PROVE  ~(rows'[todo'[i][1]].until = "future")
    OBVIOUS
  <2>1. i + 1 \in 1..len /\ i + 1 # 1 /\ 1 \in 1..len /\ todo'[i] = todo[i + 1]
    BY <1>4, <1>5
  <2>2. todo[i + 1][1] # todo[1][1]
    BY <1>6, <2>1
  <2>3. ~Blacklisted(todo[i + 1][1]) /\ todo[i + 1][1] \in Servers
    BY <1>6, <2>1
  <2> QED
    BY <2>1, <2>2, <2>3 DEF Blacklisted
<1>10. \A i, j \in 1..rest : todo'[i][1] = todo'[j][1] => i = j
  <2> SUFFICES ASSUME NEW i \in 1..rest, NEW j \in 1..rest, todo'[i][1] = todo'[j][1]
               PROVE  i = j
    OBVIOUS
  <2>1. todo[i + 1][1] = todo[j + 1][1] /\ i + 1 \in 1..len /\ j + 1 \in 1..len
    BY <1>4, <1>5
  <2>2. i + 1 = j + 1
    BY <1>6, <2>1
  <2> QED
    BY <2>2, <1>5
<1>11. PassIsClean'
  BY <1>3, <1>7, <1>8, <1>9, <1>10 DEF PassIsClean, Blacklisted, rest
<1> QED
  BY <1>3, <1>4, <1>11

(* Nothing is left of a pass.                                              *)
LEMMA NoPass ==
    ASSUME ServerInv, todo' = todo \/ todo' = <<>>, pc' \notin {"dial", "login"}
    PROVE  PassIsClean' /\ todo' \in Seq(Servers \X (0..(Len(Order) - 1)))
<1>1. todo \in Seq(Servers \X (0..(Len(Order) - 1)))
  BY DEF ServerInv, ServerTyped
<1>2. CASE todo' = todo
  BY <1>1, <1>2 DEF PassIsClean
<1>3. CASE todo' = <<>>
  BY <1>3 DEF PassIsClean
<1> QED
  BY <1>2, <1>3

(* The formula of NoDialInCooldown.                                        *)
OpensAllowed == \A s \in Servers : (~link.open /\ link'.open /\ link'.to = s) => ~Blacklisted(s)

(* ServerInv from its parts.                                               *)
RowsTyped ==
    /\ rows \in [Servers -> [n : 0..Threshold, until : {"none", "future", "past"}]]
    /\ \A s \in Servers : rows[s].until = "none" => rows[s].n < Threshold

TodoTyped == todo \in Seq(Servers \X (0..(Len(Order) - 1)))

Parts ==
    /\ RowsTyped /\ TodoTyped /\ link \in Link
    /\ owner \in {"nobody", "kernel", "search", "sources"}
    /\ pos \in 0..(Len(Order) - 1)
    /\ PassIsClean /\ CommandIsAllowed

LEMMA ServerParts == (ServerInv <=> Parts) /\ (ServerInv' <=> Parts')
BY DEF ServerInv, ServerTyped, ServerTypeOK, Parts, RowsTyped, TodoTyped

Fewer == \A t \in Servers : Blacklisted(t)' => Blacklisted(t)

(* Steps that leave the pass and the sessions to others.                   *)
LEMMA ListSteps ==
    ASSUME ServerInv, NEW s \in Servers, Expire(s) \/ Forgive(s)
    PROVE  ServerInv' /\ OpensAllowed
<1>1. RowsTyped /\ TodoTyped /\ link \in Link /\ CommandIsAllowed
  BY ServerParts DEF Parts
<1>2. RowsTyped' /\ Fewer
  <2>1. CASE Expire(s)
    <3>1. rows' = [rows EXCEPT ![s].until = "past"]
      BY <2>1 DEF Expire
    <3> QED
      BY <1>1, <3>1 DEF RowsTyped, Fewer, Blacklisted
  <2>2. CASE Forgive(s)
    <3>1. RecordSuccess(s)
      BY <2>2 DEF Forgive
    <3>2. ServerTyped
      BY DEF ServerInv
    <3> QED
      BY <3>1, <3>2, RowsAre DEF RowsTyped, Fewer
  <2> QED
    BY <2>1, <2>2
<1>3. UNCHANGED <<owner, pc, pos, todo, link>>
  BY DEF Expire, Forgive
<1>4. PassIsClean' /\ TodoTyped'
  BY <1>2, <1>3, PassStays DEF Fewer, TodoTyped
<1>5. link.to \in Servers
  BY <1>1 DEF Link
<1>6. CommandIsAllowed'
  BY <1>1, <1>2, <1>3, <1>5 DEF CommandIsAllowed, Fewer, Blacklisted
<1> QED
  BY <1>2, <1>3, <1>4, <1>6, ServerParts DEF Parts, OpensAllowed

(* The other steps of a kernel or a command that open no session: the      *)
(* record is of the server of the session, and no pass is under way.       *)
LEMMA QuietSteps ==
    ASSUME ServerInv,
           RecordFailure(link.to) \/ RecordSuccess(link.to) \/ NoRecord,
           link' = NoLink \/ (link' \in Link /\ (link'.open => link.open)),
           owner' \in {"nobody", "kernel", "search", "sources"},
           pos' = pos \/ pos' = 0,
           todo' = todo \/ todo' = <<>>, pc' \notin {"dial", "login", "connect"}
    PROVE  ServerInv' /\ OpensAllowed
<1>1. link \in Link /\ pos \in 0..(Len(Order) - 1) /\ ServerTyped
  BY ServerParts DEF Parts, ServerInv
<1>2. link.to \in Servers
  BY <1>1 DEF Link
<1>3. RowsTyped'
  BY <1>1, <1>2, RowsAre DEF RowsTyped
<1>4. link' \in Link /\ (link'.open => link.open)
  BY <1>2, ConnectsAre
<1>5. PassIsClean' /\ TodoTyped'
  BY NoPass DEF TodoTyped
<1>6. pos' \in 0..(Len(Order) - 1)
  <2>1. Len(Order) \in Nat /\ Len(Order) > 0
    BY ServerAssumption
  <2> QED
    BY <1>1, <2>1
<1>7. CommandIsAllowed'
  BY DEF CommandIsAllowed
<1> QED
  BY <1>3, <1>4, <1>5, <1>6, <1>7, ServerParts DEF Parts, OpensAllowed

LEMMA BuildStep ==
    ASSUME ServerInv, Build
    PROVE  ServerInv' /\ OpensAllowed
<1>1. CASE Candidates = <<>>
  BY <1>1, QuietSteps, ServerParts DEF Parts, Build, NoRecord
<1>2. CASE Candidates # <<>>
  <2>1. /\ pc' = "dial" /\ todo' = Rotated
        /\ UNCHANGED <<rows, owner, runs, pos, link>>
    BY <1>2 DEF Build
  <2>2. pos \in 0..(Len(Order) - 1) /\ RowsTyped /\ link \in Link
        /\ owner \in {"nobody", "kernel", "search", "sources"}
    BY ServerParts DEF Parts
  <2>3. /\ Rotated \in Seq(Servers \X (0..(Len(Order) - 1))) /\ Rotated # <<>>
        /\ \A i \in 1..Len(Rotated) : ~Blacklisted(Rotated[i][1])
        /\ \A i, j \in 1..Len(Rotated) : Rotated[i][1] = Rotated[j][1] => i = j
    BY <1>2, <2>2, RotatedIs
  <2>4. PassIsClean' /\ TodoTyped'
    BY <2>1, <2>3 DEF PassIsClean, TodoTyped, Blacklisted
  <2>5. RowsTyped' /\ CommandIsAllowed'
    BY <2>1, <2>2 DEF RowsTyped, CommandIsAllowed
  <2> QED
    BY <2>1, <2>2, <2>4, <2>5, ServerParts DEF Parts, OpensAllowed
<1> QED
  BY <1>1, <1>2

LEMMA DialStep ==
    ASSUME ServerInv, Dial
    PROVE  ServerInv' /\ OpensAllowed
<1> DEFINE s == todo[1][1]
<1>1. Parts /\ ServerTyped /\ pc = "dial" /\ todo # <<>> /\ Head(todo) = todo[1]
  BY ServerParts DEF ServerInv, Dial, PassIsClean, Parts, TodoTyped
<1>2. /\ todo[1] \in Servers \X (0..(Len(Order) - 1)) /\ s \in Servers /\ ~Blacklisted(s)
  <2>1. Len(todo) \in Nat /\ Len(todo) > 0 /\ todo \in Seq(Servers \X (0..(Len(Order) - 1)))
    BY <1>1 DEF Parts, TodoTyped
  <2>2. 1 \in 1..Len(todo)
    BY <2>1
  <2>3. todo[1] \in Servers \X (0..(Len(Order) - 1))
    BY <2>1, <2>2
  <2>4. ~Blacklisted(todo[1][1])
    BY <1>1, <2>2 DEF Parts, PassIsClean
  <2> QED
    BY <2>3, <2>4
<1>3. pos' \in 0..(Len(Order) - 1) /\ owner' = owner
  BY <1>1, <1>2 DEF Dial
<1>4. PICK l \in Connects(s) :
         /\ link' = l
         /\ IF l.open THEN pc' = "login" /\ NoRecord /\ UNCHANGED todo
            ELSE RecordFailure(l.to) /\ GiveUp
  BY <1>1 DEF Dial
<1>5. l \in Link /\ l.to = s
  BY <1>2, <1>4, ConnectsAre
<1> HIDE DEF s
<1>6. OpensAllowed
  BY <1>2, <1>4, <1>5 DEF OpensAllowed
<1>7. CASE l.open
  <2>1. pc' = "login" /\ NoRecord /\ todo' = todo
    BY <1>4, <1>7
  <2>2. RowsTyped' /\ \A t \in Servers : Blacklisted(t)' => Blacklisted(t)
    BY <1>1, <2>1 DEF NoRecord, Parts, RowsTyped, Blacklisted
  <2>3. PassIsClean' /\ TodoTyped'
    BY <1>1, <1>4, <1>5, <2>1, <2>2, PassStays DEF TodoTyped, s
  <2>4. CommandIsAllowed'
    BY <2>1 DEF CommandIsAllowed
  <2> QED
    BY <1>1, <1>3, <1>4, <1>5, <1>6, <2>2, <2>3, <2>4, ServerParts DEF Parts
<1>8. CASE ~l.open
  <2>1. RecordFailure(s) /\ GiveUp
    BY <1>4, <1>5, <1>8
  <2>2. RowsTyped' /\ \A t \in Servers : t # s => rows'[t] = rows[t]
    BY <1>1, <1>2, <2>1, RowsAre DEF RowsTyped
  <2>3. PassIsClean' /\ TodoTyped' /\ pc' \in {"wait", "dial"}
    BY <1>1, <2>1, <2>2, PassGoesOn DEF TodoTyped, s
  <2>4. CommandIsAllowed'
    BY <2>3 DEF CommandIsAllowed
  <2> QED
    BY <1>1, <1>3, <1>4, <1>5, <1>6, <2>2, <2>3, <2>4, ServerParts DEF Parts
<1> QED
  BY <1>7, <1>8

LEMMA LoginStep ==
    ASSUME ServerInv, Login
    PROVE  ServerInv' /\ OpensAllowed
<1> DEFINE s == link.to
<1>1. Parts /\ ServerTyped /\ pc = "login" /\ link \in Link /\ s \in Servers /\ s = todo[1][1]
  BY ServerParts DEF ServerInv, Login, PassIsClean, Parts, Link
<1>2. UNCHANGED <<owner, pos>>
  BY DEF Login
<1>3. PICK r \in Logins(link) :
          CASE r.got = "idchange" ->
                 /\ link' = [r.then EXCEPT !.logged = TRUE]
                 /\ RecordSuccess(link.to)
                 /\ pc' = "hold" /\ connected' = TRUE /\ UNCHANGED todo
            [] r.got \in {"aux", "other"} ->
                 /\ link' = r.then
                 /\ NoRecord /\ UNCHANGED <<pc, connected, todo>>
            [] OTHER ->
                 /\ link' = Closed(r.then)
                 /\ RecordFailure(link.to) /\ GiveUp /\ UNCHANGED connected
  BY DEF Login
<1>4. /\ r.then \in Link /\ r.then.to = s /\ (r.then.open => link.open)
      /\ Closed(r.then) \in Link /\ Closed(r.then).to = s /\ ~Closed(r.then).open
  BY <1>1, <1>3, SessionsAre
<1>5. CASE r.got = "idchange"
  <2>1. /\ link' = [r.then EXCEPT !.logged = TRUE] /\ RecordSuccess(link.to)
        /\ pc' = "hold" /\ todo' = todo
    BY <1>3, <1>5
  <2>2. link' \in Link /\ (link'.open => link.open)
    BY <1>4, <2>1 DEF Link
  <2> QED
    BY <1>1, <1>2, <2>1, <2>2, QuietSteps DEF Parts
<1>6. CASE r.got \in {"aux", "other"}
  <2>1. link' = r.then /\ NoRecord /\ pc' = pc /\ todo' = todo
    BY <1>3, <1>6
  <2>2. RowsTyped' /\ \A t \in Servers : Blacklisted(t)' => Blacklisted(t)
    BY <1>1, <2>1 DEF NoRecord, Parts, RowsTyped, Blacklisted
  <2>3. PassIsClean' /\ TodoTyped'
    BY <1>1, <1>4, <2>1, <2>2, PassStays DEF TodoTyped
  <2>4. CommandIsAllowed' /\ OpensAllowed
    BY <1>1, <1>4, <2>1 DEF CommandIsAllowed, OpensAllowed
  <2> QED
    BY <1>1, <1>2, <1>4, <2>1, <2>2, <2>3, <2>4, ServerParts DEF Parts
<1>7. CASE r.got \notin {"idchange", "aux", "other"}
  <2>1. link' = Closed(r.then) /\ RecordFailure(s) /\ GiveUp
    BY <1>3, <1>7
  <2> HIDE DEF s
  <2>2. RowsTyped' /\ \A t \in Servers : t # s => rows'[t] = rows[t]
    BY <1>1, <2>1, RowsAre DEF RowsTyped
  <2>3. PassIsClean' /\ TodoTyped' /\ pc' \in {"wait", "dial"}
    BY <1>1, <2>1, <2>2, PassGoesOn DEF TodoTyped
  <2>4. CommandIsAllowed' /\ OpensAllowed
    BY <1>4, <2>1, <2>3 DEF CommandIsAllowed, OpensAllowed
  <2> QED
    BY <1>1, <1>2, <1>4, <2>1, <2>2, <2>3, <2>4, ServerParts DEF Parts
<1> QED
  BY <1>5, <1>6, <1>7

(* The session a command opens was checked when the command started, and   *)
(* the row cannot have changed since.                                      *)
LEMMA CommandSteps ==
    ASSUME ServerInv, CommandConnects \/ \E who \in {"search", "sources"}, s \in Servers : Command(who, s)
    PROVE  ServerInv' /\ OpensAllowed
<1>1. Parts /\ link \in Link /\ link.to \in Servers
  BY ServerParts DEF Parts, Link
<1>2. ASSUME NEW who \in {"search", "sources"}, NEW s \in Servers, Command(who, s)
      PROVE  ServerInv' /\ OpensAllowed
  <2>1. /\ ~Blacklisted(s) /\ pc' = "connect" /\ link' = [NoLink EXCEPT !.to = s]
        /\ UNCHANGED <<rows, pos, todo>> /\ owner' \in {"nobody", "kernel", "search", "sources"}
    BY <1>2 DEF Command, Start
  <2>2. link' \in Link /\ link'.to = s /\ ~link'.open
    BY <2>1, ConnectsAre DEF Link, NoLink
  <2>3. RowsTyped' /\ CommandIsAllowed'
    BY <1>1, <2>1, <2>2 DEF Parts, RowsTyped, CommandIsAllowed, Blacklisted
  <2>4. PassIsClean' /\ TodoTyped'
    BY <2>1, NoPass DEF TodoTyped
  <2> QED
    BY <1>1, <2>1, <2>2, <2>3, <2>4, ServerParts DEF Parts, OpensAllowed
<1>3. CASE CommandConnects
  <2>1. /\ pc = "connect" /\ UNCHANGED <<pos, todo>> /\ ~Blacklisted(link.to)
    BY <1>1, <1>3 DEF CommandConnects, Parts, CommandIsAllowed
  <2>2. PICK l \in Connects(link.to) :
          IF l.open THEN link' = l /\ pc' = "enter" /\ NoRecord /\ UNCHANGED owner
          ELSE EndSearch
    BY <1>3 DEF CommandConnects
  <2>3. CASE l.open
    <3>1. l \in Link /\ l.to = link.to
      BY <1>1, <2>2, ConnectsAre
    <3>2. RowsTyped' /\ CommandIsAllowed' /\ OpensAllowed
      BY <1>1, <2>1, <2>2, <2>3, <3>1 DEF NoRecord, Parts, RowsTyped, CommandIsAllowed, OpensAllowed
    <3>3. PassIsClean' /\ TodoTyped'
      BY <2>1, <2>2, <2>3, NoPass DEF TodoTyped
    <3> QED
      BY <1>1, <2>1, <2>2, <2>3, <3>1, <3>2, <3>3, ServerParts DEF Parts
  <2>4. CASE ~l.open
    <3>1. /\ RecordFailure(link.to) \/ NoRecord
          /\ link' = NoLink /\ owner' = "nobody" /\ pc' = "off"
      BY <2>2, <2>4 DEF EndSearch, Release
    <3> QED
      BY <2>1, <3>1, QuietSteps
  <2> QED
    BY <2>3, <2>4
<1> QED
  BY <1>2, <1>3

(* What is left of the kernel and of the commands opens no session.        *)
LEMMA OtherSteps ==
    ASSUME ServerInv,
           StartKernel \/ Hold \/ Retry \/ StopKernel \/ CommandLogsIn \/ Gather \/ WindowCloses \/ GetSources
    PROVE  ServerInv' /\ OpensAllowed
<1>1. /\ Parts /\ link \in Link /\ owner \in {"nobody", "kernel", "search", "sources"}
      /\ NoLink \in Link /\ ~NoLink.open
  <2>1. Parts /\ link \in Link /\ link.to \in Servers
    BY ServerParts DEF Parts, Link
  <2> QED
    BY <2>1, ConnectsAre DEF Parts
<1> DEFINE Quiet(l) == l = NoLink \/ (l \in Link /\ (l.open => link.open))
           Records == RecordFailure(link.to) \/ RecordSuccess(link.to) \/ NoRecord
           Owned == owner' \in {"nobody", "kernel", "search", "sources"}
<1>2. ASSUME NEW keep \in BOOLEAN, NEW kinds, NEW r \in Receive(link, keep, kinds)
      PROVE  Quiet(r.then) /\ Quiet(Closed(r.then))
  <2>1. r.then \in Link /\ (r.then.open => link.open)
    BY <1>1, <1>2, SessionsAre
  <2> QED
    BY <2>1, SessionsAre
<1>3. ASSUME NEW r \in Logins(link)
      PROVE  Quiet(r.then) /\ Quiet([r.then EXCEPT !.logged = TRUE])
  <2>1. r.then \in Link /\ (r.then.open => link.open)
    BY <1>1, <1>3, SessionsAre
  <2>2. [r.then EXCEPT !.logged = TRUE] \in Link /\ ([r.then EXCEPT !.logged = TRUE].open => r.then.open)
    BY <2>1 DEF Link
  <2> QED
    BY <2>1, <2>2
<1>4. EndSearch => Records /\ link' = NoLink /\ owner' = "nobody" /\ pc' = "off"
  BY DEF EndSearch, Release
<1>5. CASE StartKernel
  BY <1>1, <1>5, QuietSteps DEF StartKernel, Start, NoRecord
<1>6. CASE Hold
  <2>1. PICK r \in Receive(link, TRUE, {"aux", "other"}) :
          IF r.got \in Broken
          THEN /\ link' = Closed(r.then) /\ connected' = FALSE
               /\ pc' = "wait" /\ todo' = <<>>
          ELSE link' = r.then /\ UNCHANGED <<connected, pc, todo>>
    BY <1>6 DEF Hold
  <2>2. pc = "hold" /\ UNCHANGED <<rows, owner, pos>>
    BY <1>6 DEF Hold
  <2>3. Quiet(r.then) /\ Quiet(Closed(r.then))
    BY <1>2, <2>1
  <2>4. Quiet(link') /\ (todo' = todo \/ todo' = <<>>) /\ pc' \in {"wait", "hold"}
    BY <2>1, <2>2, <2>3
  <2> QED
    BY <1>1, <2>2, <2>4, QuietSteps DEF NoRecord
<1>7. CASE Retry
  BY <1>1, <1>7, QuietSteps DEF Retry, NoRecord
<1>8. CASE StopKernel
  BY <1>1, <1>8, QuietSteps DEF StopKernel, NoRecord
<1>9. CASE CommandLogsIn
  <2>1. UNCHANGED <<pos, todo>> /\ pc = "enter"
    BY <1>9 DEF CommandLogsIn
  <2>2. PICK r \in Logins(link) :
          CASE r.got = "idchange" ->
                 /\ link' = [r.then EXCEPT !.logged = TRUE]
                 /\ IF owner = "search" THEN RecordSuccess(link.to) ELSE NoRecord
                 /\ pc' = "answers" /\ UNCHANGED owner
            [] r.got \in {"aux", "other"} ->
                 link' = r.then /\ NoRecord /\ UNCHANGED <<pc, owner>>
            [] OTHER -> EndSearch
    BY <1>9 DEF CommandLogsIn
  <2>3. Records /\ Quiet(link') /\ Owned /\ pc' \in {"answers", "enter", "off"}
    <3>1. CASE r.got = "idchange"
      BY <1>1, <1>3, <2>2, <3>1
    <3>2. CASE r.got \in {"aux", "other"}
      BY <1>1, <1>3, <2>1, <2>2, <3>2
    <3>3. CASE r.got \notin {"idchange", "aux", "other"}
      BY <1>4, <2>2, <3>3
    <3> QED
      BY <3>1, <3>2, <3>3
  <2> QED
    BY <2>1, <2>3, QuietSteps
<1>10. CASE Gather
  <2>1. UNCHANGED <<pos, todo>> /\ pc = "answers"
    BY <1>10 DEF Gather
  <2>2. PICK r \in Receive(link, TRUE, {"aux", "result", "reject", "other"}) :
          CASE r.got = "result" ->
                 /\ found' = TRUE /\ link' = r.then
                 /\ NoRecord /\ UNCHANGED <<owner, pc>>
            [] r.got \in {"aux", "other", "late"} ->
                 link' = r.then /\ NoRecord /\ UNCHANGED <<owner, pc, found>>
            [] r.got = "eof" -> EndSearch /\ UNCHANGED found
            [] OTHER ->
                 found' = FALSE /\ RecordFailure(link.to) /\ Release
    BY <1>10 DEF Gather
  <2>3. Records /\ Quiet(link') /\ Owned /\ pc' \in {"answers", "off"}
    <3>1. CASE r.got \in {"result", "aux", "other", "late"}
      BY <1>1, <1>2, <2>1, <2>2, <3>1
    <3>2. CASE r.got = "eof"
      BY <1>4, <2>2, <3>2
    <3>3. CASE r.got \notin {"result", "aux", "other", "late", "eof"}
      BY <2>2, <3>3 DEF Release
    <3> QED
      BY <3>1, <3>2, <3>3
  <2> QED
    BY <2>1, <2>3, QuietSteps
<1>11. CASE WindowCloses
  <2>1. UNCHANGED <<pos, todo>> /\ EndSearch
    BY <1>11 DEF WindowCloses
  <2> QED
    BY <1>4, <2>1, QuietSteps
<1>12. CASE GetSources
  <2>1. UNCHANGED <<rows, pos, todo>> /\ pc = "answers"
    BY <1>12 DEF GetSources
  <2>2. PICK r \in Receive(link, TRUE, {"aux", "result", "reject", "other"}) :
          IF r.got \in {"aux", "other"}
          THEN link' = r.then /\ UNCHANGED <<owner, pc>>
          ELSE Release
    BY <1>12 DEF GetSources
  <2>3. Quiet(link') /\ Owned /\ pc' \in {"answers", "off"}
    BY <1>1, <1>2, <2>1, <2>2 DEF Release
  <2> QED
    BY <2>1, <2>3, QuietSteps DEF NoRecord
<1> QED
  BY <1>5, <1>6, <1>7, <1>8, <1>9, <1>10, <1>11, <1>12

LEMMA ServerStep == ServerInv /\ [ServerNext]_serverVars => ServerInv' /\ (OpensAllowed \/ UNCHANGED serverVars)
<1> SUFFICES ASSUME ServerInv, [ServerNext]_serverVars
             PROVE  ServerInv' /\ (OpensAllowed \/ UNCHANGED serverVars)
  OBVIOUS
<1>1. CASE UNCHANGED serverVars
  BY <1>1 DEF serverVars, ServerInv, ServerTyped, ServerTypeOK, PassIsClean, CommandIsAllowed, Blacklisted
<1>2. CASE ServerNext
  BY <1>2, ListSteps, BuildStep, DialStep, LoginStep, CommandSteps, OtherSteps DEF ServerNext, Manager
<1> QED
  BY <1>1, <1>2

(* Whatever servers, threshold and number of runs: a session is opened     *)
(* only to a server that is not in its cooldown, by autoconnect from a     *)
(* list older than the failures of its pass (server_session.py:225-267)    *)
(* and by a command that looked before it connected (cli.py:544-559).      *)
THEOREM NoDialsInCooldown == ServerSpec => NoDialInCooldown
<1>1. ServerInv /\ [ServerNext]_serverVars => [OpensAllowed]_serverVars
  BY ServerStep
<1>2. ServerInv /\ [ServerNext]_serverVars => ServerInv'
  BY ServerStep
<1>3. ServerSpec => [][OpensAllowed]_serverVars
  BY ServerStart, <1>1, <1>2, PTL DEF ServerSpec
<1> QED
  BY <1>3 DEF NoDialInCooldown, OpensAllowed

-----------------------------------------------------------------------------
(* KadLookup.                                                              *)

(* Of finitely many things one has the greatest number.                    *)
LEMMA GreatestOf ==
    ASSUME NEW S, IsFiniteSet(S), S # {}, NEW f \in [S -> Nat]
    PROVE  \E x \in S : \A y \in S : f[y] <= f[x]
<1> DEFINE Above(x) == {y \in S : f[x] < f[y]}
           T == {Cardinality(Above(x)) : x \in S}
<1>1. \A x \in S : IsFiniteSet(Above(x)) /\ Cardinality(Above(x)) \in Nat
  <2> TAKE x \in S
  <2>1. IsFiniteSet(Above(x))
    BY FS_Subset
  <2> QED
    BY <2>1, FS_CardinalityType
<1>2. T \in SUBSET Nat /\ T # {}
  <2> HIDE DEF Above
  <2> QED
    BY <1>1
<1>3. PICK m \in T : \A k \in T : m <= k
  <2> HIDE DEF T
  <2> QED
    BY <1>2, LeastNumber
<1>4. PICK x \in S : m = Cardinality(Above(x))
  BY <1>3
<1>5. ASSUME NEW y \in S, ~(f[y] <= f[x])
      PROVE  FALSE
  <2>1. f[x] < f[y]
    BY <1>5
  <2>2. Above(y) \subseteq Above(x) /\ y \in Above(x) /\ y \notin Above(y)
    BY <2>1
  <2>3. Cardinality(Above(x)) <= Cardinality(Above(y))
    <3> HIDE DEF Above
    <3> QED
      BY <1>3, <1>4
  <2> HIDE DEF Above
  <2>4. Cardinality(Above(y)) <= Cardinality(Above(x)) /\ (Cardinality(Above(y)) = Cardinality(Above(x)) => Above(y) = Above(x))
    BY <1>1, <2>2, FS_Subset
  <2> QED
    BY <1>1, <2>2, <2>3, <2>4
<1> QED
  BY <1>5

-----------------------------------------------------------------------------
(* KadLookup.                                                              *)

LookupTyped ==
    /\ kind \in Kinds /\ pass \in 1..2
    /\ seeds \in SeedOrders /\ seedPos \in Nat \ {0}
    /\ possible \subseteq Contacts /\ tried \subseteq Contacts
    /\ responded \in Seq(Nat)
    /\ \A m \in mail : m.n \in Nat

(* tried and possible are keyed by distance.                               *)
Keyed(S) == \A c, d \in S : D(c) = D(d) => c = d

(* An endpoint that answers may is one that was asked.                     *)
AskingTried == \A a \in DOMAIN asking : asking[a] \in tried /\ asking[a].addr = a

(* A node that answered a search was searched when it did.                 *)
AnsweredAsked ==
    \A i \in 1..Len(responded) :
        \E c \in tried : D(c) = responded[i] /\ (kind # "publish" => c.addr \in queried)

(* Who is rewarded, or may still send results, was searched.               *)
SearchSent ==
    kind # "publish" => /\ rewards \subseteq queried
                        /\ \A m \in mail : m.op = "search" => m.to.addr \in queried

LookupInv == LookupTyped /\ Keyed(tried \cup possible) /\ AskingTried /\ AnsweredAsked /\ SearchSent

LEMMA Distances ==
    ASSUME LookupTyped
    PROVE  \A c \in Contacts : D(c) \in Nat
  BY LookupAssumption DEF LookupTyped, D

(* The seeds that are taken next are at distances of their own.            *)
LEMMA FreshAre ==
    ASSUME NEW p \in 1..2, NEW ordered \in SeedOrders, NEW start \in Nat \ {0}, NEW taken
    PROVE  LET fresh == Fresh(p, ordered, start, taken)
           IN  /\ fresh \subseteq 1..Len(ordered) /\ NextSeed(ordered, fresh) \in Nat \ {0}
               /\ \A i \in fresh : ordered[i] \in Contacts /\ Dist[p][ordered[i].id] \notin taken
               /\ \A i, j \in fresh : Dist[p][ordered[i].id] = Dist[p][ordered[j].id] => i = j
<1> DEFINE fresh == Fresh(p, ordered, start, taken)
           N == Len(ordered)
<1>1. ordered \in Seq(Contacts) /\ N \in Nat /\ Alpha \in Nat \ {0}
  BY LookupAssumption
<1>2. fresh \subseteq start..N /\ fresh \subseteq Unread(p, ordered, start, taken)
  BY DEF Fresh, Unread
<1>3. \A i \in fresh : i \in 1..N /\ i \in Nat /\ start <= i
  BY <1>1, <1>2
<1>4. \A i \in fresh : ordered[i] \in Contacts
  BY <1>1, <1>3
<1>5. \A i \in fresh : /\ Dist[p][ordered[i].id] \notin taken
                       /\ \A j \in start..(i - 1) : Dist[p][ordered[j].id] # Dist[p][ordered[i].id]
  BY <1>2 DEF Unread
<1>6. ASSUME NEW i \in fresh, NEW j \in fresh, Dist[p][ordered[i].id] = Dist[p][ordered[j].id]
      PROVE  i = j
  <2>1. i \in Nat /\ j \in Nat /\ start <= i /\ start <= j
    BY <1>3
  <2>2. ~(i < j)
    BY <1>5, <1>6, <2>1
  <2>3. ~(j < i)
    BY <1>5, <1>6, <2>1
  <2> QED
    BY <2>1, <2>2, <2>3
<1>7. NextSeed(ordered, fresh) \in Nat \ {0}
  <2> HIDE DEF fresh
  <2>1. IsFiniteSet(fresh)
    <3>1. IsFiniteSet(1..N)
      BY <1>1, FS_Interval
    <3> QED
      BY <1>3, <3>1, FS_Subset
  <2>2. CASE Cardinality(fresh) < Alpha
    BY <1>1, <2>2 DEF NextSeed
  <2>3. CASE ~(Cardinality(fresh) < Alpha)
    <3>1. fresh # {}
      <4>1. Cardinality({}) = 0
        BY FS_EmptySet
      <4>2. ASSUME fresh = {} PROVE FALSE
        BY <1>1, <2>3, <4>1, <4>2
      <4> QED
        BY <4>2
    <3> DEFINE f == [i \in fresh |-> i]
    <3>2. f \in [fresh -> Nat]
      BY <1>3
    <3>3. PICK z \in fresh : \A y \in fresh : f[y] <= f[z]
      <4> HIDE DEF f
      <4> QED
        BY <2>1, <3>1, <3>2, GreatestOf
    <3>4. \E x \in fresh : \A y \in fresh : y <= x
      BY <3>3
    <3> DEFINE greatest == CHOOSE i \in fresh : \A j \in fresh : j <= i
    <3>5. greatest \in fresh
      BY <3>4
    <3>6. NextSeed(ordered, fresh) = 1 + greatest
      BY <2>3 DEF NextSeed
    <3> HIDE DEF greatest
    <3> QED
      BY <1>3, <3>5, <3>6
  <2> QED
    BY <2>2, <2>3
<1> HIDE DEF fresh
<1>8. /\ fresh \subseteq 1..Len(ordered) /\ NextSeed(ordered, fresh) \in Nat \ {0}
      /\ \A i \in fresh : ordered[i] \in Contacts /\ Dist[p][ordered[i].id] \notin taken
      /\ \A i, j \in fresh : Dist[p][ordered[i].id] = Dist[p][ordered[j].id] => i = j
  BY <1>3, <1>4, <1>5, <1>6, <1>7
<1> QED
  BY <1>8 DEF fresh

(* What is followed of an answer is at new distances of its own.           *)
LEMMA FollowedAre ==
    ASSUME LookupTyped, Keyed(tried \cup possible), NEW from \in tried, NEW contacts \in Seq(Contacts)
    PROVE  Followed(from, contacts) \subseteq Contacts /\ Keyed(tried \cup Followed(from, contacts))
<1> DEFINE N == Len(contacts)
           Ips == {c.addr[1] : c \in Contacts}
           S == [take : SUBSET Contacts, ips : SUBSET Ips]
           b == [take |-> possible, ips |-> {from.addr[1]}]
           acc == CHOOSE f : f = [k \in 0..N |-> IF k = 0 THEN b ELSE Follow(f[k - 1], from, contacts[k])]
           F == [k \in 1..N |-> [s \in S |-> Follow(s, from, contacts[k])]]
<1>1. N \in Nat /\ \A k \in 1..N : contacts[k] \in Contacts
  OBVIOUS
<1>2. Followed(from, contacts) = acc[N].take
  BY DEF Followed
<1>3. from \in Contacts /\ possible \in SUBSET Contacts
  BY DEF LookupTyped
<1>4. b \in S
  BY <1>3
<1>5. ASSUME NEW s \in S, NEW c \in Contacts
      PROVE  /\ Follow(s, from, c) \in S
             /\ Keyed(tried \cup s.take) => Keyed(tried \cup Follow(s, from, c).take)
  <2>1. s.take \in SUBSET Contacts /\ s.ips \in SUBSET Ips /\ c.addr[1] \in Ips
    BY <1>5
  <2>2. CASE D(c) \in Dists(tried \cup s.take) \/ c.addr[1] \in s.ips
    BY <2>2 DEF Follow
  <2>3. CASE ~(D(c) \in Dists(tried \cup s.take) \/ c.addr[1] \in s.ips)
    <3> DEFINE take == IF D(c) < D(from) THEN s.take \cup {c} ELSE s.take
               ips == IF kind = "publish" THEN s.ips ELSE s.ips \cup {c.addr[1]}
    <3>1. Follow(s, from, c) = [take |-> take, ips |-> ips]
      BY <2>3 DEF Follow
    <3>2. take \in SUBSET Contacts /\ ips \in SUBSET Ips
      BY <2>1
    <3>3. ASSUME Keyed(tried \cup s.take) PROVE Keyed(tried \cup take)
      <4>1. \A d \in tried \cup s.take : D(d) # D(c)
        BY <2>3 DEF Dists
      <4> QED
        BY <3>3, <4>1 DEF Keyed
    <3> HIDE DEF take, ips
    <3> QED
      BY <3>1, <3>2, <3>3
  <2> QED
    BY <2>2, <2>3
<1>6. F \in [1..N -> [S -> S]]
  <2> SUFFICES ASSUME NEW k \in 1..N, NEW s \in S PROVE Follow(s, from, contacts[k]) \in S
    OBVIOUS
  <2> HIDE DEF S
  <2> QED
    BY <1>1, <1>5
<1> HIDE DEF N, S, b
<1>7. PICK g : Recursive(g, S, b, N, F)
  <2> HIDE DEF F
  <2> QED
    BY <1>1, <1>4, <1>6, RecursionExists
<1>8. g \in [0..N -> S] /\ g[0] = b /\ \A k \in 1..N : g[k] = F[k][g[k - 1]]
  BY <1>7 DEF Recursive
<1>9. ASSUME NEW k \in 1..N
      PROVE  k - 1 \in 0..N /\ g[k] = Follow(g[k - 1], from, contacts[k])
  <2>1. k - 1 \in 0..N
    BY <1>1
  <2>2. g[k - 1] \in S /\ g[k] = F[k][g[k - 1]]
    BY <1>8, <2>1
  <2>3. \A s \in S : F[k][s] = Follow(s, from, contacts[k])
    OBVIOUS
  <2> HIDE DEF F
  <2> QED
    BY <2>1, <2>2, <2>3
<1>10. g = [k \in 0..N |-> IF k = 0 THEN b ELSE Follow(g[k - 1], from, contacts[k])]
  <2> HIDE DEF F
  <2>1. \A k \in 0..N : k = 0 \/ k \in 1..N
    BY <1>1
  <2> QED
    BY <1>8, <1>9, <2>1
<1>11. acc = [k \in 0..N |-> IF k = 0 THEN b ELSE Follow(acc[k - 1], from, contacts[k])]
  BY <1>10
<1> HIDE DEF acc
<1>12. acc[0] = b /\ \A k \in 1..N : acc[k] = Follow(acc[k - 1], from, contacts[k])
  <2>1. 0 \in 0..N /\ \A k \in 1..N : k \in 0..N /\ k # 0
    BY <1>1
  <2> QED
    BY <1>11, <2>1
<1> DEFINE T == {k \in 0..N : acc[k] \in S /\ Keyed(tried \cup acc[k].take)}
<1>13. 0 \in T
  <2>1. b.take = possible
    BY DEF b
  <2>2. acc[0].take = possible /\ acc[0] \in S
    BY <1>4, <1>12, <2>1
  <2>3. Keyed(tried \cup acc[0].take)
    BY <2>2
  <2>4. 0 \in 0..N
    BY <1>1
  <2> QED
    BY <2>2, <2>3, <2>4
<1>14. ASSUME NEW k \in 0..(N - 1), k \in T
       PROVE  k + 1 \in T
  <2>1. k + 1 \in 1..N /\ k + 1 \in 0..N /\ (k + 1) - 1 = k
    BY <1>1
  <2>2. acc[k + 1] = Follow(acc[k], from, contacts[k + 1]) /\ contacts[k + 1] \in Contacts
    BY <1>1, <1>12, <2>1
  <2> QED
    BY <1>5, <1>14, <2>1, <2>2
<1>15. N \in T
  <2> HIDE DEF T
  <2>1. \A k \in 0..N : k \in T
    BY <1>1, <1>13, <1>14, NumbersUpTo
  <2> QED
    BY <1>1, <2>1
<1>16. acc[N].take \in SUBSET Contacts
  BY <1>15 DEF S
<1> QED
  BY <1>2, <1>15, <1>16

(* A walk begins with seeds at distances of their own, and has asked       *)
(* nobody.                                                                 *)
LEMMA SeedsApart ==
    ASSUME NEW p \in 1..2, NEW ordered \in SeedOrders, NEW fresh,
           fresh = Fresh(p, ordered, 1, {})
    PROVE  /\ {ordered[i] : i \in fresh} \subseteq Contacts
           /\ \A c, d \in {ordered[i] : i \in fresh} : Dist[p][c.id] = Dist[p][d.id] => c = d
           /\ NextSeed(ordered, fresh) \in Nat \ {0}
<1> DEFINE none == {}
<1>1. 1 \in Nat \ {0} /\ fresh = Fresh(p, ordered, 1, none)
  OBVIOUS
<1> HIDE DEF none
<1> QED
  BY <1>1, FreshAre

LEMMA LookupStart == LookupInit => LookupInv
<1> SUFFICES ASSUME LookupInit PROVE LookupInv
  OBVIOUS
<1> DEFINE fresh == Fresh(1, seeds, 1, {})
<1>1. seeds \in SeedOrders /\ pass = 1 /\ 1 \in 1..2
  BY DEF LookupInit
<1>2. possible = {seeds[i] : i \in fresh} /\ seedPos = NextSeed(seeds, fresh)
  BY DEF LookupInit
<1> HIDE DEF fresh
<1>3. /\ {seeds[i] : i \in fresh} \subseteq Contacts
      /\ \A c, d \in {seeds[i] : i \in fresh} : Dist[1][c.id] = Dist[1][d.id] => c = d
      /\ NextSeed(seeds, fresh) \in Nat \ {0}
  BY <1>1, SeedsApart DEF fresh
<1>4. /\ kind \in Kinds /\ tried = {} /\ asking = None /\ responded = <<>> /\ rewards = {} /\ mail = {}
  BY DEF LookupInit
<1>5. LookupTyped
  BY <1>1, <1>2, <1>3, <1>4 DEF LookupTyped
<1>6. Keyed(tried \cup possible)
  BY <1>1, <1>2, <1>3, <1>4 DEF Keyed, D
<1>7. AskingTried /\ AnsweredAsked /\ SearchSent
  BY <1>4 DEF AskingTried, AnsweredAsked, SearchSent, None
<1> QED
  BY <1>5, <1>6, <1>7 DEF LookupInv

-----------------------------------------------------------------------------
(* Sending FIND requests moves contacts from possible to tried.            *)
LEMMA AskClosestOn ==
    ASSUME LookupInv, NEW skipped, AskClosest(skipped)
    PROVE  LookupInv'
<1> DEFINE now == Closest(possible \ skipped, Alpha)
<1>1. now \subseteq possible
  BY DEF Closest
<1>2. /\ tried' = tried \cup now /\ possible' \subseteq possible
      /\ kind' = kind /\ pass' = pass /\ seeds' = seeds /\ seedPos' = seedPos
      /\ responded' = responded /\ queried' = queried /\ rewards' = rewards
  BY DEF AskClosest, outcome
<1>3. asking' = [a \in DOMAIN asking \cup {c.addr : c \in now} |->
                 IF \E c \in now : c.addr = a
                 THEN CHOOSE c \in now : c.addr = a /\ \A d \in now : d.addr = a => D(d) <= D(c)
                 ELSE asking[a]]
  BY DEF AskClosest
<1>4. mail' = mail \cup [op : {"find"}, to : now, n : {FindValue}, pass : {pass}]
  BY DEF AskClosest
<1> HIDE DEF now
<1>5. FindValue \in Nat /\ IsFiniteSet(Contacts)
  BY LookupAssumption
<1>6. \A m \in mail' : m \in mail \/ (m.op = "find" /\ m.n \in Nat)
  <2> DEFINE mails == [op : {"find"}, to : now, n : {FindValue}, pass : {pass}]
  <2>1. \A m \in mails : m.op = "find" /\ m.n \in Nat
    BY <1>5
  <2> HIDE DEF mails
  <2> QED
    BY <1>4, <2>1 DEF mails
<1>7. LookupTyped'
  BY <1>1, <1>2, <1>6 DEF LookupInv, LookupTyped
<1>8. Keyed(tried \cup possible)'
  BY <1>1, <1>2 DEF LookupInv, Keyed, D
<1>9. ASSUME NEW a, NEW e \in now, e.addr = a
      PROVE  \E c \in now : c.addr = a /\ \A d \in now : d.addr = a => D(d) <= D(c)
  <2> DEFINE S == {c \in now : c.addr = a}
             f == [c \in S |-> D(c)]
  <2>1. S \subseteq Contacts /\ e \in S
    BY <1>1, <1>9 DEF LookupInv, LookupTyped
  <2>2. IsFiniteSet(S) /\ S # {}
    <3> HIDE DEF S
    <3> QED
      BY <1>5, <2>1, FS_Subset
  <2>3. f \in [S -> Nat]
    BY <2>1, Distances DEF LookupInv
  <2>4. PICK x \in S : \A y \in S : f[y] <= f[x]
    <3> HIDE DEF S, f
    <3> QED
      BY <2>2, <2>3, GreatestOf
  <2>5. \A y \in S : D(y) <= D(x)
    BY <2>4
  <2> QED
    BY <2>5
<1>10. AskingTried'
  <2> SUFFICES ASSUME NEW a \in DOMAIN asking'
               PROVE  asking'[a] \in tried' /\ asking'[a].addr = a
    BY DEF AskingTried
  <2>1. CASE \E c \in now : c.addr = a
    <3> DEFINE greatest == CHOOSE c \in now : c.addr = a /\ \A d \in now : d.addr = a => D(d) <= D(c)
    <3>1. greatest \in now /\ greatest.addr = a
      BY <1>9, <2>1
    <3>2. asking'[a] = greatest
      BY <1>3, <2>1
    <3> HIDE DEF greatest
    <3> QED
      BY <1>2, <3>1, <3>2
  <2>2. CASE ~(\E c \in now : c.addr = a)
    <3>1. a \in DOMAIN asking /\ asking'[a] = asking[a]
      BY <1>3, <2>2
    <3> QED
      BY <1>2, <3>1 DEF LookupInv, AskingTried
  <2> QED
    BY <2>1, <2>2
<1>11. AnsweredAsked'
  BY <1>2 DEF LookupInv, AnsweredAsked, D
<1>12. SearchSent'
  BY <1>2, <1>6 DEF LookupInv, SearchSent
<1> QED
  BY <1>7, <1>8, <1>10, <1>11, <1>12 DEF LookupInv

(* What is sent after a quiet window goes to who is recorded as searched.  *)
LEMMA QuietOn ==
    ASSUME LookupInv, NEW late, QuietWindow(late)
    PROVE  LookupInv'
<1> DEFINE fresh == Fresh(pass, seeds, seedPos, Dists(tried \cup possible))
<1>1. /\ kind' = kind /\ pass' = pass /\ seeds' = seeds /\ tried' = tried /\ asking' = asking
      /\ responded' = responded /\ rewards' = rewards /\ queried' = queried \cup late
  BY DEF QuietWindow, outcome
<1>2. \A m \in mail' : \/ m \in mail
                       \/ m.n \in Nat /\ (m.op = "search" => m.to.addr \in late)
  <2>1. \A m \in SearchReq(late) : m.n \in Nat /\ m.to.addr \in late
    BY DEF SearchReq
  <2> DEFINE more == ~reasked /\ Cardinality(tried) >= 3 * FindValue
             again == [op : {"find"}, to : Closest(tried, 1), n : {FindValueMore}, pass : {pass}]
  <2>2. \A m \in again : m.n \in Nat /\ m.op = "find"
    BY LookupAssumption
  <2>3. mail' = mail \cup SearchReq(late) \cup (IF more THEN again ELSE {})
    BY DEF QuietWindow
  <2> HIDE DEF more, again
  <2> QED
    BY <2>1, <2>2, <2>3
<1>3. \/ possible' = possible /\ seedPos' = seedPos
      \/ possible' = possible \cup {seeds[i] : i \in fresh} /\ seedPos' = NextSeed(seeds, fresh)
  BY DEF QuietWindow
<1>4. /\ NextSeed(seeds, fresh) \in Nat \ {0}
      /\ \A i \in fresh : seeds[i] \in Contacts /\ D(seeds[i]) \notin Dists(tried \cup possible)
      /\ \A i, j \in fresh : D(seeds[i]) = D(seeds[j]) => i = j
  BY FreshAre DEF LookupInv, LookupTyped, D
<1> HIDE DEF fresh
<1>5. LookupTyped'
  BY <1>1, <1>2, <1>3, <1>4 DEF LookupInv, LookupTyped
<1>6. Keyed(tried \cup possible)'
  <2>1. CASE possible' = possible
    BY <1>1, <2>1 DEF LookupInv, Keyed, D
  <2>2. CASE possible' = possible \cup {seeds[i] : i \in fresh}
    <3>1. \A c \in tried \cup possible : \A i \in fresh : D(c) # D(seeds[i])
      BY <1>4 DEF Dists
    <3>2. Keyed((tried \cup possible) \cup {seeds[i] : i \in fresh})
      BY <1>4, <3>1 DEF LookupInv, Keyed
    <3> QED
      BY <1>1, <2>2, <3>2 DEF Keyed, D
  <2> QED
    BY <1>3, <2>1, <2>2
<1>7. AskingTried'
  BY <1>1 DEF LookupInv, AskingTried
<1>8. AnsweredAsked'
  BY <1>1 DEF LookupInv, AnsweredAsked, D
<1>9. SearchSent'
  BY <1>1, <1>2 DEF LookupInv, SearchSent
<1> QED
  BY <1>5, <1>6, <1>7, <1>8, <1>9 DEF LookupInv

(* An answer is of a node that was asked; in a search it is searched with  *)
(* the same step.                                                          *)
LEMMA Appended ==
    ASSUME LookupInv, NEW c \in tried, tried' = tried, kind' = kind, pass' = pass,
           queried \subseteq queried', kind # "publish" => c.addr \in queried',
           responded' = IF D(c) \in Range(responded) THEN responded ELSE Append(responded, D(c))
    PROVE  responded' \in Seq(Nat) /\ AnsweredAsked'
<1>1. responded \in Seq(Nat) /\ D(c) \in Nat
  BY Distances DEF LookupInv, LookupTyped
<1>2. \A d \in Contacts : D(d)' = D(d)
  BY DEF D
<1>3. tried \subseteq Contacts
  BY DEF LookupInv, LookupTyped
<1>4. ASSUME NEW i \in 1..Len(responded)
      PROVE  \E d \in tried' : D(d)' = responded[i] /\ (kind # "publish" => d.addr \in queried')
  BY <1>2, <1>3, <1>4 DEF LookupInv, AnsweredAsked
<1>5. CASE D(c) \in Range(responded)
  <2>1. responded' = responded
    BY <1>5
  <2> QED
    BY <1>1, <1>4, <2>1 DEF AnsweredAsked
<1>6. CASE D(c) \notin Range(responded)
  <2>1. responded' = Append(responded, D(c))
    BY <1>6
  <2>2. responded' \in Seq(Nat) /\ Len(responded') = Len(responded) + 1 /\ Len(responded) \in Nat
    BY <1>1, <2>1
  <2>3. ASSUME NEW i \in 1..Len(responded')
        PROVE  \E d \in tried' : D(d)' = responded'[i] /\ (kind' # "publish" => d.addr \in queried')
    <3>1. CASE i \in 1..Len(responded)
      <4>1. responded'[i] = responded[i]
        BY <1>1, <2>1, <3>1
      <4> QED
        BY <1>4, <3>1, <4>1
    <3>2. CASE i = Len(responded) + 1
      <4>1. responded'[i] = D(c)
        BY <1>1, <2>1, <3>2
      <4> QED
        BY <1>2, <1>3, <4>1
    <3> QED
      BY <2>2, <3>1, <3>2
  <2> QED
    BY <2>2, <2>3 DEF AnsweredAsked
<1> QED
  BY <1>5, <1>6

LEMMA ResOn ==
    ASSUME LookupInv, NEW m \in mail, Res(m),
           \/ kind = "publish" /\ UNCHANGED <<queried, rewards, mail>>
           \/ Searched(m)
    PROVE  LookupInv'
<1> DEFINE from == asking[m.to.addr]
           contacts == FirstOf(Knows[m.to], m.n)
<1>1. from \in tried /\ from.addr = m.to.addr
  BY DEF Res, LookupInv, AskingTried
<1>2. /\ tried' = tried /\ kind' = kind /\ pass' = pass /\ asking' = asking
      /\ seeds' = seeds /\ seedPos' = seedPos
      /\ possible' = Followed(from, contacts)
      /\ responded' = IF D(from) \in Range(responded) THEN responded ELSE Append(responded, D(from))
  BY DEF Res
<1>3. contacts \in Seq(Contacts)
  <2>1. Knows[m.to] \in Seq(Contacts) /\ m.n \in Nat
    BY LookupAssumption DEF Res, LookupInv, LookupTyped
  <2> DEFINE s == Knows[m.to]
             n == Least(m.n, Len(s))
  <2>2. n \in Nat /\ n <= Len(s) /\ s \in Seq(Contacts)
    BY <2>1 DEF Least
  <2>3. contacts = SubSeq(s, 1, n)
    BY DEF FirstOf
  <2> HIDE DEF s, n, contacts
  <2>4. \A i \in 1..n : s[i] \in Contacts
    BY <2>2
  <2>5. SubSeq(s, 1, n) \in Seq(Contacts)
    BY <2>2, <2>4, SubSeqProperties
  <2> QED
    BY <2>3, <2>5
<1> HIDE DEF from, contacts
<1>4. Followed(from, contacts) \subseteq Contacts /\ Keyed(tried \cup Followed(from, contacts))
  BY <1>1, <1>3, FollowedAre DEF LookupInv
<1>5. /\ queried \subseteq queried' /\ (kind # "publish" => from.addr \in queried')
      /\ rewards' \subseteq queried' \cup rewards
      /\ \A x \in mail' : x \in mail \/ (x.n \in Nat /\ x.to.addr \in queried')
  <2>1. CASE kind = "publish" /\ UNCHANGED <<queried, rewards, mail>>
    BY <2>1
  <2>2. CASE Searched(m)
    <3> DEFINE a == m.to.addr
    <3>1. /\ queried' = queried \cup ToSearch(a) /\ rewards' = rewards \cup {a}
          /\ mail' = mail \cup SearchReq(ToSearch(a))
      BY <2>2 DEF Searched
    <3>2. a \in queried' /\ ToSearch(a) \subseteq queried'
      BY <3>1 DEF ToSearch
    <3>3. \A x \in SearchReq(ToSearch(a)) : x.n \in Nat /\ x.to.addr \in ToSearch(a)
      BY DEF SearchReq
    <3> HIDE DEF a
    <3>4. from.addr = a
      BY <1>1 DEF a
    <3> QED
      BY <3>1, <3>2, <3>3, <3>4
  <2> QED
    BY <2>1, <2>2
<1>6. responded' \in Seq(Nat) /\ AnsweredAsked'
  BY <1>1, <1>2, <1>5, Appended
<1>7. LookupTyped'
  BY <1>2, <1>4, <1>5, <1>6 DEF LookupInv, LookupTyped
<1>8. Keyed(tried \cup possible)'
  BY <1>2, <1>4 DEF Keyed, D
<1>9. AskingTried'
  BY <1>2 DEF LookupInv, AskingTried
<1>10. SearchSent'
  BY <1>2, <1>5 DEF LookupInv, SearchSent
<1> QED
  BY <1>6, <1>7, <1>8, <1>9, <1>10 DEF LookupInv

(* Results come from nodes that were searched.                             *)
LEMMA ResultOn ==
    ASSUME LookupInv, NEW m \in mail, kind # "publish", FromSearched(m), SearchRes(m)
    PROVE  LookupInv'
<1> DEFINE from == asking[m.to.addr]
<1>1. from \in tried /\ from.addr = m.to.addr /\ m.to.addr \in queried
  BY DEF FromSearched, LookupInv, AskingTried, SearchSent
<1>2. /\ tried' = tried /\ kind' = kind /\ pass' = pass /\ asking' = asking
      /\ seeds' = seeds /\ seedPos' = seedPos /\ possible' = possible
      /\ queried' = queried /\ mail' = mail /\ rewards' = rewards \cup {m.to.addr}
      /\ responded' = IF D(from) \in Range(responded) THEN responded ELSE Append(responded, D(from))
  BY DEF SearchRes
<1> HIDE DEF from
<1>3. responded' \in Seq(Nat) /\ AnsweredAsked'
  BY <1>1, <1>2, Appended
<1>4. LookupTyped'
  BY <1>2, <1>3 DEF LookupInv, LookupTyped
<1>5. Keyed(tried \cup possible)'
  BY <1>2 DEF LookupInv, Keyed, D
<1>6. AskingTried'
  BY <1>2 DEF LookupInv, AskingTried
<1>7. SearchSent'
  BY <1>1, <1>2 DEF LookupInv, SearchSent
<1> QED
  BY <1>3, <1>4, <1>5, <1>6, <1>7 DEF LookupInv

(* A publish begins its second walk.                                       *)
LEMMA StartWalkOn ==
    ASSUME LookupInv, NEW ordered \in SeedOrders, StartWalk(2, ordered), kind = "publish",
           UNCHANGED <<kind, outcome, mail>>
    PROVE  LookupInv'
<1> DEFINE fresh == Fresh(2, ordered, 1, {})
<1>1. /\ pass' = 2 /\ seeds' = ordered /\ possible' = {ordered[i] : i \in fresh}
      /\ seedPos' = NextSeed(ordered, fresh) /\ tried' = {} /\ asking' = None /\ responded' = <<>>
  BY DEF StartWalk
<1>2. 2 \in 1..2
  OBVIOUS
<1> HIDE DEF fresh
<1>3. /\ {ordered[i] : i \in fresh} \subseteq Contacts
      /\ \A c, d \in {ordered[i] : i \in fresh} : Dist[2][c.id] = Dist[2][d.id] => c = d
      /\ NextSeed(ordered, fresh) \in Nat \ {0}
  BY <1>2, SeedsApart DEF fresh
<1>4. LookupTyped'
  BY <1>1, <1>3 DEF LookupInv, LookupTyped
<1>5. Keyed(tried \cup possible)'
  BY <1>1, <1>3 DEF Keyed, D
<1>6. AskingTried' /\ AnsweredAsked' /\ SearchSent'
  BY <1>1 DEF AskingTried, AnsweredAsked, SearchSent, None
<1> QED
  BY <1>4, <1>5, <1>6 DEF LookupInv

(* The steps that touch neither the walk nor its record.                   *)
LEMMA WalkKept ==
    ASSUME LookupInv,
           kind' = kind, pass' = pass, seeds' = seeds, seedPos' = seedPos, possible' = possible,
           tried' = tried, asking' = asking, responded' = responded, queried' = queried,
           rewards' \subseteq rewards,
           \A m \in mail' : \/ m \in mail
                            \/ m.n \in Nat /\ (kind # "publish" => m.to.addr \in rewards)
    PROVE  LookupInv'
<1>1. LookupTyped'
  BY DEF LookupInv, LookupTyped
<1>2. Keyed(tried \cup possible)'
  BY DEF LookupInv, Keyed, D
<1>3. AskingTried' /\ AnsweredAsked'
  BY DEF LookupInv, AskingTried, AnsweredAsked, D
<1>4. SearchSent'
  BY DEF LookupInv, SearchSent
<1> QED
  BY <1>1, <1>2, <1>3, <1>4 DEF LookupInv

LEMMA LookupStepOn == LookupInv /\ [LookupNext]_lookupVars => LookupInv'
<1> SUFFICES ASSUME LookupInv, [LookupNext]_lookupVars PROVE LookupInv'
  OBVIOUS
<1>1. CASE WalkDeadline
  BY <1>1, WalkKept DEF WalkDeadline, walk, outcome
<1>2. CASE AskKeyword \/ AskSource \/ AskPublish
  BY <1>2, AskClosestOn DEF AskKeyword, AskSource, AskPublish
<1>3. CASE QuietKeyword \/ QuietSource \/ QuietPublish
  BY <1>3, QuietOn DEF QuietKeyword, QuietSource, QuietPublish
<1>4. CASE Noise
  BY <1>4, WalkKept DEF Noise, outcome
<1>5. CASE AnswerArrives
  <2>1. PICK m \in mail :
            \/ KeywordRes(m) \/ SourceRes(m) \/ PublishWalkRes(m)
            \/ KeywordResult(m) \/ SourceResult(m) \/ LateKeywordResult(m) \/ LateSourceResult(m)
            \/ KeywordStored(m) \/ SourceStored(m)
    BY <1>5 DEF AnswerArrives
  <2>2. CASE KeywordRes(m) \/ SourceRes(m) \/ PublishWalkRes(m)
    BY <2>2, ResOn DEF KeywordRes, SourceRes, PublishWalkRes
  <2>3. CASE KeywordResult(m) \/ SourceResult(m)
    BY <2>3, ResultOn DEF KeywordResult, SourceResult
  <2>4. CASE LateKeywordResult(m) \/ LateSourceResult(m)
    BY <2>4, WalkKept DEF LateKeywordResult, LateSourceResult, LateRes
  <2>5. CASE KeywordStored(m) \/ SourceStored(m)
    BY <2>5, WalkKept DEF KeywordStored, SourceStored, PublishRes, walk
  <2> QED
    BY <2>1, <2>2, <2>3, <2>4, <2>5
<1>6. CASE SettleKeyword \/ SettleSource
  <2>1. Settle
    BY <1>6 DEF SettleKeyword, SettleSource
  <2>2. \A m \in mail' : m \in mail \/ (m.n \in Nat /\ m.to.addr \in rewards)
    <3>1. CASE mail' = mail
      BY <3>1
    <3>2. ASSUME NEW top \in SUBSET rewards, mail' = mail \cup SearchReq(top)
          PROVE  \A m \in mail' : m \in mail \/ (m.n \in Nat /\ m.to.addr \in rewards)
      <4>1. \A m \in SearchReq(top) : m.n \in Nat /\ m.to.addr \in top
        BY DEF SearchReq
      <4> QED
        BY <3>2, <4>1
    <3>3. mail' = mail \/ \E top \in SUBSET rewards : mail' = mail \cup SearchReq(top)
      BY <2>1 DEF Settle
    <3> QED
      BY <3>1, <3>2, <3>3
  <2> QED
    BY <2>1, <2>2, WalkKept DEF Settle, outcome
<1>7. CASE StoreKeyword \/ StoreSource
  <2>1. Store
    BY <1>7 DEF StoreKeyword, StoreSource
  <2> DEFINE mails == [op : {"store"}, to : {c \in Live : c.addr \in Range(targets')}, n : {0}, pass : {pass}]
  <2>2. kind = "publish" /\ mail' = mail \cup mails
    BY <2>1 DEF Store
  <2>3. \A m \in mails : m.n \in Nat
    OBVIOUS
  <2> HIDE DEF mails
  <2> QED
    BY <2>1, <2>2, <2>3, WalkKept DEF Store
<1>8. CASE CollectEnds
  <2>1. CASE kind = "publish" /\ pass = 1
    BY <1>8, <2>1, StartWalkOn DEF CollectEnds
  <2>2. CASE ~(kind = "publish" /\ pass = 1)
    BY <1>8, <2>2, WalkKept DEF CollectEnds, walk, outcome
  <2> QED
    BY <2>1, <2>2
<1>9. CASE Time
  BY <1>9, WalkKept DEF Time, outcome
<1>10. CASE UNCHANGED lookupVars
  BY <1>10, WalkKept DEF lookupVars, walk, outcome
<1> QED
  BY <1>1, <1>2, <1>3, <1>4, <1>5, <1>6, <1>7, <1>8, <1>9, <1>10 DEF LookupNext, LookupStep

(* search.py:810, source_search.py:664: the search goes out with the       *)
(* answer, so that neither the deadline nor the limit on results can cut   *)
(* it off, for any network, any seeds and any order of answers.            *)
THEOREM AllResponders == LookupSpec => []RespondersAsked
<1>1. LookupInv => RespondersAsked
  <2> SUFFICES ASSUME LookupInv, kind # "publish", NEW i \in DOMAIN responded
               PROVE  EndpointOf(responded[i]) \in queried
    BY DEF RespondersAsked
  <2>1. i \in 1..Len(responded)
    BY DEF LookupInv, LookupTyped
  <2>2. PICK c \in tried : D(c) = responded[i] /\ c.addr \in queried
    BY <2>1 DEF LookupInv, AnsweredAsked
  <2> DEFINE d == CHOOSE e \in tried : D(e) = responded[i]
  <2>3. d \in tried /\ D(d) = responded[i]
    BY <2>2
  <2>4. EndpointOf(responded[i]) = d.addr
    BY DEF EndpointOf
  <2> HIDE DEF d
  <2>5. d = c
    BY <2>2, <2>3 DEF LookupInv, Keyed
  <2> QED
    BY <2>2, <2>4, <2>5
<1>2. LookupInv /\ [LookupNext]_lookupVars => LookupInv'
  BY LookupStepOn
<1>3. LookupInit => LookupInv
  BY LookupStart
<1> QED
  BY <1>1, <1>2, <1>3, PTL DEF LookupSpec

-----------------------------------------------------------------------------
(* KAD routing.                                                            *)

Orders(R, S) ==
    /\ \A x \in S : <<x, x>> \notin R
    /\ \A x, y, z \in S : <<x, y>> \in R /\ <<y, z>> \in R => <<x, z>> \in R
    /\ \A x, y \in S : x = y \/ <<x, y>> \in R \/ <<y, x>> \in R

Lists(s, S, R) ==
    /\ s \in [1..Cardinality(S) -> S]
    /\ \A i, j \in 1..Cardinality(S) : i < j => <<s[i], s[j]>> \in R
    /\ \A x \in S : \E i \in 1..Cardinality(S) : s[i] = x

(* A finite set can be listed in a strict order of its members: the place  *)
(* of each is the number of those before it.                               *)
LEMMA InOrderLists ==
    ASSUME NEW S, IsFiniteSet(S), NEW R, Orders(R, S)
    PROVE  Lists(InOrder(S, R), S, R)
<1> DEFINE n == Cardinality(S)
           below(x) == {y \in S : <<y, x>> \in R}
           place == [x \in S |-> Cardinality(below(x)) + 1]
<1>1. n \in Nat
  BY FS_CardinalityType
<1>2. ASSUME NEW x \in S
      PROVE  IsFiniteSet(below(x)) /\ Cardinality(below(x)) \in Nat
  <2>1. below(x) \in SUBSET S
    OBVIOUS
  <2>2. IsFiniteSet(below(x))
    BY <2>1, FS_Subset
  <2> QED
    BY <2>2, FS_CardinalityType
<1>3. ASSUME NEW x \in S
      PROVE  Cardinality(below(x)) < n
  <2>1. below(x) \in SUBSET S /\ x \notin below(x)
    BY DEF Orders
  <2>2. Cardinality(below(x)) <= n /\ (n = Cardinality(below(x)) => S = below(x))
    BY <2>1, FS_Subset
  <2> QED
    BY <1>1, <1>2, <2>1, <2>2
<1>4. ASSUME NEW x \in S, NEW y \in S, <<x, y>> \in R
      PROVE  Cardinality(below(x)) < Cardinality(below(y))
  <2>1. below(x) \in SUBSET below(y)
    BY <1>4 DEF Orders
  <2>2. x \in below(y) /\ x \notin below(x)
    BY <1>4 DEF Orders
  <2>3. /\ Cardinality(below(x)) <= Cardinality(below(y))
        /\ Cardinality(below(y)) = Cardinality(below(x)) => below(y) = below(x)
    BY <1>2, <2>1, FS_Subset
  <2>4. Cardinality(below(y)) # Cardinality(below(x))
    BY <2>2, <2>3
  <2> HIDE DEF below
  <2> QED
    BY <1>2, <2>3, <2>4
<1> HIDE DEF below, n
<1>5. place \in Injection(S, 1..n)
  <2>1. ASSUME NEW x \in S
        PROVE  place[x] \in 1..n
    BY <1>1, <1>2, <1>3
  <2>2. ASSUME NEW x \in S, NEW y \in S, place[x] = place[y]
        PROVE  x = y
    <3>1. Cardinality(below(x)) = Cardinality(below(y))
      BY <1>2, <2>2
    <3>2. <<x, y>> \notin R /\ <<y, x>> \notin R
      BY <1>2, <1>4, <3>1
    <3> QED
      BY <3>2 DEF Orders
  <2> HIDE DEF place
  <2>3. place \in [S -> 1..n]
    BY <2>1 DEF place
  <2> QED
    BY <2>2, <2>3 DEF Injection, IsInjective
<1>6. place \in Surjection(S, 1..n)
  <2>1. IsFiniteSet(1..n) /\ Cardinality(1..n) = n
    BY <1>1, FS_Interval
  <2> HIDE DEF place
  <2> QED
    BY <1>5, <2>1, FS_Injection DEF n
<1>7. ASSUME NEW i \in 1..n
      PROVE  \E x \in S : Cardinality(below(x)) = i - 1
  <2>1. PICK x \in S : place[x] = i
    BY <1>6 DEF Surjection
  <2> QED
    BY <1>1, <1>2, <2>1
<1> DEFINE s == InOrder(S, R)
<1>8. s = [i \in 1..n |-> CHOOSE x \in S : Cardinality(below(x)) = i - 1]
  BY DEF InOrder, n, below
<1> HIDE DEF s, place
<1>9. ASSUME NEW i \in 1..n
      PROVE  s[i] \in S /\ Cardinality(below(s[i])) = i - 1
  BY <1>7, <1>8
<1>10. s \in [1..n -> S]
  BY <1>8, <1>9
<1>11. ASSUME NEW i \in 1..n, NEW j \in 1..n, i < j
       PROVE  <<s[i], s[j]>> \in R
  <2>1. Cardinality(below(s[i])) < Cardinality(below(s[j]))
    BY <1>1, <1>9, <1>11
  <2>2. s[i] # s[j] /\ <<s[j], s[i]>> \notin R
    BY <1>2, <1>4, <1>9, <2>1
  <2> QED
    BY <1>9, <2>2 DEF Orders
<1>12. ASSUME NEW x \in S
       PROVE  \E i \in 1..n : s[i] = x
  <2>1. place[x] \in 1..n /\ place[x] - 1 = Cardinality(below(x))
    BY <1>2, <1>5 DEF Injection, place
  <2>2. s[place[x]] \in S /\ Cardinality(below(s[place[x]])) = Cardinality(below(x))
    BY <1>9, <2>1
  <2>3. <<x, s[place[x]]>> \notin R /\ <<s[place[x]], x>> \notin R
    BY <1>2, <1>4, <2>2
  <2> QED
    BY <2>1, <2>2, <2>3 DEF Orders
<1> QED
  BY <1>10, <1>11, <1>12 DEF Lists, n, s

-----------------------------------------------------------------------------
(* Which of two IDs is closer.                                             *)
LEMMA CloserOrders ==
    ASSUME RoutingAssumption, NEW target \in Ids
    PROVE  /\ \A a \in Ids : ~Closer(target, a, a)
           /\ \A a, b, c \in Ids : Closer(target, a, b) /\ Closer(target, b, c) => Closer(target, a, c)
           /\ \A a, b \in Ids : a = b \/ Closer(target, a, b) \/ Closer(target, b, a)
<1>1. ASSUME NEW a \in Ids, Closer(target, a, a)
      PROVE  FALSE
  BY <1>1 DEF Closer
<1>2. ASSUME NEW a \in Ids, NEW b \in Ids, NEW c \in Ids, Closer(target, a, b), Closer(target, b, c)
      PROVE  Closer(target, a, c)
  <2>1. PICK n \in 1..Depth : (\A i \in 1..(n - 1) : a[i] = b[i]) /\ a[n] = target[n] /\ b[n] # target[n]
    BY <1>2 DEF Closer
  <2>2. PICK m \in 1..Depth : (\A i \in 1..(m - 1) : b[i] = c[i]) /\ b[m] = target[m] /\ c[m] # target[m]
    BY <1>2 DEF Closer
  <2>3. Depth \in Nat /\ n \in Nat /\ m \in Nat /\ n # m
    BY <2>1, <2>2 DEF RoutingAssumption
  <2>4. CASE n < m
    <3>1. n \in 1..(m - 1) /\ \A i \in 1..(n - 1) : i \in 1..(m - 1)
      BY <2>3, <2>4
    <3>2. \A i \in 1..(n - 1) : a[i] = c[i]
      BY <2>1, <2>2, <3>1
    <3>3. c[n] # target[n]
      BY <2>1, <2>2, <3>1
    <3> QED
      BY <2>1, <3>2, <3>3 DEF Closer
  <2>5. CASE m < n
    <3>1. m \in 1..(n - 1) /\ \A i \in 1..(m - 1) : i \in 1..(n - 1)
      BY <2>3, <2>5
    <3>2. \A i \in 1..(m - 1) : a[i] = c[i]
      BY <2>1, <2>2, <3>1
    <3>3. a[m] = target[m]
      BY <2>1, <2>2, <3>1
    <3> QED
      BY <2>2, <3>2, <3>3 DEF Closer
  <2> QED
    BY <2>3, <2>4, <2>5
<1>3. ASSUME NEW a \in Ids, NEW b \in Ids, a # b
      PROVE  Closer(target, a, b) \/ Closer(target, b, a)
  <2> DEFINE T == {i \in 1..Depth : a[i] # b[i]}
  <2>1. T # {}
    BY <1>3 DEF Ids
  <2>2. T \in SUBSET Nat
    BY DEF RoutingAssumption
  <2>3. PICK n \in T : \A k \in T : n <= k
    BY <2>1, <2>2, LeastNumber
  <2>4. Depth \in Nat /\ n \in 1..Depth /\ a[n] # b[n]
    BY <2>3 DEF RoutingAssumption
  <2>5. ASSUME NEW i \in 1..(n - 1)
        PROVE  a[i] = b[i]
    <3>1. i \in 1..Depth /\ ~(n <= i)
      BY <2>4
    <3> QED
      BY <2>3, <3>1
  <2>6. a[n] \in {0, 1} /\ b[n] \in {0, 1} /\ target[n] \in {0, 1}
    BY <2>4 DEF Ids
  <2>7. CASE a[n] = target[n]
    BY <2>4, <2>5, <2>7 DEF Closer
  <2>8. CASE b[n] = target[n]
    BY <2>4, <2>5, <2>8 DEF Closer
  <2> QED
    BY <2>4, <2>6, <2>7, <2>8
<1> QED
  BY <1>1, <1>2, <1>3

-----------------------------------------------------------------------------
(* A bin has contacts of different IDs.                                    *)
Bin(bin) == bin \in Seq(Peers) /\ \A i, j \in DOMAIN bin : bin[i].id = bin[j].id => i = j

InList(c, s) == \E j \in DOMAIN s : s[j] = c

(* The closest contacts of U, nearest first: count of them, or them all.   *)
Best(s, U, target, count) ==
    /\ s \in Seq(U)
    /\ \A i, j \in DOMAIN s : i < j => Closer(target, s[i].id, s[j].id)
    /\ \A i \in DOMAIN s, c \in U : Closer(target, c.id, s[i].id) => InList(c, s)
    /\ Len(s) >= count \/ \A c \in U : InList(c, s)

LEMMA NearestIsBest ==
    ASSUME RoutingAssumption, NEW target \in Ids, NEW bin, Bin(bin), NEW count \in Nat
    PROVE  Best(Nearest(bin, target), Range(bin), target, count)
<1> DEFINE S == 1..Len(bin)
           before == {p \in S \X S :
                        \/ Closer(target, bin[p[1]].id, bin[p[2]].id)
                        \/ bin[p[1]].id = bin[p[2]].id /\ p[1] > p[2]}
           o == InOrder(S, before)
           s == Nearest(bin, target)
<1>1. bin \in Seq(Peers) /\ Len(bin) \in Nat /\ DOMAIN bin = S
  BY DEF Bin
<1>2. IsFiniteSet(S) /\ Cardinality(S) = Len(bin)
  <2>1. 1 \in Int /\ Len(bin) \in Int /\ (1 > Len(bin) => Len(bin) = 0) /\ (Len(bin) - 1) + 1 = Len(bin)
    BY <1>1
  <2>2. IsFiniteSet(S) /\ Cardinality(S) = IF 1 > Len(bin) THEN 0 ELSE Len(bin) - 1 + 1
    BY <2>1, FS_Interval
  <2> QED
    BY <2>1, <2>2
<1>3. \A i \in S : bin[i] \in Peers /\ bin[i].id \in Ids
  BY <1>1 DEF RoutingAssumption
<1>4. \A i, j \in S : <<i, j>> \in before <=> Closer(target, bin[i].id, bin[j].id)
  <2> TAKE i, j \in S
  <2>1. bin[i].id = bin[j].id => i = j
    BY <1>1 DEF Bin
  <2>2. i \in Nat /\ (i = j => ~(i > j))
    BY <1>1
  <2> QED
    BY <2>1, <2>2
<1>5. Orders(before, S)
  <2> HIDE DEF before, S
  <2>1. \A x \in S : <<x, x>> \notin before
    BY <1>3, <1>4, CloserOrders
  <2>2. \A x, y, z \in S : <<x, y>> \in before /\ <<y, z>> \in before => <<x, z>> \in before
    BY <1>3, <1>4, CloserOrders
  <2>3. \A x, y \in S : x = y \/ <<x, y>> \in before \/ <<y, x>> \in before
    <3> TAKE x, y \in S
    <3>1. bin[x].id = bin[y].id => x = y
      BY <1>1 DEF Bin
    <3> QED
      BY <1>3, <1>4, <3>1, CloserOrders
  <2> QED
    BY <2>1, <2>2, <2>3 DEF Orders
<1>6. Lists(o, S, before)
  <2> HIDE DEF before, S
  <2> QED
    BY <1>2, <1>5, InOrderLists
<1>7. s = [n \in S |-> bin[o[n]]]
  BY <1>1 DEF Nearest
<1> HIDE DEF before, o, s
<1>8. /\ o \in [S -> S]
      /\ \A i, j \in S : i < j => <<o[i], o[j]>> \in before
      /\ \A x \in S : \E i \in S : o[i] = x
  BY <1>2, <1>6 DEF Lists
<1>9. s \in [S -> Range(bin)] /\ s \in Seq(Range(bin)) /\ Len(s) = Len(bin) /\ DOMAIN s = S
  <2>1. \A i \in S : bin[o[i]] \in Range(bin)
    BY <1>1, <1>8 DEF Range
  <2>2. s \in [S -> Range(bin)]
    BY <1>7, <2>1
  <2> QED
    BY <1>1, <2>2
<1>10. \A i, j \in DOMAIN s : i < j => Closer(target, s[i].id, s[j].id)
  <2> TAKE i, j \in DOMAIN s
  <2> HAVE i < j
  <2> HIDE DEF S
  <2>1. s[i] = bin[o[i]] /\ s[j] = bin[o[j]]
    BY <1>7, <1>9, Zenon
  <2>2. o[i] \in S /\ o[j] \in S /\ <<o[i], o[j]>> \in before
    BY <1>8, <1>9
  <2> QED
    BY <1>4, <2>1, <2>2
<1>11. \A c \in Range(bin) : InList(c, s)
  <2> TAKE c \in Range(bin)
  <2>1. PICK x \in S : bin[x] = c
    BY <1>1 DEF Range
  <2>2. PICK i \in S : o[i] = x
    BY <1>8
  <2> QED
    BY <1>7, <1>9, <2>1, <2>2 DEF InList
<1> QED
  BY <1>9, <1>10, <1>11 DEF Best, s

(* Enough of the near ones, or the near ones and then the far ones.        *)
LEMMA NearFirst ==
    ASSUME NEW U, NEW V, NEW target, NEW count \in Nat, NEW s, NEW r,
           \A a \in U, b \in V : Closer(target, a.id, b.id) /\ ~Closer(target, b.id, a.id),
           Best(s, U, target, count), Len(s) < count => Best(r, V, target, count)
    PROVE  Best(IF Len(s) >= count THEN s ELSE s \o r, U \cup V, target, count)
<1>1. s \in Seq(U) /\ Len(s) \in Nat
  BY DEF Best
<1>2. CASE Len(s) >= count
  <2>1. s \in Seq(U \cup V)
    BY <1>1
  <2>2. \A i, j \in DOMAIN s : i < j => Closer(target, s[i].id, s[j].id)
    BY DEF Best
  <2>3. ASSUME NEW i \in DOMAIN s, NEW c \in U \cup V, Closer(target, c.id, s[i].id)
        PROVE  InList(c, s)
    <3>1. s[i] \in U
      BY <1>1
    <3>2. c \in U
      BY <2>3, <3>1
    <3> QED
      BY <2>3, <3>2 DEF Best
  <2>4. Best(s, U \cup V, target, count)
    BY <1>2, <2>1, <2>2, <2>3 DEF Best
  <2> QED
    BY <1>2, <2>4
<1>3. CASE Len(s) < count
  <2> DEFINE e == s \o r
  <2>1. r \in Seq(V) /\ Len(r) \in Nat /\ Best(r, V, target, count)
    BY <1>3 DEF Best
  <2>2. /\ e \in Seq(U \cup V) /\ Len(e) = Len(s) + Len(r)
        /\ \A i \in 1..Len(s) : e[i] = s[i] /\ s[i] \in U
        /\ \A i \in (Len(s) + 1)..(Len(s) + Len(r)) : e[i] = r[i - Len(s)] /\ r[i - Len(s)] \in V
        /\ \A i \in 1..Len(r) : e[i + Len(s)] = r[i]
        /\ DOMAIN s = 1..Len(s) /\ DOMAIN r = 1..Len(r)
    BY <1>1, <2>1
  <2>3. DOMAIN e = 1..(Len(s) + Len(r))
    BY <2>2
  <2> HIDE DEF e
  <2>4. \A i \in DOMAIN e : \/ i \in 1..Len(s)
                            \/ i \in (Len(s) + 1)..(Len(s) + Len(r)) /\ i - Len(s) \in 1..Len(r)
    BY <1>1, <2>1, <2>3
  <2>5. \A c \in U : InList(c, s)
    BY <1>1, <1>3 DEF Best
  <2>6. \A c \in U : InList(c, e)
    <3> TAKE c \in U
    <3>1. PICK j \in 1..Len(s) : s[j] = c
      BY <2>2, <2>5 DEF InList
    <3>2. j \in DOMAIN e
      BY <1>1, <2>1, <2>3
    <3> QED
      BY <2>2, <3>1, <3>2 DEF InList
  <2>7. \A c \in V : InList(c, r) => InList(c, e)
    <3> TAKE c \in V
    <3> HAVE InList(c, r)
    <3>1. PICK j \in 1..Len(r) : r[j] = c
      BY <2>2 DEF InList
    <3>2. j + Len(s) \in DOMAIN e
      BY <1>1, <2>1, <2>3
    <3> QED
      BY <2>2, <3>1, <3>2 DEF InList
  <2>8. ASSUME NEW i \in DOMAIN e, NEW j \in DOMAIN e, i < j
        PROVE  Closer(target, e[i].id, e[j].id)
    <3>1. CASE i \in 1..Len(s) /\ j \in 1..Len(s)
      BY <2>2, <2>8, <3>1 DEF Best
    <3>2. CASE i \in 1..Len(s) /\ j \in (Len(s) + 1)..(Len(s) + Len(r))
      BY <2>2, <3>2
    <3>3. CASE i \in (Len(s) + 1)..(Len(s) + Len(r)) /\ j \in (Len(s) + 1)..(Len(s) + Len(r))
      <4>1. i - Len(s) \in DOMAIN r /\ j - Len(s) \in DOMAIN r /\ i - Len(s) < j - Len(s)
        BY <1>1, <2>1, <2>2, <2>8, <3>3
      <4>2. e[i] = r[i - Len(s)] /\ e[j] = r[j - Len(s)]
        BY <2>2, <3>3
      <4> QED
        BY <2>1, <4>1, <4>2 DEF Best
    <3>4. ~(i \in (Len(s) + 1)..(Len(s) + Len(r)) /\ j \in 1..Len(s))
      BY <1>1, <2>1, <2>8
    <3> QED
      BY <2>4, <3>1, <3>2, <3>3, <3>4
  <2>9. ASSUME NEW i \in DOMAIN e, NEW c \in U \cup V, Closer(target, c.id, e[i].id)
        PROVE  InList(c, e)
    <3>1. CASE c \in U
      BY <2>6, <3>1
    <3>2. CASE c \in V
      <4>1. i \in (Len(s) + 1)..(Len(s) + Len(r))
        BY <2>2, <2>4, <2>9, <3>2
      <4>2. i - Len(s) \in DOMAIN r /\ e[i] = r[i - Len(s)]
        BY <2>2, <2>4, <4>1, <1>1, <2>1
      <4>3. InList(c, r)
        BY <2>1, <2>9, <3>2, <4>2 DEF Best
      <4> QED
        BY <2>7, <3>2, <4>3
    <3> QED
      BY <3>1, <3>2
  <2>10. Len(e) >= count \/ \A c \in U \cup V : InList(c, e)
    <3>1. CASE Len(r) >= count
      BY <1>1, <2>1, <2>2, <3>1
    <3>2. CASE \A c \in V : InList(c, r)
      BY <2>6, <2>7, <3>2
    <3> QED
      BY <2>1, <3>1, <3>2 DEF Best
  <2>11. Best(e, U \cup V, target, count)
    BY <2>2, <2>8, <2>9, <2>10 DEF Best
  <2>12. ~(Len(s) >= count)
    BY <1>1, <1>3
  <2> QED
    BY <2>11, <2>12 DEF e
<1> QED
  BY <1>1, <1>2, <1>3

-----------------------------------------------------------------------------
(* The tree.                                                               *)
Leaves == UNION {[1..n -> {0, 1}] : n \in 0..(Depth - 1)}

Trees == UNION {[L -> Seq(Peers)] : L \in SUBSET Leaves}

Of(t) == UNION {Range(t[z]) : z \in DOMAIN t}

(* No leaf lies below another.                                             *)
Apart(t) == \A y, z \in DOMAIN t : Within(y, z) => y = z

(* Every ID has its leaf.                                                  *)
Covers(t) == \A id \in Ids : \E z \in DOMAIN t : Within(id, z)

(* Every contact is in the leaf of its ID, once.                           *)
Placed(t) == \A z \in DOMAIN t : Bin(t[z]) /\ \A i \in DOMAIN t[z] : Within(t[z][i].id, z)

Tree(t) == t \in Trees /\ Apart(t) /\ Covers(t) /\ Placed(t)

LEMMA LeafIs ==
    ASSUME RoutingAssumption, NEW z \in Leaves
    PROVE  /\ Len(z) \in 0..(Depth - 1) /\ Len(z) < Depth
           /\ z \in [1..Len(z) -> {0, 1}] /\ z \in Seq({0, 1}) /\ z \in Branches
<1>1. PICK n \in 0..(Depth - 1) : z \in [1..n -> {0, 1}]
  BY DEF Leaves
<1>2. Depth \in Nat /\ n \in Nat /\ n \in 0..Depth /\ n < Depth
  BY DEF RoutingAssumption
<1>3. Len(z) = n /\ z \in Seq({0, 1})
  BY <1>1, <1>2
<1> QED
  BY <1>1, <1>2, <1>3 DEF Branches

LEMMA BranchIs ==
    ASSUME RoutingAssumption, NEW z \in Branches
    PROVE  Len(z) \in 0..Depth /\ z \in [1..Len(z) -> {0, 1}] /\ z \in Seq({0, 1})
<1>1. PICK n \in 0..Depth : z \in [1..n -> {0, 1}]
  BY DEF Branches
<1>2. Depth \in Nat /\ n \in Nat
  BY DEF RoutingAssumption
<1>3. Len(z) = n /\ z \in Seq({0, 1})
  BY <1>1, <1>2
<1> QED
  BY <1>1, <1>3

LEMMA IdIs ==
    ASSUME RoutingAssumption, NEW id \in Ids
    PROVE  Len(id) = Depth /\ DOMAIN id = 1..Depth /\ \A i \in 1..Depth : id[i] \in {0, 1}
<1>1. Depth \in Nat
  BY DEF RoutingAssumption
<1>2. id \in [1..Depth -> {0, 1}]
  BY DEF Ids
<1> QED
  BY <1>1, <1>2

LEMMA ChildIs ==
    ASSUME NEW z \in Seq({0, 1}), NEW b \in {0, 1}
    PROVE  LET y == Append(z, b)
           IN  /\ Len(y) = Len(z) + 1 /\ y \in [1..(Len(z) + 1) -> {0, 1}]
               /\ y[Len(z) + 1] = b /\ \A i \in 1..Len(z) : y[i] = z[i]
               /\ Last(y) = b
<1> DEFINE y == Append(z, b)
<1>1. Len(z) \in Nat /\ z \in [1..Len(z) -> {0, 1}] /\ y \in Seq({0, 1}) /\ Len(y) = Len(z) + 1
  OBVIOUS
<1>2. y \in [1..(Len(z) + 1) -> {0, 1}]
  <2> HIDE DEF y
  <2> DEFINE n == Len(z) + 1
  <2>1. y \in Seq({0, 1}) /\ Len(y) = n
    BY <1>1
  <2> HIDE DEF n
  <2>2. y \in [1..n -> {0, 1}]
    BY <2>1
  <2> QED
    BY <2>2 DEF n
<1>3. y[Len(z) + 1] = b /\ \A i \in 1..Len(z) : y[i] = z[i]
  BY <1>1
<1>4. Last(y) = y[Len(y)]
  BY DEF Last
<1> QED
  BY <1>1, <1>2, <1>3, <1>4

(* A string lies in a child of z when it lies in z and goes on with the bit. *)
LEMMA InChild ==
    ASSUME NEW z \in Seq({0, 1}), NEW b \in {0, 1}, NEW s, Len(s) \in Nat
    PROVE  Within(s, Append(z, b)) <=> Within(s, z) /\ Len(s) > Len(z) /\ s[Len(z) + 1] = b
<1> DEFINE y == Append(z, b)
<1>1. /\ Len(y) = Len(z) + 1 /\ DOMAIN y = 1..(Len(z) + 1) /\ DOMAIN z = 1..Len(z)
      /\ y[Len(z) + 1] = b /\ Len(z) \in Nat
      /\ \A i \in 1..Len(z) : y[i] = z[i]
  BY ChildIs
<1> HIDE DEF y
<1>2. Len(z) + 1 \in 1..(Len(z) + 1) /\ \A i \in 1..Len(z) : i \in 1..(Len(z) + 1)
  BY <1>1
<1>3. \A i \in 1..(Len(z) + 1) : i = Len(z) + 1 \/ i \in 1..Len(z)
  BY <1>1
<1>4. Len(z) + 1 <= Len(s) <=> Len(z) <= Len(s) /\ Len(s) > Len(z)
  BY <1>1
<1>5. Within(s, y) <=> Within(s, z) /\ Len(s) > Len(z) /\ s[Len(z) + 1] = b
  BY <1>1, <1>2, <1>3, <1>4 DEF Within
<1> QED
  BY <1>5 DEF y

LEMMA LeafOfIs ==
    ASSUME NEW t, Covers(t), NEW id \in Ids
    PROVE  LeafOf(t, id) \in DOMAIN t /\ Within(id, LeafOf(t, id))
  BY DEF Covers, LeafOf

(* An ID has one leaf.                                                     *)
LEMMA OneLeaf ==
    ASSUME RoutingAssumption, NEW y \in Leaves, NEW z \in Leaves, NEW id \in Ids,
           Within(id, y), Within(id, z)
    PROVE  Within(y, z) \/ Within(z, y)
<1>1. /\ Len(y) \in Nat /\ Len(z) \in Nat /\ DOMAIN y = 1..Len(y) /\ DOMAIN z = 1..Len(z)
  <2>1. Depth \in Nat
    BY DEF RoutingAssumption
  <2>2. Len(y) \in 0..(Depth - 1) /\ Len(z) \in 0..(Depth - 1) /\ y \in [1..Len(y) -> {0, 1}] /\ z \in [1..Len(z) -> {0, 1}]
    BY LeafIs
  <2> QED
    BY <2>1, <2>2
<1>2. CASE Len(y) <= Len(z)
  BY <1>1, <1>2 DEF Within
<1>3. CASE Len(z) <= Len(y)
  BY <1>1, <1>3 DEF Within
<1> QED
  BY <1>1, <1>2, <1>3

-----------------------------------------------------------------------------
(* What happens to a bin.                                                  *)
LEMMA HalfIs ==
    ASSUME NEW bin, Bin(bin), NEW level, NEW b
    PROVE  LET h == Half(bin, level, b)
           IN  Bin(h) /\ \A c : InList(c, h) <=> InList(c, bin) /\ c.id[level] = b
<1> DEFINE places == {i \in DOMAIN bin : bin[i].id[level] = b}
           later == {p \in places \X places : p[1] > p[2]}
           n == Cardinality(places)
           o == InOrder(places, later)
           h == Half(bin, level, b)
<1>1. bin \in Seq(Peers) /\ Len(bin) \in Nat /\ DOMAIN bin = 1..Len(bin)
  BY DEF Bin
<1>2. IsFiniteSet(places) /\ n \in Nat
  <2>1. IsFiniteSet(1..Len(bin))
    BY <1>1, FS_Interval
  <2>2. places \in SUBSET (1..Len(bin))
    BY <1>1
  <2>3. IsFiniteSet(places)
    BY <2>1, <2>2, FS_Subset
  <2> QED
    BY <2>3, FS_CardinalityType
<1>3. \A i \in places : i \in Nat
  BY <1>1
<1>4. \A i, j \in places : <<i, j>> \in later <=> i > j
  OBVIOUS
<1>5. Orders(later, places)
  <2> HIDE DEF later, places
  <2> QED
    BY <1>3, <1>4 DEF Orders
<1>6. Lists(o, places, later)
  <2> HIDE DEF later, places
  <2> QED
    BY <1>2, <1>5, InOrderLists
<1>7. h = [k \in 1..n |-> bin[o[k]]]
  BY DEF Half
<1>8. \A i \in places : i \in DOMAIN bin /\ bin[i] \in Peers /\ bin[i].id[level] = b
  BY <1>1
<1>9. \A i \in DOMAIN bin : bin[i].id[level] = b => i \in places
  OBVIOUS
<1> HIDE DEF places, later, n, o, h
<1>10. /\ o \in [1..n -> places]
       /\ \A i, j \in 1..n : i < j => o[i] > o[j]
       /\ \A x \in places : \E i \in 1..n : o[i] = x
  <2>1. /\ o \in [1..n -> places]
        /\ \A i, j \in 1..n : i < j => <<o[i], o[j]>> \in later
        /\ \A x \in places : \E i \in 1..n : o[i] = x
    BY <1>6 DEF Lists, n
  <2>2. \A i, j \in 1..n : i < j => o[i] > o[j]
    BY <1>4, <2>1
  <2> QED
    BY <2>1, <2>2
<1>11. h \in Seq(Peers) /\ DOMAIN h = 1..n
  <2>1. h \in [1..n -> Peers]
    BY <1>7, <1>8, <1>10
  <2> QED
    BY <1>2, <2>1
<1>12. ASSUME NEW i \in DOMAIN h, NEW j \in DOMAIN h, h[i].id = h[j].id
       PROVE  i = j
  <2>1. bin[o[i]].id = bin[o[j]].id /\ o[i] \in places /\ o[j] \in places
    BY <1>7, <1>10, <1>11, <1>12
  <2>2. o[i] = o[j]
    BY <1>8, <2>1 DEF Bin
  <2>3. ~(i < j) /\ ~(j < i)
    <3>1. ~(o[i] > o[j]) /\ ~(o[j] > o[i])
      BY <1>3, <2>1, <2>2
    <3> QED
      BY <1>10, <1>11, <3>1
  <2> QED
    BY <1>2, <1>11, <2>3
<1>13. ASSUME NEW c
       PROVE  InList(c, h) <=> InList(c, bin) /\ c.id[level] = b
  <2>1. ASSUME NEW j \in DOMAIN h, h[j] = c
        PROVE  InList(c, bin) /\ c.id[level] = b
    <3>1. o[j] \in places /\ c = bin[o[j]]
      BY <1>7, <1>10, <1>11, <2>1
    <3> QED
      BY <1>8, <3>1 DEF InList
  <2>2. ASSUME NEW i \in DOMAIN bin, bin[i] = c, c.id[level] = b
        PROVE  InList(c, h)
    <3>1. i \in places
      BY <1>9, <2>2
    <3>2. PICK j \in 1..n : o[j] = i
      BY <1>10, <3>1
    <3> QED
      BY <1>7, <1>11, <2>2, <3>2 DEF InList
  <2> QED
    BY <2>1, <2>2 DEF InList
<1> QED
  BY <1>11, <1>12, <1>13 DEF Bin, h

(* The one with c in the place of the i-th.                                *)
LEMMA MovedIs ==
    ASSUME NEW bin, Bin(bin), NEW i \in DOMAIN bin, NEW c \in Peers, c.id = bin[i].id
    PROVE  LET m == Moved(bin, i, c)
           IN  Bin(m) /\ \A x : InList(x, m) <=> x = c \/ (InList(x, bin) /\ x.id # c.id)
<1> DEFINE n == Len(bin)
           m == Moved(bin, i, c)
           from(j) == IF j < i THEN j ELSE IF j < n THEN j + 1 ELSE i
<1>1. bin \in Seq(Peers) /\ n \in Nat /\ DOMAIN bin = 1..n /\ i \in 1..n
  BY DEF Bin
<1>2. /\ RemoveAt(bin, i) \in Seq(Peers) /\ Len(RemoveAt(bin, i)) = n - 1
      /\ \A j \in 1..(n - 1) : RemoveAt(bin, i)[j] = IF j < i THEN bin[j] ELSE bin[j + 1]
  <2>1. SubSeq(bin, 1, i - 1) \in Seq(Peers) /\ Len(SubSeq(bin, 1, i - 1)) = i - 1
    BY <1>1
  <2>2. SubSeq(bin, i + 1, n) \in Seq(Peers) /\ Len(SubSeq(bin, i + 1, n)) = n - i
    BY <1>1
  <2>3. \A j \in 1..(i - 1) : SubSeq(bin, 1, i - 1)[j] = bin[j]
    BY <1>1
  <2>4. \A j \in 1..(n - i) : SubSeq(bin, i + 1, n)[j] = bin[j + i]
    BY <1>1
  <2> DEFINE a == SubSeq(bin, 1, i - 1)
             b == SubSeq(bin, i + 1, n)
  <2>5. RemoveAt(bin, i) = a \o b
    BY DEF RemoveAt
  <2> HIDE DEF a, b
  <2>6. a \in Seq(Peers) /\ b \in Seq(Peers) /\ Len(a) = i - 1 /\ Len(b) = n - i
    BY <2>1, <2>2 DEF a, b
  <2>7. a \o b \in Seq(Peers) /\ Len(a \o b) = n - 1
    <3>1. a \o b \in Seq(Peers) /\ Len(a \o b) = Len(a) + Len(b)
      BY <2>6
    <3>2. (i - 1) + (n - i) = n - 1
      BY <1>1
    <3> QED
      BY <2>6, <3>1, <3>2
  <2>8. ASSUME NEW j \in 1..(n - 1)
        PROVE  (a \o b)[j] = IF j < i THEN bin[j] ELSE bin[j + 1]
    <3>1. CASE j < i
      <4>1. j \in 1..Len(a) /\ j \in 1..(i - 1)
        BY <1>1, <2>6, <3>1
      <4>2. (a \o b)[j] = a[j]
        BY <2>6, <4>1
      <4> QED
        BY <2>3, <3>1, <4>1, <4>2 DEF a
    <3>2. CASE ~(j < i)
      <4>0. /\ j \in i..(n - 1) /\ (i - 1) + 1 = i /\ (i - 1) + (n - i) = n - 1
            /\ j - (i - 1) = j - i + 1 /\ j - i + 1 \in 1..(n - i) /\ (j - i + 1) + i = j + 1
        BY <1>1, <3>2
      <4>1. j \in (Len(a) + 1)..(Len(a) + Len(b)) /\ j - Len(a) = j - i + 1
        BY <2>6, <4>0
      <4>2. (a \o b)[j] = b[j - Len(a)]
        <5>1. a \in Seq(Peers) /\ b \in Seq(Peers) /\ Len(a) \in Nat /\ Len(b) \in Nat
          BY <2>6
        <5> QED
          BY <4>1, <5>1
      <4>3. b[j - i + 1] = bin[(j - i + 1) + i]
        BY <2>4, <4>0 DEF b
      <4> QED
        BY <3>2, <4>0, <4>1, <4>2, <4>3
    <3> QED
      BY <3>1, <3>2
  <2> QED
    BY <2>5, <2>7, <2>8
<1>3. /\ m \in Seq(Peers) /\ Len(m) = n /\ DOMAIN m = 1..n /\ m[n] = c
      /\ \A j \in 1..(n - 1) : m[j] = RemoveAt(bin, i)[j]
  <2> DEFINE r == RemoveAt(bin, i)
  <2>1. m = Append(r, c) /\ r \in Seq(Peers) /\ Len(r) = n - 1 /\ n - 1 \in Nat /\ (n - 1) + 1 = n
    BY <1>1, <1>2 DEF Moved
  <2> HIDE DEF r, m, n
  <2>2. m \in Seq(Peers) /\ Len(m) = n /\ m[n] = c
    BY <2>1
  <2>3. \A j \in 1..(n - 1) : m[j] = r[j]
    BY <2>1
  <2> QED
    BY <2>2, <2>3 DEF r
<1> HIDE DEF m, n
<1>4. ASSUME NEW j \in 1..n
      PROVE  from(j) \in 1..n /\ (j < n => from(j) # i /\ m[j] = bin[from(j)])
  <2>1. from(j) \in 1..n /\ (j < n => from(j) # i /\ j \in 1..(n - 1))
    BY <1>1
  <2>2. j < n => m[j] = bin[from(j)]
    BY <1>2, <1>3, <2>1
  <2> QED
    BY <2>1, <2>2
<1>5. \A j, k \in 1..n : from(j) = from(k) => j = k
  BY <1>1
<1>6. \A k \in 1..n : k # i => \E j \in 1..(n - 1) : from(j) = k
  <2> TAKE k \in 1..n
  <2> HAVE k # i
  <2>1. CASE k < i
    <3>1. k \in 1..(n - 1) /\ from(k) = k
      BY <1>1, <2>1
    <3> QED
      BY <3>1
  <2>2. CASE k > i
    <3>1. k - 1 \in 1..(n - 1) /\ from(k - 1) = k
      BY <1>1, <2>2
    <3> QED
      BY <3>1
  <2> QED
    BY <1>1, <2>1, <2>2
<1>7. ASSUME NEW j \in 1..n
      PROVE  m[j].id = bin[from(j)].id
  <2>1. CASE j < n
    BY <1>4, <2>1
  <2>2. CASE j = n
    <3>1. from(j) = i
      BY <1>1, <2>2
    <3> QED
      BY <1>3, <2>2, <3>1
  <2> QED
    BY <1>1, <2>1, <2>2
<1> HIDE DEF from
<1>8. Bin(m)
  <2>1. ASSUME NEW j \in 1..n, NEW k \in 1..n, m[j].id = m[k].id
        PROVE  j = k
    <3>1. bin[from(j)].id = bin[from(k)].id /\ from(j) \in 1..n /\ from(k) \in 1..n
      BY <1>4, <1>7, <2>1
    <3>2. from(j) = from(k)
      BY <1>1, <3>1 DEF Bin
    <3> QED
      BY <1>5, <3>2
  <2> QED
    BY <1>3, <2>1 DEF Bin
<1>9. ASSUME NEW x, InList(x, m)
      PROVE  x = c \/ (InList(x, bin) /\ x.id # c.id)
  <2>1. PICK j \in 1..n : m[j] = x
    BY <1>3, <1>9 DEF InList
  <2>2. CASE j = n
    BY <1>3, <2>1, <2>2
  <2>3. CASE j < n
    <3>1. x = bin[from(j)] /\ from(j) \in DOMAIN bin /\ from(j) # i
      BY <1>1, <1>4, <2>1, <2>3
    <3>2. x.id # c.id
      BY <3>1 DEF Bin
    <3> QED
      BY <3>1, <3>2 DEF InList
  <2> QED
    BY <1>1, <2>2, <2>3
<1>10. ASSUME NEW x, x = c \/ (InList(x, bin) /\ x.id # c.id)
       PROVE  InList(x, m)
  <2>1. CASE x = c
    <3>1. n \in 1..n
      BY <1>1
    <3> QED
      BY <1>3, <2>1, <3>1 DEF InList
  <2>2. CASE InList(x, bin) /\ x.id # c.id
    <3>1. PICK k \in 1..n : bin[k] = x /\ k # i
      BY <1>1, <2>2 DEF InList
    <3>2. PICK j \in 1..(n - 1) : from(j) = k
      BY <1>6, <3>1
    <3>3. j \in 1..n /\ j < n
      BY <1>1
    <3>4. m[j] = x
      BY <1>4, <3>1, <3>2, <3>3
    <3> QED
      BY <1>3, <3>3, <3>4 DEF InList
  <2> QED
    BY <1>10, <2>1, <2>2
<1> QED
  BY <1>8, <1>9, <1>10 DEF m

LEMMA RefreshedIs ==
    ASSUME NEW bin, Bin(bin), NEW c \in Peers
    PROVE  LET m == Refreshed(bin, c)
           IN  Bin(m) /\ \A x : InList(x, m) <=> x = c \/ (InList(x, bin) /\ x.id # c.id)
<1>1. CASE HasId(bin, c.id)
  <2> DEFINE i == CHOOSE k \in DOMAIN bin : bin[k].id = c.id
  <2>1. i \in DOMAIN bin /\ bin[i].id = c.id
    BY <1>1 DEF HasId
  <2>2. Refreshed(bin, c) = Moved(bin, i, c)
    BY <1>1 DEF Refreshed
  <2> HIDE DEF i
  <2> QED
    BY <2>1, <2>2, MovedIs
<1>2. CASE ~HasId(bin, c.id)
  <2> DEFINE m == Append(bin, c)
             n == Len(bin)
  <2>1. bin \in Seq(Peers) /\ n \in Nat /\ DOMAIN bin = 1..n
    BY DEF Bin
  <2>2. /\ m \in Seq(Peers) /\ DOMAIN m = 1..(n + 1) /\ m[n + 1] = c
        /\ \A j \in 1..n : m[j] = bin[j]
    BY <2>1
  <2> HIDE DEF m, n
  <2>3. n + 1 \in 1..(n + 1) /\ \A j \in 1..(n + 1) : j = n + 1 \/ j \in 1..n
    BY <2>1
  <2>4. \A j \in 1..n : bin[j].id # c.id
    BY <1>2, <2>1 DEF HasId
  <2>5. \A j, k \in 1..(n + 1) : m[j].id = m[k].id => j = k
    BY <2>1, <2>2, <2>3, <2>4 DEF Bin
  <2>6. \A j \in 1..n : j \in 1..(n + 1)
    BY <2>1
  <2>7. \A x : InList(x, m) <=> x = c \/ (InList(x, bin) /\ x.id # c.id)
    BY <2>1, <2>2, <2>3, <2>4, <2>6 DEF InList
  <2>8. Bin(m)
    BY <2>2, <2>5 DEF Bin
  <2> QED
    BY <1>2, <2>7, <2>8 DEF Refreshed, m
<1> QED
  BY <1>1, <1>2

-----------------------------------------------------------------------------
(* What happens to the tree.                                               *)
LEMMA OfIs ==
    ASSUME NEW t, NEW c
    PROVE  c \in Of(t) <=> \E z \in DOMAIN t : InList(c, t[z])
  BY DEF Of, InList, Range

LEMMA TreeIs ==
    ASSUME NEW t \in Trees
    PROVE  DOMAIN t \subseteq Leaves /\ t \in [DOMAIN t -> Seq(Peers)]
  BY DEF Trees

LEMMA SplitIsTree ==
    ASSUME RoutingAssumption, NEW t, Tree(t), NEW z \in DOMAIN t, Len(z) < Depth - 1
    PROVE  Tree(Split(t, z)) /\ Of(Split(t, z)) = Of(t)
<1> DEFINE s == Split(t, z)
           n == Len(z)
           level == n + 1
           kid(b) == Append(z, b)
           Cut == (DOMAIN t \ {z}) \cup Children(z)
<1>0. DOMAIN t \subseteq Leaves /\ t \in [DOMAIN t -> Seq(Peers)]
  BY TreeIs DEF Tree
<1>1. Depth \in Nat
  BY DEF RoutingAssumption
<1>a. n \in 0..(Depth - 1) /\ z \in [1..n -> {0, 1}] /\ z \in Seq({0, 1})
  BY <1>0, LeafIs
<1>b. n < Depth - 1 /\ Len(z) = n
  OBVIOUS
<1> HIDE DEF n
<1>2. n \in Nat /\ level \in Nat /\ level \in 0..(Depth - 1) /\ level \in 1..Depth /\ level # n
  <2>1. n \in Nat
    BY <1>1, <1>a
  <2> QED
    BY <1>1, <1>b, <2>1
<1>z. DOMAIN z = 1..n /\ z \in Seq({0, 1})
  BY <1>a
<1>3. ASSUME NEW b \in {0, 1}
      PROVE  /\ kid(b) \in Leaves /\ Len(kid(b)) = level /\ kid(b)[level] = b /\ Last(kid(b)) = b
             /\ \A i \in 1..n : kid(b)[i] = z[i]
             /\ DOMAIN kid(b) = 1..level
  <2>1. /\ Len(kid(b)) = level /\ kid(b) \in [1..level -> {0, 1}]
        /\ kid(b)[level] = b /\ \A i \in 1..n : kid(b)[i] = z[i]
        /\ Last(kid(b)) = b
    BY <1>z, <1>b, ChildIs
  <2>2. kid(b) \in Leaves
    BY <1>2, <2>1 DEF Leaves
  <2> QED
    BY <2>1, <2>2
<1>4. Children(z) = {kid(0), kid(1)}
  BY DEF Children
<1>5. \A w : w \in Children(z) <=> \E b \in {0, 1} : w = kid(b)
  BY <1>4
<1>6. ASSUME NEW b \in {0, 1}, NEW w, Len(w) \in Nat
      PROVE  Within(w, kid(b)) <=> Within(w, z) /\ Len(w) > n /\ w[level] = b
  BY <1>z, <1>b, <1>6, InChild
<1> HIDE DEF kid, level
<1>7. ASSUME NEW b \in {0, 1}
      PROVE  kid(b) \notin DOMAIN t
  <2>1. Len(kid(b)) \in Nat /\ Within(kid(b), kid(b))
    BY <1>2, <1>3 DEF Within
  <2>2. Within(kid(b), z)
    BY <1>6, <2>1
  <2>3. kid(b) # z
    BY <1>b, <1>2, <1>3
  <2> QED
    BY <2>2, <2>3 DEF Tree, Apart
<1>8. DOMAIN s = Cut
  BY DEF Split
<1>9. ASSUME NEW y \in DOMAIN t, y # z
      PROVE  y \in Cut /\ s[y] = t[y]
  BY <1>9 DEF Split
<1>10. ASSUME NEW b \in {0, 1}
       PROVE  kid(b) \in Cut /\ s[kid(b)] = Half(t[z], level, b)
  <2>1. kid(b) \in Cut
    BY <1>5
  <2>2. s[kid(b)] = Half(t[z], level, Last(kid(b)))
    <3>1. s = [y \in Cut |-> IF y \in DOMAIN t THEN t[y] ELSE Half(t[z], level, Last(y))]
      BY DEF Split, level, n
    <3> HIDE DEF s, Cut
    <3> QED
      BY <1>7, <2>1, <3>1
  <2> QED
    BY <1>3, <2>1, <2>2
<1>11. ASSUME NEW y \in Cut
       PROVE  (y \in DOMAIN t /\ y # z) \/ \E b \in {0, 1} : y = kid(b)
  BY <1>5
<1>s. s = [y \in Cut |-> s[y]]
  BY DEF Split
<1> HIDE DEF s, Cut
<1>12. Bin(t[z]) /\ \A i \in DOMAIN t[z] : Within(t[z][i].id, z)
  BY DEF Tree, Placed
<1>13. ASSUME NEW b \in {0, 1}
       PROVE  /\ Bin(s[kid(b)])
              /\ \A c : InList(c, s[kid(b)]) <=> InList(c, t[z]) /\ c.id[level] = b
  BY <1>10, <1>12, HalfIs
<1>14. \A y \in Cut : y \in Leaves /\ s[y] \in Seq(Peers) /\ Bin(s[y])
  <2> TAKE y \in Cut
  <2>1. CASE y \in DOMAIN t /\ y # z
    BY <1>0, <1>9, <2>1 DEF Tree, Placed
  <2>2. ASSUME NEW b \in {0, 1}, y = kid(b)
        PROVE  y \in Leaves /\ s[y] \in Seq(Peers) /\ Bin(s[y])
    BY <1>3, <1>13, <2>2 DEF Bin
  <2> QED
    BY <1>11, <2>1, <2>2
<1>15. s \in Trees
  <2>1. Cut \in SUBSET Leaves
    BY <1>14
  <2>2. s \in [Cut -> Seq(Peers)]
    BY <1>14, <1>s
  <2> QED
    BY <2>1, <2>2 DEF Trees
<1>16. ASSUME NEW y \in Leaves
       PROVE  Len(y) \in Nat /\ DOMAIN y = 1..Len(y)
  <2>1. Len(y) \in 0..(Depth - 1) /\ y \in [1..Len(y) -> {0, 1}]
    BY LeafIs
  <2> QED
    BY <1>1, <2>1
<1>17. Apart(s)
  <2>1. ASSUME NEW y \in Cut, NEW w \in Cut, Within(y, w)
        PROVE  y = w
    <3>1. CASE y \in DOMAIN t /\ w \in DOMAIN t
      BY <2>1, <3>1 DEF Tree, Apart
    <3>2. ASSUME NEW b \in {0, 1}, w = kid(b), y \in DOMAIN t, y # z
          PROVE  FALSE
      <4>1. Within(y, z)
        BY <1>0, <1>6, <1>16, <2>1, <3>2
      <4> QED
        BY <3>2, <4>1 DEF Tree, Apart
    <3>3. ASSUME NEW b \in {0, 1}, y = kid(b), w \in DOMAIN t, w # z
          PROVE  FALSE
      <4>1. Len(w) \in Nat /\ DOMAIN w = 1..Len(w) /\ Len(w) <= level /\ \A i \in 1..Len(w) : y[i] = w[i]
        BY <1>0, <1>3, <1>16, <2>1, <3>3 DEF Within
      <4>2. \A i \in 1..n : y[i] = z[i]
        BY <1>3, <3>3
      <4>3. CASE Len(w) <= n
        <5>1. \A i \in 1..Len(w) : i \in 1..n
          BY <1>2, <4>1, <4>3
        <5>2. Within(z, w)
          BY <1>b, <4>1, <4>2, <4>3, <5>1 DEF Within
        <5> QED
          BY <3>3, <5>2 DEF Tree, Apart
      <4>4. CASE n <= Len(w)
        <5>1. \A i \in 1..n : i \in 1..Len(w)
          BY <1>2, <4>1, <4>4
        <5>2. Within(w, z)
          BY <1>b, <1>z, <4>1, <4>2, <4>4, <5>1 DEF Within
        <5> QED
          BY <3>3, <5>2 DEF Tree, Apart
      <4> QED
        BY <1>2, <4>1, <4>3, <4>4
    <3>4. ASSUME NEW b \in {0, 1}, y = kid(b), NEW d \in {0, 1}, w = kid(d)
          PROVE  y = w
      <4>1. Within(kid(b), kid(d)) /\ Len(kid(b)) \in Nat
        BY <1>2, <1>3, <2>1, <3>4
      <4>2. kid(b)[level] = d
        BY <1>6, <4>1
      <4> QED
        BY <1>3, <3>4, <4>2
    <3> QED
      BY <1>11, <3>1, <3>2, <3>3, <3>4
  <2> QED
    BY <1>8, <2>1 DEF Apart
<1>18. ASSUME NEW id \in Ids
       PROVE  Len(id) \in Nat /\ Len(id) > n /\ id[level] \in {0, 1}
  <2>1. Len(id) = Depth /\ \A i \in 1..Depth : id[i] \in {0, 1}
    BY IdIs
  <2> QED
    BY <1>1, <1>2, <1>b, <2>1
<1>19. Covers(s)
  <2>1. ASSUME NEW id \in Ids
        PROVE  \E y \in Cut : Within(id, y)
    <3>1. PICK y \in DOMAIN t : Within(id, y)
      BY DEF Tree, Covers
    <3>2. CASE y # z
      BY <1>9, <3>1, <3>2
    <3>3. CASE y = z
      <4>1. Within(id, kid(id[level]))
        BY <1>6, <1>18, <3>1, <3>3
      <4> QED
        BY <1>10, <1>18, <4>1
    <3> QED
      BY <3>2, <3>3
  <2> QED
    BY <1>8, <2>1 DEF Covers
<1>20. \A c : InList(c, t[z]) => c \in Peers /\ c.id \in Ids /\ Within(c.id, z)
  BY <1>12 DEF InList, Bin, RoutingAssumption
<1>21. Placed(s)
  <2>1. ASSUME NEW y \in Cut, NEW i \in DOMAIN s[y]
        PROVE  Within(s[y][i].id, y)
    <3>1. CASE y \in DOMAIN t /\ y # z
      BY <1>9, <2>1, <3>1 DEF Tree, Placed
    <3>2. ASSUME NEW b \in {0, 1}, y = kid(b)
          PROVE  Within(s[y][i].id, y)
      <4> DEFINE c == s[y][i]
      <4>1. InList(c, s[kid(b)])
        BY <2>1, <3>2 DEF InList
      <4> HIDE DEF c
      <4>2. InList(c, t[z]) /\ c.id[level] = b
        BY <1>13, <4>1
      <4>3. Within(c.id, kid(b))
        BY <1>6, <1>18, <1>20, <4>2
      <4> QED
        BY <3>2, <4>3 DEF c
    <3> QED
      BY <1>11, <3>1, <3>2
  <2> QED
    BY <1>8, <1>14, <2>1 DEF Placed
<1>22. ASSUME NEW c
       PROVE  c \in Of(s) <=> c \in Of(t)
  <2>1. ASSUME NEW y \in Cut, InList(c, s[y])
        PROVE  \E w \in DOMAIN t : InList(c, t[w])
    BY <1>9, <1>11, <1>13, <2>1
  <2>2. ASSUME NEW w \in DOMAIN t, InList(c, t[w])
        PROVE  \E y \in Cut : InList(c, s[y])
    <3>1. CASE w # z
      BY <1>9, <2>2, <3>1
    <3>2. CASE w = z
      <4>1. InList(c, s[kid(c.id[level])])
        BY <1>13, <1>18, <1>20, <2>2, <3>2
      <4> QED
        BY <1>10, <1>18, <1>20, <2>2, <3>2, <4>1
    <3> QED
      BY <3>1, <3>2
  <2> QED
    BY <1>8, <2>1, <2>2, OfIs
<1>23. Of(s) = Of(t)
  BY <1>22
<1> QED
  BY <1>15, <1>17, <1>19, <1>21, <1>23 DEF Tree, s

(* A bin is put in the place of another.                                   *)
LEMMA BinReplaced ==
    ASSUME NEW t, Tree(t), NEW z \in DOMAIN t, NEW bin, Bin(bin),
           \A i \in DOMAIN bin : Within(bin[i].id, z)
    PROVE  Tree([t EXCEPT ![z] = bin])
<1> DEFINE s == [t EXCEPT ![z] = bin]
<1>1. DOMAIN t \subseteq Leaves /\ t \in [DOMAIN t -> Seq(Peers)]
  BY TreeIs DEF Tree
<1>2. /\ DOMAIN s = DOMAIN t /\ s[z] = bin /\ \A y \in DOMAIN t : y # z => s[y] = t[y]
      /\ s \in [DOMAIN t -> Seq(Peers)]
  BY <1>1 DEF Bin
<1> HIDE DEF s
<1>3. s \in Trees
  BY <1>1, <1>2 DEF Trees
<1>4. Apart(s) /\ Covers(s)
  BY <1>2 DEF Tree, Apart, Covers
<1>5. Placed(s)
  <2>1. ASSUME NEW y \in DOMAIN t
        PROVE  Bin(s[y]) /\ \A i \in DOMAIN s[y] : Within(s[y][i].id, y)
    <3>1. CASE y = z
      BY <1>2, <3>1
    <3>2. CASE y # z
      BY <1>2, <3>2 DEF Tree, Placed
    <3> QED
      BY <3>1, <3>2
  <2> QED
    BY <1>2, <2>1 DEF Placed
<1> QED
  BY <1>3, <1>4, <1>5 DEF Tree, s

-----------------------------------------------------------------------------
(* What the table does with a contact.                                     *)
LEMMA RoomIsTree ==
    ASSUME RoutingAssumption, NEW t, Tree(t), NEW c \in Peers
    PROVE  Tree(Room(t, c)) /\ Of(Room(t, c)) = Of(t)
<1> DEFINE z == LeafOf(t, c.id)
<1>1. c.id \in Ids
  BY DEF RoutingAssumption
<1>2. z \in DOMAIN t
  BY <1>1, LeafOfIs DEF Tree
<1>3. CASE Crowded(t[z], c) /\ CanSplit(t, z)
  <2>1. Len(z) < Depth - 1
    BY <1>3 DEF CanSplit
  <2>2. Room(t, c) = Split(t, z)
    BY <1>3 DEF Room
  <2> HIDE DEF z
  <2> QED
    BY <1>2, <2>1, <2>2, SplitIsTree
<1>4. CASE ~(Crowded(t[z], c) /\ CanSplit(t, z))
  <2>1. Room(t, c) = t
    BY <1>4 DEF Room
  <2> QED
    BY <2>1
<1> QED
  BY <1>3, <1>4

LEMMA GrownIsTree ==
    ASSUME RoutingAssumption, Tree(bins), NEW c \in Peers
    PROVE  Tree(Grown(c)) /\ Of(Grown(c)) = Held
<1> DEFINE S == {t \in Trees : Tree(t) /\ Of(t) = Held}
           Moves == [i \in 1..Depth |-> [t \in S |-> Room(t, c)]]
<1>1. Depth \in Nat /\ \A i \in 1..Depth : i # 0 /\ i \in 0..Depth /\ i - 1 \in 0..Depth
  BY DEF RoutingAssumption
<1>2. bins \in S
  BY DEF Tree, Held, Of, Zones
<1>3. \A t \in S : Room(t, c) \in S
  BY RoomIsTree DEF Tree
<1> HIDE DEF S
<1>4. Moves \in [1..Depth -> [S -> S]]
  BY <1>3
<1> HIDE DEF Moves
<1>5. PICK g : Recursive(g, S, bins, Depth, Moves)
  BY <1>1, <1>2, <1>4, RecursionExists
<1>6. g \in [0..Depth -> S] /\ g[0] = bins /\ \A i \in 1..Depth : g[i] = Moves[i][g[i - 1]]
  BY <1>5 DEF Recursive
<1>7. \A i \in 1..Depth : g[i] = Room(g[i - 1], c)
  BY <1>1, <1>6 DEF Moves
<1>8. \A i \in 0..Depth : i = 0 \/ i \in 1..Depth
  BY <1>1
<1>9. g = [i \in 0..Depth |-> IF i = 0 THEN bins ELSE Room(g[i - 1], c)]
  BY <1>1, <1>6, <1>7, <1>8
<1> DEFINE Is(h) == h = [i \in 0..Depth |-> IF i = 0 THEN bins ELSE Room(h[i - 1], c)]
           grow == CHOOSE h : Is(h)
<1>10. Is(grow)
  <2>1. Is(g)
    BY <1>9
  <2> HIDE DEF Is
  <2> QED
    BY <2>1
<1>11. Grown(c) = grow[Depth]
  BY DEF Grown
<1> HIDE DEF grow
<1>12. \A i \in 0..Depth : grow[i] \in S
  <2> DEFINE T == {i \in 0..Depth : grow[i] \in S}
  <2>1. 0 \in T
    BY <1>1, <1>2, <1>10
  <2>2. ASSUME NEW i \in 0..(Depth - 1), i \in T
        PROVE  i + 1 \in T
    <3>1. i + 1 \in 0..Depth /\ i + 1 # 0 /\ (i + 1) - 1 = i
      BY <1>1
    <3>2. grow[i + 1] = Room(grow[i], c)
      BY <1>10, <3>1
    <3> QED
      BY <1>3, <2>2, <3>1, <3>2
  <2> HIDE DEF T
  <2>3. \A i \in 0..Depth : i \in T
    BY <1>1, <2>1, <2>2, NumbersUpTo
  <2> QED
    BY <2>3 DEF T
<1>13. Depth \in 0..Depth
  BY <1>1
<1> QED
  BY <1>11, <1>12, <1>13 DEF S

(* Nobody leaves for another: who is known stays known by the ID.          *)
Stay(t, u) == \A c \in Of(t) : \E d \in Of(u) : d.id = c.id

LEMMA BinUpdated ==
    ASSUME RoutingAssumption, NEW t, Tree(t), NEW z \in DOMAIN t, NEW bin, NEW c \in Peers, Within(c.id, z), Bin(bin),
           \A x : InList(x, bin) <=> x = c \/ (InList(x, t[z]) /\ x.id # c.id)
    PROVE  Tree([t EXCEPT ![z] = bin]) /\ Stay(t, [t EXCEPT ![z] = bin])
<1> DEFINE s == [t EXCEPT ![z] = bin]
<1>1. t \in [DOMAIN t -> Seq(Peers)]
  BY TreeIs DEF Tree
<1>2. DOMAIN s = DOMAIN t /\ s[z] = bin /\ \A y \in DOMAIN t : y # z => s[y] = t[y]
  BY <1>1
<1>3. \A i \in DOMAIN bin : Within(bin[i].id, z)
  <2> TAKE i \in DOMAIN bin
  <2>1. InList(bin[i], bin)
    BY DEF InList
  <2>2. ASSUME InList(bin[i], t[z])
        PROVE  Within(bin[i].id, z)
    BY <2>2 DEF Tree, Placed, InList
  <2> QED
    BY <2>1, <2>2
<1>4. Tree(s)
  BY <1>3, BinReplaced
<1> HIDE DEF s
<1>5. ASSUME NEW x \in Of(t)
      PROVE  \E d \in Of(s) : d.id = x.id
  <2>1. PICK y \in DOMAIN t : InList(x, t[y])
    BY OfIs
  <2>2. CASE y # z
    <3>1. x \in Of(s)
      BY <1>2, <2>1, <2>2, OfIs
    <3> QED
      BY <3>1
  <2>3. CASE y = z
    <3>1. InList(c, s[z]) /\ (x.id # c.id => InList(x, s[z]))
      BY <1>2, <2>1, <2>3
    <3>2. c \in Of(s) /\ (x.id # c.id => x \in Of(s))
      BY <1>2, <3>1, OfIs
    <3> QED
      BY <3>2
  <2> QED
    BY <2>2, <2>3
<1> QED
  BY <1>4, <1>5 DEF Stay, s

LEMMA AddedIsTree ==
    ASSUME RoutingAssumption, Tree(bins), NEW c \in Peers
    PROVE  Tree(Added(c)) /\ Stay(bins, Added(c))
<1> DEFINE t == Grown(c)
           z == LeafOf(t, c.id)
<1>1. Tree(t) /\ Of(t) = Of(bins)
  BY GrownIsTree DEF Held, Of, Zones
<1>2. Added(c) = IF Crowded(t[z], c) THEN t ELSE [t EXCEPT ![z] = Refreshed(t[z], c)]
  BY DEF Added
<1> HIDE DEF t
<1>3. z \in DOMAIN t /\ Within(c.id, z)
  BY <1>1, LeafOfIs DEF Tree, RoutingAssumption
<1> HIDE DEF z
<1>4. Bin(t[z])
  BY <1>1, <1>3 DEF Tree, Placed
<1> DEFINE b == Refreshed(t[z], c)
<1>5. Bin(b) /\ \A x : InList(x, b) <=> x = c \/ (InList(x, t[z]) /\ x.id # c.id)
  BY <1>4, RefreshedIs
<1> HIDE DEF b
<1>6. Tree([t EXCEPT ![z] = b]) /\ Stay(t, [t EXCEPT ![z] = b])
  BY <1>1, <1>3, <1>5, BinUpdated
<1>7. Stay(bins, t) /\ Stay(bins, [t EXCEPT ![z] = b])
  BY <1>1, <1>6 DEF Stay
<1> QED
  BY <1>1, <1>2, <1>6, <1>7 DEF b

LEMMA MarkIsTree ==
    ASSUME RoutingAssumption, Tree(bins), NEW key, MarkAlive(key)
    PROVE  Tree(bins') /\ Stay(bins, bins')
<1>1. PICK z \in Zones : \E i \in DOMAIN bins[z] : bins' = [bins EXCEPT ![z] = Moved(bins[z], i, bins[z][i])]
  BY DEF MarkAlive
<1>i. PICK i \in DOMAIN bins[z] : bins' = [bins EXCEPT ![z] = Moved(bins[z], i, bins[z][i])]
  BY <1>1
<1> DEFINE c == bins[z][i]
           b == Moved(bins[z], i, c)
<1>2. bins' = [bins EXCEPT ![z] = b] /\ z \in DOMAIN bins
  BY <1>i DEF Zones
<1>3. Bin(bins[z]) /\ Within(c.id, z)
  BY <1>2 DEF Tree, Placed
<1>4. c \in Peers
  BY <1>3 DEF Bin
<1>5. Bin(b) /\ \A x : InList(x, b) <=> x = c \/ (InList(x, bins[z]) /\ x.id # c.id)
  BY <1>3, <1>4, MovedIs
<1> HIDE DEF b, c
<1> QED
  BY <1>2, <1>3, <1>4, <1>5, BinUpdated

LEMMA RoutingStart == RoutingAssumption /\ RoutingInit => Tree(bins)
<1> SUFFICES ASSUME RoutingAssumption, RoutingInit
             PROVE  Tree(bins)
  OBVIOUS
<1>1. DOMAIN bins = {<<>>} /\ bins[<<>>] = <<>> /\ bins \in [{<<>>} -> Seq(Peers)]
  <2>1. bins = [z \in {<<>>} |-> <<>>]
    BY DEF RoutingInit
  <2> QED
    BY <2>1
<1>2. <<>> \in Leaves
  <2>1. 0 \in 0..(Depth - 1)
    BY DEF RoutingAssumption
  <2>2. <<>> \in [1..0 -> {0, 1}]
    OBVIOUS
  <2> QED
    BY <2>1, <2>2 DEF Leaves
<1>3. bins \in Trees
  BY <1>1, <1>2 DEF Trees
<1>4. Apart(bins)
  BY <1>1 DEF Apart
<1>5. Covers(bins)
  <2>1. ASSUME NEW id \in Ids
        PROVE  Within(id, <<>>)
    <3>1. Len(id) = Depth /\ Depth \in Nat
      BY IdIs DEF RoutingAssumption
    <3> QED
      BY <3>1 DEF Within
  <2> QED
    BY <1>1, <2>1 DEF Covers
<1>6. Placed(bins)
  BY <1>1 DEF Placed, Bin
<1> QED
  BY <1>3, <1>4, <1>5, <1>6 DEF Tree

LEMMA RoutingStep == RoutingAssumption /\ Tree(bins) /\ [RoutingNext]_bins => Tree(bins)' /\ Stay(bins, bins')
<1> SUFFICES ASSUME RoutingAssumption, Tree(bins), [RoutingNext]_bins
             PROVE  Tree(bins') /\ Stay(bins, bins')
  OBVIOUS
<1>1. ASSUME NEW c \in Peers, Add(c)
      PROVE  Tree(bins') /\ Stay(bins, bins')
  BY <1>1, AddedIsTree DEF Add
<1>2. ASSUME NEW c \in Peers, MarkAlive(c.key)
      PROVE  Tree(bins') /\ Stay(bins, bins')
  BY <1>2, MarkIsTree
<1>3. CASE UNCHANGED bins
  BY <1>3 DEF Stay
<1> QED
  BY <1>1, <1>2, <1>3 DEF RoutingNext

-----------------------------------------------------------------------------
(* What is collected.                                                      *)
Under(z) == {c \in Held : Within(c.id, z)}

(* A zone of the tree, split or not.                                       *)
Node(z) == \E y \in Zones : Within(y, z)

LEMMA HeldArePeers ==
    ASSUME RoutingAssumption, Tree(bins), NEW c \in Held
    PROVE  c \in Peers /\ c.id \in Ids
<1>1. PICK z \in DOMAIN bins : InList(c, bins[z])
  BY OfIs DEF Held, Of, Zones
<1>2. bins[z] \in Seq(Peers)
  BY DEF Tree, Placed, Bin
<1> QED
  BY <1>1, <1>2 DEF InList, RoutingAssumption

LEMMA LeafHoldsIts ==
    ASSUME RoutingAssumption, Tree(bins), NEW z \in Zones
    PROVE  Under(z) = Range(bins[z])
<1>1. DOMAIN bins \subseteq Leaves /\ z \in DOMAIN bins
  BY TreeIs DEF Tree, Zones
<1>2. ASSUME NEW c \in Range(bins[z])
      PROVE  c \in Under(z)
  <2>1. c \in Held
    BY <1>1, <1>2 DEF Held, Zones
  <2>2. Within(c.id, z)
    BY <1>1, <1>2 DEF Range, Tree, Placed
  <2> QED
    BY <2>1, <2>2 DEF Under
<1>3. ASSUME NEW c \in Under(z)
      PROVE  c \in Range(bins[z])
  <2>1. c \in Held /\ Within(c.id, z)
    BY <1>3 DEF Under
  <2>2. PICK y \in DOMAIN bins : c \in Range(bins[y])
    BY <2>1 DEF Held, Zones
  <2>3. Within(c.id, y)
    BY <2>2 DEF Range, Tree, Placed
  <2>4. Within(y, z) \/ Within(z, y)
    BY <1>1, <2>1, <2>3, HeldArePeers, OneLeaf
  <2>5. y = z
    BY <1>1, <2>4 DEF Tree, Apart
  <2> QED
    BY <2>2, <2>5
<1> QED
  BY <1>2, <1>3

LEMMA InnerSplits ==
    ASSUME RoutingAssumption, Tree(bins), NEW z \in Branches, z \notin Zones, Node(z), NEW b \in {0, 1}
    PROVE  Len(z) < Depth /\ Node(Append(z, b))
<1> DEFINE n == Len(z)
<1>1. Depth \in Nat
  BY DEF RoutingAssumption
<1>2. n \in 0..Depth /\ z \in [1..n -> {0, 1}] /\ z \in Seq({0, 1})
  BY BranchIs
<1>b. Len(z) = n
  OBVIOUS
<1> HIDE DEF n
<1>3. DOMAIN bins \subseteq Leaves
  BY TreeIs DEF Tree
<1>4. PICK y \in DOMAIN bins : Within(y, z)
  BY DEF Node, Zones
<1>5. ASSUME NEW w \in DOMAIN bins
      PROVE  Len(w) \in Nat /\ Len(w) < Depth /\ DOMAIN w = 1..Len(w) /\ w \in [1..Len(w) -> {0, 1}]
  <2>1. w \in Leaves
    BY <1>3
  <2>2. Len(w) \in 0..(Depth - 1) /\ w \in [1..Len(w) -> {0, 1}]
    BY <2>1, LeafIs
  <2> QED
    BY <1>1, <2>2
<1>6. n \in Nat /\ n <= Len(y) /\ DOMAIN z = 1..n /\ \A i \in 1..n : y[i] = z[i]
  BY <1>1, <1>2, <1>4, <1>b DEF Within
<1>7. n # Len(y)
  <2> SUFFICES ASSUME n = Len(y)
               PROVE  FALSE
    OBVIOUS
  <2>1. y \in [1..n -> {0, 1}]
    BY <1>5
  <2>2. y = z
    BY <1>2, <1>6, <2>1
  <2> QED
    BY <2>2 DEF Zones
<1>8. n < Len(y) /\ n < Depth
  BY <1>5, <1>6, <1>7
<1> DEFINE id == [i \in 1..Depth |-> IF i <= n THEN z[i] ELSE b]
<1>9. id \in Ids
  <2>1. \A i \in 1..Depth : i <= n => z[i] \in {0, 1}
    BY <1>2, <1>6
  <2> QED
    BY <2>1 DEF Ids
<1>10. /\ \A i \in 1..n : id[i] = z[i]
       /\ id[n + 1] = b
  <2>1. n + 1 \in 1..Depth /\ ~(n + 1 <= n) /\ \A i \in 1..n : i \in 1..Depth /\ i <= n
    BY <1>1, <1>6, <1>8
  <2> QED
    BY <2>1
<1> HIDE DEF id
<1>11. PICK w \in DOMAIN bins : Within(id, w)
  BY <1>9 DEF Tree, Covers
<1>12. \A i \in 1..Len(w) : w[i] = id[i]
  BY <1>5, <1>11 DEF Within
<1>13. n < Len(w)
  <2> SUFFICES ASSUME Len(w) <= n
               PROVE  FALSE
    BY <1>5, <1>6
  <2>1. Len(w) <= Len(y) /\ \A i \in 1..Len(w) : i \in 1..n
    BY <1>5, <1>6
  <2>2. \A i \in 1..Len(w) : y[i] = w[i]
    BY <1>6, <1>10, <1>12, <2>1
  <2>3. Within(y, w)
    BY <1>5, <2>1, <2>2 DEF Within
  <2>4. y = w
    BY <2>3 DEF Tree, Apart
  <2> QED
    BY <1>5, <1>6, <1>8, <2>4
<1>14. n + 1 \in 1..Len(w) /\ n <= Len(w) /\ \A i \in 1..n : i \in 1..Len(w)
  BY <1>5, <1>6, <1>13
<1>15. w[n + 1] = b /\ \A i \in 1..n : w[i] = z[i]
  BY <1>10, <1>12, <1>14
<1>16. Within(w, z)
  BY <1>6, <1>14, <1>15, <1>b DEF Within
<1>17. Within(w, Append(z, b))
  BY <1>2, <1>5, <1>13, <1>15, <1>16, <1>b, InChild
<1> QED
  BY <1>8, <1>17, <1>b DEF Node, Zones

(* The half that holds the target is nearer.                               *)
LEMMA HalvesOf ==
    ASSUME RoutingAssumption, Tree(bins), NEW target \in Ids, NEW z \in Branches, Len(z) < Depth,
           NEW side \in {0, 1}, side = target[Len(z) + 1]
    PROVE  LET U == Under(Append(z, side))
               V == Under(Append(z, 1 - side))
           IN  /\ Under(z) = U \cup V
               /\ \A a \in U, b \in V : Closer(target, a.id, b.id) /\ ~Closer(target, b.id, a.id)
<1> DEFINE n == Len(z)
           U == Under(Append(z, side))
           V == Under(Append(z, 1 - side))
<1>1. Depth \in Nat
  BY DEF RoutingAssumption
<1>2. n \in 0..Depth /\ z \in [1..n -> {0, 1}] /\ z \in Seq({0, 1})
  BY BranchIs
<1>b. Len(z) = n /\ n < Depth
  OBVIOUS
<1> HIDE DEF n
<1>3. DOMAIN z = 1..n /\ n \in Nat /\ n + 1 \in 1..Depth
  BY <1>1, <1>2, <1>b
<1>4. (n + 1) - 1 = n
  BY <1>3
<1>5. ASSUME NEW c \in Held
      PROVE  c.id \in Ids /\ Len(c.id) \in Nat /\ Len(c.id) > n /\ c.id[n + 1] \in {0, 1}
  <2>1. c.id \in Ids
    BY HeldArePeers
  <2>2. Len(c.id) = Depth /\ \A i \in 1..Depth : c.id[i] \in {0, 1}
    BY <2>1, IdIs
  <2> QED
    BY <1>1, <1>3, <1>b, <2>1, <2>2
<1>6. 1 - side \in {0, 1} /\ 1 - side # side /\ \A x \in {0, 1} : x = side \/ x = 1 - side
  OBVIOUS
<1>7. ASSUME NEW c \in Held, NEW b \in {0, 1}
      PROVE  c \in Under(Append(z, b)) <=> c \in Under(z) /\ c.id[n + 1] = b
  <2>1. Within(c.id, Append(z, b)) <=> Within(c.id, z) /\ Len(c.id) > n /\ c.id[n + 1] = b
    BY <1>2, <1>5, <1>b, InChild
  <2> QED
    BY <1>5, <2>1 DEF Under
<1>8. Under(z) \subseteq Held /\ U \subseteq Held /\ V \subseteq Held
  BY DEF Under
<1>9. \A c \in Held : (c \in U <=> c \in Under(z) /\ c.id[n + 1] = side) /\ (c \in V <=> c \in Under(z) /\ c.id[n + 1] = 1 - side)
  BY <1>6, <1>7
<1> HIDE DEF U, V
<1>10. Under(z) = U \cup V
  <2>1. \A c \in Held : c \in Under(z) <=> c \in U \/ c \in V
    BY <1>5, <1>6, <1>9
  <2> QED
    BY <1>8, <2>1
<1>11. ASSUME NEW a \in U, NEW b \in V
       PROVE  Closer(target, a.id, b.id) /\ ~Closer(target, b.id, a.id)
  <2>1. a.id[n + 1] = target[n + 1] /\ b.id[n + 1] # target[n + 1]
    BY <1>6, <1>8, <1>9, <1>b
  <2>2. \A i \in 1..n : a.id[i] = z[i] /\ b.id[i] = z[i]
    BY <1>3, <1>8, <1>9 DEF Under, Within
  <2>3. Closer(target, a.id, b.id)
    BY <1>3, <1>4, <2>1, <2>2 DEF Closer
  <2>4. a.id \in Ids /\ b.id \in Ids
    BY <1>5, <1>8
  <2> QED
    BY <2>3, <2>4, CloserOrders
<1> QED
  BY <1>10, <1>11 DEF U, V

(* The collecting of a zone, when that of its halves is right.             *)
CollectedBelow(near, n, target, count) ==
    \A z \in Branches : Node(z) /\ Len(z) + n >= Depth => Best(near[z], Under(z), target, count)

LEMMA CollectIsRight ==
    ASSUME RoutingAssumption, Tree(bins), NEW target \in Ids, NEW count \in Nat,
           NEW near \in [Branches -> Seq(Peers)], NEW n \in Nat, CollectedBelow(near, n, target, count)
    PROVE  CollectedBelow(Collect(near, target, count), n + 1, target, count)
<1> SUFFICES ASSUME NEW z \in Branches, Node(z), Len(z) + (n + 1) >= Depth
             PROVE  Best(Collect(near, target, count)[z], Under(z), target, count)
  BY DEF CollectedBelow
<1>1. CASE z \in Zones
  <2>1. Collect(near, target, count)[z] = Nearest(bins[z], target)
    BY <1>1 DEF Collect
  <2>2. Bin(bins[z])
    BY <1>1 DEF Tree, Placed, Zones
  <2>3. Best(Nearest(bins[z], target), Range(bins[z]), target, count)
    BY <2>2, NearestIsBest
  <2> QED
    BY <1>1, <2>1, <2>3, LeafHoldsIts
<1>2. CASE z \notin Zones
  <2> DEFINE side == target[Len(z) + 1]
             U == Under(Append(z, side))
             V == Under(Append(z, 1 - side))
             s == near[Append(z, side)]
             r == near[Append(z, 1 - side)]
  <2>1. Len(z) < Depth /\ \A b \in {0, 1} : Node(Append(z, b))
    BY <1>2, InnerSplits
  <2>2. Len(z) \in 0..Depth /\ z \in Seq({0, 1}) /\ Depth \in Nat
    BY BranchIs DEF RoutingAssumption
  <2>3. Len(z) + 1 \in 1..Depth /\ Len(z) # Depth
    BY <2>1, <2>2
  <2>4. side \in {0, 1} /\ 1 - side \in {0, 1}
    BY <2>3, IdIs
  <2>5. ASSUME NEW b \in {0, 1}
        PROVE  Append(z, b) \in Branches /\ Len(Append(z, b)) + n >= Depth
    <3>1. Len(Append(z, b)) = Len(z) + 1 /\ Append(z, b) \in [1..(Len(z) + 1) -> {0, 1}]
      BY <2>2, ChildIs
    <3>2. Len(z) + 1 \in 0..Depth /\ (Len(z) + 1) + n >= Depth
      BY <2>1, <2>2
    <3> QED
      BY <3>1, <3>2 DEF Branches
  <2>6. Best(s, U, target, count) /\ Best(r, V, target, count)
    BY <2>1, <2>4, <2>5 DEF CollectedBelow
  <2>7. /\ Under(z) = U \cup V
        /\ \A a \in U, b \in V : Closer(target, a.id, b.id) /\ ~Closer(target, b.id, a.id)
    BY <2>1, <2>4, HalvesOf
  <2>8. Collect(near, target, count)[z] = IF Len(s) >= count THEN s ELSE s \o r
    BY <1>2, <2>3 DEF Collect
  <2> HIDE DEF U, V, s, r, side
  <2>9. Best(IF Len(s) >= count THEN s ELSE s \o r, U \cup V, target, count)
    BY <2>6, <2>7, NearFirst
  <2> QED
    BY <2>7, <2>8, <2>9
<1> QED
  BY <1>1, <1>2

LEMMA CollectIsTyped ==
    ASSUME RoutingAssumption, Tree(bins), NEW target \in Ids, NEW count \in Nat, NEW near \in [Branches -> Seq(Peers)]
    PROVE  Collect(near, target, count) \in [Branches -> Seq(Peers)]
<1> DEFINE s == Collect(near, target, count)
<1>1. ASSUME NEW z \in Branches
      PROVE  s[z] \in Seq(Peers)
  <2>1. CASE z \in Zones
    <3>1. s[z] = Nearest(bins[z], target)
      BY <2>1 DEF Collect
    <3>2. Bin(bins[z])
      BY <2>1 DEF Tree, Placed, Zones
    <3>3. Nearest(bins[z], target) \in Seq(Range(bins[z]))
      BY <3>2, NearestIsBest DEF Best
    <3>4. Range(bins[z]) \subseteq Peers
      BY <3>2 DEF Bin, Range
    <3> HIDE DEF s
    <3>5. s[z] \in Seq(Peers)
      BY <3>1, <3>3, <3>4
    <3> QED
      BY <3>5
  <2>2. CASE z \notin Zones /\ Len(z) = Depth
    BY <2>2 DEF Collect
  <2>3. CASE z \notin Zones /\ Len(z) # Depth
    <3> DEFINE side == target[Len(z) + 1]
    <3>1. Len(z) \in 0..Depth /\ z \in Seq({0, 1}) /\ Depth \in Nat
      BY BranchIs DEF RoutingAssumption
    <3>2. Len(z) + 1 \in 1..Depth /\ Len(z) + 1 \in 0..Depth
      BY <2>3, <3>1
    <3>3. side \in {0, 1} /\ 1 - side \in {0, 1}
      BY <3>2, IdIs
    <3>4. \A b \in {0, 1} : Append(z, b) \in Branches
      BY <3>1, <3>2, ChildIs DEF Branches
    <3>5. s[z] = IF Len(near[Append(z, side)]) >= count THEN near[Append(z, side)]
                 ELSE near[Append(z, side)] \o near[Append(z, 1 - side)]
      BY <2>3 DEF Collect
    <3> HIDE DEF s, side
    <3>6. near[Append(z, side)] \in Seq(Peers) /\ near[Append(z, 1 - side)] \in Seq(Peers)
      BY <3>3, <3>4
    <3> QED
      BY <3>5, <3>6
  <2> QED
    BY <2>1, <2>2, <2>3
<1>2. s = [z \in Branches |-> s[z]]
  BY DEF Collect
<1> HIDE DEF s
<1> QED
  BY <1>1, <1>2 DEF s

LEMMA CollectedIsBest ==
    ASSUME RoutingAssumption, Tree(bins), NEW target \in Ids, NEW count \in Nat
    PROVE  Best(Collected(target, count), Held, target, count)
<1> DEFINE M == [Branches -> Seq(Peers)]
           b == [z \in Branches |-> <<>>]
           Moves == [i \in 1..Depth |-> [m \in M |-> Collect(m, target, count)]]
<1>1. Depth \in Nat /\ \A i \in 1..Depth : i # 0 /\ i \in 0..Depth /\ i - 1 \in 0..Depth
  BY DEF RoutingAssumption
<1>2. b \in M
  OBVIOUS
<1>3. \A m \in M : Collect(m, target, count) \in M
  BY CollectIsTyped
<1> HIDE DEF M
<1>4. Moves \in [1..Depth -> [M -> M]]
  BY <1>3
<1> HIDE DEF Moves, b
<1>5. PICK g : Recursive(g, M, b, Depth, Moves)
  BY <1>1, <1>2, <1>4, RecursionExists
<1>6. g \in [0..Depth -> M] /\ g[0] = b /\ \A i \in 1..Depth : g[i] = Moves[i][g[i - 1]]
  BY <1>5 DEF Recursive
<1>7. \A i \in 1..Depth : g[i] = Collect(g[i - 1], target, count)
  BY <1>1, <1>6 DEF Moves
<1>8. \A i \in 0..Depth : i = 0 \/ i \in 1..Depth
  BY <1>1
<1>9. g = [i \in 0..Depth |-> IF i = 0 THEN b ELSE Collect(g[i - 1], target, count)]
  BY <1>1, <1>6, <1>7, <1>8
<1> DEFINE Is(h) == h = [i \in 0..Depth |-> IF i = 0 THEN b ELSE Collect(h[i - 1], target, count)]
           near == CHOOSE h : Is(h)
<1>10. Is(near)
  <2>1. Is(g)
    BY <1>9
  <2> HIDE DEF Is
  <2> QED
    BY <2>1
<1>11. Collected(target, count) = near[Depth][<<>>]
  BY DEF Collected, b
<1> HIDE DEF near
<1>12. \A i \in 0..Depth : near[i] \in M /\ CollectedBelow(near[i], i, target, count)
  <2> DEFINE T == {i \in 0..Depth : near[i] \in M /\ CollectedBelow(near[i], i, target, count)}
  <2>1. 0 \in T
    <3>1. near[0] = b /\ 0 \in 0..Depth
      BY <1>1, <1>10
    <3>2. ASSUME NEW z \in Branches, Node(z), Len(z) + 0 >= Depth
          PROVE  FALSE
      <4>1. PICK y \in DOMAIN bins : Within(y, z)
        BY <3>2 DEF Node, Zones
      <4>2. y \in Leaves
        BY TreeIs DEF Tree
      <4>3. Len(y) \in 0..(Depth - 1) /\ Len(z) \in 0..Depth
        BY <4>2, LeafIs, BranchIs
      <4>4. Len(z) <= Len(y)
        BY <4>1 DEF Within
      <4> QED
        BY <1>1, <3>2, <4>3, <4>4
    <3>3. CollectedBelow(near[0], 0, target, count)
      BY <3>2 DEF CollectedBelow
    <3> QED
      BY <1>2, <3>1, <3>3
  <2>2. ASSUME NEW i \in 0..(Depth - 1), i \in T
        PROVE  i + 1 \in T
    <3>1. i \in Nat /\ i + 1 \in 0..Depth /\ i + 1 # 0 /\ (i + 1) - 1 = i
      BY <1>1
    <3>2. near[i + 1] = Collect(near[i], target, count)
      BY <1>10, <3>1
    <3>3. near[i] \in M /\ CollectedBelow(near[i], i, target, count)
      BY <2>2
    <3>4. CollectedBelow(near[i + 1], i + 1, target, count)
      BY <3>1, <3>2, <3>3, CollectIsRight DEF M
    <3> QED
      BY <1>3, <3>1, <3>2, <3>3, <3>4
  <2> HIDE DEF T
  <2>3. \A i \in 0..Depth : i \in T
    BY <1>1, <2>1, <2>2, NumbersUpTo
  <2> QED
    BY <2>3 DEF T
<1>13. CollectedBelow(near[Depth], Depth, target, count)
  BY <1>1, <1>12
<1> DEFINE root == <<>>
<1>14. root \in Branches /\ Len(root) = 0
  <2>1. 0 \in 0..Depth /\ root \in [1..0 -> {0, 1}]
    BY <1>1
  <2> QED
    BY <2>1 DEF Branches
<1>15. Node(root)
  <2>1. PICK y \in DOMAIN bins : Within(target, y)
    BY DEF Tree, Covers
  <2>2. y \in Leaves
    BY TreeIs DEF Tree
  <2>3. Len(y) \in Nat
    BY <1>1, <2>2, LeafIs
  <2> QED
    BY <2>3 DEF Node, Within, Zones
<1>16. Under(root) = Held
  <2>1. ASSUME NEW c \in Held
        PROVE  Within(c.id, root)
    <3>1. Len(c.id) = Depth
      BY HeldArePeers, IdIs
    <3> QED
      BY <1>1, <3>1 DEF Within
  <2> QED
    BY <2>1 DEF Under
<1>17. Len(root) + Depth >= Depth
  BY <1>1, <1>14
<1> HIDE DEF root
<1>18. Best(near[Depth][root], Under(root), target, count)
  BY <1>13, <1>14, <1>15, <1>17 DEF CollectedBelow
<1> QED
  BY <1>11, <1>16, <1>18 DEF root

LEMMA TreeGivesClosest == RoutingAssumption /\ Tree(bins) => ClosestIsClosest
<1> SUFFICES ASSUME RoutingAssumption, Tree(bins), NEW target \in Ids
             PROVE  LET best == closest(target, K) IN
                       /\ Len(best) = (IF Cardinality(Held) < K THEN Cardinality(Held) ELSE K)
                       /\ \A i \in DOMAIN best :
                             Cardinality({c \in Held : Closer(target, c.id, best[i].id)}) = i - 1
  BY DEF ClosestIsClosest
<1> DEFINE all == Collected(target, K)
           n == Len(all)
           m == IF n < K THEN n ELSE K
           best == closest(target, K)
           N == Cardinality(Held)
<1>1. K \in Nat
  BY DEF RoutingAssumption
<1>2. Best(all, Held, target, K)
  BY <1>1, CollectedIsBest
<1>3. best = SubSeq(all, 1, m)
  BY DEF closest
<1> HIDE DEF all, best
<1>4. all \in Seq(Held)
  BY <1>2 DEF Best
<1>5. n \in Nat /\ DOMAIN all = 1..n /\ all \in [1..n -> Held]
  BY <1>4
<1>6. IsFiniteSet(Held) /\ N \in Nat
  <2>1. Held \in SUBSET Peers
    BY HeldArePeers
  <2>2. IsFiniteSet(Held)
    BY <2>1, FS_Subset DEF RoutingAssumption
  <2> QED
    BY <2>2, FS_CardinalityType
<1> HIDE DEF n, N
<1>7. ASSUME NEW i \in 1..n
      PROVE  all[i] \in Held /\ all[i].id \in Ids
  BY <1>5, HeldArePeers
<1>8. \A i, j \in 1..n : i < j => Closer(target, all[i].id, all[j].id)
  BY <1>2, <1>5 DEF Best
<1>9. ASSUME NEW i \in 1..n, NEW j \in 1..n, all[i] = all[j]
      PROVE  i = j
  <2>1. ~(i < j) /\ ~(j < i)
    BY <1>7, <1>8, <1>9, CloserOrders
  <2> QED
    BY <1>5, <2>1
<1>10. all \in Injection(1..n, Held)
  BY <1>5, <1>9 DEF Injection, IsInjective
<1>11. IsFiniteSet(1..n) /\ Cardinality(1..n) = n
  <2>1. 1 \in Int /\ n \in Int /\ (1 > n => n = 0) /\ (n - 1) + 1 = n
    BY <1>5
  <2> QED
    BY <2>1, FS_Interval
<1>12. n <= N /\ (all \in Surjection(1..n, Held) => n = N)
  BY <1>6, <1>10, <1>11, FS_Injection DEF N
<1>13. n >= K \/ n = N
  <2> SUFFICES ASSUME ~(n >= K)
               PROVE  n = N
    OBVIOUS
  <2>1. \A c \in Held : InList(c, all)
    BY <1>2 DEF Best, n
  <2>2. all \in Surjection(1..n, Held)
    BY <1>5, <2>1 DEF Surjection, InList
  <2> QED
    BY <1>12, <2>2
<1>14. m = (IF N < K THEN N ELSE K) /\ m \in Nat /\ m <= n
  BY <1>1, <1>5, <1>6, <1>12, <1>13
<1> HIDE DEF m
<1>15. Len(best) = m /\ DOMAIN best = 1..m /\ \A i \in 1..m : best[i] = all[i]
  BY <1>3, <1>4, <1>14 DEF n
<1>16. ASSUME NEW i \in 1..m
       PROVE  Cardinality({c \in Held : Closer(target, c.id, all[i].id)}) = i - 1
  <2> DEFINE C == {c \in Held : Closer(target, c.id, all[i].id)}
             f == [j \in 1..(i - 1) |-> all[j]]
  <2>1. i \in 1..n /\ i - 1 \in Nat /\ \A j \in 1..(i - 1) : j \in 1..n /\ j < i
    BY <1>5, <1>14
  <2>2. f \in [1..(i - 1) -> C]
    <3>1. \A j \in 1..(i - 1) : all[j] \in C
      BY <1>7, <1>8, <2>1
    <3> HIDE DEF C
    <3> QED
      BY <3>1
  <2>3. ASSUME NEW c \in C
        PROVE  \E j \in 1..(i - 1) : f[j] = c
    <3>1. PICK j \in 1..n : all[j] = c
      BY <1>2, <1>5, <2>1 DEF Best, InList
    <3>2. Closer(target, all[j].id, all[i].id)
      BY <3>1
    <3>3. ~(i < j) /\ i # j
      BY <1>7, <1>8, <2>1, <3>2, CloserOrders
    <3>4. j \in 1..(i - 1)
      BY <1>5, <2>1, <3>3
    <3> QED
      BY <3>1, <3>4
  <2>4. \A j, k \in 1..(i - 1) : f[j] = f[k] => j = k
    BY <1>9, <2>1
  <2> HIDE DEF C, f
  <2>5. f \in Bijection(1..(i - 1), C)
    BY <2>2, <2>3, <2>4 DEF Bijection, Injection, Surjection, IsInjective
  <2>6. Cardinality(C) = i - 1
    BY <2>1, <2>5, FS_CountingElements DEF ExistsBijection
  <2> QED
    BY <2>6 DEF C
<1> QED
  BY <1>14, <1>15, <1>16 DEF best, N

-----------------------------------------------------------------------------
(* RoutingZone.closest returns the closest contacts of the whole table,    *)
(* nearest first, for any width of IDs, any size of a bin and after any    *)
(* sequence of insertions, splits and confirmations.                       *)
THEOREM ClosestAreReturned ==
    ASSUME RoutingAssumption
    PROVE  RoutingSpec => []ClosestIsClosest
<1>1. RoutingInit => Tree(bins)
  BY RoutingStart
<1>2. Tree(bins) /\ [RoutingNext]_bins => Tree(bins)'
  BY RoutingStep
<1>3. Tree(bins) => ClosestIsClosest
  BY TreeGivesClosest
<1> QED
  BY <1>1, <1>2, <1>3, PTL DEF RoutingSpec

(* RoutingZone.add and mark_alive: no insertion, split or confirmation     *)
(* takes an ID out of the table.                                           *)
THEOREM NoneIsLost ==
    ASSUME RoutingAssumption
    PROVE  RoutingSpec => [][Stay(bins, bins')]_bins
<1>1. RoutingInit => Tree(bins)
  BY RoutingStart
<1>2. Tree(bins) /\ [RoutingNext]_bins => Tree(bins)'
  BY RoutingStep
<1>3. Tree(bins) /\ [RoutingNext]_bins => [Stay(bins, bins')]_bins
  BY RoutingStep
<1> QED
  BY <1>1, <1>2, <1>3, PTL DEF RoutingSpec

=============================================================================
