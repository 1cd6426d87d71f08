-------------------------------- MODULE Buddy --------------------------------
(***************************************************************************)
(* Serving buddies of core/kad.  A firewalled client (buddy_customer.py,   *)
(* driven by the spider loop) asks nodes for a slot over UDP, registers    *)
(* over TCP with the one that accepts, and waits there for relayed         *)
(* callbacks.  A buddy answers the request while it has room, registers    *)
(* the session in buddy.py's table and relays to the writer it finds       *)
(* there.  Both ends are this program.                                     *)
(* A client is known by its KadID; that an entry is stored under the ID    *)
(* and its complement is left out.  Callback requests come from nodes that *)
(* send them as KAD datagrams: send_kad_callback_req of this program puts  *)
(* the 0xC5 TCP framing in front, which the receiver does not take.        *)
(***************************************************************************)
EXTENDS Naturals, FiniteSets

CONSTANTS Clients, Buddies,
          Sessions,         \* bound: TCP connections that may exist at once
          MaxServed,        \* max_served
          NoBuddy, Free

\* A TCP connection; held: "no" before the HELLO is read, then "yes", then "over".
Session == [client : Clients, at : Buddies, open : BOOLEAN, held : {"no", "yes", "over"},
            callback : BOOLEAN]

ASSUME BuddyAssumption == Free \notin Sessions \cup Session

VARIABLES
    buddy,          \* client: buddy_ip
    reg,            \* client: run_registration: "none", "started", "hello", "relay"
    over,           \* client: the connection of run_registration
    due,            \* client: BUDDY_REQ_INTERVAL_S since last_buddy_req
    net,            \* datagrams: each may arrive late, twice or never
    tcp,            \* [Sessions -> Session \cup {Free}]
    served,         \* buddy: registry, client -> session or Free
    last            \* history: the session of a client that registered last at a buddy

client == <<buddy, reg, over, due>>
buddyVars == <<client, net, tcp, served, last>>

Ends(s) == [s EXCEPT !.open = FALSE]
Unused == {i \in Sessions : tcp[i] = Free \/ (~tcp[i].open /\ tcp[i].held = "over")}

BuddyInit ==
    /\ buddy = [c \in Clients |-> NoBuddy] /\ reg = [c \in Clients |-> "none"]
    /\ over = [c \in Clients |-> Free] /\ due = [c \in Clients |-> TRUE]
    /\ net = {} /\ tcp = [i \in Sessions |-> Free]
    /\ served = [b \in Buddies |-> [c \in Clients |-> Free]]
    /\ last = served

-----------------------------------------------------------------------------
\* The spider cycle: without a buddy and the interval over, ask the known nodes.
AskForBuddy(c) ==
    /\ buddy[c] = NoBuddy /\ due[c]
    /\ net' = net \cup [op : {"req"}, client : {c}, at : Buddies]
    /\ due' = [due EXCEPT ![c] = FALSE]
    /\ UNCHANGED <<buddy, reg, over, tcp, served, last>>

Interval(c) ==
    /\ ~due[c] /\ due' = [due EXCEPT ![c] = TRUE]
    /\ UNCHANGED <<buddy, reg, over, net, tcp, served, last>>

CanServe(b) == Cardinality({c \in Clients : served[b][c] # Free}) < MaxServed

OnRequest(m) ==
    /\ m.op = "req" /\ CanServe(m.at)
    /\ net' = net \cup {[m EXCEPT !.op = "res"]}
    /\ UNCHANGED <<client, tcp, served, last>>

\* Any answer that echoes our ID counts, also while a registration runs.
OnOffer(m) ==
    /\ m.op = "res"
    /\ buddy' = [buddy EXCEPT ![m.client] = m.at]
    /\ reg' = [reg EXCEPT ![m.client] = IF @ = "none" THEN "started" ELSE @]
    /\ UNCHANGED <<over, due, net, tcp, served, last>>

Connect(c) ==
    /\ reg[c] = "started"
    /\ \E i \in Unused :
           /\ tcp' = [tcp EXCEPT ![i] = [client |-> c, at |-> buddy[c], open |-> TRUE,
                                         held |-> "no", callback |-> FALSE]]
           /\ over' = [over EXCEPT ![c] = i]
    /\ reg' = [reg EXCEPT ![c] = "hello"]
    /\ UNCHANGED <<buddy, due, net, served, last>>

\* The connection is refused.
NoAnswer(c) ==
    /\ reg[c] = "started"
    /\ reg' = [reg EXCEPT ![c] = "none"] /\ buddy' = [buddy EXCEPT ![c] = NoBuddy]
    /\ UNCHANGED <<over, due, net, tcp, served, last>>

\* HELLOANSWER: from here on the client only reads relays.
Registered(c) ==
    /\ reg[c] = "hello" /\ tcp[over[c]].held # "no"
    /\ reg' = [reg EXCEPT ![c] = "relay"]
    /\ UNCHANGED <<buddy, over, due, net, tcp, served, last>>

\* No frame in idle_timeout, end of file, a wrong answer.
Leave(c) ==
    /\ reg[c] \in {"hello", "relay"}
    /\ tcp' = [tcp EXCEPT ![over[c]] = Ends(@)]
    /\ reg' = [reg EXCEPT ![c] = "none"] /\ buddy' = [buddy EXCEPT ![c] = NoBuddy]
    /\ over' = [over EXCEPT ![c] = Free]
    /\ UNCHANGED <<due, net, served, last>>

\* A client that is killed leaves its connection behind and starts over.
RestartClient(c) ==
    /\ buddy' = [buddy EXCEPT ![c] = NoBuddy] /\ reg' = [reg EXCEPT ![c] = "none"]
    /\ over' = [over EXCEPT ![c] = Free] /\ due' = [due EXCEPT ![c] = TRUE]
    /\ tcp' = IF over[c] = Free THEN tcp ELSE [tcp EXCEPT ![over[c]] = Ends(@)]
    /\ UNCHANGED <<net, served, last>>

-----------------------------------------------------------------------------
\* A HELLO with the buddy tag is registered without another look at the capacity.
Register(i) ==
    /\ tcp[i] # Free /\ tcp[i].held = "no"
    /\ tcp' = [tcp EXCEPT ![i].held = "yes"]
    /\ served' = [served EXCEPT ![tcp[i].at][tcp[i].client] = i]
    /\ last' = [last EXCEPT ![tcp[i].at][tcp[i].client] = i]
    /\ UNCHANGED <<client, net>>

UnregisterClient(i) ==
    [served EXCEPT ![tcp[i].at][tcp[i].client] = Free]

\* unregister_transport: only the entries of this very connection.
Unregister(i) ==
    [served EXCEPT ![tcp[i].at] = [c \in Clients |-> IF @[c] = i THEN Free ELSE @[c]]]

\* End of file, or nothing read in the idle time.
HoldEnds(i) ==
    /\ tcp[i] # Free /\ tcp[i].held = "yes"
    /\ tcp' = [tcp EXCEPT ![i].held = "over"]
    /\ served' = Unregister(i)
    /\ UNCHANGED <<client, net, last>>

\* KADEMLIA_CALLBACK_REQ from a third node: written to the registered connection.
Relay(b, c) ==
    /\ served[b][c] # Free
    /\ tcp' = [tcp EXCEPT ![served[b][c]].callback = TRUE]
    /\ UNCHANGED <<client, net, served, last>>

DialBack(c) ==
    /\ reg[c] = "relay" /\ tcp[over[c]].callback
    /\ tcp' = [tcp EXCEPT ![over[c]].callback = FALSE]
    /\ UNCHANGED <<client, net, served, last>>

RestartBuddy(b) ==
    /\ served' = [served EXCEPT ![b] = [c \in Clients |-> Free]]
    /\ tcp' = [i \in Sessions |-> IF tcp[i] # Free /\ tcp[i].at = b
                                  THEN [tcp[i] EXCEPT !.held = "over"] ELSE tcp[i]]
    /\ last' = [last EXCEPT ![b] = [c \in Clients |-> Free]]
    /\ UNCHANGED <<client, net>>

BuddyNext ==
    \/ \E c \in Clients : AskForBuddy(c) \/ Interval(c) \/ Connect(c) \/ NoAnswer(c) \/ Registered(c)
                          \/ Leave(c) \/ RestartClient(c) \/ DialBack(c)
    \/ \E m \in net : OnRequest(m) \/ OnOffer(m)
    \/ \E i \in Sessions : Register(i) \/ HoldEnds(i)
    \/ \E b \in Buddies, c \in Clients : Relay(b, c)
    \/ \E b \in Buddies : RestartBuddy(b)

BuddySpec == BuddyInit /\ [][BuddyNext]_buddyVars

-----------------------------------------------------------------------------
\* The table knows a client by its newest session for as long as that one lives, and no
\* session that has ended: an old connection of the same client may end before or after
\* the new one registers.
RelayFollowsSession ==
    \A b \in Buddies, c \in Clients :
        /\ served[b][c] # Free => tcp[served[b][c]].held = "yes"
        /\ last[b][c] # Free /\ tcp[last[b][c]].held = "yes" /\ tcp[last[b][c]].client = c
              /\ tcp[last[b][c]].at = b => served[b][c] = last[b][c]

=============================================================================
