----------------------------- MODULE PeerProofs -----------------------------
(***************************************************************************)
(* What is proved about a connection between two peers (Peer) and about    *)
(* the connections of the listener with those who wait for them (Inbound). *)
(***************************************************************************)
EXTENDS Peer, Inbound, FiniteSetTheorems, SequenceTheorems, TLAPS

-----------------------------------------------------------------------------
(* Inbound.                                                                *)

AttemptStates == {"idle", "waiting", "given", "late", "cancelled", "rendezvous", "failed", "adopted"}

InboundTyped ==
    /\ att \in [Attempts -> AttemptStates]
    /\ conn \in [Conns -> Attempts \cup Fates]
    /\ expected \in Seq(Attempts)

(* Whoever waits stands in the queue of the IP.                            *)
WaitersStand == \A a \in Attempts : att[a] = "waiting" => \E i \in 1..Len(expected) : expected[i] = a

(* A connection that was handed over belongs to an attempt that has it, and *)
(* such an attempt has just that one.                                      *)
HandedToOne ==
    /\ \A k \in Conns : conn[k] \in Attempts => att[conn[k]] \in {"given", "adopted"}
    /\ \A a \in Attempts : att[a] \in {"given", "adopted"} => \E k \in Conns : conn[k] = a
    /\ \A k, l \in Conns : conn[k] = conn[l] /\ conn[k] \in Attempts => k = l

InboundInv == InboundTyped /\ WaitersStand /\ HandedToOne

(* list.remove: the future that is named leaves, every other one stays.    *)
LEMMA OthersStayRegistered ==
    ASSUME expected \in Seq(Attempts), NEW a \in Attempts
    PROVE  /\ Unregistered(a) \in Seq(Attempts)
           /\ \A b \in Attempts : b # a /\ (\E i \in 1..Len(expected) : expected[i] = b) =>
                 \E i \in 1..Len(Unregistered(a)) : Unregistered(a)[i] = b
<1>1. CASE a \notin Range(expected)
  BY <1>1 DEF Unregistered
<1>2. CASE a \in Range(expected)
  <2> DEFINE n == CHOOSE i \in DOMAIN expected : expected[i] = a
             before == SubSeq(expected, 1, n - 1)
             after == SubSeq(expected, n + 1, Len(expected))
             t == before \o after
  <2>1. n \in 1..Len(expected) /\ expected[n] = a
    BY <1>2 DEF Range
  <2>2. Unregistered(a) = t
    BY <1>2 DEF Unregistered, RemoveAt
  <2> HIDE DEF n
  <2>3. /\ before \in Seq(Attempts) /\ Len(before) = n - 1
        /\ \A i \in 1..(n - 1) : before[i] = expected[i]
    BY <2>1
  <2>4. /\ after \in Seq(Attempts) /\ Len(after) = Len(expected) - n
        /\ \A i \in 1..(Len(expected) - n) : after[i] = expected[n + i]
    BY <2>1
  <2> HIDE DEF before, after
  <2>5. /\ t \in Seq(Attempts) /\ Len(t) = Len(expected) - 1
        /\ \A i \in 1..(n - 1) : t[i] = expected[i]
        /\ \A i \in 1..(Len(expected) - n) : t[n - 1 + i] = expected[n + i]
    <3>1. /\ before \o after \in Seq(Attempts)
          /\ Len(before \o after) = Len(before) + Len(after)
          /\ \A i \in 1..(Len(before) + Len(after)) :
                (before \o after)[i] = IF i <= Len(before) THEN before[i] ELSE after[i - Len(before)]
      BY <2>3, <2>4, ConcatProperties
    <3> HIDE DEF t
    <3>2. t \in Seq(Attempts) /\ Len(t) = Len(expected) - 1
      <4>1. (n - 1) + (Len(expected) - n) = Len(expected) - 1
        BY <2>1
      <4> QED
        BY <2>3, <2>4, <3>1, <4>1 DEF t
    <3>3. ASSUME NEW i \in 1..(n - 1)
          PROVE  t[i] = expected[i]
      <4>1. i \in 1..(Len(before) + Len(after)) /\ i <= Len(before)
        BY <2>1, <2>3, <2>4
      <4> QED
        BY <2>3, <3>1, <4>1 DEF t
    <3>4. ASSUME NEW i \in 1..(Len(expected) - n)
          PROVE  t[n - 1 + i] = expected[n + i]
      <4>1. n - 1 + i \in 1..(Len(before) + Len(after)) /\ ~(n - 1 + i <= Len(before))
        BY <2>1, <2>3, <2>4
      <4>2. (n - 1 + i) - Len(before) = i
        BY <2>1, <2>3
      <4> QED
        BY <2>4, <3>1, <4>1, <4>2 DEF t
    <3> QED
      BY <3>2, <3>3, <3>4
  <2> HIDE DEF t
  <2>6. ASSUME NEW i \in 1..Len(expected), expected[i] # a
        PROVE  \E j \in 1..Len(t) : t[j] = expected[i]
    <3>1. CASE i < n
      BY <3>1, <2>1, <2>5
    <3>2. CASE i > n
      <4>1. i - n \in 1..(Len(expected) - n) /\ n - 1 + (i - n) = i - 1 /\ n + (i - n) = i
        BY <3>2, <2>1
      <4>2. t[i - 1] = expected[i]
        BY <4>1, <2>5
      <4> QED
        BY <3>2, <4>2, <2>1, <2>5
    <3> QED
      BY <2>1, <2>6, <3>1, <3>2
  <2> QED
    BY <2>2, <2>5, <2>6
<1> QED
  BY <1>1, <1>2

LEMMA InboundStart == InboundInit => InboundInv
BY InboundAssumption DEF InboundInit, InboundInv, InboundTyped, WaitersStand, HandedToOne, AttemptStates, Fates

LEMMA InboundStep == InboundInv /\ [InboundNext]_inboundVars => InboundInv'
<1> SUFFICES ASSUME InboundInv, [InboundNext]_inboundVars
             PROVE  InboundInv'
  OBVIOUS
<1> USE InboundAssumption DEF InboundInv
<1>1. ASSUME NEW a \in Attempts, Expect(a)
      PROVE  InboundInv'
  <2>1. InboundTyped'
    BY <1>1 DEF Expect, InboundTyped, AttemptStates
  <2>2. WaitersStand'
    BY <1>1 DEF Expect, InboundTyped, WaitersStand
  <2>3. HandedToOne'
    BY <1>1 DEF Expect, InboundTyped, HandedToOne
  <2> QED
    BY <2>1, <2>2, <2>3
<1>2. ASSUME NEW a \in Attempts, SendCallbackReq(a)
      PROVE  InboundInv'
  BY <1>2 DEF SendCallbackReq, InboundTyped, WaitersStand, HandedToOne
<1>3. ASSUME NEW a \in Attempts, Unregister(a)
      PROVE  InboundInv'
  <2>1. InboundTyped'
    BY <1>3, OthersStayRegistered DEF Unregister, Unregistered, InboundTyped, AttemptStates
  <2>2. WaitersStand'
    BY <1>3, OthersStayRegistered DEF Unregister, Unregistered, InboundTyped, WaitersStand
  <2>3. HandedToOne'
    BY <1>3 DEF Unregister, InboundTyped, HandedToOne
  <2> QED
    BY <2>1, <2>2, <2>3
<1>4. ASSUME NEW a \in Attempts, NEW how \in {"late", "cancelled"}, Expire(a, how)
      PROVE  InboundInv'
  BY <1>4 DEF Expire, InboundTyped, AttemptStates, WaitersStand, HandedToOne
<1>5. ASSUME NEW a \in Attempts, Adopt(a)
      PROVE  InboundInv'
  BY <1>5 DEF Adopt, InboundTyped, AttemptStates, WaitersStand, HandedToOne
<1>6. ASSUME NEW a \in Attempts, CancelLate(a)
      PROVE  InboundInv'
  BY <1>6 DEF CancelLate, InboundTyped, AttemptStates, WaitersStand, HandedToOne, Fates
<1>7. ASSUME NEW a \in Attempts, RendezvousEnds(a)
      PROVE  InboundInv'
  BY <1>7 DEF RendezvousEnds, InboundTyped, AttemptStates, WaitersStand, HandedToOne
<1>8. ASSUME NEW a \in Attempts, Again(a)
      PROVE  InboundInv'
  BY <1>8 DEF Again, InboundTyped, AttemptStates, WaitersStand, HandedToOne, Fates
<1>9. ASSUME NEW k \in Conns, OnClient(k)
      PROVE  InboundInv'
  <2>1. CASE conn' = [conn EXCEPT ![k] = "refused"] /\ UNCHANGED <<att, expected>>
    BY <1>9, <2>1 DEF OnClient, InboundTyped, WaitersStand, HandedToOne, Fates
  <2>2. CASE /\ expected' = IF expected = <<>> THEN <<>> ELSE Tail(expected)
             /\ expected # <<>> /\ att[Head(expected)] = "waiting"
             /\ att' = [att EXCEPT ![Head(expected)] = "given"]
             /\ conn' = [conn EXCEPT ![k] = Head(expected)]
    <3> DEFINE h == Head(expected)
    <3>1. /\ h \in Attempts /\ att[h] = "waiting" /\ h = expected[1]
          /\ expected' \in Seq(Attempts) /\ Len(expected') = Len(expected) - 1
          /\ \A i \in 1..Len(expected') : expected'[i] = expected[i + 1]
      BY <2>2 DEF InboundTyped
    <3>2. att' = [att EXCEPT ![h] = "given"] /\ conn' = [conn EXCEPT ![k] = h]
      BY <2>2
    <3> HIDE DEF h
    <3>3. InboundTyped'
      BY <3>1, <3>2 DEF InboundTyped, AttemptStates
    <3>4. WaitersStand'
      <4> SUFFICES ASSUME NEW a \in Attempts, att'[a] = "waiting"
                   PROVE  \E i \in 1..Len(expected') : expected'[i] = a
        BY DEF WaitersStand
      <4>1. a # h /\ att[a] = "waiting"
        BY <3>1, <3>2 DEF InboundTyped
      <4>2. PICK i \in 1..Len(expected) : expected[i] = a
        BY <4>1 DEF WaitersStand
      <4>3. i # 1 /\ i - 1 \in 1..Len(expected') /\ (i - 1) + 1 = i
        BY <3>1, <4>1, <4>2 DEF InboundTyped
      <4>4. expected'[i - 1] = a
        BY <3>1, <4>2, <4>3
      <4> QED
        BY <4>3, <4>4
    <3>5. HandedToOne'
      BY <1>9, <3>1, <3>2 DEF OnClient, InboundTyped, HandedToOne, Fates
    <3> QED
      BY <3>3, <3>4, <3>5
  <2>3. CASE /\ expected' = IF expected = <<>> THEN <<>> ELSE Tail(expected)
             /\ ~(expected # <<>> /\ att[Head(expected)] = "waiting")
             /\ conn' = [conn EXCEPT ![k] = "session"] /\ UNCHANGED att
    <3>1. CASE expected = <<>>
      BY <1>9, <2>3, <3>1 DEF OnClient, InboundTyped, WaitersStand, HandedToOne, Fates
    <3>2. CASE expected # <<>>
      <4>1. /\ expected' \in Seq(Attempts) /\ Len(expected') = Len(expected) - 1
            /\ \A i \in 1..Len(expected') : expected'[i] = expected[i + 1]
            /\ att[expected[1]] # "waiting"
        BY <2>3, <3>2 DEF InboundTyped
      <4>2. InboundTyped'
        BY <2>3, <4>1 DEF InboundTyped, Fates
      <4>3. WaitersStand'
        <5> SUFFICES ASSUME NEW a \in Attempts, att'[a] = "waiting"
                     PROVE  \E i \in 1..Len(expected') : expected'[i] = a
          BY DEF WaitersStand
        <5>1. PICK i \in 1..Len(expected) : expected[i] = a
          BY <2>3 DEF WaitersStand
        <5>2. i # 1 /\ i - 1 \in 1..Len(expected') /\ (i - 1) + 1 = i
          BY <2>3, <4>1, <5>1 DEF InboundTyped
        <5>3. expected'[i - 1] = a
          BY <4>1, <5>1, <5>2
        <5> QED
          BY <5>2, <5>3
      <4>4. HandedToOne'
        BY <1>9, <2>3 DEF OnClient, InboundTyped, HandedToOne, Fates
      <4> QED
        BY <4>2, <4>3, <4>4
    <3> QED
      BY <3>1, <3>2
  <2> QED
    BY <1>9, <2>1, <2>2, <2>3 DEF OnClient
<1>10. ASSUME NEW k \in Conns, SessionOver(k)
       PROVE  InboundInv'
  BY <1>10 DEF SessionOver, InboundTyped, WaitersStand, HandedToOne, Fates
<1>11. CASE Forget
  BY <1>11 DEF Forget, InboundTyped, WaitersStand, HandedToOne
<1>12. CASE UNCHANGED inboundVars
  BY <1>12 DEF inboundVars, InboundTyped, WaitersStand, HandedToOne
<1> QED
  BY <1>1, <1>2, <1>3, <1>4, <1>5, <1>6, <1>7, <1>8, <1>9, <1>10, <1>11, <1>12 DEF InboundNext

(* Whoever waits for a dial-back can be found by it, however many attempts *)
(* for the IP wait and in whatever order they end; a connection that was   *)
(* handed over belongs to one attempt (expect_connection_from, _on_client).*)
THEOREM DialBacksFound == InboundSpec => []WaitersFound
<1>1. InboundInv => WaitersFound
  <2> SUFFICES ASSUME InboundInv
               PROVE  WaitersFound
    OBVIOUS
  <2>1. \A a \in Attempts : att[a] = "waiting" => a \in Range(expected)
    BY DEF InboundInv, InboundTyped, WaitersStand, Range
  <2>2. ASSUME NEW a \in Attempts, att[a] \in {"given", "adopted"}
        PROVE  Cardinality({k \in Conns : conn[k] = a}) = 1
    <3>1. PICK k \in Conns : conn[k] = a
      BY <2>2 DEF InboundInv, HandedToOne
    <3>2. {l \in Conns : conn[l] = a} = {k}
      BY <3>1 DEF InboundInv, HandedToOne
    <3> QED
      BY <3>2, FS_Singleton
  <2> QED
    BY <2>1, <2>2 DEF WaitersFound
<1> QED
  BY <1>1, InboundStart, InboundStep, PTL DEF InboundSpec

-----------------------------------------------------------------------------
(* Peer: what is on the wire.                                              *)

Kinds == {"hello", "info", "helloans", "infoans", "secstate", "pubkey", "sign", "name", "setid",
          "hashreq", "start", "nameans", "hashans", "sx2", "sxans", "accept", "rank", "eod", "end"}
UnitKinds == Kinds \cup {"part", "magic", "rest", "pad", "answer"}
Unit == [k : UnitKinds, part : {"head", "body"}, off : Nat]

NetTyped ==
    /\ wire \in [Ends -> Seq(Unit)]
    /\ here \in [Ends -> Nat] /\ enc \in [Ends -> Nat] /\ dec \in [Ends -> Nat]
    /\ half \in [Ends -> UnitKinds \cup {"none"}]
    /\ \A e \in Ends : here[e] <= Len(wire[e])

(* A packet is a head and, unless it is bare, a body after it.             *)
LEMMA FramesAre ==
    ASSUME NEW kinds \in Seq(Kinds)
    PROVE  /\ Frames(kinds) \in Seq(Kinds \X {"head", "body"})
           /\ (\A i \in DOMAIN kinds : kinds[i] \in Bare) =>
                 /\ Len(Frames(kinds)) = Len(kinds)
                 /\ \A i \in 1..Len(kinds) : Frames(kinds)[i] = <<kinds[i], "head">>
           /\ ~(\A i \in DOMAIN kinds : kinds[i] \in Bare) =>
                 /\ Len(Frames(kinds)) = 2 * Len(kinds)
                 /\ \A i \in 1..Len(kinds) : /\ Frames(kinds)[2 * i - 1] = <<kinds[i], "head">>
                                              /\ Frames(kinds)[2 * i] = <<kinds[i], "body">>
<1>1. CASE \A i \in DOMAIN kinds : kinds[i] \in Bare
  BY <1>1 DEF Frames
<1>2. CASE ~(\A i \in DOMAIN kinds : kinds[i] \in Bare)
  <2>1. Frames(kinds) = [i \in 1..(2 * Len(kinds)) |->
             <<kinds[(i + 1) \div 2], IF i % 2 = 1 THEN "head" ELSE "body">>]
    BY <1>2 DEF Frames
  <2>2. \A i \in 1..(2 * Len(kinds)) : (i + 1) \div 2 \in 1..Len(kinds)
    OBVIOUS
  <2>3. \A i \in 1..Len(kinds) :
            /\ 2 * i - 1 \in 1..(2 * Len(kinds)) /\ 2 * i \in 1..(2 * Len(kinds))
            /\ (2 * i - 1 + 1) \div 2 = i /\ (2 * i + 1) \div 2 = i
            /\ (2 * i - 1) % 2 = 1 /\ (2 * i) % 2 = 0
    OBVIOUS
  <2>4. Frames(kinds) \in Seq(Kinds \X {"head", "body"}) /\ Len(Frames(kinds)) = 2 * Len(kinds)
    BY <2>1, <2>2
  <2>5. ASSUME NEW i \in 1..Len(kinds)
        PROVE  /\ Frames(kinds)[2 * i - 1] = <<kinds[i], "head">>
               /\ Frames(kinds)[2 * i] = <<kinds[i], "body">>
    BY <2>1, <2>3
  <2> QED
    BY <1>2, <2>4, <2>5
<1> QED
  BY <1>1, <1>2

(* encrypt() counts on from where the stream stands.                       *)
LEMMA EncryptedIs ==
    ASSUME NEW units \in Seq(Kinds \X {"head", "body"}), NEW from \in Nat
    PROVE  /\ Encrypted(units, from) \in Seq(Unit)
           /\ Len(Encrypted(units, from)) = Len(units)
           /\ \A i \in 1..Len(units) :
                 /\ Encrypted(units, from)[i].k = units[i][1]
                 /\ Encrypted(units, from)[i].part = units[i][2]
                 /\ Encrypted(units, from)[i].off = from + i
                 /\ Encrypted(units, from)[i].k \in Kinds
BY DEF Encrypted, Unit, UnitKinds

(* What Net does to either direction.                                      *)
LEMMA NetIs ==
    ASSUME NetTyped, NEW me \in Ends, NEW take \in Nat, take <= here[me],
           NEW kinds \in Seq(Kinds), Net(me, take, kinds)
    PROVE  LET to == Other(me)
               new == Encrypted(Frames(kinds), enc[to])
           IN  /\ NetTyped'
               /\ Len(wire'[me]) = Len(wire[me]) - take
               /\ \A i \in 1..Len(wire'[me]) : wire'[me][i] = wire[me][i + take]
               /\ dec'[me] = dec[me] + take /\ enc'[me] = enc[me]
               /\ half'[me] = "none" /\ half'[to] = half[to]
               /\ Len(wire'[to]) = Len(wire[to]) + Len(new)
               /\ \A i \in 1..Len(wire[to]) : wire'[to][i] = wire[to][i]
               /\ \A i \in 1..Len(new) : wire'[to][Len(wire[to]) + i] = new[i]
               /\ enc'[to] = enc[to] + Len(new) /\ dec'[to] = dec[to]
<1> DEFINE to == Other(me)
           new == Encrypted(Frames(kinds), enc[to])
<1>1. to \in Ends /\ to # me /\ \A e \in Ends : e = me \/ e = to
  BY DEF Ends, Other
<1>2. new \in Seq(Unit)
  BY <1>1, FramesAre, EncryptedIs DEF NetTyped
<1>3. Net(me, take, kinds)
  OBVIOUS
<1>4. /\ wire' = [wire EXCEPT ![me] = SubSeq(@, take + 1, Len(@)), ![to] = @ \o new]
      /\ here' = [here EXCEPT ![me] = @ - take]
      /\ enc' = [enc EXCEPT ![to] = @ + Len(new)]
      /\ dec' = [dec EXCEPT ![me] = @ + take]
      /\ half' = [half EXCEPT ![me] = "none"]
  BY <1>3 DEF Net
<1> HIDE DEF to, new
<1>5. /\ wire[me] \in Seq(Unit) /\ wire[to] \in Seq(Unit)
      /\ here[me] \in Nat /\ here[me] <= Len(wire[me])
  BY <1>1 DEF NetTyped
<1>6. /\ SubSeq(wire[me], take + 1, Len(wire[me])) \in Seq(Unit)
      /\ Len(SubSeq(wire[me], take + 1, Len(wire[me]))) = Len(wire[me]) - take
      /\ \A i \in 1..(Len(wire[me]) - take) :
            SubSeq(wire[me], take + 1, Len(wire[me]))[i] = wire[me][i + take]
  BY <1>5
<1>7. /\ wire[to] \o new \in Seq(Unit)
      /\ Len(wire[to] \o new) = Len(wire[to]) + Len(new)
      /\ \A i \in 1..(Len(wire[to]) + Len(new)) :
            (wire[to] \o new)[i] = IF i <= Len(wire[to]) THEN wire[to][i] ELSE new[i - Len(wire[to])]
  BY <1>2, <1>5, ConcatProperties
<1>8. /\ wire'[me] = SubSeq(wire[me], take + 1, Len(wire[me]))
      /\ wire'[to] = wire[to] \o new
  BY <1>1, <1>4 DEF NetTyped
<1>9. NetTyped'
  <2>1. wire' \in [Ends -> Seq(Unit)]
    BY <1>1, <1>4, <1>6, <1>7 DEF NetTyped
  <2>2. here[me] - take \in Nat /\ Len(new) \in Nat
    BY <1>2, <1>5
  <2>3. here' \in [Ends -> Nat]
    <3>1. here \in [Ends -> Nat] /\ here' = [here EXCEPT ![me] = here[me] - take]
      BY <1>4 DEF NetTyped
    <3> QED
      BY <2>2, <3>1
  <2>4. enc' \in [Ends -> Nat]
    <3>1. enc \in [Ends -> Nat] /\ enc' = [enc EXCEPT ![to] = enc[to] + Len(new)]
      BY <1>4 DEF NetTyped
    <3>2. enc[to] + Len(new) \in Nat
      BY <1>1, <2>2, <3>1
    <3> QED
      BY <3>1, <3>2
  <2>5. dec' \in [Ends -> Nat]
    <3>1. dec \in [Ends -> Nat] /\ dec' = [dec EXCEPT ![me] = dec[me] + take]
      BY <1>4 DEF NetTyped
    <3>2. dec[me] + take \in Nat
      BY <3>1
    <3> QED
      BY <3>1, <3>2
  <2>6. half' \in [Ends -> UnitKinds \cup {"none"}]
    BY <1>1, <1>4 DEF NetTyped
  <2>7. here'[me] = here[me] - take /\ here'[to] = here[to]
    BY <1>1, <1>4 DEF NetTyped
  <2>8. here'[me] <= Len(wire'[me])
    BY <2>7, <1>5, <1>6, <1>8
  <2>9. here'[to] <= Len(wire'[to])
    <3>1. here[to] <= Len(wire[to]) /\ here[to] \in Nat
      BY <1>1 DEF NetTyped
    <3> QED
      BY <3>1, <2>2, <2>7, <1>5, <1>7, <1>8
  <2> QED
    BY <2>1, <2>3, <2>4, <2>5, <2>6, <2>8, <2>9, <1>1 DEF NetTyped
<1>10. /\ dec'[me] = dec[me] + take /\ enc'[me] = enc[me]
       /\ half'[me] = "none" /\ half'[to] = half[to]
       /\ enc'[to] = enc[to] + Len(new) /\ dec'[to] = dec[to]
  BY <1>1, <1>4 DEF NetTyped
<1>11. /\ Len(wire'[me]) = Len(wire[me]) - take
       /\ \A i \in 1..Len(wire'[me]) : wire'[me][i] = wire[me][i + take]
  BY <1>6, <1>8
<1>12. /\ Len(wire'[to]) = Len(wire[to]) + Len(new)
       /\ \A i \in 1..Len(wire[to]) : wire'[to][i] = wire[to][i]
       /\ \A i \in 1..Len(new) : wire'[to][Len(wire[to]) + i] = new[i]
  BY <1>2, <1>5, <1>7, <1>8
<1> QED
  BY <1>9, <1>10, <1>11, <1>12 DEF to, new

(* The same, for the end that reads alone.                                 *)
LEMMA NetReads ==
    ASSUME NetTyped, NEW me \in Ends, NEW take \in Nat, take <= here[me],
           NEW kinds \in Seq(Kinds), Net(me, take, kinds)
    PROVE  /\ NetTyped'
           /\ Len(wire'[me]) = Len(wire[me]) - take
           /\ \A i \in 1..Len(wire'[me]) : wire'[me][i] = wire[me][i + take]
           /\ half'[me] = "none"
  BY NetIs

(* What can be returned by a read is there.                                *)
LEMMA PacketIsThere ==
    ASSUME NetTyped, NEW me \in Ends, NEW p \in Packets(me)
    PROVE  p.take \in {1, 2} /\ p.take <= here[me] /\ here[me] >= 1 /\ wire[me] # <<>>
<1>1. here[me] \in Nat /\ here[me] # 0 /\ wire[me] \in Seq(Unit) /\ here[me] <= Len(wire[me])
  BY DEF NetTyped, Packets
<1>2. p.take \in {1, 2} /\ p.take <= here[me]
  BY <1>1 DEF Packets
<1> QED
  BY <1>1, <1>2

LEMMA KindsSent ==
    /\ FileRequest \in Seq(Kinds) /\ FileRequest # <<>>
    /\ \A k : ShakeReply(k) \in Seq(Kinds)
    /\ \A k : PreReply(k) \in Seq(Kinds)
<1>1. FileRequest \in Seq(Kinds) /\ FileRequest # <<>>
  BY DEF FileRequest, Kinds
<1>2. /\ <<>> \in Seq(Kinds) /\ <<"secstate">> \in Seq(Kinds) /\ <<"pubkey", "sign">> \in Seq(Kinds)
      /\ <<"infoans">> \in Seq(Kinds) /\ <<"nameans">> \in Seq(Kinds)
      /\ <<"hashans">> \in Seq(Kinds) /\ <<"sxans">> \in Seq(Kinds)
  BY DEF Kinds
<1>3. \A k : ShakeReply(k) \in {<<>>, <<"secstate">>, <<"pubkey", "sign">>}
  BY DEF ShakeReply
<1>4. \A k : PreReply(k) \in {<<>>, <<"pubkey", "sign">>, <<"infoans">>, <<"nameans">>,
                              <<"hashans">>, <<"sxans">>}
  BY DEF PreReply
<1> QED
  BY <1>1, <1>2, <1>3, <1>4

-----------------------------------------------------------------------------
(* Peer: the keystreams.                                                   *)

(* The directions in which all that is on the wire was encrypted, by a     *)
(* writer that is as far ahead of the reader as there are units between.   *)
inStep ==
    {e \in Ends : /\ \A i \in 1..Len(wire[e]) : wire[e][i].off = dec[e] + i /\ wire[e][i].k # "part"
                  /\ enc[e] = dec[e] + Len(wire[e])}

(* Before the answer to a request for obfuscation: the request is on the   *)
(* wire, or the rest of it.                                                *)
Requested ==
    /\ cpc \in {"negotiate", "closed"}
    /\ wire["cl"] = <<>> /\ dec["cl"] = 0 /\ enc["cl"] = 0
    /\ \/ /\ spc \in {"first", "closed"} /\ crypt \in {"basic", "dh"}
          /\ wire["sv"] = Opening(crypt)
          /\ dec["sv"] = 0 /\ enc["sv"] = IF crypt = "basic" THEN 2 ELSE 0
       \/ /\ spc \in {"basic", "closed"} /\ crypt = "basic"
          /\ wire["sv"] = <<Sealed("pad", 2)>>
          /\ dec["sv"] = 1 /\ enc["sv"] = 2
       \/ /\ spc \in {"dh", "closed"} /\ crypt = "dh"
          /\ wire["sv"] = <<Clear("rest"), Clear("pad")>>
          /\ dec["sv"] = 0 /\ enc["sv"] = 0

StreamsInv ==
    /\ NetTyped
    /\ crypt \in {"plain", "basic", "wrong", "dh"}
    /\ crypt # "wrong" =>
          /\ "cl" \in inStep
          /\ Requested \/ ("sv" \in inStep /\ spc \notin {"basic", "dh"})
          /\ (cpc = "negotiate" => dec["cl"] = 0)

LEMMA IntervalSize == \A a, b \in Nat : a <= b => Cardinality(a..b) = b - a + 1
BY FS_Interval

LEMMA SmallIntervals == Cardinality(1..4) = 4 /\ Cardinality(2..3) = 2
<1>1. Cardinality(1..4) = 4
  <2>1. PICK a, b \in Nat : a = 1 /\ b = 4
    OBVIOUS
  <2>2. a <= b /\ b - a + 1 = 4
    BY <2>1
  <2>3. Cardinality(a..b) = 4
    BY <2>2, IntervalSize
  <2> QED
    BY <2>1, <2>3
<1>2. Cardinality(2..3) = 2
  <2>1. PICK a, b \in Nat : a = 2 /\ b = 3
    OBVIOUS
  <2>2. a <= b /\ b - a + 1 = 2
    BY <2>1
  <2>3. Cardinality(a..b) = 2
    BY <2>2, IntervalSize
  <2> QED
    BY <2>1, <2>3
<1> QED
  BY <1>1, <1>2

LEMMA OpeningIs ==
    /\ /\ Opening("plain") \in Seq(Unit) /\ Len(Opening("plain")) = 4
       /\ \A i \in 1..4 : Opening("plain")[i].off = i /\ Opening("plain")[i].k # "part"
       /\ Sent("plain") = 4
    /\ /\ Opening("basic") = <<Clear("part"), Sealed("magic", 1), Sealed("pad", 2)>>
       /\ Opening("basic") \in Seq(Unit) /\ Sent("basic") = 2
    /\ Opening("wrong") = Opening("basic")
    /\ /\ Opening("dh") = <<Clear("part"), Clear("magic"), Clear("rest"), Clear("pad")>>
       /\ Opening("dh") \in Seq(Unit) /\ Sent("dh") = 0
<1>1. /\ Opening("plain") \in Seq(Unit) /\ Len(Opening("plain")) = 4
      /\ \A i \in 1..4 : Opening("plain")[i].off = i /\ Opening("plain")[i].k # "part"
  <2> DEFINE hi == <<"hello", "info">>
  <2>1. hi \in Seq(Kinds) /\ Len(hi) = 2 /\ ~(\A i \in DOMAIN hi : hi[i] \in Bare)
    BY DEF Kinds, Bare
  <2>2. Opening("plain") = Encrypted(Frames(hi), 0)
    BY DEF Opening
  <2> HIDE DEF hi
  <2>3. Frames(hi) \in Seq(Kinds \X {"head", "body"}) /\ Len(Frames(hi)) = 4
    <3>1. hi \in Seq(Kinds) /\ ~(\A i \in DOMAIN hi : hi[i] \in Bare)
      BY <2>1
    <3>2. Frames(hi) \in Seq(Kinds \X {"head", "body"}) /\ Len(Frames(hi)) = 2 * Len(hi)
      BY <3>1, FramesAre
    <3> QED
      BY <2>1, <3>2
  <2> DEFINE units == Frames(hi)
  <2> HIDE DEF units
  <2>4. units \in Seq(Kinds \X {"head", "body"}) /\ Len(units) = 4
    BY <2>3 DEF units
  <2>5. /\ Encrypted(units, 0) \in Seq(Unit) /\ Len(Encrypted(units, 0)) = Len(units)
        /\ \A i \in 1..Len(units) : /\ Encrypted(units, 0)[i].off = 0 + i
                                    /\ Encrypted(units, 0)[i].k \in Kinds
    BY <2>4, EncryptedIs
  <2>6. "part" \notin Kinds
    BY DEF Kinds
  <2> QED
    BY <2>2, <2>4, <2>5, <2>6 DEF units
<1>2. Sent("plain") = 4
  <2>1. {i \in DOMAIN Opening("plain") : Opening("plain")[i].off # 0} = 1..4
    BY <1>1
  <2> QED
    BY <2>1, SmallIntervals DEF Sent
<1>3. /\ Opening("basic") = <<Clear("part"), Sealed("magic", 1), Sealed("pad", 2)>>
      /\ Opening("basic") \in Seq(Unit) /\ Opening("wrong") = Opening("basic")
  BY DEF Opening, Clear, Sealed, Unit, UnitKinds
<1>4. Sent("basic") = 2
  <2>1. {i \in DOMAIN Opening("basic") : Opening("basic")[i].off # 0} = 2..3
    BY <1>3 DEF Clear, Sealed
  <2> QED
    BY <2>1, SmallIntervals DEF Sent
<1>5. /\ Opening("dh") = <<Clear("part"), Clear("magic"), Clear("rest"), Clear("pad")>>
      /\ Opening("dh") \in Seq(Unit)
  BY DEF Opening, Clear, Unit, UnitKinds
<1>6. Sent("dh") = 0
  <2>1. {i \in DOMAIN Opening("dh") : Opening("dh")[i].off # 0} = {}
    BY <1>5 DEF Clear
  <2> QED
    BY <2>1, FS_EmptySet DEF Sent
<1> QED
  BY <1>1, <1>2, <1>3, <1>4, <1>5, <1>6

LEMMA NetInStep ==
    ASSUME NetTyped, NEW me \in Ends, NEW take \in Nat, take <= here[me],
           NEW kinds \in Seq(Kinds), Net(me, take, kinds)
    PROVE  \A e \in Ends : e \in inStep => e \in inStep'
<1> DEFINE to == Other(me)
           new == Encrypted(Frames(kinds), enc[to])
<1>1. to \in Ends /\ to # me /\ \A e \in Ends : e = me \/ e = to
  BY DEF Ends, Other
<1>2. /\ new \in Seq(Unit)
      /\ \A i \in 1..Len(new) : new[i].off = enc[to] + i /\ new[i].k \in Kinds
  <2> DEFINE units == Frames(kinds)
  <2>1. units \in Seq(Kinds \X {"head", "body"}) /\ enc[to] \in Nat
    BY <1>1, FramesAre DEF NetTyped
  <2> HIDE DEF units, to
  <2>2. /\ Encrypted(units, enc[to]) \in Seq(Unit)
        /\ Len(Encrypted(units, enc[to])) = Len(units)
        /\ \A i \in 1..Len(units) : /\ Encrypted(units, enc[to])[i].off = enc[to] + i
                                    /\ Encrypted(units, enc[to])[i].k \in Kinds
    BY <2>1, EncryptedIs
  <2> QED
    BY <2>2 DEF units
<1>3. /\ Len(wire'[me]) = Len(wire[me]) - take
      /\ \A i \in 1..Len(wire'[me]) : wire'[me][i] = wire[me][i + take]
      /\ dec'[me] = dec[me] + take /\ enc'[me] = enc[me]
      /\ Len(wire'[to]) = Len(wire[to]) + Len(new)
      /\ \A i \in 1..Len(wire[to]) : wire'[to][i] = wire[to][i]
      /\ \A i \in 1..Len(new) : wire'[to][Len(wire[to]) + i] = new[i]
      /\ enc'[to] = enc[to] + Len(new) /\ dec'[to] = dec[to]
  BY NetIs
<1> HIDE DEF to, new
<1>4. /\ wire[me] \in Seq(Unit) /\ wire[to] \in Seq(Unit) /\ Len(wire[me]) >= take
      /\ dec[me] \in Nat /\ dec[to] \in Nat /\ enc[me] \in Nat /\ enc[to] \in Nat
  BY <1>1 DEF NetTyped
<1>5. ASSUME me \in inStep
      PROVE  me \in inStep'
  <2>1. \A i \in 1..Len(wire'[me]) : i + take \in 1..Len(wire[me]) /\ i \in Nat
    BY <1>3, <1>4
  <2>2. \A i \in 1..Len(wire[me]) : wire[me][i].off = dec[me] + i /\ wire[me][i].k # "part"
    BY <1>5 DEF inStep
  <2>3. ASSUME NEW i \in 1..Len(wire'[me])
        PROVE  wire'[me][i].off = dec'[me] + i /\ wire'[me][i].k # "part"
    <3>1. wire'[me][i] = wire[me][i + take] /\ i + take \in 1..Len(wire[me]) /\ i \in Nat
      BY <2>1, <1>3
    <3>2. wire[me][i + take].off = dec[me] + (i + take) /\ wire[me][i + take].k # "part"
      BY <2>2, <3>1
    <3> QED
      BY <3>1, <3>2, <1>3, <1>4
  <2>4. enc'[me] = dec'[me] + Len(wire'[me])
    BY <1>3, <1>4, <1>5 DEF inStep
  <2> QED
    BY <2>3, <2>4 DEF inStep
<1>6. ASSUME to \in inStep
      PROVE  to \in inStep'
  <2>1. /\ \A i \in 1..Len(wire[to]) : wire[to][i].off = dec[to] + i /\ wire[to][i].k # "part"
        /\ enc[to] = dec[to] + Len(wire[to])
    BY <1>6 DEF inStep
  <2>2. Len(wire[to]) \in Nat /\ Len(new) \in Nat
    BY <1>2, <1>4
  <2>3. ASSUME NEW i \in 1..Len(wire'[to])
        PROVE  wire'[to][i].off = dec'[to] + i /\ wire'[to][i].k # "part"
    <3>1. CASE i <= Len(wire[to])
      <4>1. i \in 1..Len(wire[to]) /\ wire'[to][i] = wire[to][i]
        BY <3>1, <2>2, <1>3
      <4> QED
        BY <4>1, <2>1, <1>3
    <3>2. CASE ~(i <= Len(wire[to]))
      <4>1. i - Len(wire[to]) \in 1..Len(new) /\ Len(wire[to]) + (i - Len(wire[to])) = i
        BY <3>2, <2>2, <1>3
      <4>2. wire'[to][i] = new[i - Len(wire[to])]
        BY <4>1, <1>3
      <4>3. new[i - Len(wire[to])].off = enc[to] + (i - Len(wire[to]))
        BY <4>1, <1>2
      <4>4. new[i - Len(wire[to])].k # "part"
        BY <4>1, <1>2 DEF Kinds
      <4>5. enc[to] = dec[to] + Len(wire[to]) /\ dec'[to] = dec[to]
        BY <1>3, <2>1
      <4>6. enc[to] + (i - Len(wire[to])) = dec'[to] + i
        BY <1>4, <2>2, <4>5
      <4> QED
        BY <4>2, <4>3, <4>4, <4>6
    <3> QED
      BY <3>1, <3>2
  <2>4. enc'[to] = dec'[to] + Len(wire'[to])
    <3>1. enc'[to] = enc[to] + Len(new) /\ dec'[to] = dec[to] /\ Len(wire'[to]) = Len(wire[to]) + Len(new)
      BY <1>3
    <3>2. enc[to] = dec[to] + Len(wire[to]) /\ dec[to] \in Nat
      BY <2>1, <1>4
    <3> QED
      BY <2>2, <3>1, <3>2
  <2> QED
    BY <2>3, <2>4, <1>1 DEF inStep
<1> QED
  BY <1>1, <1>5, <1>6
LEMMA StreamsInvSuffices == StreamsInv => StreamsInStep
<1> SUFFICES ASSUME StreamsInv, crypt # "wrong", NEW e \in Ends, NEW i \in DOMAIN wire[e],
                    wire[e][i].off # 0
             PROVE  wire[e][i].off = dec[e] + Cardinality({j \in 1..i : wire[e][j].off # 0})
  BY DEF StreamsInStep
<1> DEFINE coded == {j \in 1..i : wire[e][j].off # 0}
<1>1. wire[e] \in Seq(Unit) /\ dec[e] \in Nat /\ i \in 1..Len(wire[e]) /\ i \in Nat
  BY DEF StreamsInv, NetTyped
<1> SUFFICES wire[e][i].off = dec[e] + Cardinality(coded)
  OBVIOUS
<1>2. CASE e \in inStep
  <2>1. \A j \in 1..Len(wire[e]) : wire[e][j].off = dec[e] + j
    BY <1>2 DEF inStep
  <2>2. coded = 1..i
    <3>1. \A j \in 1..i : j \in 1..Len(wire[e]) /\ dec[e] + j # 0
      BY <1>1
    <3>2. \A j \in 1..i : wire[e][j].off # 0
      BY <2>1, <3>1
    <3> QED
      BY <3>2
  <2>3. Cardinality(1..i) = i
    BY <1>1, IntervalSize
  <2> QED
    BY <1>1, <2>1, <2>2, <2>3
<1>3. CASE e = "sv" /\ Requested
  <2>1. \A x : Cardinality({x}) = 1
    BY FS_Singleton
  <2> HIDE DEF coded
  <2>2. CASE wire["sv"] = Opening("basic") /\ dec["sv"] = 0
    <3>1. wire["sv"] = <<Clear("part"), Sealed("magic", 1), Sealed("pad", 2)>>
      BY <2>2, OpeningIs
    <3>2. i \in {1, 2, 3} /\ wire["sv"][1].off = 0 /\ wire["sv"][2].off = 1 /\ wire["sv"][3].off = 2
      BY <1>1, <1>3, <3>1 DEF Clear, Sealed
    <3>3. CASE i = 2
      <4>1. coded = {2}
        BY <1>3, <3>2, <3>3 DEF coded
      <4>2. Cardinality(coded) = 1
        BY <2>1, <4>1
      <4>3. wire[e][i].off = 1 /\ dec[e] = 0
        BY <1>3, <2>2, <3>2, <3>3
      <4> QED
        BY <4>2, <4>3
    <3>4. CASE i = 3
      <4>1. coded = {2, 3}
        BY <1>3, <3>2, <3>4 DEF coded
      <4>2. {2, 3} = 2..3
        OBVIOUS
      <4> QED
        BY <1>3, <2>2, <3>2, <3>4, <4>1, <4>2, SmallIntervals
    <3> QED
      BY <1>3, <3>2, <3>3, <3>4
  <2>3. CASE wire["sv"] = <<Sealed("pad", 2)>> /\ dec["sv"] = 1
    <3>1. i = 1 /\ wire["sv"][1].off = 2
      BY <1>1, <1>3, <2>3 DEF Sealed
    <3>2. coded = {1}
      BY <1>3, <3>1 DEF coded
    <3>3. Cardinality(coded) = 1
      BY <2>1, <3>2
    <3> QED
      BY <1>3, <2>3, <3>1, <3>3
  <2>4. CASE wire["sv"] = Opening("dh") \/ wire["sv"] = <<Clear("rest"), Clear("pad")>>
    <3>1. CASE wire["sv"] = Opening("dh")
      <4>1. wire["sv"] = <<Clear("part"), Clear("magic"), Clear("rest"), Clear("pad")>>
        BY <3>1, OpeningIs
      <4>2. i \in {1, 2, 3, 4}
        BY <1>1, <1>3, <4>1
      <4> QED
        BY <1>3, <4>1, <4>2 DEF Clear
    <3>2. CASE wire["sv"] = <<Clear("rest"), Clear("pad")>>
      <4>1. i \in {1, 2}
        BY <1>1, <1>3, <3>2
      <4> QED
        BY <1>3, <3>2, <4>1 DEF Clear
    <3> QED
      BY <2>4, <3>1, <3>2
  <2> QED
    BY <1>3, <2>2, <2>3, <2>4 DEF Requested
<1> QED
  BY <1>2, <1>3 DEF StreamsInv, Ends

LEMMA StreamsStart == PeerInit => StreamsInv
<1> SUFFICES ASSUME PeerInit
             PROVE  StreamsInv
  OBVIOUS
<1>1. crypt \in {"plain", "basic", "wrong", "dh"}
  BY PeerAssumption DEF PeerInit
<1>1a. Opening(crypt) \in Seq(Unit) /\ Sent(crypt) \in Nat
  <2>1. Sent("wrong") = Sent("basic")
    BY OpeningIs DEF Sent
  <2> QED
    BY <1>1, <2>1, OpeningIs
<1>2. /\ wire \in [Ends -> Seq(Unit)] /\ wire["sv"] = Opening(crypt) /\ wire["cl"] = <<>>
      /\ enc = [e \in Ends |-> IF e = "sv" THEN Sent(crypt) ELSE 0]
      /\ Sent(crypt) \in Nat
  BY <1>1a DEF PeerInit, Ends
<1>3. NetTyped
  BY <1>2 DEF PeerInit, NetTyped, Ends
<1>4. "cl" \in inStep
  BY <1>2 DEF PeerInit, inStep, Ends
<1>5. CASE crypt = "plain"
  <2>1. /\ Len(wire["sv"]) = 4 /\ \A i \in 1..4 : wire["sv"][i].off = i /\ wire["sv"][i].k # "part"
        /\ enc["sv"] = 4 /\ dec["sv"] = 0
    BY <1>2, <1>5, OpeningIs DEF PeerInit, Ends
  <2>1a. /\ \A i \in 1..Len(wire["sv"]) : wire["sv"][i].off = dec["sv"] + i /\ wire["sv"][i].k # "part"
         /\ enc["sv"] = dec["sv"] + Len(wire["sv"])
    BY <2>1
  <2>2. "sv" \in inStep
    BY <2>1a DEF inStep, Ends
  <2> QED
    BY <1>1, <1>3, <1>4, <1>5, <2>2 DEF StreamsInv, PeerInit
<1>6. CASE crypt \in {"basic", "dh"}
  <2>1. Requested
    BY <1>2, <1>6, OpeningIs DEF PeerInit, Requested, Ends
  <2> QED
    BY <1>1, <1>3, <1>4, <1>6, <2>1 DEF StreamsInv, PeerInit, Ends
<1>7. CASE crypt = "wrong"
  BY <1>3, <1>7 DEF StreamsInv
<1> QED
  BY <1>1, <1>5, <1>6, <1>7

(* A read and a write on the streams, by an end past its negotiation.      *)
LEMMA ExchangeInStep ==
    ASSUME StreamsInv, NEW me \in Ends, NEW take \in Nat, take <= here[me],
           NEW kinds \in Seq(Kinds), Net(me, take, kinds), UNCHANGED crypt,
           \/ me = "cl" /\ cpc \notin {"negotiate", "closed"} /\ cpc' # "negotiate" /\ UNCHANGED spc
           \/ /\ me = "sv" /\ spc \notin {"basic", "dh", "closed"} /\ UNCHANGED cpc
              /\ spc' \notin {"basic", "dh"} /\ (spc = "first" => wire["sv"][1].k # "part")
    PROVE  StreamsInv'
<1>1. NetTyped
  BY DEF StreamsInv
<1>2. NetTyped' /\ (me = "sv" => dec'["cl"] = dec["cl"])
  BY <1>1, NetIs DEF Other
<1>3. \A e \in Ends : e \in inStep => e \in inStep'
  BY <1>1, NetInStep
<1>4. ~Requested
  BY OpeningIs DEF Requested, Clear
<1>5. crypt # "wrong" => ("cl" \in inStep /\ "sv" \in inStep /\ spc \notin {"basic", "dh"})
  BY <1>4 DEF StreamsInv
<1>6. crypt # "wrong" => ("cl" \in inStep' /\ "sv" \in inStep')
  BY <1>3, <1>5 DEF Ends
<1>7. spc' \notin {"basic", "dh"} \/ crypt = "wrong"
  BY <1>5
<1>8. (crypt # "wrong" /\ cpc' = "negotiate") => dec'["cl"] = 0
  BY <1>2 DEF StreamsInv
<1> QED
  BY <1>2, <1>6, <1>7, <1>8 DEF StreamsInv
(* Nothing goes over the streams.                                          *)
LEMMA RestInStep ==
    ASSUME StreamsInv, NetTyped', UNCHANGED <<crypt, wire, enc, dec>>,
           cpc' \in {cpc, "closed"} \/ (cpc = "transfer" /\ cpc' = "done"),
           spc' \in {spc, "closed"}
    PROVE  StreamsInv'
<1>1. inStep' = inStep
  BY DEF inStep
<1>2. Requested => Requested'
  BY DEF Requested
<1> QED
  BY <1>1, <1>2 DEF StreamsInv

LEMMA ReadHeaderInStep ==
    ASSUME StreamsInv, NEW me \in Ends, ReadHeader(me)
    PROVE  StreamsInv'
<1>1. /\ wire[me] \in Seq(Unit) /\ here[me] = 1 /\ here[me] <= Len(wire[me])
      /\ wire[me] # <<>> /\ dec[me] \in Nat /\ Head(wire[me]).k \in UnitKinds
  <2>1. /\ wire[me] \in Seq(Unit) /\ here[me] = 1 /\ here[me] <= Len(wire[me])
        /\ dec[me] \in Nat
    BY DEF ReadHeader, StreamsInv, NetTyped
  <2>2. wire[me] # <<>> /\ Head(wire[me]) \in Unit
    BY <2>1
  <2> QED
    BY <2>1, <2>2 DEF Unit
<1>2. /\ wire' = [wire EXCEPT ![me] = Tail(wire[me])] /\ here' = [here EXCEPT ![me] = 0]
      /\ dec' = [dec EXCEPT ![me] = dec[me] + 1] /\ UNCHANGED enc
      /\ half' = [half EXCEPT ![me] = Head(wire[me]).k] /\ UNCHANGED <<crypt, cpc, spc>>
  BY DEF ReadHeader
<1>3. /\ Tail(wire[me]) \in Seq(Unit) /\ Len(Tail(wire[me])) = Len(wire[me]) - 1
      /\ \A i \in 1..(Len(wire[me]) - 1) : Tail(wire[me])[i] = wire[me][i + 1]
  BY <1>1
<1>4. NetTyped'
  <2>1. /\ wire' \in [Ends -> Seq(Unit)] /\ here' \in [Ends -> Nat] /\ enc' \in [Ends -> Nat]
        /\ dec' \in [Ends -> Nat] /\ half' \in [Ends -> UnitKinds \cup {"none"}]
    BY <1>1, <1>2, <1>3 DEF StreamsInv, NetTyped
  <2>2. ASSUME NEW e \in Ends
        PROVE  here'[e] <= Len(wire'[e])
    <3>1. CASE e = me
      BY <3>1, <1>1, <1>2, <1>3 DEF StreamsInv, NetTyped
    <3>2. CASE e # me
      BY <3>2, <1>2 DEF StreamsInv, NetTyped
    <3> QED
      BY <3>1, <3>2
  <2> QED
    BY <2>1, <2>2 DEF NetTyped
<1>5. ASSUME NEW e \in Ends, e \in inStep
      PROVE  e \in inStep'
  <2>1. /\ \A i \in 1..Len(wire[e]) : wire[e][i].off = dec[e] + i /\ wire[e][i].k # "part"
        /\ enc[e] = dec[e] + Len(wire[e])
    BY <1>5 DEF inStep
  <2>2. CASE e # me
    BY <1>2, <2>1, <2>2 DEF inStep, StreamsInv, NetTyped
  <2>3. CASE e = me
    <3>1. wire'[me] = Tail(wire[me]) /\ dec'[me] = dec[me] + 1 /\ enc'[me] = enc[me]
      BY <1>2 DEF StreamsInv, NetTyped
    <3>2. ASSUME NEW i \in 1..Len(wire'[me])
          PROVE  wire'[me][i].off = dec'[me] + i /\ wire'[me][i].k # "part"
      <4>1. i \in Nat /\ i + 1 \in 1..Len(wire[me]) /\ wire'[me][i] = wire[me][i + 1]
        BY <1>1, <1>3, <3>1
      <4>2. wire[me][i + 1].off = dec[me] + (i + 1) /\ wire[me][i + 1].k # "part"
        BY <2>1, <2>3, <4>1
      <4> QED
        BY <3>1, <4>1, <4>2, <1>1
    <3>3. enc'[me] = dec'[me] + Len(wire'[me])
      <4>1. Len(wire[me]) \in Nat /\ enc[me] = dec[me] + Len(wire[me])
        BY <1>1, <2>1, <2>3
      <4> QED
        BY <1>1, <1>3, <3>1, <4>1
    <3> QED
      BY <2>3, <3>2, <3>3 DEF inStep
  <2> QED
    BY <2>2, <2>3
<1>6. ~Requested
  <2>1. CASE me = "cl"
    BY <2>1 DEF ReadHeader, Talking, Requested
  <2>2. CASE me = "sv" /\ spc # "first"
    BY <2>2 DEF ReadHeader, Talking, Requested
  <2>3. CASE me = "sv" /\ spc = "first"
    <3>1. wire["sv"][1].k = "hello"
      BY <1>1, <2>3 DEF ReadHeader, Talking
    <3> QED
      BY <2>3, <3>1, OpeningIs DEF Requested, Clear
  <2> QED
    BY <2>1, <2>2, <2>3 DEF Ends
<1>7. cpc = "negotiate" => dec'["cl"] = dec["cl"]
  BY <1>2 DEF ReadHeader, Talking, StreamsInv, NetTyped, Ends
<1> QED
  BY <1>2, <1>4, <1>5, <1>6, <1>7 DEF StreamsInv, Ends

LEMMA AcceptInStep == StreamsInv /\ AcceptObfuscated => StreamsInv'
<1> SUFFICES ASSUME StreamsInv, AcceptObfuscated
             PROVE  StreamsInv'
  OBVIOUS
<1>1. /\ spc = "first" /\ here["sv"] >= 2 /\ wire["sv"][1].k = "part"
      /\ spc' = IF crypt = "basic" THEN "basic" ELSE "dh"
      /\ wire' = [wire EXCEPT !["sv"] = SubSeq(wire["sv"], 3, Len(wire["sv"]))]
      /\ here' = [here EXCEPT !["sv"] = here["sv"] - 2]
      /\ dec' = [dec EXCEPT !["sv"] = IF crypt = "basic" THEN 1 ELSE 0]
      /\ UNCHANGED <<crypt, cpc, enc, half>>
  BY DEF AcceptObfuscated
<1>2. wire["sv"] \in Seq(Unit) /\ here["sv"] \in Nat /\ here["sv"] <= Len(wire["sv"])
  BY DEF StreamsInv, NetTyped, Ends
<1> DEFINE rest == SubSeq(wire["sv"], 3, Len(wire["sv"]))
<1>3. /\ rest \in Seq(Unit) /\ Len(rest) = Len(wire["sv"]) - 2
      /\ \A i \in 1..(Len(wire["sv"]) - 2) : rest[i] = wire["sv"][i + 2]
      /\ wire' = [wire EXCEPT !["sv"] = rest]
  BY <1>1, <1>2
<1> HIDE DEF rest
<1>4. NetTyped'
  <2> DEFINE d == IF crypt = "basic" THEN 1 ELSE 0
  <2>0. here["sv"] - 2 \in Nat /\ d \in Nat /\ dec' = [dec EXCEPT !["sv"] = d]
    BY <1>1, <1>2
  <2> HIDE DEF d
  <2>1. /\ wire' \in [Ends -> Seq(Unit)] /\ here' \in [Ends -> Nat] /\ enc' \in [Ends -> Nat]
        /\ dec' \in [Ends -> Nat] /\ half' \in [Ends -> UnitKinds \cup {"none"}]
    <3>1. wire' \in [Ends -> Seq(Unit)]
      BY <1>3 DEF StreamsInv, NetTyped
    <3>2. here' \in [Ends -> Nat]
      BY <1>1, <2>0 DEF StreamsInv, NetTyped
    <3>3. enc' \in [Ends -> Nat] /\ half' \in [Ends -> UnitKinds \cup {"none"}]
      BY <1>1 DEF StreamsInv, NetTyped
    <3>4. dec' \in [Ends -> Nat]
      BY <2>0 DEF StreamsInv, NetTyped
    <3> QED
      BY <3>1, <3>2, <3>3, <3>4
  <2>2. here'["sv"] <= Len(wire'["sv"]) /\ here'["cl"] <= Len(wire'["cl"])
    BY <1>1, <1>2, <1>3 DEF StreamsInv, NetTyped, Ends
  <2> QED
    BY <2>1, <2>2 DEF NetTyped, Ends
<1>5. CASE crypt = "wrong"
  BY <1>1, <1>4, <1>5 DEF StreamsInv
<1>6. CASE crypt # "wrong"
  <2>1. 1 \in 1..Len(wire["sv"])
    BY <1>1, <1>2
  <2>2. Requested
    BY <1>1, <1>6, <2>1 DEF StreamsInv, inStep
  <2>3. "cl" \in inStep'
    BY <1>1, <1>6 DEF StreamsInv, inStep, NetTyped, Ends
  <2>4. wire["sv"] = Opening(crypt)
    BY <1>1, <2>2 DEF Requested
  <2>7. wire'["sv"] = rest
    BY <1>3 DEF StreamsInv, NetTyped, Ends
  <2>5. CASE crypt = "basic"
    <3>1. wire'["sv"] = <<Sealed("pad", 2)>>
      <4>1. wire["sv"] = <<Clear("part"), Sealed("magic", 1), Sealed("pad", 2)>>
        BY <2>4, <2>5, OpeningIs
      <4>2. Len(wire["sv"]) = 3 /\ wire["sv"][3] = Sealed("pad", 2)
        BY <4>1
      <4> QED
        BY <4>2, <1>3, <2>7
    <3>2. Requested'
      BY <1>1, <2>2, <2>5, <3>1 DEF Requested, StreamsInv, NetTyped, Ends
    <3> QED
      BY <1>1, <1>4, <1>6, <2>3, <3>2 DEF StreamsInv, NetTyped, Ends
  <2>6. CASE crypt = "dh"
    <3>1. wire'["sv"] = <<Clear("rest"), Clear("pad")>>
      <4>1. wire["sv"] = <<Clear("part"), Clear("magic"), Clear("rest"), Clear("pad")>>
        BY <2>4, <2>6, OpeningIs
      <4>2. Len(wire["sv"]) = 4 /\ wire["sv"][3] = Clear("rest") /\ wire["sv"][4] = Clear("pad")
        BY <4>1
      <4> QED
        BY <4>2, <1>3, <2>7
    <3>2. Requested'
      BY <1>1, <2>2, <2>6, <3>1 DEF Requested, StreamsInv, NetTyped, Ends
    <3> QED
      BY <1>1, <1>4, <1>6, <2>3, <3>2 DEF StreamsInv, NetTyped, Ends
  <2> QED
    BY <1>1, <2>2, <2>5, <2>6 DEF Requested
<1> QED
  BY <1>5, <1>6
LEMMA AnswerInStep == StreamsInv /\ AnswerObfuscated => StreamsInv'
<1> SUFFICES ASSUME StreamsInv, AnswerObfuscated
             PROVE  StreamsInv'
  OBVIOUS
<1> DEFINE n == IF spc = "basic" THEN 1 ELSE 2
           d == IF spc = "basic" THEN 2 ELSE 0
           answer == Sealed("answer", 1)
           rest == SubSeq(wire["sv"], n + 1, Len(wire["sv"]))
           sent == wire["cl"] \o <<answer>>
<1>1. /\ spc \in {"basic", "dh"} /\ here["sv"] >= n /\ spc' = "first"
      /\ wire' = [wire EXCEPT !["sv"] = rest, !["cl"] = sent]
      /\ here' = [here EXCEPT !["sv"] = here["sv"] - n]
      /\ dec' = [dec EXCEPT !["sv"] = d]
      /\ enc' = [enc EXCEPT !["cl"] = 1]
      /\ UNCHANGED <<crypt, cpc, half>>
  BY DEF AnswerObfuscated
<1>2. /\ wire["sv"] \in Seq(Unit) /\ wire["cl"] \in Seq(Unit) /\ answer \in Unit
      /\ here["sv"] \in Nat /\ here["sv"] <= Len(wire["sv"])
      /\ here["cl"] \in Nat /\ here["cl"] <= Len(wire["cl"])
      /\ n \in {1, 2} /\ d \in Nat
  BY DEF StreamsInv, NetTyped, Ends, Sealed, Unit, UnitKinds
<1>3. /\ rest \in Seq(Unit) /\ Len(rest) = Len(wire["sv"]) - n
      /\ sent \in Seq(Unit) /\ Len(sent) = Len(wire["cl"]) + 1
  <2> HIDE DEF n, answer
  <2> QED
    BY <1>1, <1>2
<1>4. wire["cl"] = <<>> => sent = <<answer>>
  BY <1>2
<1>5. answer.off = 1 /\ answer.k # "part"
  BY DEF Sealed
<1>6. (spc = "basic" => n = 1) /\ (spc = "basic" => d = 2) /\ (spc = "dh" => n = 2) /\ (spc = "dh" => d = 0)
  OBVIOUS
<1> HIDE DEF n, d, answer, rest, sent
<1>7. NetTyped'
  <2>1. wire' \in [Ends -> Seq(Unit)]
    BY <1>1, <1>3 DEF StreamsInv, NetTyped
  <2>2. here["sv"] - n \in Nat
    BY <1>1, <1>2
  <2>3. here' \in [Ends -> Nat]
    BY <1>1, <2>2 DEF StreamsInv, NetTyped
  <2>4. dec' \in [Ends -> Nat] /\ enc' \in [Ends -> Nat]
    BY <1>1, <1>2 DEF StreamsInv, NetTyped
  <2>5. half' \in [Ends -> UnitKinds \cup {"none"}]
    BY <1>1 DEF StreamsInv, NetTyped
  <2>6. here'["sv"] <= Len(wire'["sv"])
    <3>1. here'["sv"] = here["sv"] - n /\ wire'["sv"] = rest
      BY <1>1 DEF StreamsInv, NetTyped, Ends
    <3> QED
      BY <3>1, <1>1, <1>2, <1>3
  <2>7. here'["cl"] <= Len(wire'["cl"])
    <3>1. here'["cl"] = here["cl"] /\ wire'["cl"] = sent
      BY <1>1 DEF StreamsInv, NetTyped, Ends
    <3> QED
      BY <3>1, <1>2, <1>3
  <2> QED
    BY <2>1, <2>3, <2>4, <2>5, <2>6, <2>7 DEF NetTyped, Ends
<1>8. CASE crypt = "wrong"
  BY <1>1, <1>7, <1>8 DEF StreamsInv
<1>9. CASE crypt # "wrong"
  <2>1. Requested
    BY <1>1, <1>9 DEF StreamsInv
  <2>2. /\ wire["cl"] = <<>> /\ dec["cl"] = 0
        /\ \/ spc = "basic" /\ Len(wire["sv"]) = 1 /\ enc["sv"] = 2
           \/ spc = "dh" /\ Len(wire["sv"]) = 2 /\ enc["sv"] = 0
    BY <1>1, <2>1 DEF Requested
  <2>3. /\ wire'["cl"] = <<answer>> /\ wire'["sv"] = rest
        /\ dec'["cl"] = 0 /\ enc'["cl"] = 1 /\ dec'["sv"] = d /\ enc'["sv"] = enc["sv"]
    BY <1>1, <1>4, <2>2 DEF StreamsInv, NetTyped, Ends
  <2>4. "cl" \in inStep'
    <3>1. Len(wire'["cl"]) = 1 /\ wire'["cl"][1] = answer
      BY <2>3
    <3>2. \A i \in 1..Len(wire'["cl"]) : i = 1
      BY <3>1
    <3>3. wire'["cl"][1].off = dec'["cl"] + 1 /\ wire'["cl"][1].k # "part"
      BY <3>1, <1>5, <2>3
    <3>4. enc'["cl"] = dec'["cl"] + Len(wire'["cl"])
      BY <3>1, <2>3
    <3> QED
      BY <3>2, <3>3, <3>4 DEF inStep, Ends
  <2>5. "sv" \in inStep'
    <3>1. Len(wire'["sv"]) = 0 /\ enc'["sv"] = dec'["sv"]
      <4>1. CASE spc = "basic" /\ Len(wire["sv"]) = 1 /\ enc["sv"] = 2
        <5>1. n = 1 /\ d = 2
          BY <4>1, <1>6
        <5> QED
          BY <4>1, <5>1, <1>3, <2>3
      <4>2. CASE spc = "dh" /\ Len(wire["sv"]) = 2 /\ enc["sv"] = 0
        <5>1. n = 2 /\ d = 0
          BY <4>2, <1>6
        <5> QED
          BY <4>2, <5>1, <1>3, <2>3
      <4> QED
        BY <4>1, <4>2, <2>2
    <3>2. dec'["sv"] \in Nat
      BY <1>2, <2>3
    <3> QED
      BY <3>1, <3>2 DEF inStep, Ends
  <2> QED
    BY <1>1, <1>7, <1>9, <2>3, <2>4, <2>5 DEF StreamsInv
<1> QED
  BY <1>8, <1>9

LEMMA NegotiationEndsInStep == StreamsInv /\ NegotiationEnds => StreamsInv'
<1> SUFFICES ASSUME StreamsInv, NegotiationEnds
             PROVE  StreamsInv'
  OBVIOUS
<1> DEFINE hi == Encrypted(Frames(<<"hello", "info">>), enc["sv"])
           sent == wire["sv"] \o hi
<1>1. /\ cpc = "negotiate" /\ here["cl"] >= 1 /\ cpc' = "hs"
      /\ wire' = [wire EXCEPT !["cl"] = Tail(wire["cl"]), !["sv"] = sent]
      /\ here' = [here EXCEPT !["cl"] = here["cl"] - 1]
      /\ enc' = [enc EXCEPT !["sv"] = enc["sv"] + Len(hi)]
      /\ dec' = [dec EXCEPT !["cl"] = 1]
      /\ UNCHANGED <<crypt, spc, half>>
  BY DEF NegotiationEnds, Negotiated
<1>2. /\ wire["sv"] \in Seq(Unit) /\ wire["cl"] \in Seq(Unit)
      /\ here["sv"] \in Nat /\ here["sv"] <= Len(wire["sv"])
      /\ here["cl"] \in Nat /\ here["cl"] <= Len(wire["cl"])
      /\ enc["sv"] \in Nat /\ dec["sv"] \in Nat /\ enc["cl"] \in Nat
  BY DEF StreamsInv, NetTyped, Ends
<1>3. hi \in Seq(Unit) /\ \A i \in 1..Len(hi) : hi[i].off = enc["sv"] + i /\ hi[i].k # "part"
  <2> DEFINE units == Frames(<<"hello", "info">>)
  <2>1. <<"hello", "info">> \in Seq(Kinds)
    BY DEF Kinds
  <2>2. units \in Seq(Kinds \X {"head", "body"})
    BY <2>1, FramesAre
  <2> HIDE DEF units
  <2>3. /\ Encrypted(units, enc["sv"]) \in Seq(Unit)
        /\ Len(Encrypted(units, enc["sv"])) = Len(units)
        /\ \A i \in 1..Len(units) : /\ Encrypted(units, enc["sv"])[i].off = enc["sv"] + i
                                    /\ Encrypted(units, enc["sv"])[i].k \in Kinds
    BY <1>2, <2>2, EncryptedIs
  <2>4. "part" \notin Kinds
    BY DEF Kinds
  <2> QED
    BY <2>3, <2>4 DEF units
<1> HIDE DEF hi
<1>4. /\ sent \in Seq(Unit) /\ Len(sent) = Len(wire["sv"]) + Len(hi)
      /\ \A i \in 1..(Len(wire["sv"]) + Len(hi)) :
            sent[i] = IF i <= Len(wire["sv"]) THEN wire["sv"][i] ELSE hi[i - Len(wire["sv"])]
  BY <1>2, <1>3, ConcatProperties
<1>5. wire["cl"] # <<>>
  BY <1>1, <1>2
<1>6. /\ Tail(wire["cl"]) \in Seq(Unit) /\ Len(Tail(wire["cl"])) = Len(wire["cl"]) - 1
      /\ \A i \in 1..(Len(wire["cl"]) - 1) : Tail(wire["cl"])[i] = wire["cl"][i + 1]
  BY <1>2, <1>5
<1> HIDE DEF sent
<1>7. /\ wire'["cl"] = Tail(wire["cl"]) /\ wire'["sv"] = sent
      /\ here'["cl"] = here["cl"] - 1 /\ here'["sv"] = here["sv"]
      /\ enc'["sv"] = enc["sv"] + Len(hi) /\ enc'["cl"] = enc["cl"]
      /\ dec'["cl"] = 1 /\ dec'["sv"] = dec["sv"]
  BY <1>1 DEF StreamsInv, NetTyped, Ends
<1>8. NetTyped'
  <2>1. wire' \in [Ends -> Seq(Unit)]
    BY <1>1, <1>4, <1>6 DEF StreamsInv, NetTyped
  <2>2. here["cl"] - 1 \in Nat /\ Len(hi) \in Nat
    BY <1>1, <1>2, <1>3
  <2>3. here' \in [Ends -> Nat]
    BY <1>1, <2>2 DEF StreamsInv, NetTyped
  <2>4. enc["sv"] + Len(hi) \in Nat
    BY <1>2, <2>2
  <2>5. dec' \in [Ends -> Nat] /\ enc' \in [Ends -> Nat]
    BY <1>1, <2>4 DEF StreamsInv, NetTyped
  <2>6. half' \in [Ends -> UnitKinds \cup {"none"}]
    BY <1>1 DEF StreamsInv, NetTyped
  <2>7. here'["sv"] <= Len(wire'["sv"]) /\ here'["cl"] <= Len(wire'["cl"])
    <3>1. /\ here["sv"] \in Nat /\ here["sv"] <= Len(wire["sv"]) /\ Len(wire["sv"]) \in Nat
          /\ here["cl"] \in Nat /\ here["cl"] <= Len(wire["cl"]) /\ Len(wire["cl"]) \in Nat
      BY <1>2 DEF StreamsInv, NetTyped, Ends
    <3>2. /\ here'["sv"] = here["sv"] /\ Len(wire'["sv"]) = Len(wire["sv"]) + Len(hi)
          /\ here'["cl"] = here["cl"] - 1 /\ Len(wire'["cl"]) = Len(wire["cl"]) - 1
      BY <1>4, <1>6, <1>7
    <3> QED
      BY <2>2, <3>1, <3>2
  <2> QED
    BY <2>1, <2>3, <2>5, <2>6, <2>7 DEF NetTyped, Ends
<1>9. CASE crypt = "wrong"
  BY <1>1, <1>8, <1>9 DEF StreamsInv
<1>10. CASE crypt # "wrong"
  <2>1. "cl" \in inStep /\ "sv" \in inStep /\ spc \notin {"basic", "dh"} /\ dec["cl"] = 0
    BY <1>1, <1>5, <1>10 DEF StreamsInv, Requested
  <2>2. "cl" \in inStep'
    <3>1. /\ \A i \in 1..Len(wire["cl"]) : wire["cl"][i].off = i /\ wire["cl"][i].k # "part"
          /\ enc["cl"] = Len(wire["cl"])
      BY <1>2, <2>1 DEF inStep
    <3>2. ASSUME NEW i \in 1..Len(wire'["cl"])
          PROVE  wire'["cl"][i].off = dec'["cl"] + i /\ wire'["cl"][i].k # "part"
      <4>1. i + 1 \in 1..Len(wire["cl"]) /\ wire'["cl"][i] = wire["cl"][i + 1]
        BY <1>2, <1>6, <1>7
      <4> QED
        BY <3>1, <4>1, <1>7
    <3>3. enc'["cl"] = dec'["cl"] + Len(wire'["cl"])
      BY <1>2, <1>6, <1>7, <3>1
    <3> QED
      BY <3>2, <3>3 DEF inStep, Ends
  <2>3. "sv" \in inStep'
    <3>1. /\ \A i \in 1..Len(wire["sv"]) : wire["sv"][i].off = dec["sv"] + i /\ wire["sv"][i].k # "part"
          /\ enc["sv"] = dec["sv"] + Len(wire["sv"])
      BY <2>1 DEF inStep
    <3>2. Len(hi) \in Nat /\ Len(wire["sv"]) \in Nat
      BY <1>2, <1>3
    <3>3. ASSUME NEW i \in 1..Len(wire'["sv"])
          PROVE  wire'["sv"][i].off = dec'["sv"] + i /\ wire'["sv"][i].k # "part"
      <4>1. CASE i <= Len(wire["sv"])
        <5>1. i \in 1..Len(wire["sv"]) /\ wire'["sv"][i] = wire["sv"][i]
          BY <4>1, <3>2, <1>4, <1>7
        <5> QED
          BY <5>1, <3>1, <1>7
      <4>2. CASE ~(i <= Len(wire["sv"]))
        <5>1. i - Len(wire["sv"]) \in 1..Len(hi) /\ wire'["sv"][i] = hi[i - Len(wire["sv"])]
          BY <4>2, <3>2, <1>4, <1>7
        <5>2. hi[i - Len(wire["sv"])].off = enc["sv"] + (i - Len(wire["sv"])) /\ hi[i - Len(wire["sv"])].k # "part"
          BY <5>1, <1>3
        <5>3. enc["sv"] = dec["sv"] + Len(wire["sv"]) /\ dec'["sv"] = dec["sv"] /\ dec["sv"] \in Nat
          BY <1>2, <1>7, <3>1
        <5>4. enc["sv"] + (i - Len(wire["sv"])) = dec'["sv"] + i
          BY <3>2, <5>3
        <5> QED
          BY <5>1, <5>2, <5>4
      <4> QED
        BY <4>1, <4>2
    <3>4. enc'["sv"] = dec'["sv"] + Len(wire'["sv"])
      <4>1. Len(wire'["sv"]) = Len(wire["sv"]) + Len(hi)
        BY <1>4, <1>7
      <4>2. enc'["sv"] = enc["sv"] + Len(hi) /\ dec'["sv"] = dec["sv"]
        BY <1>7
      <4>3. enc["sv"] = dec["sv"] + Len(wire["sv"])
        BY <3>1
      <4> QED
        BY <4>1, <4>2, <4>3, <1>2, <3>2
    <3> QED
      BY <3>3, <3>4 DEF inStep, Ends
  <2> QED
    BY <1>1, <1>8, <1>10, <2>1, <2>2, <2>3 DEF StreamsInv
<1> QED
  BY <1>9, <1>10
LEMMA NegotiationFailsInStep == StreamsInv /\ NegotiationFails => StreamsInv'
<1> SUFFICES ASSUME StreamsInv, NegotiationFails
             PROVE  StreamsInv'
  OBVIOUS
<1>1. CASE setting.fallback /\ crypt # "dh"
  <2>1. /\ crypt' = "plain" /\ cpc' = "hs" /\ spc' = "first"
        /\ wire' = [e \in Ends |-> IF e = "sv" THEN Opening("plain") ELSE <<>>]
        /\ here' = [e \in Ends |-> 0]
        /\ enc' = [e \in Ends |-> IF e = "sv" THEN Sent("plain") ELSE 0]
        /\ dec' = [e \in Ends |-> 0] /\ half' = half
    BY <1>1 DEF NegotiationFails
  <2>2. /\ Opening("plain") \in Seq(Unit) /\ Len(Opening("plain")) = 4
        /\ \A i \in 1..4 : Opening("plain")[i].off = i /\ Opening("plain")[i].k # "part"
        /\ Sent("plain") = 4
    BY OpeningIs
  <2>3. NetTyped'
    <3>1. <<>> \in Seq(Unit) /\ Len(<<>>) = 0
      OBVIOUS
    <3>2. wire' \in [Ends -> Seq(Unit)] /\ \A e \in Ends : here'[e] <= Len(wire'[e])
      BY <2>1, <2>2, <3>1
    <3>3. /\ here' \in [Ends -> Nat] /\ enc' \in [Ends -> Nat] /\ dec' \in [Ends -> Nat]
          /\ half' \in [Ends -> UnitKinds \cup {"none"}]
      BY <2>1, <2>2 DEF StreamsInv, NetTyped
    <3> QED
      BY <3>2, <3>3 DEF NetTyped
  <2>4. "cl" \in inStep'
    BY <2>1 DEF inStep, Ends
  <2>4a. /\ Len(wire'["sv"]) = 4 /\ enc'["sv"] = 4 /\ dec'["sv"] = 0
         /\ \A i \in 1..4 : wire'["sv"][i].off = i /\ wire'["sv"][i].k # "part"
    BY <2>1, <2>2 DEF Ends
  <2>5. /\ \A i \in 1..Len(wire'["sv"]) : wire'["sv"][i].off = dec'["sv"] + i /\ wire'["sv"][i].k # "part"
        /\ enc'["sv"] = dec'["sv"] + Len(wire'["sv"])
    BY <2>4a
  <2>6. "sv" \in inStep'
    BY <2>5 DEF inStep, Ends
  <2> QED
    BY <2>1, <2>3, <2>4, <2>6 DEF StreamsInv
<1>2. CASE ~(setting.fallback /\ crypt # "dh")
  <2>1. cpc' = "closed" /\ UNCHANGED <<crypt, spc, wire, here, enc, dec, half>>
    BY <1>2 DEF NegotiationFails
  <2>2. NetTyped'
    BY <2>1 DEF StreamsInv, NetTyped
  <2> QED
    BY <2>1, <2>2, RestInStep
<1> QED
  BY <1>1, <1>2

LEMMA StreamsStep == StreamsInv /\ [PeerNext]_peerVars => StreamsInv'
<1> SUFFICES ASSUME StreamsInv, [PeerNext]_peerVars
             PROVE  StreamsInv'
  OBVIOUS
<1>0. /\ NetTyped /\ "cl" \in Ends /\ "sv" \in Ends /\ 0 \in Nat
      /\ 0 <= here["cl"] /\ 0 <= here["sv"]
      /\ \A k \in Kinds : <<k>> \in Seq(Kinds)
      /\ <<>> \in Seq(Kinds)
      /\ here["cl"] \in Nat /\ here["sv"] \in Nat
  BY DEF StreamsInv, NetTyped, Ends
<1>1. ASSUME NEW e \in Ends, Arrive(e)
      PROVE  StreamsInv'
  <2>1. PICK n \in (here[e] + 1)..Len(wire[e]) : here' = [here EXCEPT ![e] = n]
    BY <1>1 DEF Arrive
  <2>2. n \in Nat /\ n <= Len(wire[e]) /\ wire' = wire
    BY <1>0, <1>1, <2>1 DEF Arrive, NetTyped
  <2>3. NetTyped'
    <3>1. UNCHANGED <<wire, enc, dec, half>>
      BY <1>1 DEF Arrive
    <3> QED
      BY <1>0, <2>1, <2>2, <3>1 DEF NetTyped
  <2> QED
    BY <1>1, <2>3, RestInStep DEF Arrive
<1>2. CASE ClientShakes
  <2>1. PICK p \in Packets("cl") :
          /\ cpc' = IF ShakenOver(Shaken(p.k)) THEN "req" ELSE "hs"
          /\ Net("cl", p.take, ShakeReply(p.k) \o (IF ShakenOver(Shaken(p.k)) THEN FileRequest ELSE <<>>))
    BY <1>2 DEF ClientShakes
  <2>2. ShakeReply(p.k) \o (IF ShakenOver(Shaken(p.k)) THEN FileRequest ELSE <<>>) \in Seq(Kinds)
    BY <1>0, KindsSent
  <2>3. p.take \in Nat /\ p.take <= here["cl"]
    BY <1>0, PacketIsThere
  <2> QED
    BY <1>0, <1>2, <2>1, <2>2, <2>3, ExchangeInStep DEF ClientShakes
<1>3. CASE GraceEnds
  <2>1. PICK p \in Packets("cl") : Net("cl", p.take, ShakeReply(p.k) \o FileRequest)
    BY <1>3 DEF GraceEnds
  <2>2. ShakeReply(p.k) \o FileRequest \in Seq(Kinds)
    BY KindsSent
  <2>3. p.take \in Nat /\ p.take <= here["cl"]
    BY <1>0, PacketIsThere
  <2> QED
    BY <1>0, <1>3, <2>1, <2>2, <2>3, ExchangeInStep DEF GraceEnds
<1>4. CASE ClientRequests
  <2>1. PICK p \in Packets("cl") :
          /\ cpc' = IF p.k = "hashans" THEN "wait" ELSE "req"
          /\ Net("cl", p.take, IF p.k = "hashans" THEN <<"sx2">> ELSE <<>>)
    BY <1>4 DEF ClientRequests
  <2>2. (IF p.k = "hashans" THEN <<"sx2">> ELSE <<>>) \in Seq(Kinds)
    <3>1. "sx2" \in Kinds
      BY DEF Kinds
    <3> QED
      BY <1>0, <3>1
  <2>3. p.take \in Nat /\ p.take <= here["cl"]
    BY <1>0, PacketIsThere
  <2> QED
    BY <1>0, <1>4, <2>1, <2>2, <2>3, ExchangeInStep DEF ClientRequests
<1>5. CASE ClientWaits
  <2>1. PICK p \in Packets("cl") :
          /\ cpc' = IF p.k = "accept" THEN "transfer" ELSE "wait"
          /\ Net("cl", p.take, <<>>)
    BY <1>5 DEF ClientWaits
  <2>2. p.take \in Nat /\ p.take <= here["cl"]
    BY <1>0, PacketIsThere
  <2> QED
    BY <1>0, <1>5, <2>1, <2>2, ExchangeInStep DEF ClientWaits
<1>6. CASE ClientDone
  <2>1. <<"end">> \in Seq(Kinds)
    BY DEF Kinds
  <2>2. CASE UNCHANGED net
    <3>1. NetTyped' /\ UNCHANGED <<crypt, wire, enc, dec, spc>> /\ cpc = "transfer" /\ cpc' = "done"
      BY <1>0, <1>6, <2>2 DEF ClientDone, net, NetTyped
    <3> QED
      BY <3>1, RestInStep
  <2> QED
    BY <1>0, <1>6, <2>1, <2>2, ExchangeInStep DEF ClientDone
<1>7. CASE NegotiationEnds
  BY <1>7, NegotiationEndsInStep
<1>8. CASE ClientSeesEnd
  <2>1. NetTyped' /\ UNCHANGED <<crypt, wire, enc, dec, spc>> /\ cpc' = "closed"
    BY <1>0, <1>8 DEF ClientSeesEnd, ClientCloses, net, NetTyped
  <2> QED
    BY <2>1, RestInStep
<1>9. ASSUME NEW e \in Ends, ReadHeader(e)
      PROVE  StreamsInv'
  BY <1>9, ReadHeaderInStep
<1>10. CASE ServerHello
  <2>1. PICK p \in Packets("sv") : Net("sv", p.take, <<"helloans", "secstate">>)
    BY <1>10 DEF ServerHello
  <2>2. <<"helloans", "secstate">> \in Seq(Kinds)
    BY DEF Kinds
  <2>3. p.take \in Nat /\ p.take <= here["sv"]
    BY <1>0, PacketIsThere
  <2>4. wire["sv"][1].k # "part"
    BY <1>0, <1>10 DEF ServerHello, NetTyped
  <2> QED
    BY <1>0, <1>10, <2>1, <2>2, <2>3, <2>4, ExchangeInStep DEF ServerHello
<1>11. CASE ServerPre
  <2>1. PICK p \in Packets("sv") : Net("sv", p.take, PreReply(p.k))
    BY <1>11 DEF ServerPre
  <2>2. PreReply(p.k) \in Seq(Kinds)
    BY KindsSent
  <2>3. p.take \in Nat /\ p.take <= here["sv"]
    BY <1>0, PacketIsThere
  <2> QED
    BY <1>0, <1>11, <2>1, <2>2, <2>3, ExchangeInStep DEF ServerPre
<1>12. CASE ServerStart
  <2>1. PICK p \in Packets("sv"), k \in {"eod", "accept", "rank"} :
          spc' \in {"closed", "engine", "queue"} /\ Net("sv", p.take, <<k>>)
    BY <1>12 DEF ServerStart
  <2>2. <<k>> \in Seq(Kinds)
    BY <2>1 DEF Kinds
  <2>3. p.take \in Nat /\ p.take <= here["sv"]
    BY <1>0, PacketIsThere
  <2> QED
    BY <1>0, <1>12, <2>1, <2>2, <2>3, ExchangeInStep DEF ServerStart
<1>13. CASE ServerQueued
  <2>1. PICK p \in Packets("sv") :
          /\ spc' = IF p.k = "end" THEN "closed" ELSE "queue"
          /\ Net("sv", p.take, IF p.k = "end" THEN <<>> ELSE <<"rank">>)
    BY <1>13 DEF ServerQueued
  <2>2. (IF p.k = "end" THEN <<>> ELSE <<"rank">>) \in Seq(Kinds)
    <3>1. "rank" \in Kinds
      BY DEF Kinds
    <3> QED
      BY <1>0, <3>1
  <2>3. p.take \in Nat /\ p.take <= here["sv"]
    BY <1>0, PacketIsThere
  <2> QED
    BY <1>0, <1>13, <2>1, <2>2, <2>3, ExchangeInStep DEF ServerQueued
<1>14. CASE ServerRefreshes
  <2>1. PICK grant \in BOOLEAN :
          /\ spc' = IF grant THEN "engine" ELSE "queue"
          /\ Net("sv", 0, IF grant THEN <<"accept">> ELSE <<"rank">>)
    BY <1>14 DEF ServerRefreshes
  <2>2. (IF grant THEN <<"accept">> ELSE <<"rank">>) \in Seq(Kinds)
    <3>1. "accept" \in Kinds /\ "rank" \in Kinds
      BY DEF Kinds
    <3> QED
      BY <1>0, <3>1
  <2> QED
    BY <1>0, <1>14, <2>1, <2>2, ExchangeInStep DEF ServerRefreshes
<1>15. CASE ServerEngine
  <2>1. PICK p \in Packets("sv") :
          /\ spc' = IF spc = "engine" /\ p.k = "end" THEN "drain" ELSE spc
          /\ Net("sv", p.take, IF spc = "engine" /\ p.k \in {"name", "hashreq"} THEN PreReply(p.k) ELSE <<>>)
    BY <1>15 DEF ServerEngine
  <2>2. (IF spc = "engine" /\ p.k \in {"name", "hashreq"} THEN PreReply(p.k) ELSE <<>>) \in Seq(Kinds)
    BY <1>0, KindsSent
  <2>3. p.take \in Nat /\ p.take <= here["sv"]
    BY <1>0, PacketIsThere
  <2> QED
    BY <1>0, <1>15, <2>1, <2>2, <2>3, ExchangeInStep DEF ServerEngine
<1>16. CASE AcceptObfuscated \/ AnswerObfuscated \/ NegotiationFails
  BY <1>16, AcceptInStep, AnswerInStep, NegotiationFailsInStep
<1>17. CASE ServerCloses \/ ServerTimesOut
  <2>1. NetTyped' /\ UNCHANGED <<crypt, wire, enc, dec, cpc>> /\ spc' = "closed"
    BY <1>0, <1>17 DEF ServerCloses, ServerTimesOut, net, NetTyped
  <2> QED
    BY <2>1, RestInStep
<1>18. CASE ClientTimesOut
  <2>1. NetTyped' /\ UNCHANGED <<crypt, wire, enc, dec, spc>> /\ cpc' = "closed"
    BY <1>0, <1>18 DEF ClientTimesOut, ClientCloses, net, NetTyped
  <2> QED
    BY <2>1, RestInStep
<1>19. CASE ClientRetries
  <2>1. NetTyped' /\ UNCHANGED <<crypt, wire, enc, dec, spc, cpc>>
    BY <1>0, <1>19 DEF ClientRetries, NetTyped
  <2> QED
    BY <2>1, RestInStep
<1>20. CASE UNCHANGED peerVars
  <2>1. NetTyped' /\ UNCHANGED <<crypt, wire, enc, dec, spc, cpc>>
    BY <1>0, <1>20 DEF peerVars, net, NetTyped
  <2> QED
    BY <2>1, RestInStep
<1> QED
  BY <1>0, <1>1, <1>2, <1>3, <1>4, <1>5, <1>6, <1>7, <1>8, <1>9, <1>10, <1>11, <1>12, <1>13, <1>14,
     <1>15, <1>16, <1>17, <1>18, <1>19, <1>20 DEF PeerNext, ClientStep, ServerStep, Timers

(* Every byte is decrypted at the position of the stream it was encrypted  *)
(* at, whichever end negotiates how, however the packets are cut up on the *)
(* way and wherever either end stops (BasicObfuscationSession,             *)
(* AcceptorSession, _read_exact, _read_wire).                              *)
THEOREM KeystreamsMeet == PeerSpec => []StreamsInStep
BY StreamsStart, StreamsStep, StreamsInvSuffices, PTL DEF PeerSpec

-----------------------------------------------------------------------------
(* Peer: whole packets, in the order they were sent.                       *)

(* A sequence of whole packets; the head of the first may have been read.  *)
Packed(w) ==
    /\ \A i \in 1..Len(w) : w[i].k \in Kinds
    /\ \A i \in 1..Len(w) :
          (w[i].part = "head" /\ w[i].k \notin Bare) =>
             i + 1 <= Len(w) /\ w[i + 1].part = "body" /\ w[i + 1].k = w[i].k
    /\ \A i \in 2..Len(w) :
          w[i].part = "body" => w[i - 1].part = "head" /\ w[i - 1].k \notin Bare

(* The reader stands between two packets, or has read the head of one.     *)
Halfway(w, h) ==
    /\ h # "none" <=> (w # <<>> /\ w[1].part = "body")
    /\ h # "none" => h = w[1].k

whole == {e \in Ends : Packed(wire[e]) /\ Halfway(wire[e], half[e])}

(* The kinds of the packets that are on the way to an end,                 *)
pending == [e \in Ends |-> {wire[e][i].k : i \in 1..Len(wire[e])}]

(* and the pairs <<a, b>> such that every b on the way has an a before it. *)
ahead ==
    [e \in Ends |->
       {ab \in Kinds \X Kinds :
          \A i \in 1..Len(wire[e]) : wire[e][i].k = ab[2] => \E j \in 1..(i - 1) : wire[e][j].k = ab[1]}]

(* Packets that can be sent at once: a bare one, or any others.            *)
Batches == {<<"accept">>} \cup Seq(Kinds \ Bare)

LEMMA AheadIs ==
    ASSUME NEW e \in Ends, NEW a \in Kinds, NEW b \in Kinds
    PROVE  /\ <<a, b>> \in ahead[e] <=>
                 \A i \in 1..Len(wire[e]) :
                    wire[e][i].k = b => \E j \in 1..(i - 1) : wire[e][j].k = a
           /\ b \notin pending[e] => <<a, b>> \in ahead[e]
BY DEF ahead, pending

LEMMA AheadNext ==
    ASSUME NEW e \in Ends, NEW a \in Kinds, NEW b \in Kinds
    PROVE  <<a, b>> \in ahead'[e] <=>
                 \A i \in 1..Len(wire'[e]) :
                    wire'[e][i].k = b => \E j \in 1..(i - 1) : wire'[e][j].k = a
BY DEF ahead

(* What a packet read from whole packets takes.                            *)
LEMMA PacketIsFirst ==
    ASSUME NetTyped, NEW me \in Ends, me \in whole, NEW p \in Packets(me)
    PROVE  /\ p.take \in {1, 2} /\ p.take <= here[me] /\ p.take <= Len(wire[me])
           /\ p.k \in Kinds /\ p.k \in pending[me]
           /\ \A i \in 1..p.take : wire[me][i].k = p.k
           /\ p.take + 1 <= Len(wire[me]) => wire[me][p.take + 1].part = "head"
<1> DEFINE w == wire[me]
<1>1. p.take \in {1, 2} /\ p.take <= here[me] /\ here[me] \in Nat /\ here[me] <= Len(w) /\ w \in Seq(Unit)
  BY PacketIsThere DEF NetTyped
<1>2. /\ Packed(w) /\ Halfway(w, half[me])
      /\ pending[me] = {w[i].k : i \in 1..Len(w)}
  BY DEF whole, pending
<1>3. \/ p.take = 1 /\ half[me] # "none" /\ p.k = half[me]
      \/ p.take = 1 /\ half[me] = "none" /\ Head(w).part = "body"
      \/ p.take = 1 /\ p.k = Head(w).k /\ Head(w).part = "head" /\ Head(w).k \in Bare
      \/ p.take = 2 /\ p.k = Head(w).k /\ Head(w).part = "head" /\ Head(w).k \notin Bare
  BY DEF Packets
<1> HIDE DEF w
<1>4. Len(w) \in Nat /\ w # <<>> /\ 1 \in 1..Len(w) /\ Head(w) = w[1]
  BY <1>1
<1>5. \A i \in 1..Len(w) : w[i] \in Unit
  BY <1>1
<1>6. \A i \in 1..Len(w) : w[i].part \in {"head", "body"}
  BY <1>5 DEF Unit
<1>7. /\ p.k = w[1].k
      /\ \/ p.take = 1 /\ (w[1].part = "body" \/ w[1].k \in Bare)
         \/ p.take = 2 /\ w[1].part = "head" /\ w[1].k \notin Bare
  BY <1>2, <1>3, <1>4 DEF Halfway
<1>8. p.k \in Kinds /\ p.k \in pending[me]
  BY <1>2, <1>4, <1>7 DEF Packed
<1>9. CASE p.take = 1
  <2>1. 2 <= Len(w) => w[2].part = "head"
    <3> SUFFICES ASSUME 2 <= Len(w)
                 PROVE  w[2].part # "body"
      BY <1>4, <1>6
    <3>1. 2 \in 2..Len(w) /\ 2 - 1 = 1
      BY <1>4
    <3> QED
      BY <3>1, <1>2, <1>7, <1>9 DEF Packed
  <2>2. \A i \in 1..p.take : i = 1
    BY <1>9
  <2> QED
    BY <1>1, <1>7, <1>8, <1>9, <2>1, <2>2 DEF w
<1>10. CASE p.take = 2
  <2>1. w[1].part = "head" /\ w[1].k \notin Bare
    BY <1>7, <1>10
  <2>2. 2 <= Len(w) /\ w[2].part = "body" /\ w[2].k = w[1].k
    BY <1>2, <1>4, <2>1 DEF Packed
  <2>3. 3 <= Len(w) => w[3].part = "head"
    <3> SUFFICES ASSUME 3 <= Len(w)
                 PROVE  w[3].part # "body"
      BY <1>4, <1>6
    <3>1. 3 \in 2..Len(w) /\ 3 - 1 = 2
      BY <1>4
    <3> QED
      BY <3>1, <1>2, <2>2 DEF Packed
  <2>4. \A i \in 1..p.take : i = 1 \/ i = 2
    BY <1>10
  <2>5. Len(w) >= 2
    BY <2>2, <1>4
  <2> QED
    BY <1>1, <1>7, <1>8, <1>10, <2>2, <2>3, <2>4, <2>5 DEF w
<1> QED
  BY <1>1, <1>9, <1>10

(* Reading a packet leaves the others as they are.                         *)
LEMMA PacketConsumed ==
    ASSUME NetTyped, NEW me \in Ends, me \in whole, NEW p \in Packets(me),
           NEW kinds \in Seq(Kinds), Net(me, p.take, kinds)
    PROVE  /\ me \in whole'
           /\ pending'[me] \subseteq pending[me]
           /\ \A a \in pending[me] : a # p.k => a \in pending'[me]
           /\ \A a, b \in Kinds : <<a, b>> \in ahead[me] =>
                 p.k # b /\ (p.k # a => <<a, b>> \in ahead'[me])
<1> DEFINE w == wire[me]
           v == wire'[me]
           n == p.take
<1>1. /\ n \in {1, 2} /\ n <= here[me] /\ n <= Len(w)
      /\ p.k \in Kinds
      /\ \A i \in 1..n : w[i].k = p.k
      /\ n + 1 <= Len(w) => w[n + 1].part = "head"
  BY PacketIsFirst
<1>2. n \in Nat
  BY <1>1
<1>3. /\ NetTyped'
      /\ Len(wire'[me]) = Len(wire[me]) - n
      /\ \A i \in 1..Len(wire'[me]) : wire'[me][i] = wire[me][i + n]
      /\ half'[me] = "none"
  BY <1>1, <1>2, NetReads
<1>4. w \in Seq(Unit) /\ v \in Seq(Unit)
  BY <1>3 DEF NetTyped
<1>5. Packed(w)
  BY DEF whole
<1>6. pending[me] = {w[i].k : i \in 1..Len(w)} /\ pending'[me] = {v[i].k : i \in 1..Len(v)}
  BY DEF pending
<1>7. \A a, b \in Kinds : <<a, b>> \in ahead[me] =>
         \A i \in 1..Len(w) : w[i].k = b => \E j \in 1..(i - 1) : w[j].k = a
  BY AheadIs
<1>8. \A a, b \in Kinds :
         (\A i \in 1..Len(v) : v[i].k = b => \E j \in 1..(i - 1) : v[j].k = a) => <<a, b>> \in ahead'[me]
  BY AheadNext
<1>9. me \in whole' <=> Packed(v) /\ Halfway(v, half'[me])
  BY DEF whole
<1>10. Len(w) \in Nat /\ Len(v) \in Nat /\ Len(v) = Len(w) - n /\ \A i \in 1..Len(v) : v[i] = w[i + n]
  BY <1>3, <1>4
<1> HIDE DEF w, v, n
<1>11. \A i \in 1..Len(v) : i + n \in 1..Len(w) /\ v[i] = w[i + n]
  BY <1>2, <1>10
<1>12. \A i \in 1..Len(w) : i > n => i - n \in 1..Len(v) /\ v[i - n] = w[i]
  <2> SUFFICES ASSUME NEW i \in 1..Len(w), i > n
               PROVE  i - n \in 1..Len(v) /\ v[i - n] = w[i]
    OBVIOUS
  <2>1. i - n \in 1..Len(v) /\ (i - n) + n = i
    BY <1>2, <1>10
  <2> QED
    BY <2>1, <1>10
<1>13. Halfway(v, half'[me])
  <2>1. v # <<>> => v[1].part = "head"
    <3> SUFFICES ASSUME v # <<>>
                 PROVE  v[1].part = "head"
      OBVIOUS
    <3>1. 1 \in 1..Len(v)
      BY <1>4, <1>10
    <3>2. v[1] = w[n + 1] /\ n + 1 <= Len(w)
      BY <3>1, <1>2, <1>10, <1>11
    <3> QED
      BY <3>2, <1>1 DEF w, n
  <2> QED
    BY <2>1, <1>3 DEF Halfway
<1>14. Packed(v)
  <2>1. \A i \in 1..Len(v) : v[i].k \in Kinds
    BY <1>5, <1>11 DEF Packed
  <2>2. ASSUME NEW i \in 1..Len(v), v[i].part = "head", v[i].k \notin Bare
        PROVE  i + 1 <= Len(v) /\ v[i + 1].part = "body" /\ v[i + 1].k = v[i].k
    <3>1. i + n \in 1..Len(w) /\ v[i] = w[i + n]
      BY <1>11
    <3>2. i + n + 1 <= Len(w) /\ w[i + n + 1].part = "body" /\ w[i + n + 1].k = v[i].k
      BY <2>2, <3>1, <1>5 DEF Packed
    <3>3. i + 1 \in 1..Len(v) /\ (i + 1) + n = i + n + 1
      <4>1. i \in Nat /\ i >= 1 /\ i + n + 1 <= Len(w)
        BY <3>2
      <4>2. Len(w) \in Nat /\ Len(v) \in Nat /\ Len(v) = Len(w) - n
        BY <1>10
      <4> QED
        BY <4>1, <4>2, <1>2
    <3>4. v[i + 1] = w[i + n + 1]
      BY <3>3, <1>10
    <3> QED
      BY <3>2, <3>3, <3>4
  <2>3. ASSUME NEW i \in 2..Len(v), v[i].part = "body"
        PROVE  v[i - 1].part = "head" /\ v[i - 1].k \notin Bare
    <3>1. /\ i \in 1..Len(v) /\ i - 1 \in 1..Len(v) /\ i + n \in 2..Len(w)
          /\ (i - 1) + n = (i + n) - 1
      BY <1>2, <1>10
    <3>2. v[i] = w[i + n] /\ v[i - 1] = w[(i + n) - 1]
      BY <3>1, <1>10
    <3> QED
      BY <2>3, <3>1, <3>2, <1>5 DEF Packed
  <2> QED
    BY <2>1, <2>2, <2>3 DEF Packed
<1>15. pending'[me] \subseteq pending[me]
  BY <1>6, <1>11
<1>16. ASSUME NEW a \in pending[me], a # p.k
       PROVE  a \in pending'[me]
  <2>1. PICK i \in 1..Len(w) : w[i].k = a
    BY <1>6
  <2>2. i > n
    BY <1>1, <1>2, <1>10, <1>16, <2>1 DEF w, n
  <2> QED
    BY <2>1, <2>2, <1>6, <1>12
<1>17. ASSUME NEW a \in Kinds, NEW b \in Kinds, <<a, b>> \in ahead[me]
       PROVE  p.k # b /\ (p.k # a => <<a, b>> \in ahead'[me])
  <2>1. \A i \in 1..Len(w) : w[i].k = b => \E j \in 1..(i - 1) : w[j].k = a
    BY <1>7, <1>17
  <2>2. p.k # b
    <3>1. 1 \in 1..n /\ 1 \in 1..Len(w) /\ w[1].k = p.k
      BY <1>1 DEF w, n
    <3>2. ~ \E j \in 1..(1 - 1) : w[j].k = a
      OBVIOUS
    <3> QED
      BY <2>1, <3>1, <3>2
  <2>3. ASSUME p.k # a, NEW i \in 1..Len(v), v[i].k = b
        PROVE  \E j \in 1..(i - 1) : v[j].k = a
    <3>1. i + n \in 1..Len(w) /\ w[i + n].k = b /\ i \in Nat
      BY <2>3, <1>11
    <3>2. PICK j \in 1..((i + n) - 1) : w[j].k = a
      <4> DEFINE g == i + n
      <4>1. g \in 1..Len(w) /\ w[g].k = b
        BY <3>1
      <4> HIDE DEF g
      <4>2. \E j \in 1..(g - 1) : w[j].k = a
        BY <2>1, <4>1
      <4> QED
        BY <4>2 DEF g
    <3>3. j \in 1..Len(w)
      BY <3>1, <3>2, <1>2, <1>10
    <3>4. \A m \in 1..n : w[m].k = p.k
      BY <1>1 DEF w, n
    <3>5. j > n
      BY <2>3, <3>2, <3>3, <3>4, <1>2
    <3>6. j - n \in 1..Len(v) /\ v[j - n] = w[j]
      BY <3>3, <3>5, <1>12
    <3>7. j - n \in 1..(i - 1)
      BY <3>1, <3>2, <3>5, <1>2
    <3> QED
      BY <3>2, <3>6, <3>7
  <2>4. p.k # a => <<a, b>> \in ahead'[me]
    BY <2>3, <1>8
  <2> QED
    BY <2>2, <2>4
<1> QED
  BY <1>9, <1>13, <1>14, <1>15, <1>16, <1>17

(* What is sent comes behind what is on the way.                           *)
LEMMA PacketsSent ==
    ASSUME NetTyped, NEW me \in Ends, NEW take \in Nat, take <= here[me],
           NEW kinds \in Batches, Net(me, take, kinds), Other(me) \in whole
    PROVE  LET to == Other(me)
           IN  /\ to \in whole'
               /\ pending'[to] = pending[to] \cup {kinds[i] : i \in 1..Len(kinds)}
               /\ \A a, b \in Kinds :
                     (/\ <<a, b>> \in ahead[to]
                      /\ \/ a \in pending[to]
                         \/ \A i \in 1..Len(kinds) : kinds[i] = b => \E j \in 1..(i - 1) : kinds[j] = a)
                     => <<a, b>> \in ahead'[to]
<1> DEFINE to == Other(me)
           new == Encrypted(Frames(kinds), enc[to])
           w == wire[to]
           v == wire'[to]
           l == Len(kinds)
<1>1. to \in Ends /\ kinds \in Seq(Kinds) /\ l \in Nat
  <2>1. Other(me) \in Ends
    BY DEF Ends, Other
  <2>2. <<"accept">> \in Seq(Kinds)
    BY DEF Kinds
  <2>3. ASSUME kinds \in Seq(Kinds \ Bare)
        PROVE  kinds \in Seq(Kinds)
    BY <2>3
  <2>4. kinds = <<"accept">> \/ kinds \in Seq(Kinds \ Bare)
    BY DEF Batches
  <2>5. kinds \in Seq(Kinds)
    BY <2>2, <2>3, <2>4
  <2> QED
    BY <2>1, <2>5
<1>2. /\ NetTyped'
      /\ half'[to] = half[to]
      /\ Len(v) = Len(w) + Len(new)
      /\ \A i \in 1..Len(w) : v[i] = w[i]
      /\ \A i \in 1..Len(new) : v[Len(w) + i] = new[i]
  BY <1>1, NetIs
<1>3. w \in Seq(Unit) /\ v \in Seq(Unit) /\ enc[to] \in Nat
  BY <1>1, <1>2 DEF NetTyped
<1>4. Frames(kinds) \in Seq(Kinds \X {"head", "body"})
  BY <1>1, FramesAre
<1>5. /\ Len(new) = Len(Frames(kinds))
      /\ \A i \in 1..Len(Frames(kinds)) : new[i].k = Frames(kinds)[i][1] /\ new[i].part = Frames(kinds)[i][2]
  BY <1>3, <1>4, EncryptedIs
(* Unit by unit: what is new is one bare head, or heads followed by bodies. *)
<1>6. \/ /\ l = 1 /\ kinds[1] \in Bare /\ Len(new) = 1
         /\ new[1].k = kinds[1] /\ new[1].part = "head"
      \/ /\ \A i \in 1..l : kinds[i] \notin Bare
         /\ Len(new) = 2 * l
         /\ \A i \in 1..l : /\ new[2 * i - 1].k = kinds[i] /\ new[2 * i - 1].part = "head"
                            /\ new[2 * i].k = kinds[i] /\ new[2 * i].part = "body"
  <2>1. CASE kinds = <<"accept">>
    <3>1. l = 1 /\ kinds[1] \in Bare /\ \A i \in DOMAIN kinds : kinds[i] \in Bare
      BY <2>1 DEF Bare
    <3>2. Len(Frames(kinds)) = 1 /\ Frames(kinds)[1] = <<kinds[1], "head">>
      BY <1>1, <3>1, FramesAre
    <3> QED
      BY <1>5, <3>1, <3>2
  <2>2. CASE kinds = <<>>
    <3>1. l = 0 /\ \A i \in DOMAIN kinds : kinds[i] \in Bare
      BY <2>2
    <3>2. Len(Frames(kinds)) = l
      BY <1>1, <3>1, FramesAre
    <3> QED
      BY <1>5, <3>1, <3>2
  <2>3. CASE kinds \in Seq(Kinds \ Bare) /\ kinds # <<>>
    <3>1. /\ \A i \in 1..l : kinds[i] \notin Bare
          /\ ~(\A i \in DOMAIN kinds : kinds[i] \in Bare)
      BY <2>3
    <3>2. /\ Len(Frames(kinds)) = 2 * l
          /\ \A i \in 1..l : /\ Frames(kinds)[2 * i - 1] = <<kinds[i], "head">>
                             /\ Frames(kinds)[2 * i] = <<kinds[i], "body">>
      BY <1>1, <3>1, FramesAre
    <3>3. \A i \in 1..l : 2 * i - 1 \in 1..(2 * l) /\ 2 * i \in 1..(2 * l)
      BY <1>1
    <3> DEFINE F == Frames(kinds)
    <3>4. /\ Len(F) = 2 * l /\ Len(new) = Len(F)
          /\ \A i \in 1..l : F[2 * i - 1] = <<kinds[i], "head">> /\ F[2 * i] = <<kinds[i], "body">>
          /\ \A i \in 1..Len(F) : new[i].k = F[i][1] /\ new[i].part = F[i][2]
      BY <1>5, <3>2
    <3> HIDE DEF F, l, new
    <3>5. \A i \in 1..l : /\ new[2 * i - 1].k = kinds[i] /\ new[2 * i - 1].part = "head"
                           /\ new[2 * i].k = kinds[i] /\ new[2 * i].part = "body"
      BY <3>3, <3>4
    <3> QED
      BY <3>1, <3>4, <3>5 DEF l, new
  <2> QED
    BY <2>1, <2>2, <2>3 DEF Batches
<1>7. /\ Packed(w) /\ Halfway(w, half[to])
      /\ to \in whole' <=> Packed(v) /\ Halfway(v, half'[to])
      /\ pending[to] = {w[i].k : i \in 1..Len(w)} /\ pending'[to] = {v[i].k : i \in 1..Len(v)}
  BY <1>1 DEF whole, pending
<1>8. /\ \A a, b \in Kinds : <<a, b>> \in ahead[to] =>
            \A i \in 1..Len(w) : w[i].k = b => \E j \in 1..(i - 1) : w[j].k = a
      /\ \A a, b \in Kinds :
            (\A i \in 1..Len(v) : v[i].k = b => \E j \in 1..(i - 1) : v[j].k = a) => <<a, b>> \in ahead'[to]
  BY <1>1, AheadIs, AheadNext
<1>9. /\ Len(w) \in Nat /\ Len(v) \in Nat /\ Len(new) \in Nat
      /\ w = <<>> <=> Len(w) = 0
      /\ v = <<>> <=> Len(v) = 0
      /\ \A i \in 1..l : kinds[i] \in Kinds
  BY <1>1, <1>3, <1>5, <1>4
<1> HIDE DEF to, new, w, v, l
(* The units of v are those of w and those of new.                         *)
<1>10. ASSUME NEW i \in 1..Len(v)
       PROVE  \/ i \in 1..Len(w) /\ v[i] = w[i]
              \/ i - Len(w) \in 1..Len(new) /\ v[i] = new[i - Len(w)]
  <2>1. CASE i <= Len(w)
    BY <2>1, <1>2, <1>9
  <2>2. CASE i > Len(w)
    <3>1. i - Len(w) \in 1..Len(new) /\ Len(w) + (i - Len(w)) = i
      BY <2>2, <1>2, <1>9
    <3> QED
      BY <3>1, <1>2
  <2> QED
    BY <2>1, <2>2, <1>9
<1>11. ASSUME NEW i \in 1..Len(new)
       PROVE  Len(w) + i \in 1..Len(v) /\ v[Len(w) + i] = new[i]
  BY <1>2, <1>9
<1>12. \A i \in 1..Len(new) :
          \E m \in 1..l : /\ new[i].k = kinds[m]
                          /\ \/ i = 2 * m - 1 /\ i + 1 = 2 * m /\ i + 1 <= Len(new) /\ kinds[m] \notin Bare
                                /\ new[i].part = "head"
                                /\ new[i + 1].part = "body" /\ new[i + 1].k = kinds[m]
                             \/ i = 2 * m /\ i - 1 >= 1 /\ kinds[m] \notin Bare
                                /\ new[i].part = "body"
                                /\ new[i - 1].part = "head" /\ new[i - 1].k = kinds[m]
                             \/ i = 1 /\ m = 1 /\ Len(new) = 1 /\ kinds[m] \in Bare /\ new[i].part = "head"
  <2> SUFFICES ASSUME NEW i \in 1..Len(new)
               PROVE \E m \in 1..l :
                       /\ new[i].k = kinds[m]
                       /\ \/ i = 2 * m - 1 /\ i + 1 = 2 * m /\ i + 1 <= Len(new) /\ kinds[m] \notin Bare
                             /\ new[i].part = "head"
                             /\ new[i + 1].part = "body" /\ new[i + 1].k = kinds[m]
                          \/ i = 2 * m /\ i - 1 >= 1 /\ kinds[m] \notin Bare
                             /\ new[i].part = "body"
                             /\ new[i - 1].part = "head" /\ new[i - 1].k = kinds[m]
                          \/ i = 1 /\ m = 1 /\ Len(new) = 1 /\ kinds[m] \in Bare /\ new[i].part = "head"
    OBVIOUS
  <2>1. CASE l = 1 /\ kinds[1] \in Bare /\ Len(new) = 1 /\ new[1].k = kinds[1] /\ new[1].part = "head"
    BY <2>1
  <2>2. CASE /\ \A m \in 1..l : kinds[m] \notin Bare
             /\ Len(new) = 2 * l
             /\ \A m \in 1..l : /\ new[2 * m - 1].k = kinds[m] /\ new[2 * m - 1].part = "head"
                                /\ new[2 * m].k = kinds[m] /\ new[2 * m].part = "body"
    <3>1. PICK m \in 1..l : i = 2 * m - 1 \/ i = 2 * m
      <4>1. i \in Nat /\ i <= 2 * l /\ i >= 1
        BY <2>2, <1>1, <1>9
      <4>2. (i + 1) \div 2 \in 1..l /\ (i = 2 * ((i + 1) \div 2) - 1 \/ i = 2 * ((i + 1) \div 2))
        BY <4>1, <1>1
      <4> QED
        BY <4>2
    <3>2. m \in Nat /\ m >= 1 /\ m <= l
      BY <3>1, <1>1
    <3>3. CASE i = 2 * m - 1
      <4>1. i + 1 = 2 * m /\ i + 1 <= Len(new)
        BY <3>2, <3>3, <2>2, <1>1
      <4> QED
        BY <2>2, <3>1, <3>3, <4>1
    <3>4. CASE i = 2 * m
      <4>1. i - 1 = 2 * m - 1 /\ i - 1 >= 1
        BY <3>2, <3>4
      <4> QED
        BY <2>2, <3>1, <3>4, <4>1
    <3> QED
      BY <3>1, <3>3, <3>4
  <2> QED
    BY <1>6, <2>1, <2>2
<1>13. \A m \in 1..l : \E i \in 1..Len(new) :
          new[i].k = kinds[m] /\ (i = 2 * m - 1 \/ (i = 1 /\ m = 1 /\ Len(new) = 1))
  <2>1. \A m \in 1..l : 2 * m - 1 \in 1..(2 * l) /\ (l = 1 => m = 1)
    BY <1>1
  <2>2. CASE l = 1 /\ Len(new) = 1 /\ new[1].k = kinds[1]
    BY <2>1, <2>2
  <2>3. CASE Len(new) = 2 * l /\ \A m \in 1..l : new[2 * m - 1].k = kinds[m]
    BY <2>1, <2>3
  <2> QED
    BY <1>6, <2>2, <2>3

<1>14. Halfway(v, half'[to])
  <2>1. CASE w # <<>>
    <3>1. 1 \in 1..Len(v) /\ 1 \in 1..Len(w) /\ v # <<>> /\ v[1] = w[1]
      BY <2>1, <1>2, <1>9
    <3> QED
      BY <2>1, <3>1, <1>2, <1>7 DEF Halfway, w, v, to, new
  <2>2. CASE w = <<>>
    <3>1. half[to] = "none" /\ half'[to] = "none"
      BY <2>2, <1>2, <1>7 DEF Halfway, to
    <3>2. v # <<>> => v[1].part = "head"
      <4> SUFFICES ASSUME v # <<>>
                   PROVE  v[1].part = "head"
        OBVIOUS
      <4>1. 1 \in 1..Len(v) /\ Len(w) = 0
        BY <2>2, <1>9
      <4>2. 1 \in 1..Len(new) /\ v[1] = new[1]
        BY <4>1, <1>10
      <4>3. PICK m \in 1..l : \/ new[1].part = "head"
                              \/ 1 = 2 * m /\ 1 - 1 >= 1
        BY <4>2, <1>12
      <4> QED
        BY <4>2, <4>3
    <3> QED
      BY <3>1, <3>2 DEF Halfway
  <2> QED
    BY <2>1, <2>2
<1>15. Packed(v)
  <2>1. \A i \in 1..Len(v) : v[i].k \in Kinds
    <3>1. \A i \in 1..Len(new) : new[i].k \in Kinds
      BY <1>9, <1>12
    <3> QED
      BY <3>1, <1>7, <1>10 DEF Packed
  <2>2. ASSUME NEW i \in 1..Len(v), v[i].part = "head", v[i].k \notin Bare
        PROVE  i + 1 <= Len(v) /\ v[i + 1].part = "body" /\ v[i + 1].k = v[i].k
    <3>1. CASE i \in 1..Len(w) /\ v[i] = w[i]
      <4>1. i + 1 <= Len(w) /\ w[i + 1].part = "body" /\ w[i + 1].k = w[i].k
        BY <2>2, <3>1, <1>7 DEF Packed
      <4>2. i + 1 \in 1..Len(w) /\ i + 1 <= Len(v) /\ v[i + 1] = w[i + 1]
        BY <3>1, <4>1, <1>2, <1>9
      <4> QED
        BY <3>1, <4>1, <4>2
    <3>2. CASE i - Len(w) \in 1..Len(new) /\ v[i] = new[i - Len(w)]
      <4> DEFINE j == i - Len(w)
      <4>1. j \in 1..Len(new) /\ v[i] = new[j]
        BY <3>2
      <4>2. i \in Nat /\ Len(w) + (j + 1) = i + 1
        BY <1>9
      <4> HIDE DEF j
      <4>3. j + 1 <= Len(new) /\ new[j + 1].part = "body" /\ new[j + 1].k = new[j].k
        <5>1. PICK m \in 1..l :
                  /\ new[j].k = kinds[m]
                  /\ \/ j + 1 <= Len(new) /\ new[j + 1].part = "body" /\ new[j + 1].k = kinds[m]
                     \/ new[j].part = "body"
                     \/ kinds[m] \in Bare
          BY <4>1, <1>12
        <5> QED
          BY <2>2, <4>1, <5>1
      <4>4. j + 1 \in 1..Len(new)
        BY <4>1, <4>3, <1>9
      <4>5. i + 1 \in 1..Len(v) /\ v[i + 1] = new[j + 1]
        BY <4>2, <4>4, <1>11
      <4> QED
        BY <4>1, <4>3, <4>5, <1>9
    <3> QED
      BY <1>10, <3>1, <3>2
  <2>3. ASSUME NEW i \in 2..Len(v), v[i].part = "body"
        PROVE  v[i - 1].part = "head" /\ v[i - 1].k \notin Bare
    <3>0. i \in 1..Len(v) /\ i \in Nat /\ i >= 2
      BY <1>9
    <3>1. CASE i \in 1..Len(w) /\ v[i] = w[i]
      <4>1. i \in 2..Len(w) /\ i - 1 \in 1..Len(w)
        BY <3>0, <3>1, <1>9
      <4>2. v[i - 1] = w[i - 1]
        BY <4>1, <1>2 DEF w, v, to, new
      <4> QED
        BY <2>3, <3>1, <4>1, <4>2, <1>7 DEF Packed
    <3>2. CASE i - Len(w) \in 1..Len(new) /\ v[i] = new[i - Len(w)]
      <4> DEFINE j == i - Len(w)
      <4>1. j \in 1..Len(new) /\ v[i] = new[j]
        BY <3>2
      <4>2. Len(w) + (j - 1) = i - 1
        BY <3>0, <1>9
      <4> HIDE DEF j
      <4>3. j - 1 >= 1 /\ new[j - 1].part = "head" /\ new[j - 1].k \notin Bare
        <5>1. PICK m \in 1..l :
                  \/ new[j].part = "head"
                  \/ /\ j - 1 >= 1 /\ kinds[m] \notin Bare
                     /\ new[j - 1].part = "head" /\ new[j - 1].k = kinds[m]
          BY <4>1, <1>12
        <5> QED
          BY <2>3, <4>1, <5>1
      <4>4. j - 1 \in 1..Len(new)
        BY <4>1, <4>3, <1>9
      <4>5. v[i - 1] = new[j - 1]
        BY <4>2, <4>4, <1>11
      <4> QED
        BY <4>3, <4>5
    <3> QED
      BY <3>0, <1>10, <3>1, <3>2
  <2> QED
    BY <2>1, <2>2, <2>3 DEF Packed
<1>16. pending'[to] = pending[to] \cup {kinds[i] : i \in 1..l}
  <2>1. \A k \in pending'[to] : k \in pending[to] \/ \E i \in 1..l : k = kinds[i]
    <3> SUFFICES ASSUME NEW i \in 1..Len(v)
                 PROVE  (\E j \in 1..Len(w) : v[i].k = w[j].k) \/ \E m \in 1..l : v[i].k = kinds[m]
      BY <1>7
    <3>1. \A j \in 1..Len(new) : \E m \in 1..l : new[j].k = kinds[m]
      BY <1>12
    <3>2. CASE i \in 1..Len(w) /\ v[i] = w[i]
      BY <3>2
    <3>3. CASE i - Len(w) \in 1..Len(new) /\ v[i] = new[i - Len(w)]
      BY <3>1, <3>3
    <3> QED
      BY <1>10, <3>2, <3>3
  <2>2. \A k \in pending[to] : k \in pending'[to]
    <3> SUFFICES ASSUME NEW i \in 1..Len(w)
                 PROVE  \E j \in 1..Len(v) : v[j].k = w[i].k
      BY <1>7
    <3>1. i \in 1..Len(v) /\ v[i] = w[i]
      BY <1>2, <1>9
    <3> QED
      BY <3>1
  <2>3. \A m \in 1..l : kinds[m] \in pending'[to]
    <3> SUFFICES ASSUME NEW m \in 1..l
                 PROVE  \E j \in 1..Len(v) : v[j].k = kinds[m]
      BY <1>7
    <3>1. PICK i \in 1..Len(new) : new[i].k = kinds[m]
      BY <1>13
    <3> QED
      BY <3>1, <1>11
  <2> QED
    BY <2>1, <2>2, <2>3
<1>17. ASSUME NEW a \in Kinds, NEW b \in Kinds, <<a, b>> \in ahead[to],
              \/ a \in pending[to]
              \/ \A i \in 1..l : kinds[i] = b => \E j \in 1..(i - 1) : kinds[j] = a
       PROVE  <<a, b>> \in ahead'[to]
  <2> SUFFICES ASSUME NEW i \in 1..Len(v), v[i].k = b
               PROVE  \E j \in 1..(i - 1) : v[j].k = a
    BY <1>8
  <2>1. CASE i \in 1..Len(w) /\ v[i] = w[i]
    <3>1. PICK j \in 1..(i - 1) : w[j].k = a
      BY <1>8, <1>17, <2>1
    <3>2. j \in 1..Len(w) /\ v[j] = w[j]
      BY <2>1, <3>1, <1>2, <1>9
    <3> QED
      BY <3>1, <3>2
  <2>2. CASE i - Len(w) \in 1..Len(new) /\ v[i] = new[i - Len(w)]
    <3> DEFINE r == i - Len(w)
    <3>1. r \in 1..Len(new) /\ new[r].k = b /\ i = Len(w) + r /\ i \in Nat /\ r \in Nat /\ r >= 1
      BY <2>2, <1>9
    <3> HIDE DEF r
    <3>2. CASE a \in pending[to]
      <4>1. PICK j \in 1..Len(w) : w[j].k = a
        BY <3>2, <1>7
      <4>2. v[j] = w[j]
        BY <4>1, <1>2
      <4>3. j \in Nat /\ 1 <= j /\ j <= Len(w) /\ Len(w) \in Nat
        BY <4>1, <1>9
      <4>4. j \in 1..(i - 1)
        BY <3>1, <4>3
      <4> QED
        BY <4>1, <4>2, <4>4
    <3>3. CASE \A m \in 1..l : kinds[m] = b => \E j \in 1..(m - 1) : kinds[j] = a
      <4>1. PICK m \in 1..l : kinds[m] = b /\ (r = 2 * m - 1 \/ r = 2 * m \/ m = 1)
        <5>1. PICK m \in 1..l : /\ new[r].k = kinds[m]
                                /\ \/ r = 2 * m - 1 /\ r + 1 = 2 * m /\ r + 1 <= Len(new) /\ kinds[m] \notin Bare
                                      /\ new[r].part = "head"
                                      /\ new[r + 1].part = "body" /\ new[r + 1].k = kinds[m]
                                   \/ r = 2 * m /\ r - 1 >= 1 /\ kinds[m] \notin Bare
                                      /\ new[r].part = "body"
                                      /\ new[r - 1].part = "head" /\ new[r - 1].k = kinds[m]
                                   \/ r = 1 /\ m = 1 /\ Len(new) = 1 /\ kinds[m] \in Bare /\ new[r].part = "head"
          BY <3>1, <1>12
        <5> QED
          BY <3>1, <5>1
      <4>2. PICK o \in 1..(m - 1) : kinds[o] = a
        BY <3>3, <4>1
      <4>3. m \in Nat /\ o \in Nat /\ o >= 1 /\ o <= m - 1 /\ o \in 1..l /\ l # 1 /\ o <= l
        BY <4>1, <4>2, <1>1
      <4>4. \A n \in 1..l : new[2 * n - 1].k = kinds[n]
        BY <1>6, <4>3
      <4>5. 2 * o - 1 \in Nat /\ 2 * o - 1 >= 1 /\ 2 * o - 1 < r
        BY <4>1, <4>3
      <4>6. 2 * o - 1 \in 1..Len(new) /\ new[2 * o - 1].k = a
        BY <3>1, <4>2, <4>3, <4>4, <4>5, <1>9
      <4>7. Len(w) + (2 * o - 1) \in 1..(i - 1) /\ v[Len(w) + (2 * o - 1)] = new[2 * o - 1]
        BY <3>1, <4>5, <4>6, <1>9, <1>11
      <4> QED
        BY <4>6, <4>7
    <3> QED
      BY <1>17, <3>2, <3>3
  <2> QED
    BY <1>10, <2>1, <2>2
<1> QED
  BY <1>7, <1>14, <1>15, <1>16, <1>17 DEF to, l

(* Sending without reading leaves what is on the way to the sender.        *)
LEMMA NothingRead ==
    ASSUME NetTyped, NEW me \in Ends, me \in whole, half[me] = "none",
           NEW kinds \in Seq(Kinds), Net(me, 0, kinds)
    PROVE  me \in whole' /\ pending'[me] = pending[me] /\ ahead'[me] = ahead[me]
<1>1. /\ NetTyped' /\ half'[me] = "none"
      /\ Len(wire'[me]) = Len(wire[me]) - 0
      /\ \A i \in 1..Len(wire'[me]) : wire'[me][i] = wire[me][i + 0]
  <2>1. 0 \in Nat /\ 0 <= here[me]
    BY DEF NetTyped
  <2> QED
    BY <2>1, NetReads
<1>2. wire[me] \in Seq(Unit) /\ wire'[me] \in Seq(Unit)
  BY <1>1 DEF NetTyped
<1>3. Len(wire'[me]) = Len(wire[me]) /\ \A i \in 1..Len(wire'[me]) : wire'[me][i] = wire[me][i]
  BY <1>1, <1>2
<1>4. wire'[me] = wire[me]
  BY <1>2, <1>3
<1> QED
  <2>1. wire'[me] = wire[me] /\ half'[me] = half[me] /\ me \in Ends
    BY <1>1, <1>4
  <2>2. me \in whole'
    BY <2>1 DEF whole
  <2>3. pending'[me] = pending[me]
    BY <2>1 DEF pending
  <2>4. ahead'[me] = ahead[me]
    <3>1. \A e \in Ends : wire'[e] = wire[e] => ahead'[e] = ahead[e]
      BY DEF ahead
    <3> QED
      BY <2>1, <3>1
  <2> QED
    BY <2>2, <2>3, <2>4

(* The body of a packet is of its head's kind.                             *)
LEMMA HeaderRead ==
    ASSUME NetTyped, NEW me \in Ends, me \in whole, ReadHeader(me)
    PROVE  me \in whole' /\ pending'[me] = pending[me] /\ ahead'[me] = ahead[me]
<1> DEFINE w == wire[me]
           v == wire'[me]
<1>1. /\ w \in Seq(Unit) /\ Len(w) \in Nat /\ w # <<>> /\ here[me] = 1
      /\ Head(w) = w[1]
      /\ v = Tail(w) /\ half'[me] = w[1].k
      /\ w[1].part = "head" /\ w[1].k \notin Bare
  BY DEF NetTyped, ReadHeader
<1>2. /\ v \in Seq(Unit) /\ Len(v) = Len(w) - 1 /\ Len(v) \in Nat
      /\ \A i \in 1..Len(v) : v[i] = w[i + 1]
  BY <1>1
<1>3. Packed(w)
  BY DEF whole
<1>4. /\ pending[me] = {w[i].k : i \in 1..Len(w)} /\ pending'[me] = {v[i].k : i \in 1..Len(v)}
      /\ me \in whole' <=> Packed(v) /\ Halfway(v, half'[me])
      /\ ahead[me] = {ab \in Kinds \X Kinds :
            \A i \in 1..Len(w) : w[i].k = ab[2] => \E j \in 1..(i - 1) : w[j].k = ab[1]}
      /\ ahead'[me] = {ab \in Kinds \X Kinds :
            \A i \in 1..Len(v) : v[i].k = ab[2] => \E j \in 1..(i - 1) : v[j].k = ab[1]}
  BY DEF whole, pending, ahead
<1> HIDE DEF w, v
<1>5. 2 <= Len(w) /\ w[2].part = "body" /\ w[2].k = w[1].k /\ w[1].k \in Kinds
  <2>1. 1 \in 1..Len(w)
    BY <1>1
  <2> QED
    BY <2>1, <1>1, <1>3 DEF Packed
<1>6. \A i \in 1..Len(v) : i \in Nat /\ i + 1 \in 2..Len(w) /\ i + 1 \in 1..Len(w) /\ v[i] = w[i + 1]
  BY <1>2
<1>7. \A i \in 2..Len(w) : i - 1 \in 1..Len(v) /\ v[i - 1] = w[i]
  <2> SUFFICES ASSUME NEW i \in 2..Len(w)
               PROVE  i - 1 \in 1..Len(v) /\ v[i - 1] = w[i]
    OBVIOUS
  <2>1. i - 1 \in 1..Len(v) /\ (i - 1) + 1 = i
    BY <1>1, <1>2
  <2> QED
    BY <2>1, <1>2
<1>8. 1 \in 1..Len(v) /\ v[1] = w[2] /\ v # <<>>
  <2>1. 1 \in 1..Len(v) /\ 1 + 1 = 2
    BY <1>1, <1>2, <1>5
  <2> QED
    BY <2>1, <1>2
<1>9. Packed(v)
  <2>1. \A i \in 1..Len(v) : v[i].k \in Kinds
    BY <1>3, <1>6 DEF Packed
  <2>2. ASSUME NEW i \in 1..Len(v), v[i].part = "head", v[i].k \notin Bare
        PROVE  i + 1 <= Len(v) /\ v[i + 1].part = "body" /\ v[i + 1].k = v[i].k
    <3> DEFINE g == i + 1
    <3>1. g \in 1..Len(w) /\ v[i] = w[g]
      BY <1>6
    <3>2. g + 1 <= Len(w) /\ w[g + 1].part = "body" /\ w[g + 1].k = v[i].k
      BY <2>2, <3>1, <1>3 DEF Packed
    <3>3. g + 1 \in 2..Len(w) /\ (g + 1) - 1 = g
      BY <3>1, <3>2, <1>1
    <3>4. g \in 1..Len(v) /\ v[g] = w[g + 1]
      BY <3>3, <1>7
    <3> QED
      BY <3>2, <3>4, <1>2
  <2>3. ASSUME NEW i \in 2..Len(v), v[i].part = "body"
        PROVE  v[i - 1].part = "head" /\ v[i - 1].k \notin Bare
    <3>1. i \in 1..Len(v) /\ i \in 2..Len(w) /\ i - 1 \in 1..Len(v) /\ i + 1 \in 2..Len(w) /\ (i + 1) - 1 = i
      BY <1>2
    <3>2. v[i - 1] = w[i] /\ v[i] = w[i + 1]
      BY <3>1, <1>6, <1>7
    <3> QED
      BY <2>3, <3>1, <3>2, <1>3 DEF Packed
  <2> QED
    BY <2>1, <2>2, <2>3 DEF Packed
<1>10. Halfway(v, half'[me])
  BY <1>1, <1>5, <1>8 DEF Halfway, Kinds
<1>11. pending'[me] = pending[me]
  <2>1. \A i \in 1..Len(v) : \E j \in 1..Len(w) : v[i].k = w[j].k
    BY <1>6
  <2>2. \A i \in 1..Len(w) : i = 1 \/ i \in 2..Len(w)
    BY <1>1
  <2>3. \A i \in 1..Len(w) : \E j \in 1..Len(v) : w[i].k = v[j].k
    BY <2>2, <1>5, <1>7, <1>8
  <2>4. \A k : k \in pending'[me] <=> k \in pending[me]
    <3>1. \A k \in pending'[me] : k \in pending[me]
      <4> TAKE k \in pending'[me]
      <4>1. PICK i \in 1..Len(v) : k = v[i].k
        BY <1>4
      <4>2. PICK j \in 1..Len(w) : v[i].k = w[j].k
        BY <2>1
      <4> QED
        BY <4>1, <4>2, <1>4
    <3>2. \A k \in pending[me] : k \in pending'[me]
      <4> TAKE k \in pending[me]
      <4>1. PICK i \in 1..Len(w) : k = w[i].k
        BY <1>4
      <4>2. PICK j \in 1..Len(v) : w[i].k = v[j].k
        BY <2>3
      <4> QED
        BY <4>1, <4>2, <1>4
    <3> QED
      BY <3>1, <3>2
  <2> QED
    BY <2>4, <1>4
<1>12. ASSUME NEW a \in Kinds, NEW b \in Kinds
       PROVE  (\A i \in 1..Len(w) : w[i].k = b => \E j \in 1..(i - 1) : w[j].k = a)
                <=> (\A i \in 1..Len(v) : v[i].k = b => \E j \in 1..(i - 1) : v[j].k = a)
  <2>1. ASSUME \A i \in 1..Len(w) : w[i].k = b => \E j \in 1..(i - 1) : w[j].k = a,
               NEW i \in 1..Len(v), v[i].k = b
        PROVE  \E j \in 1..(i - 1) : v[j].k = a
    <3> DEFINE g == i + 1
    <3>1. g \in 1..Len(w) /\ w[g].k = b /\ i \in Nat
      BY <2>1, <1>6
    <3>2. w[1].k # b
      <4>1. 1 \in 1..Len(w) /\ ~ \E j \in 1..(1 - 1) : w[j].k = a
        BY <1>1
      <4> QED
        BY <4>1, <2>1
    <3>3. i # 1
      BY <2>1, <3>2, <1>5, <1>8
    <3>4. PICK j \in 1..(g - 1) : w[j].k = a
      <4> HIDE DEF g
      <4> QED
        BY <2>1, <3>1
    <3>5. CASE j = 1
      <4>1. 1 \in 1..(i - 1) /\ v[1].k = a
        BY <3>1, <3>3, <3>4, <3>5, <1>5, <1>8
      <4> QED
        BY <4>1
    <3>6. CASE j # 1
      <4>1. j \in 2..Len(w) /\ j - 1 \in 1..(i - 1)
        BY <3>1, <3>4, <3>6, <1>1
      <4> QED
        BY <4>1, <3>4, <1>7
    <3> QED
      BY <3>5, <3>6
  <2>2. ASSUME \A i \in 1..Len(v) : v[i].k = b => \E j \in 1..(i - 1) : v[j].k = a,
               NEW i \in 1..Len(w), w[i].k = b
        PROVE  \E j \in 1..(i - 1) : w[j].k = a
    <3>1. i # 1
      <4>1. ~ \E j \in 1..(1 - 1) : v[j].k = a
        OBVIOUS
      <4>2. v[1].k # b
        BY <4>1, <2>2, <1>8
      <4> QED
        BY <4>2, <2>2, <1>5, <1>8
    <3> DEFINE g == i - 1
    <3>2. g \in 1..Len(v) /\ v[g].k = b /\ i \in Nat
      <4>1. i \in 2..Len(w)
        BY <3>1, <1>1
      <4> QED
        BY <4>1, <2>2, <1>7
    <3>3. PICK j \in 1..(g - 1) : v[j].k = a
      <4> HIDE DEF g
      <4> QED
        BY <2>2, <3>2
    <3>4. j \in 1..Len(v) /\ j + 1 \in 1..(i - 1)
      BY <3>2, <3>3, <1>2
    <3> QED
      BY <3>3, <3>4, <1>6
  <2> QED
    BY <2>1, <2>2
<1>13. ahead'[me] = ahead[me]
  <2>1. ASSUME NEW ab \in Kinds \X Kinds
        PROVE  ab \in ahead'[me] <=> ab \in ahead[me]
    <3>1. ab[1] \in Kinds /\ ab[2] \in Kinds
      BY <2>1
    <3>2. (\A i \in 1..Len(w) : w[i].k = ab[2] => \E j \in 1..(i - 1) : w[j].k = ab[1])
             <=> (\A i \in 1..Len(v) : v[i].k = ab[2] => \E j \in 1..(i - 1) : v[j].k = ab[1])
      BY <3>1, <1>12
    <3> QED
      BY <3>2, <1>4
  <2>2. ahead'[me] \subseteq Kinds \X Kinds /\ ahead[me] \subseteq Kinds \X Kinds
    BY <1>4
  <2> QED
    BY <2>1, <2>2
<1> QED
  BY <1>4, <1>9, <1>10, <1>11, <1>13

-----------------------------------------------------------------------------
(* Peer: the conversation.                                                 *)

(* Before the first packet, and after a negotiation that ended everything. *)
Early == cpc = "negotiate" \/ why = "negotiation"

EarlyInv ==
    /\ cpc \in {"negotiate", "closed"} /\ (cpc = "negotiate" => why # "negotiation")
    /\ spc \in {"first", "basic", "dh", "closed"}
    /\ half = [e \in Ends |-> "none"] /\ c = NoShake /\ s = NoShake /\ ~cut
    /\ \A i \in 1..Len(wire["sv"]) : wire["sv"][i].k \notin Kinds
    /\ wire["cl"] # <<>> => Len(wire["cl"]) = 1 /\ wire["sv"] = <<>> /\ spc \in {"first", "closed"}
    /\ Len(wire["sv"]) <= (IF crypt = "basic" THEN 3 ELSE 4)
    /\ spc = "basic" => Len(wire["sv"]) <= 1
    /\ spc = "dh" => Len(wire["sv"]) <= 2

Asking == {"req", "wait", "transfer", "done"}
Serving == {"queue", "engine", "drain"}

(* As long as no timer fires inside a packet, packets are read whole.      *)
Framed ==
    /\ cpc \in {"hs", "closed"} \cup Asking
    /\ half["cl"] # "none" => cpc \in {"hs", "req", "wait", "closed"}
    /\ ~cut => whole = Ends /\ spc \in {"first", "pre", "closed"} \cup Serving

(* The dialer asks for a file that is there, and when it still waits for   *)
(* the hash set the slot cannot be granted before it is sent.              *)
Granting ==
    /\ spc \in Serving => setting.file = "shared"
    /\ ~cut =>
       /\ cpc = "hs" => spc \notin Serving /\ "start" \notin pending["sv"]
       /\ spc \in {"first", "pre"} \/ cpc = "hs" => "accept" \notin pending["cl"]
       /\ (cpc = "req" /\ setting.file = "shared" /\ spc # "closed") =>
             /\ <<"hashans", "accept">> \in ahead["cl"]
             /\ \/ "hashans" \in pending["cl"]
                \/ spc \in {"first", "pre"} /\ "hashreq" \in pending["sv"] /\ <<"hashreq", "start">> \in ahead["sv"]
       /\ spc = "engine" => "accept" \in pending["cl"] \/ cpc \in {"transfer", "done", "closed"}

(* The acceptor has the dialer's signature, or it is on the way.           *)
Signed == s.verified \/ "sign" \in pending["sv"]

(* The handshake, packet by packet.                                        *)
Shaking ==
    /\ spc = "pre" => /\ s.challenged
                      /\ c.hello \/ "helloans" \in pending["cl"]
                      /\ Signed \/ "secstate" \in pending["cl"]
    /\ c.hello \/ <<"helloans", "infoans">> \in ahead["cl"]
    /\ cpc = "hs" => c.blob \/ <<"pubkey", "sign">> \in ahead["cl"]
    /\ c.info => Signed /\ c.challenged
    /\ c.challenged => c.grace \/ c.verified
    /\ Signed \/ <<"secstate", "infoans">> \in ahead["cl"]
    /\ s.verified \/ <<"sign", "start">> \in ahead["sv"]
    /\ s.verified \/ s.blob \/ <<"pubkey", "sign">> \in ahead["sv"]

Proving ==
    /\ cut /\ ~late => spc \in Serving \cup {"closed"} /\ cpc # "hs"
    /\ (setting.ckeys /\ ~setting.silent /\ ~late) =>
       /\ cpc \in Asking => c.verified /\ c.hello /\ c.info
       /\ spc \in Serving => s.verified
       /\ ~cut => Shaking

SessionInv == IF Early THEN EarlyInv ELSE Framed /\ Granting /\ Proving

SentKinds(kinds) == {kinds[i] : i \in 1..Len(kinds)}

(* a is sent before b is, if b is.                                         *)
Sends(kinds, a, b) == \A i \in 1..Len(kinds) : kinds[i] = b => \E j \in 1..(i - 1) : kinds[j] = a

(* What an end reads and what it answers, of the packets on the way.       *)
ExchangeOf(me, to, k, kinds) ==
    /\ whole' = Ends /\ half'[me] = "none" /\ half'[to] = half[to]
    /\ k \in Kinds /\ k \in pending[me] /\ k = Head(wire[me]).k
    /\ pending'[me] \subseteq pending[me]
    /\ \A a \in pending[me] : a # k => a \in pending'[me]
    /\ \A a, b \in Kinds : <<a, b>> \in ahead[me] =>
          k # b /\ (k # a => <<a, b>> \in ahead'[me])
    /\ pending'[to] = pending[to] \cup SentKinds(kinds)
    /\ \A a, b \in Kinds : <<a, b>> \in ahead[to] /\ (a \in pending[to] \/ Sends(kinds, a, b))
          => <<a, b>> \in ahead'[to]

LEMMA Exchanged ==
    ASSUME NetTyped, whole = Ends, NEW me \in Ends, NEW p \in Packets(me),
           NEW kinds \in Batches, Net(me, p.take, kinds)
    PROVE  ExchangeOf(me, Other(me), p.k, kinds)
<1>1. Other(me) \in Ends /\ me \in whole /\ Other(me) \in whole /\ \A e \in Ends : e = me \/ e = Other(me)
  BY DEF Ends, Other
<1>2. kinds \in Seq(Kinds)
  <2>1. ASSUME kinds \in Seq(Kinds \ Bare)
        PROVE  kinds \in Seq(Kinds)
    BY <2>1
  <2>2. <<"accept">> \in Seq(Kinds)
    BY DEF Kinds
  <2>3. kinds = <<"accept">> \/ kinds \in Seq(Kinds \ Bare)
    BY DEF Batches
  <2> QED
    BY <2>1, <2>2, <2>3
<1>3. /\ me \in whole'
      /\ pending'[me] \subseteq pending[me]
      /\ \A a \in pending[me] : a # p.k => a \in pending'[me]
      /\ \A a, b \in Kinds : <<a, b>> \in ahead[me] =>
            p.k # b /\ (p.k # a => <<a, b>> \in ahead'[me])
  BY <1>1, <1>2, PacketConsumed
<1>4. p.take \in {1, 2} /\ p.take <= here[me] /\ wire[me] \in Seq(Unit) /\ wire[me] # <<>>
  BY PacketIsThere DEF NetTyped
<1>5. p.take \in Nat
  BY <1>4
<1>6. LET to == Other(me)
      IN  /\ to \in whole'
          /\ pending'[to] = pending[to] \cup SentKinds(kinds)
          /\ \A a, b \in Kinds :
                (/\ <<a, b>> \in ahead[to]
                 /\ \/ a \in pending[to]
                    \/ \A i \in 1..Len(kinds) : kinds[i] = b => \E j \in 1..(i - 1) : kinds[j] = a)
                => <<a, b>> \in ahead'[to]
  BY <1>1, <1>4, <1>5, PacketsSent DEF SentKinds
<1>7. half'[me] = "none" /\ half'[Other(me)] = half[Other(me)]
  BY <1>2, <1>4, <1>5, NetIs
<1>8. p.k \in Kinds /\ p.k \in pending[me] /\ p.k = Head(wire[me]).k
  <2>1. p.k \in Kinds /\ p.k \in pending[me] /\ \A i \in 1..p.take : wire[me][i].k = p.k
    BY <1>1, PacketIsFirst
  <2>2. 1 \in 1..p.take /\ Head(wire[me]) = wire[me][1]
    BY <1>4
  <2> QED
    BY <2>1, <2>2
<1>9. whole' = Ends
  <2>1. whole' \subseteq Ends
    BY DEF whole
  <2> QED
    BY <2>1, <1>1, <1>3, <1>6
<1> QED
  BY <1>3, <1>6, <1>7, <1>8, <1>9 DEF ExchangeOf, Sends

(* Packets sent without reading.                                           *)
AnnounceOf(me, to, kinds) ==
    /\ whole' = Ends /\ half'[me] = "none" /\ half'[to] = half[to]
    /\ pending'[me] = pending[me] /\ ahead'[me] = ahead[me]
    /\ pending'[to] = pending[to] \cup SentKinds(kinds)
    /\ \A a, b \in Kinds : <<a, b>> \in ahead[to] /\ (a \in pending[to] \/ Sends(kinds, a, b))
          => <<a, b>> \in ahead'[to]

LEMMA Announced ==
    ASSUME NetTyped, whole = Ends, NEW me \in Ends, half[me] = "none",
           NEW kinds \in Batches, Net(me, 0, kinds)
    PROVE  AnnounceOf(me, Other(me), kinds)
<1>1. Other(me) \in Ends /\ me \in whole /\ Other(me) \in whole /\ \A e \in Ends : e = me \/ e = Other(me)
  BY DEF Ends, Other
<1>2. kinds \in Seq(Kinds)
  <2>1. ASSUME kinds \in Seq(Kinds \ Bare)
        PROVE  kinds \in Seq(Kinds)
    BY <2>1
  <2>2. <<"accept">> \in Seq(Kinds)
    BY DEF Kinds
  <2>3. kinds = <<"accept">> \/ kinds \in Seq(Kinds \ Bare)
    BY DEF Batches
  <2> QED
    BY <2>1, <2>2, <2>3
<1>3. 0 \in Nat /\ 0 <= here[me]
  BY DEF NetTyped
<1>4. me \in whole' /\ pending'[me] = pending[me] /\ ahead'[me] = ahead[me]
  BY <1>1, <1>2, NothingRead
<1>5. LET to == Other(me)
      IN  /\ to \in whole'
          /\ pending'[to] = pending[to] \cup SentKinds(kinds)
          /\ \A a, b \in Kinds :
                (/\ <<a, b>> \in ahead[to]
                 /\ \/ a \in pending[to]
                    \/ \A i \in 1..Len(kinds) : kinds[i] = b => \E j \in 1..(i - 1) : kinds[j] = a)
                => <<a, b>> \in ahead'[to]
  BY <1>1, <1>3, PacketsSent DEF SentKinds
<1>6. half'[me] = "none" /\ half'[Other(me)] = half[Other(me)]
  BY <1>2, <1>3, NetIs
<1>7. whole' = Ends
  <2>1. whole' \subseteq Ends
    BY DEF whole
  <2> QED
    BY <2>1, <1>1, <1>4, <1>5
<1> QED
  BY <1>4, <1>5, <1>6, <1>7 DEF AnnounceOf, Sends

(* What is sent, and in which order.                                       *)
LEMMA SentOne ==
    ASSUME NEW a \in Kinds
    PROVE  <<a>> \in Batches /\ SentKinds(<<a>>) = {a}
<1>1. CASE a = "accept"
  BY <1>1 DEF Batches, SentKinds
<1>2. CASE a # "accept"
  <2>1. a \in Kinds \ Bare
    BY <1>2 DEF Bare
  <2>2. <<a>> \in Seq(Kinds \ Bare)
    BY <2>1
  <2> QED
    BY <2>2 DEF Batches, SentKinds
<1> QED
  BY <1>1, <1>2

LEMMA SentNone ==
    <<>> \in Batches /\ SentKinds(<<>>) = {}
BY DEF Batches, SentKinds

LEMMA SentTwo ==
    ASSUME NEW a \in Kinds \ Bare, NEW b \in Kinds \ Bare, a # b
    PROVE  /\ <<a, b>> \in Seq(Kinds \ Bare)
           /\ <<a, b>> \in Batches /\ SentKinds(<<a, b>>) = {a, b}
           /\ Sends(<<a, b>>, a, b)
<1>1. <<a, b>> \in Seq(Kinds \ Bare) /\ Len(<<a, b>>) = 2 /\ <<a, b>>[1] = a /\ <<a, b>>[2] = b
  OBVIOUS
<1>2. \A i \in 1..2 : i = 1 \/ i = 2
  OBVIOUS
<1>3. 1 \in 1..2 /\ 2 \in 1..2 /\ 1 \in 1..(2 - 1)
  OBVIOUS
<1> QED
  BY <1>1, <1>2, <1>3 DEF Batches, SentKinds, Sends

LEMMA NotSent ==
    ASSUME NEW kinds, NEW a, NEW b, b \notin SentKinds(kinds)
    PROVE  Sends(kinds, a, b)
BY DEF Sends, SentKinds

LEMMA SentMore ==
    ASSUME NEW some \in Seq(Kinds \ Bare), NEW more \in Seq(Kinds \ Bare)
    PROVE  /\ some \o more \in Seq(Kinds \ Bare)
           /\ some \o more \in Batches
           /\ SentKinds(some \o more) = SentKinds(some) \cup SentKinds(more)
           /\ \A a, b : Sends(some, a, b) /\ (a \in SentKinds(some) \/ Sends(more, a, b))
                           => Sends(some \o more, a, b)
<1> DEFINE all == some \o more
           n == Len(some)
           m == Len(more)
<1>1. /\ all \in Seq(Kinds \ Bare) /\ Len(all) = n + m /\ n \in Nat /\ m \in Nat
      /\ \A i \in 1..(n + m) : all[i] = IF i <= n THEN some[i] ELSE more[i - n]
  BY ConcatProperties
<1> HIDE DEF all, n, m
<1>2. \A i \in 1..n : i \in 1..Len(all) /\ all[i] = some[i]
  BY <1>1
<1>3. \A i \in 1..m : i + n \in 1..Len(all) /\ all[i + n] = more[i]
  <2> SUFFICES ASSUME NEW i \in 1..m
               PROVE  i + n \in 1..Len(all) /\ all[i + n] = more[i]
    OBVIOUS
  <2>1. i + n \in 1..(n + m) /\ (i + n) - n = i /\ ~(i + n <= n)
    BY <1>1
  <2> QED
    BY <2>1, <1>1
<1>4. \A i \in 1..Len(all) : \/ i \in 1..n /\ all[i] = some[i]
                             \/ i - n \in 1..m /\ i = (i - n) + n /\ all[i] = more[i - n]
  BY <1>1
<1>5. SentKinds(some) = {some[i] : i \in 1..n} /\ SentKinds(more) = {more[i] : i \in 1..m}
  BY DEF SentKinds, n, m
<1>6. SentKinds(all) = SentKinds(some) \cup SentKinds(more)
  <2>1. \A k \in SentKinds(all) : k \in SentKinds(some) \cup SentKinds(more)
    BY <1>4, <1>5 DEF SentKinds
  <2>2. \A k \in SentKinds(some) : k \in SentKinds(all)
    BY <1>2, <1>5 DEF SentKinds
  <2>3. \A k \in SentKinds(more) : k \in SentKinds(all)
    BY <1>3, <1>5 DEF SentKinds
  <2> QED
    BY <2>1, <2>2, <2>3
<1>7. ASSUME NEW a, NEW b, Sends(some, a, b), a \in SentKinds(some) \/ Sends(more, a, b),
             NEW i \in 1..Len(all), all[i] = b
      PROVE  \E j \in 1..(i - 1) : all[j] = a
  <2>1. CASE i \in 1..n /\ all[i] = some[i]
    <3>1. PICK j \in 1..(i - 1) : some[j] = a
      BY <1>7, <2>1 DEF Sends, n
    <3>2. j \in 1..n
      BY <2>1, <3>1, <1>1
    <3> QED
      BY <3>1, <3>2, <1>2
  <2>2. CASE i - n \in 1..m /\ i = (i - n) + n /\ all[i] = more[i - n]
    <3>1. CASE a \in SentKinds(some)
      <4>1. PICK j \in 1..n : some[j] = a
        BY <3>1, <1>5
      <4>2. j \in 1..(i - 1)
        BY <2>2, <1>1
      <4> QED
        BY <4>1, <4>2, <1>2
    <3>2. CASE Sends(more, a, b)
      <4> DEFINE g == i - n
      <4>1. g \in 1..m /\ more[g] = b /\ i = g + n /\ g \in Nat
        BY <2>2, <1>7, <1>1
      <4> HIDE DEF g
      <4>2. PICK j \in 1..(g - 1) : more[j] = a
        BY <3>2, <4>1 DEF Sends, m
      <4>3. j \in 1..m /\ j + n \in 1..(i - 1)
        BY <4>1, <4>2, <1>1
      <4> QED
        BY <4>2, <4>3, <1>3
    <3> QED
      BY <1>7, <3>1, <3>2
  <2> QED
    BY <1>4, <2>1, <2>2
<1>8. \A a, b : Sends(some, a, b) /\ (a \in SentKinds(some) \/ Sends(more, a, b)) => Sends(all, a, b)
  BY <1>7 DEF Sends
<1> QED
  BY <1>1, <1>6, <1>8 DEF all, Batches

LEMMA FileIsRequested ==
    /\ FileRequest \in Seq(Kinds \ Bare) /\ FileRequest \in Batches
    /\ SentKinds(FileRequest) = {"name", "setid", "hashreq", "start"}
    /\ Sends(FileRequest, "hashreq", "start")
<1>1. /\ FileRequest = <<"name", "setid", "hashreq", "start">>
      /\ Len(FileRequest) = 4
      /\ FileRequest[1] = "name" /\ FileRequest[2] = "setid"
      /\ FileRequest[3] = "hashreq" /\ FileRequest[4] = "start"
  BY DEF FileRequest
<1>2. FileRequest \in Seq(Kinds \ Bare)
  BY DEF FileRequest, Kinds, Bare
<1>3. \A i \in 1..4 : i = 1 \/ i = 2 \/ i = 3 \/ i = 4
  OBVIOUS
<1>4. 1 \in 1..4 /\ 2 \in 1..4 /\ 3 \in 1..4 /\ 4 \in 1..4 /\ 3 \in 1..(4 - 1)
  OBVIOUS
<1>5. SentKinds(FileRequest) = {"name", "setid", "hashreq", "start"}
  BY <1>1, <1>3, <1>4 DEF SentKinds
<1>6. Sends(FileRequest, "hashreq", "start")
  BY <1>1, <1>3, <1>4 DEF Sends
<1> QED
  BY <1>2, <1>5, <1>6 DEF Batches

LEMMA ShakeIs ==
    ASSUME NEW k
    PROVE  /\ ShakeReply(k) \in Seq(Kinds \ Bare)
           /\ \/ ShakeReply(k) = <<"pubkey", "sign">> /\ k = "secstate" /\ setting.ckeys
              \/ ShakeReply(k) = <<"secstate">> /\ ~(k = "secstate" /\ setting.ckeys)
              \/ ShakeReply(k) = <<>> /\ ~(k = "secstate" /\ setting.ckeys)
           /\ SentKinds(ShakeReply(k)) \subseteq {"secstate", "pubkey", "sign"}
           /\ k = "secstate" /\ setting.ckeys => "sign" \in SentKinds(ShakeReply(k))
           /\ Sends(ShakeReply(k), "pubkey", "sign")
<1>1. {"secstate", "pubkey", "sign"} \subseteq Kinds \ Bare
  BY DEF Kinds, Bare
<1>2. CASE k = "secstate" /\ setting.ckeys
  <2>1. ShakeReply(k) = <<"pubkey", "sign">>
    BY <1>2 DEF ShakeReply
  <2> QED
    BY <1>1, <1>2, <2>1, SentTwo
<1>3. CASE ~(k = "secstate" /\ setting.ckeys)
  <2>1. ShakeReply(k) = <<"secstate">> \/ ShakeReply(k) = <<>>
    BY <1>3 DEF ShakeReply
  <2>2. SentKinds(<<"secstate">>) = {"secstate"} /\ SentKinds(<<>>) = {}
    BY <1>1, SentOne, SentNone
  <2>3. <<"secstate">> \in Seq(Kinds \ Bare) /\ <<>> \in Seq(Kinds \ Bare)
    BY <1>1
  <2>4. Sends(ShakeReply(k), "pubkey", "sign")
    BY <2>1, <2>2, NotSent
  <2> QED
    BY <1>3, <2>1, <2>2, <2>3, <2>4
<1> QED
  BY <1>2, <1>3

LEMMA PreIs ==
    ASSUME NEW k
    PROVE  /\ PreReply(k) \in Batches
           /\ SentKinds(PreReply(k)) \subseteq {"infoans", "pubkey", "sign", "nameans", "hashans", "sxans"}
           /\ "infoans" \in SentKinds(PreReply(k)) => k = "info"
           /\ k = "hashreq" /\ Known => "hashans" \in SentKinds(PreReply(k))
           /\ Sends(PreReply(k), "pubkey", "sign")
<1>1. {"infoans", "pubkey", "sign", "nameans", "hashans", "sxans"} \subseteq Kinds \ Bare
  BY DEF Kinds, Bare
<1>2. CASE k = "secstate" /\ ~setting.silent
  <2>1. PreReply(k) = <<"pubkey", "sign">>
    BY <1>2 DEF PreReply
  <2> QED
    BY <1>1, <1>2, <2>1, SentTwo
<1>3. CASE ~(k = "secstate" /\ ~setting.silent)
  <2>1. \/ PreReply(k) = <<"infoans">> /\ k = "info"
        \/ PreReply(k) = <<"nameans">> /\ k = "name"
        \/ PreReply(k) = <<"hashans">> /\ k = "hashreq"
        \/ PreReply(k) = <<"sxans">> /\ k = "sx2"
        \/ PreReply(k) = <<>> /\ ~(k = "hashreq" /\ Known)
    BY <1>3 DEF PreReply
  <2>2. /\ \A a \in {"infoans", "nameans", "hashans", "sxans"} : <<a>> \in Batches /\ SentKinds(<<a>>) = {a}
        /\ <<>> \in Batches /\ SentKinds(<<>>) = {}
    BY <1>1, SentOne, SentNone
  <2>3. "sign" \notin SentKinds(PreReply(k))
    BY <2>1, <2>2
  <2>4. Sends(PreReply(k), "pubkey", "sign")
    BY <2>3, NotSent
  <2>5. PreReply(k) \in Batches
    BY <2>1, <2>2
  <2>6. /\ SentKinds(PreReply(k)) \subseteq {"infoans", "pubkey", "sign", "nameans", "hashans", "sxans"}
        /\ "infoans" \in SentKinds(PreReply(k)) => k = "info"
    BY <2>1, <2>2
  <2>7. k = "hashreq" /\ Known => "hashans" \in SentKinds(PreReply(k))
    BY <2>1, <2>2
  <2> QED
    BY <2>4, <2>5, <2>6, <2>7
<1> QED
  BY <1>2, <1>3

(* What handshake() answers, and request_file asks for behind it.          *)
LEMMA ShakeThenAsk ==
    ASSUME NEW k, NEW over \in BOOLEAN
    PROVE  LET said == ShakeReply(k) \o (IF over THEN FileRequest ELSE <<>>)
           IN  /\ said \in Batches
               /\ SentKinds(said) = SentKinds(ShakeReply(k)) \cup (IF over THEN {"name", "setid", "hashreq", "start"} ELSE {})
               /\ "start" \in SentKinds(said) => over
               /\ over => "hashreq" \in SentKinds(said)
               /\ Sends(said, "hashreq", "start")
               /\ Sends(said, "pubkey", "sign")
               /\ k = "secstate" /\ setting.ckeys => "sign" \in SentKinds(said)
<1> DEFINE more == IF over THEN FileRequest ELSE <<>>
           said == ShakeReply(k) \o more
<1>1. /\ more \in Seq(Kinds \ Bare)
      /\ SentKinds(more) = IF over THEN {"name", "setid", "hashreq", "start"} ELSE {}
      /\ Sends(more, "hashreq", "start")
  <2>1. <<>> \in Seq(Kinds \ Bare)
    OBVIOUS
  <2>2. CASE over
    BY <2>2, FileIsRequested
  <2>3. CASE ~over
    BY <2>1, <2>3, SentNone, NotSent
  <2> QED
    BY <2>2, <2>3
<1>2. Sends(more, "pubkey", "sign")
  BY <1>1, NotSent
<1> HIDE DEF more
<1>3. Sends(ShakeReply(k), "hashreq", "start")
  <2>1. "start" \notin SentKinds(ShakeReply(k))
    BY ShakeIs
  <2> QED
    BY <2>1, NotSent
<1>4. /\ said \in Batches
      /\ SentKinds(said) = SentKinds(ShakeReply(k)) \cup SentKinds(more)
      /\ Sends(said, "hashreq", "start") /\ Sends(said, "pubkey", "sign")
  <2>1. ShakeReply(k) \in Seq(Kinds \ Bare) /\ Sends(ShakeReply(k), "pubkey", "sign")
    BY ShakeIs
  <2> QED
    BY <2>1, <1>1, <1>2, <1>3, SentMore
<1>5. /\ SentKinds(ShakeReply(k)) \subseteq {"secstate", "pubkey", "sign"}
      /\ k = "secstate" /\ setting.ckeys => "sign" \in SentKinds(ShakeReply(k))
  BY ShakeIs
<1> HIDE DEF said
<1>6. /\ "start" \in SentKinds(said) => over
      /\ over => "hashreq" \in SentKinds(said)
      /\ k = "secstate" /\ setting.ckeys => "sign" \in SentKinds(said)
  BY <1>1, <1>4, <1>5
<1> QED
  BY <1>1, <1>4, <1>6 DEF said, more

Shakes == [hello : BOOLEAN, info : BOOLEAN, challenged : BOOLEAN, grace : BOOLEAN,
           blob : BOOLEAN, verified : BOOLEAN]

ShakeTyped ==
    /\ c \in Shakes /\ s \in Shakes
    /\ setting \in [ckeys : BOOLEAN, file : {"shared", "unknown", "gone"}, silent : BOOLEAN,
                    fallback : BOOLEAN, sources : BOOLEAN]

(* What handshake() knows after a packet is typed.                         *)
LEMMA ShakenIs ==
    ASSUME ShakeTyped, NEW k
    PROVE  Shaken(k) \in Shakes
<1>1. c \in Shakes /\ setting.ckeys \in BOOLEAN
  BY DEF ShakeTyped
<1>2. c.challenged \in BOOLEAN /\ c.grace \in BOOLEAN /\ c.verified \in BOOLEAN /\ c.blob \in BOOLEAN
      /\ c.hello \in BOOLEAN
  BY <1>1 DEF Shakes
<1>3. /\ (c.challenged \/ Challenges) \in BOOLEAN /\ (c.grace \/ Challenges) \in BOOLEAN
      /\ (c.verified \/ (c.challenged /\ c.blob)) \in BOOLEAN
  OBVIOUS
<1>4. [c EXCEPT !.hello = TRUE] \in Shakes /\ [c EXCEPT !.blob = TRUE] \in Shakes
  BY <1>1 DEF Shakes
<1>5. \A x, y \in BOOLEAN : [c EXCEPT !.info = TRUE, !.challenged = x, !.grace = y] \in Shakes
  BY <1>1 DEF Shakes
<1>6. \A x \in BOOLEAN : [c EXCEPT !.verified = x, !.grace = FALSE] \in Shakes
  BY <1>1 DEF Shakes
<1>7. CASE k = "helloans"
  BY <1>4, <1>7 DEF Shaken
<1>8. CASE k = "infoans"
  <2>1. Shaken(k) = [c EXCEPT !.info = TRUE, !.challenged = c.challenged \/ Challenges,
                              !.grace = c.grace \/ Challenges]
    BY <1>8 DEF Shaken
  <2> QED
    BY <1>3, <1>5, <2>1
<1>9. CASE k = "pubkey"
  BY <1>4, <1>9 DEF Shaken
<1>10. CASE k = "sign"
  <2>1. Shaken(k) = [c EXCEPT !.verified = c.verified \/ (c.challenged /\ c.blob), !.grace = FALSE]
    BY <1>10 DEF Shaken
  <2> QED
    BY <1>3, <1>6, <2>1
<1>11. CASE k \notin {"helloans", "infoans", "pubkey", "sign"}
  BY <1>1, <1>11 DEF Shaken
<1> QED
  BY <1>7, <1>8, <1>9, <1>10, <1>11

(* handshake() goes on.                                                    *)
LEMMA ClientShakesOn ==
    ASSUME NetTyped, ShakeTyped, Framed, Granting, Proving, ClientShakes
    PROVE  Framed' /\ Granting' /\ Proving'
<1>1. PICK p \in Packets("cl") :
         LET h == Shaken(p.k)
             over == ShakenOver(h)
         IN  /\ c' = h
             /\ cpc' = IF over THEN "req" ELSE "hs"
             /\ Net("cl", p.take, ShakeReply(p.k) \o (IF over THEN FileRequest ELSE <<>>))
  BY DEF ClientShakes
<1> DEFINE h == Shaken(p.k)
           over == ShakenOver(h)
           said == ShakeReply(p.k) \o (IF over THEN FileRequest ELSE <<>>)
<1>2. cpc = "hs" /\ UNCHANGED <<setting, spc, s, late, cut>>
  BY DEF ClientShakes
<1>3. CASE cut
  <2>1. late
    BY <1>2, <1>3 DEF Proving
  <2> QED
    BY <2>1, <1>1, <1>2, <1>3 DEF Framed, Granting, Proving, Asking
<1>4. CASE ~cut
  <2>1. "cl" \in Ends /\ Other("cl") = "sv" /\ over \in BOOLEAN
    BY DEF Ends, Other, ShakenOver, ShakeTyped, Shaken
  <2>2. /\ said \in Batches
        /\ SentKinds(said) = SentKinds(ShakeReply(p.k)) \cup (IF over THEN {"name", "setid", "hashreq", "start"} ELSE {})
        /\ "start" \in SentKinds(said) => over
        /\ over => "hashreq" \in SentKinds(said)
        /\ Sends(said, "hashreq", "start")
        /\ Sends(said, "pubkey", "sign")
        /\ p.k = "secstate" /\ setting.ckeys => "sign" \in SentKinds(said)
    BY <2>1, ShakeThenAsk
  <2>3. whole = Ends /\ Net("cl", p.take, said)
    BY <1>1, <1>4 DEF Framed
  <2> HIDE DEF said
  <2>4. /\ whole' = Ends /\ half'["cl"] = "none"
        /\ pending'["cl"] \subseteq pending["cl"]
        /\ \A a \in pending["cl"] : a # p.k => a \in pending'["cl"]
        /\ \A a, b \in Kinds : <<a, b>> \in ahead["cl"] =>
              p.k # b /\ (p.k # a => <<a, b>> \in ahead'["cl"])
        /\ pending'["sv"] = pending["sv"] \cup SentKinds(said)
        /\ \A a, b \in Kinds : <<a, b>> \in ahead["sv"] /\ (a \in pending["sv"] \/ Sends(said, a, b))
              => <<a, b>> \in ahead'["sv"]
    <3>1. ExchangeOf("cl", "sv", p.k, said)
      BY <2>1, <2>2, <2>3, Exchanged
    <3> QED
      BY <3>1 DEF ExchangeOf
  <2> HIDE DEF h, over
  <2>5. c' = h /\ cpc' = (IF over THEN "req" ELSE "hs") /\ c' \in Shakes
    <3>1. c' = h /\ cpc' = (IF over THEN "req" ELSE "hs")
      BY <1>1 DEF h, over
    <3>2. h \in Shakes
      BY ShakenIs DEF h
    <3> QED
      BY <3>1, <3>2
  <2>6. Framed'
    BY <1>2, <1>4, <2>4, <2>5 DEF Framed, Asking
  <2>7. Granting'
    <3>1. spc \notin Serving /\ "start" \notin pending["sv"] /\ "accept" \notin pending["cl"]
      BY <1>2, <1>4 DEF Granting
    <3>2. spc \in {"first", "pre", "closed"}
      BY <1>4, <3>1 DEF Framed
    <3>3. "accept" \notin pending'["cl"]
      BY <2>4, <3>1
    <3>4. /\ "hashans" \in Kinds /\ "accept" \in Kinds /\ "hashreq" \in Kinds /\ "start" \in Kinds
          /\ "cl" \in Ends /\ "sv" \in Ends
      BY DEF Kinds, Ends
    <3>5. <<"hashans", "accept">> \in ahead'["cl"]
      <4>1. <<"hashans", "accept">> \in ahead["cl"] /\ p.k # "hashans" => <<"hashans", "accept">> \in ahead'["cl"]
        BY <2>4, <3>4
      <4>2. "accept" \notin pending'["cl"] => <<"hashans", "accept">> \in ahead'["cl"]
        BY <3>4 DEF ahead, pending
      <4> QED
        BY <4>2, <3>3
    <3>6. <<"hashreq", "start">> \in ahead'["sv"]
      <4>1. <<"hashreq", "start">> \in ahead["sv"]
        BY <3>1, <3>4, AheadIs
      <4> QED
        BY <4>1, <2>2, <2>4, <3>4
    <3>7. cpc' = "req" => "hashreq" \in pending'["sv"]
      BY <2>2, <2>4, <2>5
    <3>8. cpc' = "hs" => "start" \notin pending'["sv"]
      BY <2>2, <2>4, <2>5, <3>1
    <3>9. spc' = spc /\ setting' = setting /\ cut' = cut /\ cpc' \in {"hs", "req"}
      BY <1>2, <2>5
    <3> QED
      BY <3>1, <3>2, <3>3, <3>5, <3>6, <3>7, <3>8, <3>9 DEF Granting, Serving
  <2>8. Proving'
    <3> SUFFICES ASSUME setting.ckeys, ~setting.silent, ~late
                 PROVE  /\ cpc' \in Asking => c'.verified /\ c'.hello /\ c'.info
                        /\ spc \in Serving => s.verified
                        /\ Shaking'
      BY <1>2, <1>4 DEF Proving
    <3>1. Shaking /\ spc \notin Serving /\ "start" \notin pending["sv"]
      BY <1>2, <1>4 DEF Proving, Granting
    <3>2. {"helloans", "infoans", "pubkey", "sign", "secstate", "start"} \subseteq Kinds
      BY DEF Kinds
    (* What is read tells what came before it.                             *)
    <3>3. /\ p.k = "infoans" => c.hello /\ Signed
          /\ p.k = "sign" => c.blob
      BY <1>2, <2>4, <3>1, <3>2 DEF Shaking
    <3>4. /\ c.hello => c'.hello
          /\ c.blob => c'.blob
          /\ c.info => c'.info
          /\ c.challenged => c'.challenged
          /\ c.verified => c'.verified
          /\ c'.info => c.info \/ p.k = "infoans"
          /\ p.k = "helloans" => c'.hello
          /\ p.k = "pubkey" => c'.blob
          /\ p.k = "infoans" /\ c.hello => c'.challenged
          /\ c'.challenged => c'.grace \/ c.challenged
          /\ c.grace /\ ~c'.grace => p.k = "sign"
          /\ p.k = "sign" /\ c.challenged /\ c.blob => c'.verified
      BY <2>5 DEF h, Shaken, Challenges, ShakeTyped
    <3>5. (cpc' \in Asking) => c'.hello /\ c'.info /\ ~c'.grace
      BY <2>5 DEF over, ShakenOver, Asking
    <3>6. Signed => Signed'
      BY <1>2, <2>4 DEF Signed
    <3>7. c'.info => Signed /\ c'.challenged
      BY <3>1, <3>3, <3>4 DEF Shaking
    <3>8. c'.challenged => c'.grace \/ c'.verified
      BY <3>1, <3>3, <3>4 DEF Shaking
    <3>9. p.k = "secstate" => Signed'
      BY <2>2, <2>4 DEF Signed
    <3>10. /\ <<"helloans", "infoans">> \in ahead["cl"] /\ p.k # "helloans" => <<"helloans", "infoans">> \in ahead'["cl"]
           /\ <<"pubkey", "sign">> \in ahead["cl"] /\ p.k # "pubkey" => <<"pubkey", "sign">> \in ahead'["cl"]
           /\ <<"secstate", "infoans">> \in ahead["cl"] /\ p.k # "secstate" => <<"secstate", "infoans">> \in ahead'["cl"]
      BY <2>4, <3>2
    <3>11. s.verified \/ s.blob \/ <<"pubkey", "sign">> \in ahead'["sv"]
      BY <2>2, <2>4, <3>1, <3>2 DEF Shaking
    <3>12. s.verified \/ <<"sign", "start">> \in ahead'["sv"]
      <4>1. ASSUME ~s.verified
            PROVE  <<"sign", "start">> \in ahead["sv"]
        BY <4>1, <3>1 DEF Shaking
      <4>2. CASE over
        <5>1. s.verified \/ "sign" \in pending["sv"]
          BY <4>2, <2>5, <3>5, <3>7 DEF Signed, Asking
        <5> QED
          BY <4>1, <5>1, <2>4, <3>2
      <4>3. CASE ~over
        <5>1. Sends(said, "sign", "start")
          BY <4>3, <2>2, NotSent
        <5> QED
          BY <4>1, <5>1, <2>4, <3>2
      <4> QED
        BY <4>2, <4>3
    <3>13. spc = "pre" => /\ s.challenged
                          /\ c'.hello \/ "helloans" \in pending'["cl"]
                          /\ Signed' \/ "secstate" \in pending'["cl"]
      BY <2>4, <3>1, <3>4, <3>6, <3>9 DEF Shaking
    <3>14. Shaking'
      <4>1. UNCHANGED <<spc, s>>
        BY <1>2
      <4>2. c'.hello \/ <<"helloans", "infoans">> \in ahead'["cl"]
        BY <3>1, <3>4, <3>10 DEF Shaking
      <4>3. c'.blob \/ <<"pubkey", "sign">> \in ahead'["cl"]
        BY <1>2, <3>1, <3>4, <3>10 DEF Shaking
      <4>4. Signed' \/ <<"secstate", "infoans">> \in ahead'["cl"]
        BY <3>1, <3>6, <3>9, <3>10 DEF Shaking
      <4> QED
        BY <4>1, <4>2, <4>3, <4>4, <3>6, <3>7, <3>8, <3>11, <3>12, <3>13 DEF Shaking
    <3> QED
      BY <3>1, <3>5, <3>7, <3>8, <3>14
  <2> QED
    BY <2>6, <2>7, <2>8
<1> QED
  BY <1>3, <1>4

(* The grace is over: what depended on no timer is not promised any more.  *)
LEMMA GraceEndsOn ==
    ASSUME NetTyped, ShakeTyped, Framed, Granting, Proving, GraceEnds
    PROVE  Framed' /\ Granting' /\ Proving'
<1>1. PICK p \in Packets("cl") : Net("cl", p.take, ShakeReply(p.k) \o FileRequest)
  BY DEF GraceEnds
<1> DEFINE said == ShakeReply(p.k) \o FileRequest
<1>2. cpc = "hs" /\ cpc' = "req" /\ late' /\ UNCHANGED <<setting, spc, cut>>
  BY DEF GraceEnds
<1>3. Proving'
  BY <1>2 DEF Proving
<1>4. CASE cut
  BY <1>1, <1>2, <1>3, <1>4 DEF Framed, Granting, Asking
<1>5. CASE ~cut
  <2>1. "cl" \in Ends /\ Other("cl") = "sv"
    BY DEF Ends, Other
  <2>2. said \in Batches /\ "hashreq" \in SentKinds(said) /\ Sends(said, "hashreq", "start")
    BY ShakeThenAsk
  <2>3. whole = Ends /\ Net("cl", p.take, said)
    BY <1>1, <1>5 DEF Framed
  <2> HIDE DEF said
  <2>4. /\ whole' = Ends /\ half'["cl"] = "none"
        /\ pending'["cl"] \subseteq pending["cl"]
        /\ pending'["sv"] = pending["sv"] \cup SentKinds(said)
        /\ \A a, b \in Kinds : <<a, b>> \in ahead["sv"] /\ (a \in pending["sv"] \/ Sends(said, a, b))
              => <<a, b>> \in ahead'["sv"]
    <3>1. ExchangeOf("cl", "sv", p.k, said)
      BY <2>1, <2>2, <2>3, Exchanged
    <3> QED
      BY <3>1 DEF ExchangeOf
  <2>5. Framed'
    BY <1>2, <1>5, <2>4 DEF Framed, Asking
  <2>6. Granting'
    <3>1. spc \notin Serving /\ "start" \notin pending["sv"] /\ "accept" \notin pending["cl"]
      BY <1>2, <1>5 DEF Granting
    <3>2. spc \in {"first", "pre", "closed"}
      BY <1>5, <3>1 DEF Framed
    <3>3. "accept" \notin pending'["cl"]
      BY <2>4, <3>1
    <3>4. "hashans" \in Kinds /\ "accept" \in Kinds /\ "hashreq" \in Kinds /\ "start" \in Kinds
      BY DEF Kinds
    <3>5. <<"hashans", "accept">> \in ahead'["cl"]
      BY <2>1, <3>3, <3>4 DEF ahead, pending
    <3>6. <<"hashreq", "start">> \in ahead'["sv"]
      <4>1. <<"hashreq", "start">> \in ahead["sv"]
        BY <3>1, <3>4, AheadIs DEF Ends
      <4> QED
        BY <4>1, <2>2, <2>4, <3>4
    <3> QED
      BY <1>2, <2>2, <2>4, <3>1, <3>2, <3>3, <3>5, <3>6 DEF Granting, Serving
  <2> QED
    BY <1>3, <2>5, <2>6
<1> QED
  BY <1>4, <1>5

(* The dialer has asked: nothing of the handshake is said any more.        *)
LEMMA ShakingStays ==
    ASSUME Shaking, c.hello, c.info, UNCHANGED <<c, s>>,
           spc' = "pre" => spc = "pre", cpc' # "hs",
           "sign" \in pending["sv"] => "sign" \in pending'["sv"],
           \A a \in Kinds, b \in {"sign", "start"} : <<a, b>> \in ahead["sv"] => <<a, b>> \in ahead'["sv"]
    PROVE  Shaking'
<1>1. Signed /\ Signed' /\ c.challenged
  BY DEF Shaking, Signed
<1>2. "sign" \in Kinds /\ "pubkey" \in Kinds
  BY DEF Kinds
<1>3. /\ s.verified \/ <<"sign", "start">> \in ahead'["sv"]
      /\ s.verified \/ s.blob \/ <<"pubkey", "sign">> \in ahead'["sv"]
  BY <1>2 DEF Shaking
<1> QED
  BY <1>1, <1>3 DEF Shaking

LEMMA ClientRequestsOn ==
    ASSUME NetTyped, ShakeTyped, Framed, Granting, Proving, ClientRequests
    PROVE  Framed' /\ Granting' /\ Proving'
<1>1. PICK p \in Packets("cl") :
         /\ cpc' = IF p.k = "hashans" THEN "wait" ELSE "req"
         /\ Net("cl", p.take, IF p.k = "hashans" THEN <<"sx2">> ELSE <<>>)
  BY DEF ClientRequests
<1> DEFINE said == IF p.k = "hashans" THEN <<"sx2">> ELSE <<>>
<1>2. cpc = "req" /\ cpc' \in {"req", "wait"} /\ UNCHANGED <<setting, spc, c, s, late, cut>>
  BY <1>1 DEF ClientRequests
<1>3. CASE cut
  BY <1>1, <1>2, <1>3 DEF Framed, Granting, Proving, Asking, Serving
<1>4. CASE ~cut
  <2>1. "cl" \in Ends /\ Other("cl") = "sv" /\ "sx2" \in Kinds
    BY DEF Ends, Other, Kinds
  <2>2. said \in Batches /\ SentKinds(said) \subseteq {"sx2"}
    BY <2>1, SentOne, SentNone
  <2>3. whole = Ends /\ Net("cl", p.take, said)
    BY <1>1, <1>4 DEF Framed
  <2> HIDE DEF said
  <2>4. /\ whole' = Ends /\ half'["cl"] = "none"
        /\ pending'["cl"] \subseteq pending["cl"]
        /\ \A a \in pending["cl"] : a # p.k => a \in pending'["cl"]
        /\ \A a, b \in Kinds : <<a, b>> \in ahead["cl"] =>
              p.k # b /\ (p.k # a => <<a, b>> \in ahead'["cl"])
        /\ pending'["sv"] = pending["sv"] \cup SentKinds(said)
        /\ \A a, b \in Kinds : <<a, b>> \in ahead["sv"] /\ (a \in pending["sv"] \/ Sends(said, a, b))
              => <<a, b>> \in ahead'["sv"]
    <3>1. ExchangeOf("cl", "sv", p.k, said)
      BY <2>1, <2>2, <2>3, Exchanged
    <3> QED
      BY <3>1 DEF ExchangeOf
  <2>5. \A a \in Kinds, b \in {"sign", "start"} : <<a, b>> \in ahead["sv"] => <<a, b>> \in ahead'["sv"]
    <3>1. \A a \in Kinds, b \in {"sign", "start"} : b \in Kinds /\ Sends(said, a, b)
      BY <2>2, NotSent DEF Kinds
    <3> QED
      BY <3>1, <2>4
  <2>6. Framed'
    BY <1>2, <1>4, <2>4 DEF Framed, Asking
  <2>7. Granting'
    <3>1. "hashans" \in Kinds /\ "accept" \in Kinds /\ "hashreq" \in Kinds
      BY DEF Kinds
    <3>2. ASSUME setting.file = "shared", spc # "closed"
          PROVE  p.k # "accept" /\ (p.k # "hashans" => <<"hashans", "accept">> \in ahead'["cl"])
      BY <1>2, <1>4, <2>4, <3>1, <3>2 DEF Granting
    <3>3. spc = "engine" => "accept" \in pending'["cl"]
      <4>1. spc = "engine" => setting.file = "shared" /\ "accept" \in pending["cl"]
        BY <1>2, <1>4 DEF Granting, Serving
      <4> QED
        BY <4>1, <3>2, <2>4
    <3>4. ASSUME cpc' = "req", setting.file = "shared", spc # "closed"
          PROVE  \/ "hashans" \in pending'["cl"]
                 \/ spc \in {"first", "pre"} /\ "hashreq" \in pending'["sv"] /\ <<"hashreq", "start">> \in ahead'["sv"]
      <4>1. p.k # "hashans"
        BY <1>1, <3>4
      <4>2. \/ "hashans" \in pending["cl"]
            \/ spc \in {"first", "pre"} /\ "hashreq" \in pending["sv"] /\ <<"hashreq", "start">> \in ahead["sv"]
        BY <1>2, <1>4, <3>4 DEF Granting
      <4> QED
        BY <4>1, <4>2, <2>4, <2>5, <3>1
    <3>5. cpc' = "req" => p.k # "hashans"
      BY <1>1
    <3>6. spc \in {"first", "pre"} => "accept" \notin pending'["cl"]
      BY <1>2, <1>4, <2>4 DEF Granting
    <3>7. spc \in Serving => setting.file = "shared"
      BY DEF Granting
    <3> QED
      BY <1>2, <3>2, <3>3, <3>4, <3>5, <3>6, <3>7 DEF Granting
  <2>8. Proving'
    <3> SUFFICES ASSUME setting.ckeys, ~setting.silent, ~late
                 PROVE  /\ cpc' \in Asking => c.verified /\ c.hello /\ c.info
                        /\ spc \in Serving => s.verified
                        /\ Shaking'
      BY <1>2, <1>4 DEF Proving
    <3>1. Shaking /\ c.verified /\ c.hello /\ c.info /\ (spc \in Serving => s.verified)
      BY <1>2, <1>4 DEF Proving, Asking
    <3>2. Shaking'
      BY <1>2, <2>4, <2>5, <3>1, ShakingStays
    <3> QED
      BY <3>1, <3>2
  <2> QED
    BY <2>6, <2>7, <2>8
<1> QED
  BY <1>3, <1>4

LEMMA ClientWaitsOn ==
    ASSUME NetTyped, ShakeTyped, Framed, Granting, Proving, ClientWaits
    PROVE  Framed' /\ Granting' /\ Proving'
<1>1. PICK p \in Packets("cl") :
         /\ cpc' = IF p.k = "accept" THEN "transfer" ELSE "wait"
         /\ Net("cl", p.take, <<>>)
  BY DEF ClientWaits
<1>2. cpc = "wait" /\ cpc' \in {"wait", "transfer"} /\ UNCHANGED <<setting, spc, c, s, late, cut>>
  BY <1>1 DEF ClientWaits
<1>3. CASE cut
  <2>1. half'["cl"] = "none"
    BY <1>1 DEF Net, NetTyped, Ends
  <2> QED
    BY <1>2, <1>3, <2>1 DEF Framed, Granting, Proving, Asking, Serving
<1>4. CASE ~cut
  <2>1. "cl" \in Ends /\ Other("cl") = "sv" /\ whole = Ends
    BY <1>4 DEF Ends, Other, Framed
  <2>2. <<>> \in Batches /\ SentKinds(<<>>) = {} /\ \A a, b : Sends(<<>>, a, b)
    BY SentNone, NotSent
  <2>3. /\ whole' = Ends /\ half'["cl"] = "none"
        /\ pending'["cl"] \subseteq pending["cl"]
        /\ \A a \in pending["cl"] : a # p.k => a \in pending'["cl"]
        /\ pending'["sv"] = pending["sv"] \cup SentKinds(<<>>)
        /\ \A a, b \in Kinds : <<a, b>> \in ahead["sv"] /\ (a \in pending["sv"] \/ Sends(<<>>, a, b))
              => <<a, b>> \in ahead'["sv"]
    <3>1. ExchangeOf("cl", "sv", p.k, <<>>)
      BY <1>1, <2>1, <2>2, Exchanged
    <3> QED
      BY <3>1 DEF ExchangeOf
  <2>4. \A a \in Kinds, b \in {"sign", "start"} : <<a, b>> \in ahead["sv"] => <<a, b>> \in ahead'["sv"]
    <3>1. {"sign", "start"} \subseteq Kinds
      BY DEF Kinds
    <3> QED
      BY <2>2, <2>3, <3>1
  <2>5. Framed'
    BY <1>2, <1>4, <2>3 DEF Framed, Asking
  <2>6. Granting'
    <3>1. spc = "engine" => "accept" \in pending'["cl"] \/ cpc' = "transfer"
      BY <1>1, <1>2, <1>4, <2>3 DEF Granting
    <3> QED
      BY <1>2, <1>4, <2>3, <3>1 DEF Granting
  <2>7. Proving'
    <3> SUFFICES ASSUME setting.ckeys, ~setting.silent, ~late
                 PROVE  /\ cpc' \in Asking => c.verified /\ c.hello /\ c.info
                        /\ spc \in Serving => s.verified
                        /\ Shaking'
      BY <1>2, <1>4 DEF Proving
    <3>1. Shaking /\ c.verified /\ c.hello /\ c.info /\ (spc \in Serving => s.verified)
      BY <1>2, <1>4 DEF Proving, Asking
    <3>2. Shaking'
      BY <1>2, <2>2, <2>3, <2>4, <3>1, ShakingStays
    <3> QED
      BY <3>1, <3>2
  <2> QED
    BY <2>5, <2>6, <2>7
<1> QED
  BY <1>3, <1>4

LEMMA ClientDoneOn ==
    ASSUME NetTyped, ShakeTyped, Framed, Granting, Proving, ClientDone
    PROVE  Framed' /\ Granting' /\ Proving'
<1>1. /\ cpc = "transfer" /\ cpc' = "done" /\ UNCHANGED <<setting, spc, c, s, late, cut>>
      /\ UNCHANGED net \/ Net("cl", 0, <<"end">>)
  BY DEF ClientDone
<1>2. half["cl"] = "none"
  BY <1>1 DEF Framed
<1>3. CASE UNCHANGED net
  <2>1. UNCHANGED <<wire, half>> /\ whole' = whole /\ pending' = pending /\ ahead' = ahead
    BY <1>1, <1>3 DEF net, whole, pending, ahead
  <2>2. Framed' /\ Granting'
    BY <1>1, <2>1 DEF Framed, Granting, Asking
  <2>3. Proving'
    <3>1. Shaking => Shaking'
      BY <1>1, <2>1 DEF Shaking, Signed
    <3> QED
      BY <1>1, <2>1, <3>1 DEF Proving, Asking
  <2> QED
    BY <2>2, <2>3
<1>4. ASSUME Net("cl", 0, <<"end">>), cut
      PROVE  Framed' /\ Granting' /\ Proving'
  BY <1>1, <1>2, <1>4 DEF Framed, Granting, Proving, Asking, Serving, Net
<1>5. ASSUME Net("cl", 0, <<"end">>), ~cut
      PROVE  Framed' /\ Granting' /\ Proving'
  <2>1. "cl" \in Ends /\ Other("cl") = "sv" /\ whole = Ends /\ "end" \in Kinds
    BY <1>5 DEF Ends, Other, Framed, Kinds
  <2>2. <<"end">> \in Batches /\ SentKinds(<<"end">>) = {"end"}
    BY <2>1, SentOne
  <2>3. /\ whole' = Ends /\ half'["cl"] = "none"
        /\ pending'["cl"] = pending["cl"] /\ ahead'["cl"] = ahead["cl"]
        /\ pending'["sv"] = pending["sv"] \cup SentKinds(<<"end">>)
        /\ \A a, b \in Kinds : <<a, b>> \in ahead["sv"] /\ (a \in pending["sv"] \/ Sends(<<"end">>, a, b))
              => <<a, b>> \in ahead'["sv"]
    <3>1. AnnounceOf("cl", "sv", <<"end">>)
      BY <1>2, <1>5, <2>1, <2>2, Announced
    <3> QED
      BY <3>1 DEF AnnounceOf
  <2>4. \A a \in Kinds, b \in {"sign", "start"} : <<a, b>> \in ahead["sv"] => <<a, b>> \in ahead'["sv"]
    <3>1. \A a \in Kinds, b \in {"sign", "start"} : b \in Kinds /\ Sends(<<"end">>, a, b)
      BY <2>2, NotSent DEF Kinds
    <3> QED
      BY <3>1, <2>3
  <2>5. Framed'
    BY <1>1, <1>5, <2>3 DEF Framed, Asking
  <2>6. Granting'
    BY <1>1, <1>5, <2>3 DEF Granting
  <2>7. Proving'
    <3> SUFFICES ASSUME setting.ckeys, ~setting.silent, ~late
                 PROVE  /\ cpc' \in Asking => c.verified /\ c.hello /\ c.info
                        /\ spc \in Serving => s.verified
                        /\ Shaking'
      BY <1>1, <1>5 DEF Proving
    <3>1. Shaking /\ c.verified /\ c.hello /\ c.info /\ (spc \in Serving => s.verified)
      BY <1>1, <1>5 DEF Proving, Asking
    <3>2. Shaking'
      BY <1>1, <2>3, <2>4, <3>1, ShakingStays
    <3> QED
      BY <3>1, <3>2
  <2> QED
    BY <2>5, <2>6, <2>7
<1> QED
  BY <1>1, <1>5, <1>3, <1>4

(* An end gives up, or forgets what it was reading.                        *)
LEMMA ClientStopsOn ==
    ASSUME NetTyped, ShakeTyped, Framed, Granting, Proving,
           ClientTimesOut \/ ClientSeesEnd \/ ClientRetries
    PROVE  Framed' /\ Granting' /\ Proving'
<1>1. CASE ClientTimesOut \/ ClientSeesEnd
  <2>1. cpc' = "closed" /\ UNCHANGED <<setting, spc, wire, half, c, s, cut>> /\ (late => late')
    BY <1>1 DEF ClientTimesOut, ClientSeesEnd, ClientCloses, net
  <2>2. whole' = whole /\ pending' = pending /\ ahead' = ahead
    BY <2>1 DEF whole, pending, ahead
  <2>3. Framed' /\ Granting'
    BY <2>1, <2>2 DEF Framed, Granting
  <2>4. Proving'
    <3>1. Shaking /\ ~late' => Shaking'
      BY <2>1, <2>2 DEF Shaking, Signed
    <3> QED
      BY <2>1, <2>2, <3>1 DEF Proving, Asking
  <2> QED
    BY <2>3, <2>4
<1>2. CASE ClientRetries
  BY <1>2 DEF ClientRetries, Framed, Granting, Proving, Asking, Serving, NetTyped, Ends
<1> QED
  BY <1>1, <1>2

LEMMA ServerHelloOn ==
    ASSUME NetTyped, ShakeTyped, Framed, Granting, Proving, ServerHello
    PROVE  Framed' /\ Granting' /\ Proving'
<1>1. PICK p \in Packets("sv") : Net("sv", p.take, <<"helloans", "secstate">>)
  BY DEF ServerHello
<1> DEFINE said == <<"helloans", "secstate">>
<1>2. /\ spc = "first" /\ spc' = "pre" /\ Head(wire["sv"]).k = "hello"
      /\ s'.challenged /\ s'.verified = s.verified /\ s'.blob = s.blob
      /\ UNCHANGED <<setting, cpc, c, late, cut>>
  BY DEF ServerHello, ShakeTyped
<1>3. CASE cut
  <2>1. late
    BY <1>2, <1>3 DEF Proving, Serving
  <2>2. half'["cl"] # "none" => half["cl"] # "none"
    BY <1>1 DEF Net, NetTyped, Ends
  <2> QED
    BY <1>2, <1>3, <2>1, <2>2 DEF Framed, Granting, Proving, Serving
<1>4. CASE ~cut
  <2>1. "sv" \in Ends /\ Other("sv") = "cl" /\ {"helloans", "secstate"} \subseteq Kinds \ Bare /\ whole = Ends
    BY <1>4 DEF Ends, Other, Kinds, Bare, Framed
  <2>2. said \in Batches /\ SentKinds(said) = {"helloans", "secstate"}
    BY <2>1, SentTwo
  <2>3. Net("sv", p.take, said)
    BY <1>1
  <2> HIDE DEF said
  <2>4. /\ whole' = Ends /\ half'["sv"] = "none" /\ half'["cl"] = half["cl"]
        /\ p.k = Head(wire["sv"]).k
        /\ pending'["sv"] \subseteq pending["sv"]
        /\ \A a \in pending["sv"] : a # p.k => a \in pending'["sv"]
        /\ \A a, b \in Kinds : <<a, b>> \in ahead["sv"] =>
              p.k # b /\ (p.k # a => <<a, b>> \in ahead'["sv"])
        /\ pending'["cl"] = pending["cl"] \cup SentKinds(said)
        /\ \A a, b \in Kinds : <<a, b>> \in ahead["cl"] /\ (a \in pending["cl"] \/ Sends(said, a, b))
              => <<a, b>> \in ahead'["cl"]
    <3>1. ExchangeOf("sv", "cl", p.k, said)
      BY <2>1, <2>2, <2>3, Exchanged
    <3> QED
      BY <3>1 DEF ExchangeOf
  <2>5. p.k = "hello"
    BY <1>2, <2>4
  <2>6. {"hashreq", "start", "sign", "pubkey", "hashans", "accept", "infoans", "helloans", "secstate"} \subseteq Kinds
    BY DEF Kinds
  <2>7. \A a \in Kinds, b \in {"accept", "infoans", "sign"} : <<a, b>> \in ahead["cl"] => <<a, b>> \in ahead'["cl"]
    <3>1. \A a \in Kinds, b \in {"accept", "infoans", "sign"} : b \in Kinds /\ Sends(said, a, b)
      BY <2>2, <2>6, NotSent
    <3> QED
      BY <3>1, <2>4
  <2>8. \A a \in {"hashreq", "sign", "pubkey"}, b \in Kinds : <<a, b>> \in ahead["sv"] => <<a, b>> \in ahead'["sv"]
    BY <2>4, <2>5, <2>6
  <2>9. Framed'
    BY <1>2, <1>4, <2>4 DEF Framed
  <2>10. Granting'
    <3>1. "accept" \notin pending'["cl"]
      BY <1>2, <1>4, <2>2, <2>4 DEF Granting
    <3>2. ASSUME cpc = "req", setting.file = "shared"
          PROVE  /\ <<"hashans", "accept">> \in ahead'["cl"]
                 /\ \/ "hashans" \in pending'["cl"]
                    \/ "hashreq" \in pending'["sv"] /\ <<"hashreq", "start">> \in ahead'["sv"]
      <4>1. /\ <<"hashans", "accept">> \in ahead["cl"]
            /\ \/ "hashans" \in pending["cl"]
               \/ "hashreq" \in pending["sv"] /\ <<"hashreq", "start">> \in ahead["sv"]
        BY <1>2, <1>4, <3>2 DEF Granting
      <4> QED
        BY <4>1, <2>4, <2>5, <2>6, <2>7, <2>8
    <3>3. cpc = "hs" => "start" \notin pending'["sv"]
      BY <1>4, <2>4 DEF Granting
    <3> QED
      BY <1>2, <1>4, <3>1, <3>2, <3>3 DEF Granting, Serving
  <2>11. Proving'
    <3> SUFFICES ASSUME setting.ckeys, ~setting.silent, ~late
                 PROVE  (cpc \in Asking => c.verified /\ c.hello /\ c.info) /\ Shaking'
      BY <1>2, <1>4 DEF Proving, Serving
    <3>1. Shaking /\ (cpc \in Asking => c.verified /\ c.hello /\ c.info)
      BY <1>2, <1>4 DEF Proving
    <3>2. Signed => Signed'
      BY <1>2, <2>4, <2>5 DEF Signed
    <3>3. "helloans" \in pending'["cl"] /\ "secstate" \in pending'["cl"]
      BY <2>2, <2>4
    <3>4. /\ c.hello \/ <<"helloans", "infoans">> \in ahead'["cl"]
          /\ cpc = "hs" => c.blob \/ <<"pubkey", "sign">> \in ahead'["cl"]
          /\ Signed' \/ <<"secstate", "infoans">> \in ahead'["cl"]
      BY <2>6, <2>7, <3>1, <3>2 DEF Shaking
    <3>5. /\ s.verified \/ <<"sign", "start">> \in ahead'["sv"]
          /\ s.verified \/ s.blob \/ <<"pubkey", "sign">> \in ahead'["sv"]
      BY <2>6, <2>8, <3>1 DEF Shaking
    <3>6. Shaking'
      BY <1>2, <3>1, <3>2, <3>3, <3>4, <3>5 DEF Shaking
    <3> QED
      BY <3>1, <3>6
  <2> QED
    BY <2>9, <2>10, <2>11
<1> QED
  BY <1>3, <1>4

LEMMA ServerPreOn ==
    ASSUME NetTyped, ShakeTyped, Framed, Granting, Proving, ServerPre
    PROVE  Framed' /\ Granting' /\ Proving'
<1>1. PICK p \in Packets("sv") :
         /\ p.k \notin {"start", "garbage"}
         /\ Net("sv", p.take, PreReply(p.k))
         /\ s' = CASE p.k = "pubkey" -> [s EXCEPT !.blob = TRUE]
                   [] p.k = "sign"   -> [s EXCEPT !.verified = @ \/ (s.challenged /\ s.blob)]
                   [] OTHER          -> s
  BY DEF ServerPre
<1> DEFINE said == PreReply(p.k)
<1>2. spc = "pre" /\ UNCHANGED <<setting, cpc, spc, c, late, cut>>
  BY DEF ServerPre
<1>3. CASE cut
  <2>1. late
    BY <1>2, <1>3 DEF Proving, Serving
  <2>2. half'["cl"] # "none" => half["cl"] # "none"
    BY <1>1 DEF Net, NetTyped, Ends
  <2> QED
    BY <1>2, <1>3, <2>1, <2>2 DEF Framed, Granting, Proving, Serving
<1>4. CASE ~cut
  <2>1. "sv" \in Ends /\ Other("sv") = "cl" /\ whole = Ends
    BY <1>4 DEF Ends, Other, Framed
  <2>2. /\ said \in Batches
        /\ SentKinds(said) \subseteq {"infoans", "pubkey", "sign", "nameans", "hashans", "sxans"}
        /\ "infoans" \in SentKinds(said) => p.k = "info"
        /\ p.k = "hashreq" /\ Known => "hashans" \in SentKinds(said)
        /\ Sends(said, "pubkey", "sign")
    BY PreIs
  <2>3. Net("sv", p.take, said)
    BY <1>1
  <2> HIDE DEF said
  <2>4. /\ whole' = Ends /\ half'["sv"] = "none" /\ half'["cl"] = half["cl"]
        /\ pending'["sv"] \subseteq pending["sv"]
        /\ \A a \in pending["sv"] : a # p.k => a \in pending'["sv"]
        /\ \A a, b \in Kinds : <<a, b>> \in ahead["sv"] =>
              p.k # b /\ (p.k # a => <<a, b>> \in ahead'["sv"])
        /\ pending'["cl"] = pending["cl"] \cup SentKinds(said)
        /\ \A a, b \in Kinds : <<a, b>> \in ahead["cl"] /\ (a \in pending["cl"] \/ Sends(said, a, b))
              => <<a, b>> \in ahead'["cl"]
    <3>1. ExchangeOf("sv", "cl", p.k, said)
      BY <2>1, <2>2, <2>3, Exchanged
    <3> QED
      BY <3>1 DEF ExchangeOf
  <2>6. {"hashreq", "start", "sign", "pubkey", "hashans", "accept", "infoans", "helloans", "secstate"} \subseteq Kinds
    BY DEF Kinds
  <2>9. Framed'
    BY <1>2, <1>4, <2>4 DEF Framed
  <2>10. Granting'
    <3>1. "accept" \notin pending'["cl"]
      BY <1>2, <1>4, <2>2, <2>4 DEF Granting
    <3>2. ASSUME cpc = "req", setting.file = "shared"
          PROVE  /\ <<"hashans", "accept">> \in ahead'["cl"]
                 /\ \/ "hashans" \in pending'["cl"]
                    \/ "hashreq" \in pending'["sv"] /\ <<"hashreq", "start">> \in ahead'["sv"]
      <4>1. /\ <<"hashans", "accept">> \in ahead["cl"]
            /\ \/ "hashans" \in pending["cl"]
               \/ "hashreq" \in pending["sv"] /\ <<"hashreq", "start">> \in ahead["sv"]
        BY <1>2, <1>4, <3>2 DEF Granting
      <4>2. <<"hashans", "accept">> \in ahead'["cl"]
        <5>1. Sends(said, "hashans", "accept")
          BY <2>2, NotSent
        <5> QED
          BY <5>1, <4>1, <2>4, <2>6
      <4>3. CASE "hashans" \in pending["cl"]
        BY <4>2, <4>3, <2>4
      <4>4. CASE "hashreq" \in pending["sv"] /\ <<"hashreq", "start">> \in ahead["sv"]
        <5>1. CASE p.k = "hashreq"
          BY <5>1, <4>2, <3>2, <2>2, <2>4 DEF Known
        <5>2. CASE p.k # "hashreq"
          BY <5>2, <4>2, <4>4, <2>4, <2>6
        <5> QED
          BY <5>1, <5>2
      <4> QED
        BY <4>1, <4>3, <4>4
    <3>3. cpc = "hs" => "start" \notin pending'["sv"]
      BY <1>4, <2>4 DEF Granting
    <3> QED
      BY <1>2, <1>4, <3>1, <3>2, <3>3 DEF Granting, Serving
  <2>11. Proving'
    <3> SUFFICES ASSUME setting.ckeys, ~setting.silent, ~late
                 PROVE  (cpc \in Asking => c.verified /\ c.hello /\ c.info) /\ Shaking'
      BY <1>2, <1>4 DEF Proving, Serving
    <3>1. Shaking /\ (cpc \in Asking => c.verified /\ c.hello /\ c.info)
      BY <1>2, <1>4 DEF Proving
    <3>2. /\ s'.challenged = s.challenged
          /\ s.verified => s'.verified
          /\ s.blob => s'.blob
          /\ p.k = "pubkey" => s'.blob
          /\ p.k = "sign" /\ s.challenged /\ s.blob => s'.verified
      BY <1>1 DEF ShakeTyped
    <3>3. p.k = "sign" => s'.verified
      <4>1. p.k = "sign" => s.verified \/ s.blob
        BY <3>1, <2>4, <2>6 DEF Shaking
      <4> QED
        BY <1>2, <3>1, <3>2, <4>1 DEF Shaking
    <3>4. Signed => Signed'
      BY <2>4, <3>2, <3>3 DEF Signed
    <3>5. /\ s'.challenged
          /\ c.hello \/ "helloans" \in pending'["cl"]
          /\ Signed' \/ "secstate" \in pending'["cl"]
      BY <1>2, <2>4, <3>1, <3>2, <3>4 DEF Shaking
    <3>6. c.hello \/ <<"helloans", "infoans">> \in ahead'["cl"]
      BY <1>2, <2>4, <2>6, <3>1 DEF Shaking
    <3>7. cpc = "hs" => c.blob \/ <<"pubkey", "sign">> \in ahead'["cl"]
      BY <2>2, <2>4, <2>6, <3>1 DEF Shaking
    <3>8. Signed' \/ <<"secstate", "infoans">> \in ahead'["cl"]
      BY <1>2, <2>4, <2>6, <3>1, <3>4 DEF Shaking
    <3>9. s'.verified \/ <<"sign", "start">> \in ahead'["sv"]
      BY <2>4, <2>6, <3>1, <3>2, <3>3 DEF Shaking
    <3>10. s'.verified \/ s'.blob \/ <<"pubkey", "sign">> \in ahead'["sv"]
      BY <2>4, <2>6, <3>1, <3>2, <3>3 DEF Shaking
    <3>11. Shaking'
      BY <1>2, <3>1, <3>4, <3>5, <3>6, <3>7, <3>8, <3>9, <3>10 DEF Shaking
    <3> QED
      BY <3>1, <3>11
  <2> QED
    BY <2>9, <2>10, <2>11
<1> QED
  BY <1>3, <1>4

(* The acceptor has verified: it says nothing of the handshake any more.   *)
LEMMA ShakingServed ==
    ASSUME Shaking, s.verified, UNCHANGED <<c, s, cpc>>, spc' # "pre",
           \A a \in Kinds, b \in {"infoans", "sign"} : <<a, b>> \in ahead["cl"] => <<a, b>> \in ahead'["cl"]
    PROVE  Shaking'
<1>1. {"helloans", "pubkey"} \subseteq Kinds
  BY DEF Kinds
<1>2. Signed'
  BY DEF Signed
<1> QED
  BY <1>1, <1>2 DEF Shaking

LEMMA ServerStartOn ==
    ASSUME NetTyped, ShakeTyped, Framed, Granting, Proving, ServerStart
    PROVE  Framed' /\ Granting' /\ Proving'
<1>1. PICK p \in Packets("sv"), k \in {"eod", "accept", "rank"} :
         /\ p.k = "start" /\ Net("sv", p.take, <<k>>)
         /\ \/ k = "eod" /\ spc' = "closed"
            \/ k = "accept" /\ spc' = "engine" /\ setting.file = "shared"
            \/ k = "rank" /\ spc' = "queue" /\ setting.file = "shared"
  BY DEF ServerStart
<1>2. spc = "pre" /\ UNCHANGED <<setting, cpc, c, s, late, cut>>
  BY DEF ServerStart
<1>3. CASE cut
  <2>1. late
    BY <1>2, <1>3 DEF Proving, Serving
  <2>2. half'["cl"] # "none" => half["cl"] # "none"
    BY <1>1 DEF Net, NetTyped, Ends
  <2> QED
    BY <1>1, <1>2, <1>3, <2>1, <2>2 DEF Framed, Granting, Proving, Serving
<1>4. CASE ~cut
  <2>1. "sv" \in Ends /\ Other("sv") = "cl" /\ whole = Ends /\ k \in Kinds
    BY <1>4 DEF Ends, Other, Framed, Kinds
  <2>2. <<k>> \in Batches /\ SentKinds(<<k>>) = {k}
    BY <2>1, SentOne
  <2>4. /\ whole' = Ends /\ half'["sv"] = "none" /\ half'["cl"] = half["cl"]
        /\ p.k \in pending["sv"]
        /\ pending'["sv"] \subseteq pending["sv"]
        /\ \A a, b \in Kinds : <<a, b>> \in ahead["sv"] =>
              p.k # b /\ (p.k # a => <<a, b>> \in ahead'["sv"])
        /\ pending'["cl"] = pending["cl"] \cup SentKinds(<<k>>)
        /\ \A a, b \in Kinds : <<a, b>> \in ahead["cl"] /\ (a \in pending["cl"] \/ Sends(<<k>>, a, b))
              => <<a, b>> \in ahead'["cl"]
    <3>1. ExchangeOf("sv", "cl", p.k, <<k>>)
      BY <1>1, <2>1, <2>2, Exchanged
    <3> QED
      BY <3>1 DEF ExchangeOf
  <2>6. {"hashreq", "start", "sign", "pubkey", "hashans", "accept", "infoans"} \subseteq Kinds
    BY DEF Kinds
  <2>7. \A a \in Kinds, b \in {"infoans", "sign"} : <<a, b>> \in ahead["cl"] => <<a, b>> \in ahead'["cl"]
    <3>1. \A a \in Kinds, b \in {"infoans", "sign"} : b \in Kinds /\ Sends(<<k>>, a, b)
      BY <2>2, <2>6, NotSent
    <3> QED
      BY <3>1, <2>4
  <2>8. cpc # "hs"
    BY <1>1, <1>4, <2>4 DEF Granting
  <2>9. Framed'
    BY <1>1, <1>2, <1>4, <2>4 DEF Framed, Serving
  <2>10. Granting'
    <3>1. ASSUME cpc = "req", setting.file = "shared"
          PROVE  <<"hashans", "accept">> \in ahead'["cl"] /\ "hashans" \in pending'["cl"]
      <4>1. /\ <<"hashans", "accept">> \in ahead["cl"]
            /\ "hashans" \in pending["cl"] \/ <<"hashreq", "start">> \in ahead["sv"]
        BY <1>2, <1>4, <3>1 DEF Granting
      <4>2. <<"hashreq", "start">> \notin ahead["sv"]
        BY <1>1, <2>4, <2>6
      <4> QED
        BY <4>1, <4>2, <2>4, <2>6
    <3>2. spc' = "engine" => "accept" \in pending'["cl"]
      BY <1>1, <2>2, <2>4
    <3> QED
      BY <1>1, <1>2, <1>4, <2>8, <3>1, <3>2 DEF Granting, Serving
  <2>11. Proving'
    <3> SUFFICES ASSUME setting.ckeys, ~setting.silent, ~late
                 PROVE  (cpc \in Asking => c.verified /\ c.hello /\ c.info) /\ s.verified /\ Shaking'
      BY <1>2, <1>4 DEF Proving
    <3>1. Shaking /\ (cpc \in Asking => c.verified /\ c.hello /\ c.info)
      BY <1>2, <1>4 DEF Proving
    <3>2. s.verified
      BY <1>1, <2>4, <2>6, <3>1 DEF Shaking
    <3>3. Shaking'
      BY <1>1, <1>2, <2>7, <3>1, <3>2, ShakingServed
    <3> QED
      BY <3>1, <3>2, <3>3
  <2> QED
    BY <2>9, <2>10, <2>11
<1> QED
  BY <1>3, <1>4

(* The hold, the engine and the drain after it read one packet.            *)
LEMMA ServingOn ==
    ASSUME NetTyped, ShakeTyped, Framed, Granting, Proving, ServerQueued \/ ServerEngine
    PROVE  Framed' /\ Granting' /\ Proving'
<1>1. PICK p \in Packets("sv"), said \in {<<>>, <<"rank">>, PreReply("name"), PreReply("hashreq")} :
         /\ Net("sv", p.take, said)
         /\ spc' \in {"closed", "queue", "engine", "drain"} /\ (spc' = "engine" => spc = "engine")
  <2>1. CASE ServerQueued
    BY <2>1 DEF ServerQueued
  <2>2. CASE ServerEngine
    BY <2>2 DEF ServerEngine
  <2> QED
    BY <2>1, <2>2
<1>2. spc \in Serving /\ UNCHANGED <<setting, cpc, c, s, late, cut>>
  BY DEF ServerQueued, ServerEngine, Serving
<1>3. CASE cut
  <2>2. half'["cl"] # "none" => half["cl"] # "none"
    BY <1>1 DEF Net, NetTyped, Ends
  <2> QED
    BY <1>1, <1>2, <1>3, <2>2 DEF Framed, Granting, Proving, Serving
<1>4. CASE ~cut
  <2>1. "sv" \in Ends /\ Other("sv") = "cl" /\ whole = Ends /\ "rank" \in Kinds
    BY <1>4 DEF Ends, Other, Framed, Kinds
  <2>2. said \in Batches /\ {"accept", "infoans", "start"} \cap SentKinds(said) = {}
    <3>1. CASE said \in {<<>>, <<"rank">>}
      BY <2>1, <3>1, SentOne, SentNone
    <3>2. ASSUME NEW k \in {"name", "hashreq"}, said = PreReply(k)
          PROVE  said \in Batches /\ {"accept", "infoans", "start"} \cap SentKinds(said) = {}
      <4>1. /\ said \in Batches
            /\ SentKinds(said) \subseteq {"infoans", "pubkey", "sign", "nameans", "hashans", "sxans"}
            /\ "infoans" \in SentKinds(said) => k = "info"
        BY <3>2, PreIs
      <4> QED
        BY <3>2, <4>1
    <3> QED
      BY <1>1, <3>1, <3>2
  <2>3. Sends(said, "pubkey", "sign")
    <3>1. CASE said \in {<<>>, <<"rank">>}
      <4>1. "sign" \notin SentKinds(said)
        BY <2>1, <3>1, SentOne, SentNone
      <4> QED
        BY <4>1, NotSent
    <3>2. CASE said = PreReply("name") \/ said = PreReply("hashreq")
      BY <3>2, PreIs
    <3> QED
      BY <1>1, <3>1, <3>2
  <2>4. /\ whole' = Ends /\ half'["sv"] = "none" /\ half'["cl"] = half["cl"]
        /\ pending'["sv"] \subseteq pending["sv"]
        /\ pending'["cl"] = pending["cl"] \cup SentKinds(said)
        /\ \A a, b \in Kinds : <<a, b>> \in ahead["cl"] /\ (a \in pending["cl"] \/ Sends(said, a, b))
              => <<a, b>> \in ahead'["cl"]
    <3>1. ExchangeOf("sv", "cl", p.k, said)
      BY <1>1, <2>1, <2>2, Exchanged
    <3> QED
      BY <3>1 DEF ExchangeOf
  <2>6. {"hashans", "accept", "infoans", "sign", "pubkey", "helloans", "secstate"} \subseteq Kinds
    BY DEF Kinds
  <2>8. cpc # "hs"
    BY <1>2, <1>4 DEF Granting
  <2>9. Framed'
    BY <1>1, <1>2, <1>4, <2>4 DEF Framed, Serving
  <2>10. Granting'
    <3>1. ASSUME cpc = "req"
          PROVE  <<"hashans", "accept">> \in ahead'["cl"] /\ "hashans" \in pending'["cl"]
      <4>1. <<"hashans", "accept">> \in ahead["cl"] /\ "hashans" \in pending["cl"]
        BY <1>2, <1>4, <3>1 DEF Granting, Serving
      <4> QED
        BY <4>1, <2>4, <2>6
    <3>2. spc' = "engine" => "accept" \in pending'["cl"] \/ cpc \in {"transfer", "done", "closed"}
      BY <1>1, <1>4, <2>4 DEF Granting
    <3>3. setting.file = "shared"
      BY <1>2 DEF Granting
    <3> QED
      BY <1>1, <1>2, <1>4, <2>8, <3>1, <3>2, <3>3 DEF Granting, Serving
  <2>11. Proving'
    <3> SUFFICES ASSUME setting.ckeys, ~setting.silent, ~late
                 PROVE  (cpc \in Asking => c.verified /\ c.hello /\ c.info) /\ s.verified /\ Shaking'
      BY <1>2, <1>4 DEF Proving
    <3>1. Shaking /\ s.verified /\ (cpc \in Asking => c.verified /\ c.hello /\ c.info)
      BY <1>2, <1>4 DEF Proving
    <3>2. c.hello \/ <<"helloans", "infoans">> \in ahead'["cl"]
      <4>1. Sends(said, "helloans", "infoans")
        BY <2>2, NotSent
      <4> QED
        BY <4>1, <2>4, <2>6, <3>1 DEF Shaking
    <3>3. Signed' /\ spc' # "pre"
      BY <1>1, <1>2, <3>1 DEF Signed
    <3>4. Shaking'
      BY <1>2, <2>8, <3>1, <3>2, <3>3 DEF Shaking
    <3> QED
      BY <3>1, <3>4
  <2> QED
    BY <2>9, <2>10, <2>11
<1> QED
  BY <1>3, <1>4

(* The period of the rank passes: the slot is granted, or the rank is sent.*)
LEMMA ServerRefreshesOn ==
    ASSUME NetTyped, ShakeTyped, Framed, Granting, Proving, ServerRefreshes
    PROVE  Framed' /\ Granting' /\ Proving'
<1>1. PICK k \in {"accept", "rank"} :
         /\ Net("sv", 0, <<k>>)
         /\ spc' \in {"queue", "engine"} /\ (spc' = "engine" => k = "accept")
  BY DEF ServerRefreshes
<1>2. /\ spc = "queue" /\ UNCHANGED <<setting, cpc, c, s, late>>
      /\ cut' = (cut \/ half["sv"] # "none")
  BY DEF ServerRefreshes
<1>3. half'["cl"] # "none" => half["cl"] # "none"
  BY <1>1 DEF Net, NetTyped, Ends
<1>4. CASE cut'
  <2>1. cpc # "hs" \/ late
    BY <1>2 DEF Granting, Proving, Serving
  <2> QED
    BY <1>1, <1>2, <1>3, <1>4, <2>1 DEF Framed, Granting, Proving, Serving
<1>5. CASE ~cut'
  <2>1. "sv" \in Ends /\ Other("sv") = "cl" /\ whole = Ends /\ k \in Kinds /\ ~cut /\ half["sv"] = "none"
    BY <1>2, <1>5 DEF Ends, Other, Framed, Kinds
  <2>2. <<k>> \in Batches /\ SentKinds(<<k>>) = {k}
    BY <2>1, SentOne
  <2>4. /\ whole' = Ends /\ half'["cl"] = half["cl"]
        /\ pending'["sv"] = pending["sv"]
        /\ pending'["cl"] = pending["cl"] \cup SentKinds(<<k>>)
        /\ \A a, b \in Kinds : <<a, b>> \in ahead["cl"] /\ (a \in pending["cl"] \/ Sends(<<k>>, a, b))
              => <<a, b>> \in ahead'["cl"]
    <3>1. AnnounceOf("sv", "cl", <<k>>)
      BY <1>1, <2>1, <2>2, Announced
    <3> QED
      BY <3>1 DEF AnnounceOf
  <2>6. {"hashans", "accept", "infoans", "sign"} \subseteq Kinds
    BY DEF Kinds
  <2>7. \A a \in Kinds, b \in {"infoans", "sign"} : <<a, b>> \in ahead["cl"] => <<a, b>> \in ahead'["cl"]
    <3>1. \A a \in Kinds, b \in {"infoans", "sign"} : b \in Kinds /\ Sends(<<k>>, a, b)
      BY <2>2, <2>6, NotSent
    <3> QED
      BY <3>1, <2>4
  <2>8. cpc # "hs" /\ setting.file = "shared"
    BY <1>2, <2>1 DEF Granting, Serving
  <2>9. Framed'
    BY <1>1, <1>2, <1>5, <2>4 DEF Framed, Serving
  <2>10. Granting'
    <3>1. ASSUME cpc = "req"
          PROVE  <<"hashans", "accept">> \in ahead'["cl"] /\ "hashans" \in pending'["cl"]
      <4>1. <<"hashans", "accept">> \in ahead["cl"] /\ "hashans" \in pending["cl"]
        BY <1>2, <2>1, <2>8, <3>1 DEF Granting
      <4> QED
        BY <4>1, <2>4, <2>6
    <3>2. spc' = "engine" => "accept" \in pending'["cl"]
      BY <1>1, <2>2, <2>4
    <3> QED
      BY <1>1, <1>2, <2>8, <3>1, <3>2 DEF Granting, Serving
  <2>11. Proving'
    <3> SUFFICES ASSUME setting.ckeys, ~setting.silent, ~late
                 PROVE  (cpc \in Asking => c.verified /\ c.hello /\ c.info) /\ s.verified /\ Shaking'
      BY <1>2, <1>5 DEF Proving
    <3>1. Shaking /\ s.verified /\ (cpc \in Asking => c.verified /\ c.hello /\ c.info)
      BY <1>2, <2>1 DEF Proving, Serving
    <3>2. Shaking'
      BY <1>1, <1>2, <2>7, <3>1, ShakingServed
    <3> QED
      BY <3>1, <3>2
  <2> QED
    BY <2>9, <2>10, <2>11
<1> QED
  BY <1>4, <1>5

(* The acceptor gives up.                                                  *)
LEMMA ServerStopsOn ==
    ASSUME Framed, Granting, Proving, ServerCloses \/ ServerTimesOut
    PROVE  Framed' /\ Granting' /\ Proving'
<1>1. spc' = "closed" /\ UNCHANGED <<setting, cpc, wire, half, c, s, cut>> /\ (late => late')
  BY DEF ServerCloses, ServerTimesOut, net
<1>2. whole' = whole /\ pending' = pending /\ ahead' = ahead
  BY <1>1 DEF whole, pending, ahead
<1>3. Framed' /\ Granting'
  BY <1>1, <1>2 DEF Framed, Granting, Serving
<1>4. Shaking /\ ~late' => Shaking'
  BY <1>1, <1>2 DEF Shaking, Signed
<1>5. Proving'
  BY <1>1, <1>2, <1>4 DEF Proving, Serving
<1> QED
  BY <1>3, <1>5

(* A header is read, or more has arrived.                                  *)
LEMMA ReadingOn ==
    ASSUME NetTyped, Framed, Granting, Proving, NEW me \in Ends, ReadHeader(me) \/ Arrive(me)
    PROVE  Framed' /\ Granting' /\ Proving'
<1>1. UNCHANGED <<setting, cpc, spc, c, s, late, cut>>
  BY DEF ReadHeader, Arrive
<1>2. half'["cl"] # "none" => half["cl"] # "none" \/ cpc \in {"hs", "req", "wait"}
  <2>1. CASE ReadHeader(me)
    BY <2>1 DEF ReadHeader, Talking, NetTyped, Ends
  <2>2. CASE Arrive(me)
    BY <2>2 DEF Arrive
  <2> QED
    BY <2>1, <2>2
<1>3. CASE cut
  BY <1>1, <1>2, <1>3 DEF Framed, Granting, Proving
<1>4. CASE ~cut
  <2>1. whole = Ends
    BY <1>4 DEF Framed
  <2>2. /\ whole' = Ends
        /\ \A e \in Ends : pending'[e] = pending[e] /\ ahead'[e] = ahead[e]
    <3>1. CASE Arrive(me)
      BY <2>1, <3>1 DEF Arrive, whole, pending, ahead
    <3>2. CASE ReadHeader(me)
      <4>1. me \in whole' /\ pending'[me] = pending[me] /\ ahead'[me] = ahead[me]
        BY <2>1, <3>2, HeaderRead
      <4>2. ASSUME NEW e \in Ends, e # me
            PROVE  e \in whole' /\ pending'[e] = pending[e] /\ ahead'[e] = ahead[e]
        <5>1. wire'[e] = wire[e] /\ half'[e] = half[e]
          BY <3>2, <4>2 DEF ReadHeader, NetTyped
        <5>2. e \in whole'
          BY <2>1, <5>1 DEF whole
        <5>3. pending'[e] = pending[e]
          BY <5>1 DEF pending
        <5>4. ahead'[e] = ahead[e]
          BY <5>1 DEF ahead
        <5> QED
          BY <5>2, <5>3, <5>4
      <4>3. whole' \subseteq Ends
        BY DEF whole
      <4> QED
        BY <4>1, <4>2, <4>3
    <3> QED
      BY <3>1, <3>2
  <2>3. "cl" \in Ends /\ "sv" \in Ends
    BY DEF Ends
  <2>4. Framed' /\ Granting'
    BY <1>1, <1>2, <1>4, <2>2, <2>3 DEF Framed, Granting
  <2>5. Shaking => Shaking'
    BY <1>1, <2>2, <2>3 DEF Shaking, Signed
  <2>6. Proving'
    BY <1>1, <1>4, <2>5 DEF Proving
  <2> QED
    BY <2>4, <2>6
<1> QED
  BY <1>3, <1>4

(* Obfuscation is not begun inside a conversation, unless the reader has   *)
(* lost its place.                                                         *)
LEMMA ObfuscationOn ==
    ASSUME NetTyped, Framed, Granting, Proving, AcceptObfuscated \/ AnswerObfuscated
    PROVE  Framed' /\ Granting' /\ Proving'
<1>1. cut
  <2> SUFFICES ASSUME ~cut
               PROVE  FALSE
    OBVIOUS
  <2>1. whole = Ends /\ spc \notin {"basic", "dh"}
    BY DEF Framed, Serving
  <2>2. AcceptObfuscated
    BY <2>1 DEF AnswerObfuscated
  <2>3. "sv" \in Ends /\ 1 \in 1..Len(wire["sv"]) /\ wire["sv"][1].k = "part"
    BY <2>2 DEF AcceptObfuscated, NetTyped, Ends
  <2>4. Packed(wire["sv"])
    BY <2>1, <2>3 DEF whole
  <2> QED
    BY <2>3, <2>4 DEF Packed, Kinds
<1>2. /\ UNCHANGED <<setting, cpc, half, c, s, late, cut>>
      /\ spc \in {"first", "basic", "dh"} /\ spc' \in {"first", "basic", "dh"}
  BY DEF AcceptObfuscated, AnswerObfuscated
<1> QED
  BY <1>1, <1>2 DEF Framed, Granting, Proving, Serving

(* The conversation begins: HELLO and EMULEINFO are on the way.            *)
Fresh ==
    /\ cpc = "hs" /\ spc \in {"first", "closed"} /\ why # "negotiation"
    /\ wire["cl"] = <<>> /\ \E n \in Nat : wire["sv"] = Encrypted(Frames(<<"hello", "info">>), n)
    /\ half = [e \in Ends |-> "none"] /\ c = NoShake /\ s = NoShake /\ ~cut

LEMMA FreshSuffices == Fresh => ~Early /\ Framed /\ Granting /\ Proving
<1> SUFFICES ASSUME Fresh
             PROVE  ~Early /\ Framed /\ Granting /\ Proving
  OBVIOUS
<1>1. PICK n \in Nat : wire["sv"] = Encrypted(Frames(<<"hello", "info">>), n)
  BY DEF Fresh
<1> DEFINE hi == <<"hello", "info">>
           w == wire["sv"]
<1>2. /\ hi \in Seq(Kinds) /\ Len(hi) = 2 /\ hi[1] = "hello" /\ hi[2] = "info"
      /\ 1 \in DOMAIN hi /\ hi[1] \notin Bare
  BY DEF Kinds, Bare
<1>3. /\ Frames(hi) \in Seq(Kinds \X {"head", "body"})
      /\ Len(Frames(hi)) = 4
      /\ Frames(hi)[1] = <<"hello", "head">> /\ Frames(hi)[2] = <<"hello", "body">>
      /\ Frames(hi)[3] = <<"info", "head">> /\ Frames(hi)[4] = <<"info", "body">>
  <2>1. /\ Frames(hi) \in Seq(Kinds \X {"head", "body"})
        /\ Len(Frames(hi)) = 2 * 2
        /\ \A i \in 1..2 : /\ Frames(hi)[2 * i - 1] = <<hi[i], "head">>
                            /\ Frames(hi)[2 * i] = <<hi[i], "body">>
    BY <1>2, FramesAre
  <2>2. 1 \in 1..2 /\ 2 \in 1..2 /\ 2 * 1 - 1 = 1 /\ 2 * 1 = 2 /\ 2 * 2 - 1 = 3 /\ 2 * 2 = 4
    OBVIOUS
  <2> HIDE DEF hi
  <2>3. /\ Frames(hi)[2 * 1 - 1] = <<hi[1], "head">> /\ Frames(hi)[2 * 1] = <<hi[1], "body">>
        /\ Frames(hi)[2 * 2 - 1] = <<hi[2], "head">> /\ Frames(hi)[2 * 2] = <<hi[2], "body">>
    BY <2>1, <2>2
  <2> QED
    BY <2>1, <2>2, <2>3, <1>2
<1>4. /\ w \in Seq(Unit) /\ Len(w) = 4
      /\ \A i \in 1..4 : w[i].k = Frames(hi)[i][1] /\ w[i].part = Frames(hi)[i][2]
  <2> DEFINE F == Frames(hi)
  <2>1. F \in Seq(Kinds \X {"head", "body"}) /\ Len(F) = 4 /\ w = Encrypted(F, n)
    BY <1>1, <1>3
  <2> HIDE DEF F, w
  <2>2. /\ w \in Seq(Unit) /\ Len(w) = Len(F)
        /\ \A i \in 1..Len(F) : w[i].k = F[i][1] /\ w[i].part = F[i][2]
    BY <2>1, EncryptedIs
  <2> QED
    BY <2>1, <2>2 DEF F
<1> HIDE DEF w, hi
<1>5. /\ w[1].k = "hello" /\ w[1].part = "head" /\ w[2].k = "hello" /\ w[2].part = "body"
      /\ w[3].k = "info" /\ w[3].part = "head" /\ w[4].k = "info" /\ w[4].part = "body"
  BY <1>3, <1>4
<1>6. \A i \in 1..4 : i = 1 \/ i = 2 \/ i = 3 \/ i = 4
  OBVIOUS
<1>7. Packed(w)
  <2>1. \A i \in 1..4 : w[i].k \in Kinds /\ w[i].k \in {"hello", "info"}
    BY <1>5, <1>6 DEF Kinds
  <2>2. ASSUME NEW i \in 1..4, w[i].part = "head", w[i].k \notin Bare
        PROVE  i + 1 <= 4 /\ w[i + 1].part = "body" /\ w[i + 1].k = w[i].k
    <3>1. i = 1 \/ i = 3
      BY <2>2, <1>5, <1>6
    <3>2. 1 + 1 = 2 /\ 3 + 1 = 4
      OBVIOUS
    <3> QED
      BY <3>1, <3>2, <1>5
  <2>3. ASSUME NEW i \in 2..4, w[i].part = "body"
        PROVE  w[i - 1].part = "head" /\ w[i - 1].k \notin Bare
    <3>1. i = 2 \/ i = 4
      BY <2>3, <1>5, <1>6
    <3>2. 2 - 1 = 1 /\ 4 - 1 = 3
      OBVIOUS
    <3> QED
      BY <3>1, <3>2, <1>5 DEF Bare
  <2> QED
    BY <2>1, <2>2, <2>3, <1>4 DEF Packed
<1>8. half["cl"] = "none" /\ half["sv"] = "none" /\ wire["cl"] = <<>>
  BY DEF Fresh, Ends
<1>9. whole = Ends
  <2>1. Halfway(w, "none")
    BY <1>4, <1>5 DEF Halfway
  <2>2. Packed(<<>>) /\ Halfway(<<>>, "none")
    BY DEF Packed, Halfway
  <2> QED
    BY <2>1, <2>2, <1>7, <1>8 DEF whole, Ends, w
<1>10. pending["cl"] = {} /\ pending["sv"] \subseteq {"hello", "info"}
  <2>1. \A i \in 1..Len(w) : w[i].k \in {"hello", "info"}
    BY <1>4, <1>5, <1>6
  <2> QED
    BY <2>1, <1>8 DEF pending, Ends, w
<1>11. /\ \A a, b \in Kinds : <<a, b>> \in ahead["cl"]
       /\ \A a \in Kinds, b \in Kinds \ {"hello", "info"} : <<a, b>> \in ahead["sv"]
  BY <1>10, AheadIs DEF Ends
<1>12. {"helloans", "infoans", "pubkey", "sign", "secstate", "start", "hashans", "accept"} \subseteq Kinds \ {"hello", "info"}
  BY DEF Kinds
<1>13. cpc = "hs" /\ spc \in {"first", "closed"} /\ ~cut /\ c = NoShake /\ s = NoShake
  BY DEF Fresh
<1>14. Shaking
  BY <1>11, <1>12, <1>13 DEF Shaking, NoShake
<1> QED
  BY <1>8, <1>9, <1>10, <1>13, <1>14 DEF Fresh, Early, Framed, Granting, Proving, Asking, Serving

LEMMA FreshNext == (Fresh => ~Early /\ Framed /\ Granting /\ Proving)'
BY FreshSuffices, PTL

(* What is left of a sequence that is read from.                           *)
LEMMA LeftOf ==
    ASSUME NEW S, NEW w \in Seq(S), NEW n \in Nat, n <= Len(w)
    PROVE  LET v == SubSeq(w, n + 1, Len(w))
           IN  /\ v \in Seq(S) /\ Len(v) = Len(w) - n
               /\ \A i \in 1..Len(v) : v[i] = w[i + n] /\ i + n \in 1..Len(w)
<1> DEFINE v == SubSeq(w, n + 1, Len(w))
           l == Len(w)
<1>1. l \in Nat /\ n <= l
  OBVIOUS
<1>2. v \in Seq(S) /\ Len(v) = l - n /\ \A i \in 1..(l - n) : v[i] = w[i + n]
  OBVIOUS
<1> HIDE DEF v, l
<1>3. \A i \in 1..Len(v) : v[i] = w[i + n] /\ i + n \in 1..l
  BY <1>1, <1>2
<1> QED
  BY <1>2, <1>3 DEF v, l

LEMMA NothingLeft ==
    ASSUME NEW S, NEW w \in Seq(S)
    PROVE  /\ Len(w) = 0 => w = <<>>
           /\ Len(w) = 1 => Tail(w) = <<>>
<1>1. \A v \in Seq(S) : Len(v) = 0 => v = <<>>
  BY EmptySeq
<1>2. Len(w) = 1 => w # <<>>
  OBVIOUS
<1>3. Len(w) = 1 => Tail(w) \in Seq(S) /\ Len(Tail(w)) = 0
  BY <1>2, HeadTailProperties
<1> QED
  BY <1>1, <1>3

(* The negotiation, up to the first packet or to its failure.              *)
LEMMA EarlyOn ==
    ASSUME NetTyped, Early, EarlyInv, [PeerNext]_peerVars
    PROVE  (Early' /\ EarlyInv') \/ Fresh'
<1>1. /\ cpc \in {"negotiate", "closed"} /\ (cpc = "negotiate" => why # "negotiation")
      /\ spc \in {"first", "basic", "dh", "closed"}
      /\ half["cl"] = "none" /\ half["sv"] = "none"
      /\ wire \in [Ends -> Seq(Unit)] /\ here["sv"] \in Nat /\ here["cl"] \in Nat
      /\ here["sv"] <= Len(wire["sv"]) /\ here["cl"] <= Len(wire["cl"])
      /\ Len(wire["sv"]) \in Nat /\ wire["sv"] \in Seq(Unit) /\ wire["cl"] \in Seq(Unit)
      /\ "cl" \in Ends /\ "sv" \in Ends
  BY DEF EarlyInv, NetTyped, Ends
<1>2. ASSUME UNCHANGED <<crypt, wire, half, c, s, cut, cpc, why>>, spc' \in {spc, "closed"}
      PROVE  Early' /\ EarlyInv'
  BY <1>1, <1>2 DEF Early, EarlyInv
<1>3. ASSUME spc = "first", wire["sv"] # <<>>, Head(wire["sv"]).k = "hello"
      PROVE  FALSE
  <2>1. Head(wire["sv"]) = wire["sv"][1] /\ 1 \in 1..Len(wire["sv"])
    BY <1>1, <1>3
  <2> QED
    BY <1>3, <2>1 DEF EarlyInv, Kinds
<1>4. \A me \in Ends : ~Talking(me)
  BY <1>1, <1>3 DEF Talking, Ends
<1>5. ASSUME NEW e \in Ends, Arrive(e)
      PROVE  Early' /\ EarlyInv'
  BY <1>2, <1>5 DEF Arrive
<1>6. CASE NegotiationEnds
  <2>1. wire["cl"] # <<>>
    BY <1>1, <1>6 DEF NegotiationEnds
  <2>2. Len(wire["cl"]) = 1 /\ wire["sv"] = <<>> /\ spc \in {"first", "closed"}
    BY <2>1 DEF EarlyInv
  <2> DEFINE hi == Encrypted(Frames(<<"hello", "info">>), enc["sv"])
  <2>3. wire' = [wire EXCEPT !["cl"] = Tail(@), !["sv"] = @ \o hi]
    BY <1>6 DEF NegotiationEnds, Negotiated
  <2>4. hi \in Seq(Unit) /\ enc["sv"] \in Nat
    <3>1. <<"hello", "info">> \in Seq(Kinds)
      BY DEF Kinds
    <3> QED
      BY <3>1, <1>1, FramesAre, EncryptedIs DEF NetTyped
  <2> HIDE DEF hi
  <2>5. wire'["cl"] = Tail(wire["cl"]) /\ wire'["sv"] = wire["sv"] \o hi
    BY <1>1, <2>3 DEF Ends
  <2>6. Tail(wire["cl"]) = <<>>
    BY <1>1, <2>2, NothingLeft
  <2>7. <<>> \o hi = hi
    BY <2>4
  <2>8. wire'["cl"] = <<>> /\ wire'["sv"] = hi
    BY <2>2, <2>5, <2>6, <2>7
  <2>9. cpc' = "hs" /\ UNCHANGED <<spc, half, c, s, cut, why>> /\ cpc = "negotiate"
    BY <1>6 DEF NegotiationEnds
  <2>10. Fresh'
    BY <1>1, <2>2, <2>4, <2>8, <2>9 DEF Fresh, EarlyInv, hi
  <2> QED
    BY <2>10
<1>7. CASE NegotiationFails
  <2>1. UNCHANGED <<half, c, cut>> /\ cpc = "negotiate"
    BY <1>7 DEF NegotiationFails
  <2>2. CASE setting.fallback /\ crypt # "dh"
    <3>1. /\ cpc' = "hs" /\ spc' = "first" /\ s' = NoShake /\ why' = why
          /\ wire' = [e \in Ends |-> IF e = "sv" THEN Opening("plain") ELSE <<>>]
      BY <1>7, <2>2 DEF NegotiationFails
    <3>2. wire'["cl"] = <<>> /\ wire'["sv"] = Encrypted(Frames(<<"hello", "info">>), 0) /\ 0 \in Nat
      BY <3>1 DEF Ends, Opening
    <3>3. Fresh'
      BY <1>1, <2>1, <3>1, <3>2 DEF Fresh, EarlyInv
    <3> QED
      BY <3>3
  <2>3. CASE ~(setting.fallback /\ crypt # "dh")
    <3>1. cpc' = "closed" /\ why' = "negotiation" /\ UNCHANGED <<crypt, spc, wire, s>>
      BY <1>7, <2>3 DEF NegotiationFails
    <3> QED
      BY <2>1, <3>1 DEF Early, EarlyInv
  <2> QED
    BY <2>2, <2>3
<1>8. CASE AcceptObfuscated
  <2>1. /\ spc = "first" /\ here["sv"] >= 2 /\ wire' = [wire EXCEPT !["sv"] = SubSeq(@, 3, Len(@))]
        /\ spc' = (IF crypt = "basic" THEN "basic" ELSE "dh")
        /\ UNCHANGED <<crypt, cpc, half, c, s, cut, why>>
    BY <1>8 DEF AcceptObfuscated
  <2>2. wire["cl"] = <<>>
    <3>1. wire["sv"] # <<>>
      BY <1>1, <2>1
    <3> QED
      BY <3>1 DEF EarlyInv
  <2>3. wire'["sv"] = SubSeq(wire["sv"], 3, Len(wire["sv"])) /\ wire'["cl"] = wire["cl"]
    BY <1>1, <2>1 DEF Ends
  <2> DEFINE w == wire["sv"]
             v == wire'["sv"]
  <2>4. w \in Seq(Unit) /\ Len(w) >= 2 /\ Len(w) \in Nat /\ v = SubSeq(w, 3, Len(w))
    BY <1>1, <2>1, <2>3
  <2>5. /\ Len(w) <= IF crypt = "basic" THEN 3 ELSE 4
        /\ \A i \in 1..Len(w) : w[i].k \notin Kinds
    BY DEF EarlyInv
  <2> HIDE DEF w, v
  <2>6. Len(v) = Len(w) - 2 /\ \A i \in 1..Len(v) : v[i] = w[i + 2] /\ i + 2 \in 1..Len(w)
    <3>1. v = SubSeq(w, 2 + 1, Len(w)) /\ 2 \in Nat /\ 2 <= Len(w)
      BY <2>4
    <3>2. w \in Seq(Unit)
      BY <2>4
    <3> DEFINE r == SubSeq(w, 2 + 1, Len(w))
    <3>3. Len(r) = Len(w) - 2 /\ \A i \in 1..Len(r) : r[i] = w[i + 2] /\ i + 2 \in 1..Len(w)
      BY <3>1, <3>2, LeftOf
    <3>4. v = r
      BY <3>1
    <3> HIDE DEF r
    <3> QED
      BY <3>3, <3>4
  <2>7. \A i \in 1..Len(v) : v[i].k \notin Kinds
    BY <2>5, <2>6
  <2>8. Len(v) <= 4 /\ (crypt = "basic" => Len(v) <= 1 /\ Len(v) <= 3) /\ (crypt # "basic" => Len(v) <= 2)
    BY <2>4, <2>5, <2>6
  <2> QED
    BY <2>1, <2>2, <2>3, <2>7, <2>8 DEF Early, EarlyInv, w, v
<1>9. CASE AnswerObfuscated
  <2>1. /\ spc \in {"basic", "dh"} /\ spc' = "first"
        /\ UNCHANGED <<crypt, cpc, half, c, s, cut, why>>
        /\ here["sv"] >= (IF spc = "basic" THEN 1 ELSE 2)
    BY <1>9 DEF AnswerObfuscated
  <2> DEFINE n == IF spc = "basic" THEN 1 ELSE 2
  <2>2. /\ wire["cl"] = <<>> /\ Len(wire["sv"]) = n /\ n \in {1, 2}
        /\ wire' = [wire EXCEPT !["sv"] = SubSeq(@, n + 1, Len(@)), !["cl"] = @ \o <<Sealed("answer", 1)>>]
    <3>1. Len(wire["sv"]) <= n
      BY <2>1 DEF EarlyInv
    <3>2. Len(wire["sv"]) >= n
      BY <1>1, <2>1
    <3>3. wire["cl"] = <<>>
      BY <2>1 DEF EarlyInv
    <3>4. wire' = [wire EXCEPT !["sv"] = SubSeq(@, n + 1, Len(@)), !["cl"] = @ \o <<Sealed("answer", 1)>>]
      BY <1>9 DEF AnswerObfuscated
    <3> QED
      <4>1. n \in {1, 2}
        OBVIOUS
      <4> HIDE DEF n
      <4> QED
        BY <3>1, <3>2, <3>3, <3>4, <4>1, <1>1
  <2> HIDE DEF n
  <2>3. /\ wire'["sv"] = SubSeq(wire["sv"], n + 1, Len(wire["sv"]))
        /\ wire'["cl"] = wire["cl"] \o <<Sealed("answer", 1)>>
    BY <1>1, <2>2 DEF Ends
  <2>4. wire'["sv"] = <<>>
    <3>1. wire'["sv"] \in Seq(Unit) /\ Len(wire'["sv"]) = Len(wire["sv"]) - n
      BY <1>1, <2>2, <2>3, LeftOf
    <3> QED
      BY <3>1, <2>2, NothingLeft
  <2>5. \A u : <<>> \o <<u>> = <<u>> /\ Len(<<u>>) = 1
    OBVIOUS
  <2>6. Len(wire'["cl"]) = 1 /\ wire'["cl"] # <<>>
    <3>1. wire'["cl"] = <<Sealed("answer", 1)>>
      BY <2>2, <2>3, <2>5
    <3> HIDE DEF Sealed
    <3> QED
      BY <3>1, <2>5
  <2> QED
    BY <1>1, <2>1, <2>4, <2>6 DEF Early, EarlyInv
<1>10. CASE ServerCloses \/ ServerTimesOut
  BY <1>2, <1>10 DEF ServerCloses, ServerTimesOut, net
<1>11. CASE UNCHANGED peerVars
  BY <1>2, <1>11 DEF peerVars, net
<1>12. ~ \/ ClientShakes \/ ClientRequests \/ ClientWaits \/ ClientDone \/ ClientSeesEnd \/ ReadHeader("cl")
         \/ ServerHello \/ ServerPre \/ ServerStart \/ ServerQueued \/ ServerEngine \/ ReadHeader("sv")
         \/ GraceEnds \/ ClientTimesOut \/ ClientRetries \/ ServerRefreshes
  BY <1>1, <1>3, <1>4 DEF ClientShakes, ClientRequests, ClientWaits, ClientDone, ClientSeesEnd, ReadHeader,
     ServerHello, ServerPre, ServerStart, ServerQueued, ServerEngine, GraceEnds, ClientTimesOut, GivesUp,
     ClientRetries, ServerRefreshes
<1> QED
  BY <1>5, <1>6, <1>7, <1>8, <1>9, <1>10, <1>11, <1>12 DEF PeerNext, ClientStep, ServerStep, Timers

LEMMA SessionStart == PeerInit => NetTyped /\ ShakeTyped /\ SessionInv
<1> SUFFICES ASSUME PeerInit
             PROVE  NetTyped /\ ShakeTyped /\ SessionInv
  OBVIOUS
<1>1. NetTyped
  BY StreamsStart DEF StreamsInv
<1>2. ShakeTyped
  BY DEF PeerInit, ShakeTyped, NoShake, Shakes
<1>3. /\ crypt \in {"plain", "basic", "wrong", "dh"} /\ spc = "first" /\ why = "none"
      /\ c = NoShake /\ s = NoShake /\ ~cut /\ half = [e \in Ends |-> "none"]
      /\ wire["cl"] = <<>> /\ wire["sv"] = Opening(crypt)
      /\ cpc = IF crypt = "plain" THEN "hs" ELSE "negotiate"
  BY PeerAssumption DEF PeerInit, Ends
<1>4. CASE crypt = "plain"
  <2>1. wire["sv"] = Encrypted(Frames(<<"hello", "info">>), 0) /\ 0 \in Nat
    BY <1>3, <1>4 DEF Opening
  <2>2. Fresh
    BY <1>3, <1>4, <2>1 DEF Fresh
  <2> QED
    BY <1>1, <1>2, <2>2, FreshSuffices DEF SessionInv
<1>5. CASE crypt # "plain"
  <2>1. /\ \A i \in 1..Len(wire["sv"]) : wire["sv"][i].k \notin Kinds
        /\ Len(wire["sv"]) <= IF crypt = "basic" THEN 3 ELSE 4
    <3>1. \/ wire["sv"] = <<Clear("part"), Clear("magic"), Clear("rest"), Clear("pad")>> /\ crypt # "basic"
          \/ wire["sv"] = <<Clear("part"), Sealed("magic", 1), Sealed("pad", 2)>>
      BY <1>3, <1>5 DEF Opening
    <3>2. \A i \in 1..4 : i = 1 \/ i = 2 \/ i = 3 \/ i = 4
      OBVIOUS
    <3>3. \A i \in 1..3 : i = 1 \/ i = 2 \/ i = 3
      OBVIOUS
    <3>4. {"part", "magic", "rest", "pad"} \cap Kinds = {}
      BY DEF Kinds
    <3>5. CASE wire["sv"] = <<Clear("part"), Clear("magic"), Clear("rest"), Clear("pad")>> /\ crypt # "basic"
      BY <3>2, <3>4, <3>5 DEF Clear
    <3>6. CASE wire["sv"] = <<Clear("part"), Sealed("magic", 1), Sealed("pad", 2)>>
      BY <3>3, <3>4, <3>6 DEF Clear, Sealed
    <3> QED
      BY <3>1, <3>5, <3>6
  <2>2. Early /\ EarlyInv
    BY <1>3, <1>5, <2>1 DEF Early, EarlyInv
  <2> QED
    BY <1>1, <1>2, <2>2 DEF SessionInv
<1> QED
  BY <1>4, <1>5

(* The handshakes keep their shape.                                        *)
LEMMA ShakeTypedOn == ShakeTyped /\ [PeerNext]_peerVars => ShakeTyped'
<1> SUFFICES ASSUME ShakeTyped, [PeerNext]_peerVars
             PROVE  ShakeTyped'
  OBVIOUS
<1>1. c \in Shakes /\ s \in Shakes /\ NoShake \in Shakes /\ Challenges \in BOOLEAN
  BY DEF ShakeTyped, NoShake, Challenges, Shakes
<1>2. setting' = setting
  BY DEF PeerNext, ClientStep, ServerStep, Timers, peerVars, Arrive, ReadHeader, ClientShakes, ClientRequests,
     ClientWaits, ClientDone, NegotiationEnds, ClientSeesEnd, ClientCloses, ServerHello, ServerPre, ServerStart,
     ServerQueued, ServerEngine, AcceptObfuscated, AnswerObfuscated, ServerCloses, NegotiationFails, GraceEnds,
     ClientTimesOut, ClientRetries, ServerRefreshes, ServerTimesOut
<1>3. c' = c \/ (\E k : c' = Shaken(k)) \/ c' = [c EXCEPT !.grace = FALSE]
  BY DEF PeerNext, ClientStep, ServerStep, Timers, peerVars, Arrive, ReadHeader, ClientShakes, ClientRequests,
     ClientWaits, ClientDone, NegotiationEnds, ClientSeesEnd, ClientCloses, ServerHello, ServerPre, ServerStart,
     ServerQueued, ServerEngine, AcceptObfuscated, AnswerObfuscated, ServerCloses, NegotiationFails, GraceEnds,
     ClientTimesOut, ClientRetries, ServerRefreshes, ServerTimesOut
<1>4. \/ s' = s \/ s' = NoShake \/ s' = [s EXCEPT !.challenged = TRUE] \/ s' = [s EXCEPT !.blob = TRUE]
      \/ s' = [s EXCEPT !.verified = @ \/ (s.challenged /\ s.blob)]
  BY DEF PeerNext, ClientStep, ServerStep, Timers, peerVars, Arrive, ReadHeader, ClientShakes, ClientRequests,
     ClientWaits, ClientDone, NegotiationEnds, ClientSeesEnd, ClientCloses, ServerHello, ServerPre, ServerStart,
     ServerQueued, ServerEngine, AcceptObfuscated, AnswerObfuscated, ServerCloses, NegotiationFails, GraceEnds,
     ClientTimesOut, ClientRetries, ServerRefreshes, ServerTimesOut
<1>5. \A k : Shaken(k) \in Shakes
  BY ShakenIs
<1>6. c' \in Shakes
  BY <1>1, <1>3, <1>5 DEF Shakes
<1>7. s' \in Shakes
  BY <1>1, <1>4 DEF Shakes
<1> QED
  BY <1>2, <1>6, <1>7 DEF ShakeTyped

LEMMA SessionStep == NetTyped /\ ShakeTyped /\ SessionInv /\ [PeerNext]_peerVars => SessionInv'
<1> SUFFICES ASSUME NetTyped, ShakeTyped, SessionInv, [PeerNext]_peerVars
             PROVE  SessionInv'
  OBVIOUS
<1>1. CASE Early
  <2>1. (Early' /\ EarlyInv') \/ Fresh'
    BY <1>1, EarlyOn DEF SessionInv
  <2> QED
    BY <2>1, FreshNext DEF SessionInv
<1>2. CASE ~Early
  <2>1. Framed /\ Granting /\ Proving
    BY <1>2 DEF SessionInv
  <2>2. cpc # "negotiate" /\ why # "negotiation"
    BY <1>2 DEF Early
  <2>3. CASE UNCHANGED peerVars
    <3>1. UNCHANGED <<cpc, spc, wire, half, c, s, cut, late, setting, why>>
      BY <2>3 DEF peerVars, net
    <3>2. whole' = whole /\ pending' = pending /\ ahead' = ahead
      BY <3>1 DEF whole, pending, ahead
    <3>3. Framed' /\ Granting' /\ Proving'
      BY <2>1, <3>1, <3>2 DEF Framed, Granting, Proving, Shaking, Signed
    <3> QED
      BY <1>2, <3>1, <3>3 DEF SessionInv, Early
  <2>4. CASE PeerNext
    <3>1. ~NegotiationEnds /\ ~NegotiationFails
      BY <2>2 DEF NegotiationEnds, NegotiationFails
    <3>2. Framed' /\ Granting' /\ Proving'
      <4>1. CASE ClientShakes \/ GraceEnds \/ ClientRequests \/ ClientWaits \/ ClientDone
        BY <2>1, <4>1, ClientShakesOn, GraceEndsOn, ClientRequestsOn, ClientWaitsOn, ClientDoneOn
      <4>2. CASE ClientSeesEnd \/ ClientTimesOut \/ ClientRetries
        BY <2>1, <4>2, ClientStopsOn
      <4>3. CASE ServerHello \/ ServerPre \/ ServerStart
        BY <2>1, <4>3, ServerHelloOn, ServerPreOn, ServerStartOn
      <4>4. CASE ServerQueued \/ ServerEngine
        BY <2>1, <4>4, ServingOn
      <4>5. CASE ServerRefreshes
        BY <2>1, <4>5, ServerRefreshesOn
      <4>6. CASE ServerCloses \/ ServerTimesOut
        BY <2>1, <4>6, ServerStopsOn
      <4>7. CASE AcceptObfuscated \/ AnswerObfuscated
        BY <2>1, <4>7, ObfuscationOn
      <4>8. CASE \E e \in Ends : Arrive(e) \/ ReadHeader(e)
        BY <2>1, <4>8, ReadingOn
      <4>9. "cl" \in Ends /\ "sv" \in Ends
        BY DEF Ends
      <4> QED
        BY <2>4, <3>1, <4>1, <4>2, <4>3, <4>4, <4>5, <4>6, <4>7, <4>8, <4>9
           DEF PeerNext, ClientStep, ServerStep, Timers
    <3>3. cpc' # "negotiate"
      BY <3>2 DEF Framed, Asking
    <3>4. why' # "negotiation"
      <4>1. why' = why \/ why' = "grace" \/ why' = cpc \/ why' = "peer"
        BY <2>4, <3>1 DEF PeerNext, ClientStep, ServerStep, Timers, Arrive, ReadHeader, ClientShakes,
           ClientRequests, ClientWaits, ClientDone, ClientSeesEnd, ClientCloses, ServerHello, ServerPre,
           ServerStart, ServerQueued, ServerEngine, AcceptObfuscated, AnswerObfuscated, ServerCloses,
           GraceEnds, ClientTimesOut, ClientRetries, ServerRefreshes, ServerTimesOut
      <4> QED
        BY <2>1, <2>2, <4>1 DEF Framed, Asking
    <3> QED
      BY <3>2, <3>3, <3>4 DEF SessionInv, Early
  <2> QED
    BY <2>3, <2>4
<1> QED
  BY <1>1, <1>2

(* A slot is never given to a dialer that will not hear of it: the hash    *)
(* set is read before the acceptance can be (request_file,                 *)
(* wait_upload_slot, StreamTransport).                                     *)
THEOREM SlotIsHeard == PeerSpec => []SlotHeard
<1>1. SessionInv => SlotHeard
  <2> SUFFICES ASSUME SessionInv, spc = "engine", wire["cl"] = <<>>, ~cut
               PROVE  cpc \in {"transfer", "done", "closed"}
    BY DEF SlotHeard
  <2>1. ~Early /\ Granting
    BY DEF SessionInv, EarlyInv
  <2>2. "accept" \notin pending["cl"]
    BY DEF pending, Ends
  <2> QED
    BY <2>1, <2>2 DEF Granting
<1>2. PeerInit => StreamsInv /\ ShakeTyped /\ SessionInv
  BY StreamsStart, SessionStart
<1>3. StreamsInv /\ ShakeTyped /\ SessionInv /\ [PeerNext]_peerVars => (StreamsInv /\ ShakeTyped /\ SessionInv)'
  BY StreamsStep, SessionStep, ShakeTypedOn DEF StreamsInv
<1> QED
  BY <1>1, <1>2, <1>3, PTL DEF PeerSpec

(* Two ends that own keys have verified each other by the time one asks    *)
(* and the other decides, if none keeps silent and no timer fires          *)
(* (handshake, _handle_secident, the order both send in).                  *)
THEOREM BothVerify == PeerSpec => []MutuallyVerified
<1>1. SessionInv => MutuallyVerified
  <2>1. EarlyInv => MutuallyVerified
    BY DEF EarlyInv, MutuallyVerified
  <2>2. Proving => MutuallyVerified
    BY DEF Proving, MutuallyVerified, Asking, Serving
  <2> QED
    BY <2>1, <2>2 DEF SessionInv
<1>2. PeerInit => StreamsInv /\ ShakeTyped /\ SessionInv
  BY StreamsStart, SessionStart
<1>3. StreamsInv /\ ShakeTyped /\ SessionInv /\ [PeerNext]_peerVars => (StreamsInv /\ ShakeTyped /\ SessionInv)'
  BY StreamsStep, SessionStep, ShakeTypedOn DEF StreamsInv
<1> QED
  BY <1>1, <1>2, <1>3, PTL DEF PeerSpec

=============================================================================
