---------------------------- MODULE UploadQueue ----------------------------
(***************************************************************************)
(* The waiting queue and the upload slots (core/upload/queue.py) with the  *)
(* credit ledger that ranks its clients (AmuleDKernel._credit_bonus in     *)
(* core/kernel.py, client_credits in state.py).                            *)
(*                                                                         *)
(* The queue is one record, and every method an operator from the record   *)
(* before to the record after, so that a caller can take several of them   *)
(* between two awaits.  enqueued_at is kept as the order it induces, the   *)
(* age of a slot as whether it has reached slot_ttl.                       *)
(***************************************************************************)
EXTENDS Naturals, FiniteSets

CONSTANTS
    Users,          \* user hashes
    Files,          \* hashes of shared files
    Priorities,     \* UploadPriority
    MaxSlots,       \* max_slots
    MaxTraffic      \* bound on the bytes a ledger row counts

Keys == Users \X Files

ASSUME UploadQueueAssumption ==
    /\ IsFiniteSet(Users) /\ IsFiniteSet(Files)
    /\ Priorities \subseteq Nat
    /\ MaxSlots \in Nat /\ MaxTraffic \in Nat

VARIABLES
    q,              \* the UploadQueue
    ledger          \* client_credits: bytes sent to and received from a user

queueVars == <<q, ledger>>

Queue == [waiting : SUBSET Keys,            \* keys of _waiting
          ahead : SUBSET (Keys \X Keys),    \* <<j, k>>: j was enqueued before k
          prio : [Keys -> Nat],             \* file_priority of the waiting
          rank : [Keys -> Nat],             \* their rank, 0 for the others
          slots : SUBSET Keys,              \* keys of _slots
          aged : SUBSET Keys]               \* slots that have reached slot_ttl

Row == [uploaded : Nat, downloaded : Nat]

EmptyQueue == [waiting |-> {}, ahead |-> {}, prio |-> [k \in Keys |-> 0],
               rank |-> [k \in Keys |-> 0], slots |-> {}, aged |-> {}]

-----------------------------------------------------------------------------
(* _credit_bonus, in units of 1/12: 1.0 for a client without history, 10.0 *)
(* at most.  A row of zeros and no row give the same bonus.                *)
CreditUnit == 12
CreditBonus(u) ==
    LET up == ledger[u].uploaded
        down == ledger[u].downloaded
        ratio == CreditUnit + (up * CreditUnit) \div down
    IN  IF down = 0 THEN (IF up > 0 THEN 10 * CreditUnit ELSE CreditUnit)
        ELSE IF ratio < 10 * CreditUnit THEN ratio ELSE 10 * CreditUnit

(* The sort key of _recompute.                                             *)
RankedBefore(Q, j, k) ==
    \/ Q.prio[j] > Q.prio[k]
    \/ /\ Q.prio[j] = Q.prio[k]
       /\ \/ CreditBonus(j[1]) > CreditBonus(k[1])
          \/ CreditBonus(j[1]) = CreditBonus(k[1]) /\ <<j, k>> \in Q.ahead

recompute(Q) ==
    [Q EXCEPT !.rank = [k \in Keys |->
        IF k \in Q.waiting
        THEN 1 + Cardinality({j \in Q.waiting : RankedBefore(Q, j, k)})
        ELSE 0]]

(* Slip: a waiting client that asks again goes to the end of the queue.    *)
enqueueAgain(Q, k, p) ==
    recompute(IF k \in Q.slots THEN Q
              ELSE [Q EXCEPT !.waiting = @ \cup {k},
                             !.ahead = {e \in @ : e[1] # k /\ e[2] # k}
                                          \cup {<<j, k>> : j \in Q.waiting \ {k}},
                             !.prio[k] = p])

enqueue(Q, k, p) ==
    recompute(IF k \in Q.waiting \cup Q.slots THEN Q
              ELSE [Q EXCEPT !.waiting = @ \cup {k},
                             !.ahead = @ \cup {<<j, k>> : j \in Q.waiting},
                             !.prio[k] = p])

(* The sort key of next_for_slot and waiting().                            *)
ServedBefore(Q, j, k) ==
    Q.prio[j] > Q.prio[k] \/ (Q.prio[j] = Q.prio[k] /\ <<j, k>> \in Q.ahead)

IsHead(Q, k) == k \in Q.waiting /\ \A j \in Q.waiting \ {k} : ServedBefore(Q, k, j)

(* next_for_slot() is k; grant_slot(k) raises otherwise.                   *)
mayGrant(Q, k) == Cardinality(Q.slots) < MaxSlots /\ IsHead(Q, k)

(* _waiting.pop                                                            *)
Without(Q, k) ==
    [Q EXCEPT !.waiting = @ \ {k},
              !.ahead = {e \in @ : e[1] # k /\ e[2] # k},
              !.prio[k] = 0]

grant_slot(Q, k) ==
    LET G == Without(Q, k) IN recompute([G EXCEPT !.slots = @ \cup {k}])

release_slot(Q, k) == [Q EXCEPT !.slots = @ \ {k}, !.aged = @ \ {k}]

cancel(Q, k) ==
    IF k \in Q.waiting \cup Q.slots THEN recompute(release_slot(Without(Q, k), k)) ELSE Q

(* Slip: the expired slots are counted and kept.                           *)
rotateKeeps(Q) == [Q EXCEPT !.aged = {}]

(* The kernel's _rotate: every slot expired_slots() names is released.     *)
rotate(Q) == [Q EXCEPT !.slots = @ \ Q.aged, !.aged = {}]

-----------------------------------------------------------------------------
(* The queue under a caller that may do anything.                          *)

Init ==
    /\ q = EmptyQueue
    /\ ledger = [u \in Users |-> [uploaded |-> 0, downloaded |-> 0]]

Enqueue(k, p) == q' = enqueue(q, k, p) /\ UNCHANGED ledger

Grant(k) == mayGrant(q, k) /\ q' = grant_slot(q, k) /\ UNCHANGED ledger

Release(k) == k \in q.slots /\ q' = release_slot(q, k) /\ UNCHANGED ledger

Cancel(k) == k \in q.waiting \cup q.slots /\ q' = cancel(q, k) /\ UNCHANGED ledger

(* A slot reaches slot_ttl.                                                *)
Age(k) ==
    /\ k \in q.slots \ q.aged
    /\ q' = [q EXCEPT !.aged = @ \cup {k}]
    /\ UNCHANGED ledger

Rotate == q.aged # {} /\ q' = rotate(q) /\ UNCHANGED ledger

(* _record_uploaded: n bytes were sent to u; _record_downloaded: received. *)
RecordUploaded(u) ==
    /\ ledger[u].uploaded < MaxTraffic
    /\ ledger' = [ledger EXCEPT ![u].uploaded = @ + 1]
    /\ UNCHANGED q

RecordDownloaded(u) ==
    /\ ledger[u].downloaded < MaxTraffic
    /\ ledger' = [ledger EXCEPT ![u].downloaded = @ + 1]
    /\ UNCHANGED q

Next ==
    \/ \E k \in Keys : \/ \E p \in Priorities : Enqueue(k, p)
                       \/ Grant(k)
                       \/ Release(k)
                       \/ Cancel(k)
                       \/ Age(k)
    \/ Rotate
    \/ \E u \in Users : RecordUploaded(u) \/ RecordDownloaded(u)

Spec == Init /\ [][Next]_queueVars

-----------------------------------------------------------------------------
(* The waiting list, ranks and slots keep their shape, and only a slot that *)
(* is taken has an age.                                                    *)
TypeOK == q \in Queue /\ q.aged \subseteq q.slots /\ ledger \in [Users -> Row]

(* upload/queue.py:7 "A bounded number of active upload slots              *)
(* (``max_slots``)": however methods are called, no more slots are taken.  *)
SlotBound == IsFiniteSet(q.slots) /\ Cardinality(q.slots) <= MaxSlots

(* upload/queue.py:10 "Deduplication is keyed on (user_hash,               *)
(* requested_hash)": a client never waits for a file it holds a slot for.  *)
NeverTwice == q.waiting \cap q.slots = {}

(* The order of arrival stays a strict total order of the waiting clients, *)
(* through grants, cancellations and repeated requests: sorted() has one   *)
(* result, and the queue one head whenever it is not empty.                *)
ArrivalTotal ==
    /\ q.ahead \subseteq q.waiting \X q.waiting
    /\ \A j, k \in q.waiting : j = k \/ <<j, k>> \in q.ahead \/ <<k, j>> \in q.ahead
    /\ \A j, k \in q.waiting : ~(<<j, k>> \in q.ahead /\ <<k, j>> \in q.ahead)
    /\ \A i, j, k \in q.waiting :
          <<i, j>> \in q.ahead /\ <<j, k>> \in q.ahead => <<i, k>> \in q.ahead

(* upload/queue.py:10-12 "returns its current rank instead of being        *)
(* re-enqueued": of two clients that go on waiting the one that came first *)
(* stays in front, whatever is requested, granted or cancelled meanwhile.  *)
NoOvertaking ==
    [][\A j, k \in q.waiting \cap q'.waiting :
          <<j, k>> \in q.ahead => <<j, k>> \in q'.ahead]_queueVars

-----------------------------------------------------------------------------
(* Statements of the documentation that the code does not keep.            *)

(* upload/queue.py:24 "promoting clients that gave us more bytes": with    *)
(* the same priority and nothing more taken, a client that gave more is    *)
(* not favoured less.                                                      *)
GivingPays ==
    \A u, v \in Users :
        ledger[u].downloaded > ledger[v].downloaded
            /\ ledger[u].uploaded <= ledger[v].uploaded
        => CreditBonus(u) >= CreditBonus(v)
=============================================================================
