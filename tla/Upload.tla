------------------------------- MODULE Upload -------------------------------
(***************************************************************************)
(* Incoming sessions (IncomingPeerSession.run in core/peer/listener.py,    *)
(* UploadSession in core/upload/engine.py) on one upload queue, and the    *)
(* slot rotation of the kernel.                                            *)
(*                                                                         *)
(* A session first answers requests that do not touch the queue ("open"),  *)
(* then asks for a slot and is held in the queue ("hold") or handed to the *)
(* upload engine ("engine").  An action is what the session does between   *)
(* two packets.  Blocks and the handshake are left out: the queue depends  *)
(* on neither.                                                             *)
(***************************************************************************)
EXTENDS UploadQueue, Integers

CONSTANTS
    Sessions,       \* connections
    PriorityOf,     \* priority of a shared file
    Clients         \* the peers considered: records of
                    \*   login       the user hash in the HELLO of each session
                    \*   present     the sessions that connect
                    \*   patient     those that do not leave while held
                    \*   rerequests  they send STARTUPLOADREQ more than once
                    \*   errors      transport errors and idle timeouts in the engine

ASSUME UploadAssumption ==
    /\ PriorityOf \in [Files -> Priorities]
    /\ Clients \subseteq [login : [Sessions -> Users], present : SUBSET Sessions,
                          patient : SUBSET Sessions, rerequests : BOOLEAN, errors : BOOLEAN]

VARIABLES
    clients,        \* which of Clients these are
    pc,             \* "open", "hold", "engine", "closed"
    shared,         \* shared_file and the replayed packet: the first request
    granted,        \* granted_key, as a set
    told            \* the last QUEUERANK, or Accept, or Silent

sessionVars == <<pc, shared, granted, told>>
vars == <<clients, queueVars, sessionVars>>

Silent == -2
Accept == -1

User(s) == clients.login[s]
Key(s, f) == <<User(s), f>>

SessionsInit ==
    /\ Init
    /\ clients \in Clients
    /\ pc = [s \in Sessions |-> IF s \in clients.present THEN "open" ELSE "closed"]
    /\ shared \in [Sessions -> Files]
    /\ granted = [s \in Sessions |-> {}]
    /\ told = [s \in Sessions |-> Silent]

(* What enqueue returns: the rank of k, 0 for the holder of a slot.        *)
RankIn(queue, k) == IF k \in queue.waiting THEN queue.rank[k] ELSE 0

(* enqueue k; if it is then the head and a slot is free, grant it.         *)
Try(queue, s, k) ==
    LET asked == enqueue(queue, k, PriorityOf[shared[s]])
    IN  IF mayGrant(asked, k) THEN grant_slot(asked, k) ELSE asked

-----------------------------------------------------------------------------
(* STARTUPLOADREQ before the engine runs, for the file shared[s].          *)
StartUpload(s) ==
    LET k == Key(s, shared[s])
        after == IF k \in q.slots THEN q ELSE Try(q, s, k)
    IN
    /\ pc[s] = "open"
    /\ q' = after
    /\ IF k \in after.slots
       THEN /\ pc' = [pc EXCEPT ![s] = "engine"]
            /\ granted' = [granted EXCEPT ![s] = {k} \ q.slots]
            /\ told' = [told EXCEPT ![s] = Accept]
       ELSE /\ pc' = [pc EXCEPT ![s] = "hold"]
            /\ told' = [told EXCEPT ![s] = RankIn(after, k)]
            /\ UNCHANGED granted
    /\ UNCHANGED <<clients, ledger, shared>>

(* The file is not shared, or the peer leaves before it asks.              *)
Refuse(s) ==
    /\ pc[s] = "open"
    /\ pc' = [pc EXCEPT ![s] = "closed"]
    /\ UNCHANGED <<clients, q, ledger, shared, granted, told>>

(* Slip: a held client is told its rank but never promoted.                *)
RefreshRankOnly(s) ==
    LET k == Key(s, shared[s]) IN
    /\ pc[s] = "hold" /\ k \in q.waiting
    /\ told' = [told EXCEPT ![s] = q.rank[k]]
    /\ UNCHANGED <<clients, q, ledger, pc, shared, granted>>

(* queue_rank_period passes: the head of the queue is promoted, the others *)
(* are told their rank, or the old one if they are not in the queue.       *)
Refresh(s) ==
    LET k == Key(s, shared[s]) IN
    /\ pc[s] = "hold"
    /\ IF mayGrant(q, k)
       THEN /\ q' = grant_slot(q, k)
            /\ pc' = [pc EXCEPT ![s] = "engine"]
            /\ granted' = [granted EXCEPT ![s] = {k}]
            /\ told' = [told EXCEPT ![s] = Accept]
       ELSE /\ told' = [told EXCEPT ![s] = IF k \in q.waiting THEN q.rank[k] ELSE @]
            /\ UNCHANGED <<q, pc, granted>>
    /\ UNCHANGED <<clients, ledger, shared>>

(* The hook of the engine: k is accepted, or enqueued and perhaps granted. *)
Hook(queue, s, k) ==
    LET after == IF k \in queue.slots THEN queue ELSE Try(queue, s, k)
    IN  [queue |-> after,
         answer |-> IF k \in after.slots THEN Accept ELSE RankIn(after, k)]

(* A held client sends STARTUPLOADREQ again, maybe for another file.  When *)
(* it is granted the engine starts with the first request, not with this.  *)
AskAgain(s, f) ==
    LET k == Key(s, f)
        after == Try(q, s, k)
        first == Hook(after, s, Key(s, shared[s]))
    IN
    /\ clients.rerequests /\ pc[s] = "hold"
    /\ IF k \in after.slots \ q.slots
       THEN /\ q' = first.queue
            /\ pc' = [pc EXCEPT ![s] = "engine"]
            /\ granted' = [granted EXCEPT ![s] = {k}]
            /\ told' = [told EXCEPT ![s] = first.answer]
       ELSE /\ q' = after
            /\ told' = [told EXCEPT ![s] = RankIn(after, k)]
            /\ UNCHANGED <<pc, granted>>
    /\ UNCHANGED <<clients, ledger, shared>>

(* EOF, END_OF_DOWNLOAD or an error while held; cancel() is not called.    *)
LeaveQueue(s) ==
    /\ pc[s] = "hold" /\ s \notin clients.patient
    /\ pc' = [pc EXCEPT ![s] = "closed"]
    /\ UNCHANGED <<clients, q, ledger, shared, granted, told>>

(* STARTUPLOADREQ inside the engine; granted_key is not touched.           *)
EngineAsks(s, f) ==
    /\ clients.rerequests /\ pc[s] = "engine"
    /\ LET hook == Hook(q, s, Key(s, f)) IN
          /\ q' = hook.queue
          /\ told' = [told EXCEPT ![s] = hook.answer]
    /\ UNCHANGED <<clients, ledger, pc, shared, granted>>

(* _credit_uploaded, if anything was sent.                                 *)
Credit(s) ==
    \/ UNCHANGED ledger
    \/ /\ ledger[User(s)].uploaded < MaxTraffic
       /\ ledger' = [ledger EXCEPT ![User(s)].uploaded = @ + 1]

(* Slip: the slot is left to the rotation.                                 *)
EngineEndsKeepsSlot(s) ==
    /\ pc[s] = "engine"
    /\ pc' = [pc EXCEPT ![s] = "closed"]
    /\ granted' = [granted EXCEPT ![s] = {}]
    /\ Credit(s)
    /\ UNCHANGED <<clients, q, shared, told>>

(* EOF or END_OF_DOWNLOAD: the granted slot is released.                   *)
EngineEnds(s) ==
    /\ pc[s] = "engine"
    /\ pc' = [pc EXCEPT ![s] = "closed"]
    /\ q' = IF granted[s] = {} THEN q
            ELSE release_slot(q, CHOOSE k \in granted[s] : TRUE)
    /\ granted' = [granted EXCEPT ![s] = {}]
    /\ Credit(s)
    /\ UNCHANGED <<clients, shared, told>>

(* A transport error or an idle timeout is raised through the session.     *)
EngineFails(s) ==
    /\ clients.errors /\ pc[s] = "engine"
    /\ pc' = [pc EXCEPT ![s] = "closed"]
    /\ Credit(s)
    /\ UNCHANGED <<clients, q, shared, granted, told>>

(* The kernel's timers.                                                    *)
SlotAges(k) == Age(k) /\ UNCHANGED <<clients, sessionVars>>
Rotation == Rotate /\ UNCHANGED <<clients, sessionVars>>

Done == /\ \A s \in Sessions : pc[s] = "closed"
        /\ q.slots = {}
        /\ UNCHANGED vars

-----------------------------------------------------------------------------
SessionStep(s) ==
    \/ StartUpload(s)
    \/ Refuse(s)
    \/ Refresh(s)
    \/ \E f \in Files : AskAgain(s, f) \/ EngineAsks(s, f)
    \/ LeaveQueue(s)
    \/ EngineEnds(s)
    \/ EngineFails(s)

SessionsNext == (\E s \in Sessions : SessionStep(s)) \/ (\E k \in Keys : SlotAges(k)) \/ Rotation \/ Done

(* The rank timer of a held session and the kernel's timers fire; a client *)
(* that is being served is done some time.                                 *)
Fairness ==
    /\ \A s \in Sessions : WF_vars(Refresh(s))
    /\ \A s \in Sessions : WF_vars(EngineEnds(s))
    /\ (\A k \in Keys : WF_vars(SlotAges(k))) /\ WF_vars(Rotation)

SessionsSpec == SessionsInit /\ [][SessionsNext]_vars /\ Fairness

-----------------------------------------------------------------------------
(* The queue under the sessions and each session's granted_key and last    *)
(* answer keep their shape.                                                *)
SessionsTypeOK ==
    /\ TypeOK
    /\ clients \in Clients
    /\ pc \in [Sessions -> {"open", "hold", "engine", "closed"}]
    /\ shared \in [Sessions -> Files]
    /\ granted \in [Sessions -> SUBSET Keys]
    /\ told \in [Sessions -> {Silent, Accept} \cup Nat]

(* kernel.py:1080-1081 "reclaim expired slots on a timer": no slot is lost *)
(* for good, not the ones of sessions that failed, nor the ones granted    *)
(* inside the engine, which no session releases.                           *)
SlotsReturn == \A k \in Keys : k \in q.slots ~> k \notin q.slots

(* listener.py:1126-1128: without errors and second requests every slot is *)
(* the granted_key of a session that is still being served, so that the    *)
(* end of that session frees it, also when one user opens several          *)
(* sessions and when the rotation took a slot away in between.             *)
SlotsAccounted ==
    ~clients.rerequests /\ ~clients.errors =>
    q.slots \subseteq UNION {granted[s] : s \in {r \in Sessions : pc[r] = "engine"}}

(* No other session asks for the same file under the same user hash.       *)
Alone(s) == \A r \in Sessions \ {s} : Key(r, shared[r]) # Key(s, shared[s])

(* A client that does not leave is served.                                 *)
PatientIsServed ==
    \A s \in Sessions :
        s \in clients.patient /\ pc[s] = "hold" /\ Alone(s) ~> pc[s] = "engine"

(* tests/test_listener.py:377-380 "the queued client HOLDS its connection; *)
(* when the slot holder leaves, the next rank refresh promotes it": when   *)
(* no client leaves the queue, every one is served.                        *)
HeldIsServed == clients.patient = Sessions => PatientIsServed
=============================================================================
