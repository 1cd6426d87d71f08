---------------------------- MODULE DownloadRun ----------------------------
(***************************************************************************)
(* One download race: DownloadRunner.run and _attempt_peer                 *)
(* (core/download/runner.py) with the request loop of PeerClient.transfer  *)
(* (core/peer/client.py), over the download queue of DownloadQueue.        *)
(*                                                                         *)
(* run() and one _attempt_peer task per racing peer share the event loop;  *)
(* an action is what one of them does between two awaits.  Blocks are the  *)
(* units of transfer.  Which blocks the selector prefers, and the A4AF     *)
(* gate, are in Ics; here the selector may return any free blocks.         *)
(***************************************************************************)
EXTENDS Shares

CONSTANTS
    Target,         \* the hash of the download
    Units,          \* its blocks, 0 .. number of blocks - 1
    Batch,          \* blocks asked for at a time
    Peers,          \* endpoints, numbered in dial order
    HasHashset,     \* peers that answer request_file with a hashset
    Corrupting,     \* peers whose blocks may be bad
    Jobs,           \* the downloads considered: records of
                    \*   partLen    blocks in a part
                    \*   master     a trusted AICH master is stored for the file
                    \*   throttled  network.max_download_bytes_per_sec > 0
                    \*   missing    blocks missing when the kernel starts
                    \*   sources    the endpoints of the race
                    \*   attended   the user pauses and resumes
                    \*   mortal     the process may be killed
                    \*   steady     no peer fails, stops before the end or sends bad blocks
    MaxRounds,      \* max_rounds
    NoFile          \* nothing in incoming/

ASSUME DownloadRunAssumption ==
    /\ IsFiniteSet(Units) /\ Units = 0 .. Cardinality(Units) - 1
    /\ Jobs \subseteq [partLen : Nat \ {0}, master : BOOLEAN, throttled : BOOLEAN,
                       missing : SUBSET Units, sources : SUBSET Peers,
                       attended : BOOLEAN, mortal : BOOLEAN, steady : BOOLEAN]
    /\ Batch \in Nat \ {0} /\ MaxRounds \in Nat \ {0}
    /\ IsFiniteSet(Peers) /\ Peers \subseteq Nat
    /\ HasHashset \subseteq Peers /\ Corrupting \subseteq Peers
    /\ NoFile # Target

VARIABLES
    job,            \* which of Jobs this is
    row, exists, data, scState, missing,                    \* see DownloadQueue
    incoming, content, vouched, moved, damaged,
    pc,             \* run(): "idle", "round" at the head of the loop, "race"
    result,         \* status of the last finished run
    round,          \* round_no
    active,         \* peers still in the race
    task,           \* _attempt_peer: "none", "dial", "transfer", "narrow",
                    \* "ended", or "seen" by run()
    region,         \* start_offset .. end_offset - 1 of each task
    ics,            \* the task uses the ICS selector
    expected,       \* blocks of the current request of an ICS transfer
    issued,         \* its issued_ranges
    got,            \* bytes received by a transfer
    outcome,        \* bytes_received > 0 and complete, as the task returned them
    corrupt,        \* blocks of corrupt parts, bad when narrowing read them
    later           \* writes waiting behind the throttle

queueVars == <<row, exists, data, scState, missing, incoming, content, vouched,
               moved, damaged>>
taskVars == <<region, ics, expected, issued, got, outcome, corrupt>>
vars == <<job, queueVars, pc, result, round, active, task, taskVars, later>>

Q == INSTANCE DownloadQueue WITH
    Files <- {Target}, Names <- {Target}, NameOf <- [f \in {Target} |-> Target],
    Sparse <- FALSE, SameVolume <- TRUE, VerifyChoices <- {TRUE}

Size == Cardinality(Units)
Part(u) == u \div job.partLen
PartUnits(c) == {u \in Units : Part(u) = c}
MultiPart == Size > job.partLen
Miss == missing[Target]

(* Number of entries of the gap list.                                      *)
GapCount == Cardinality({u \in Miss : u - 1 \notin Miss})

Outcome == [bytes : BOOLEAN, complete : BOOLEAN]
Nothing == [bytes |-> FALSE, complete |-> FALSE]

Init ==
    /\ job \in Jobs
    /\ LET S == job.missing IN
          /\ missing = [f \in {Target} |-> S]
          /\ data = [f \in {Target} |-> [u \in Units |-> IF u \in S THEN "zero" ELSE "good"]]
          /\ row = [f \in {Target} |-> IF S = {} THEN "complete" ELSE "downloading"]
    /\ exists = [f \in {Target} |-> TRUE]
    /\ scState = [f \in {Target} |-> "ok"]
    /\ incoming = [n \in {Target} |-> NoFile]
    /\ content = [n \in {Target} |-> Q!Zeros]
    /\ vouched = {} /\ moved = {} /\ damaged = {}
    /\ pc = "idle" /\ result = "none" /\ round = 0 /\ active = {}
    /\ later = {}
    /\ task = [p \in Peers |-> "none"]
    /\ region = [p \in Peers |-> {}]
    /\ ics = [p \in Peers |-> FALSE]
    /\ expected = [p \in Peers |-> {}]
    /\ issued = [p \in Peers |-> {}]
    /\ got = [p \in Peers |-> 0]
    /\ outcome = [p \in Peers |-> Nothing]
    /\ corrupt = [p \in Peers |-> {}]

Live(p) == task[p] \in {"dial", "transfer", "narrow"}

-----------------------------------------------------------------------------
(* run(): the entry.                                                       *)

AlreadyComplete ==
    /\ pc = "idle" /\ row[Target] = "complete"
    /\ result' = "already_complete"
    /\ UNCHANGED <<job, queueVars, pc, round, active, task, taskVars, later>>

StartRun ==
    /\ pc = "idle" /\ row[Target] \notin {"absent", "complete"}
    /\ pc' = "round" /\ result' = "none" /\ round' = 0 /\ active' = job.sources
    /\ UNCHANGED <<job, queueVars, task, taskVars, later>>

(* The breaks at the head of a round, and the end of the loop.             *)
GapsOfRound == IF round = 0 THEN Units ELSE Miss

(* Slip: the break on an empty list of peers is missing.                   *)
RunOverNeedsNoPeers == round = MaxRounds \/ row[Target] = "complete" \/ GapsOfRound = {}

RunOver == round = MaxRounds \/ row[Target] = "complete" \/ active = {} \/ GapsOfRound = {}

(* gap_ranges raises when the part file is gone.                           *)
Unreadable == round > 0 /\ ~Q!Loadable(Target)

EndRun ==
    /\ pc = "round" /\ (RunOver \/ Unreadable)
    /\ pc' = "idle"
    /\ result' = IF RunOver THEN "incomplete" ELSE "error"
    /\ UNCHANGED <<job, queueVars, round, active, task, taskVars, later>>

(* The region of the active peer p: its place among them counts.           *)
Place(p) == Cardinality({q \in active : q <= p})
RegionOf(p) == Share(GapsOfRound, Cardinality(active), Place(p))

(* One task for each active peer that gets a region.                       *)
BeginRound ==
    /\ pc = "round" /\ ~RunOver /\ ~Unreadable
    /\ region' = [p \in Peers |-> IF p \in active THEN RegionOf(p) ELSE {}]
    /\ task' = [p \in Peers |-> IF p \in active /\ RegionOf(p) # {} THEN "dial" ELSE "none"]
    /\ ics' = [p \in Peers |-> FALSE]
    /\ got' = [p \in Peers |-> 0]
    /\ outcome' = [p \in Peers |-> Nothing]
    /\ pc' = "race"
    /\ UNCHANGED <<job, queueVars, result, round, active, expected, issued, corrupt, later>>

-----------------------------------------------------------------------------
(* _attempt_peer and transfer.                                             *)

(* Connected, handshake done, slot granted: the scheduling is chosen.      *)
Connect(p) ==
    /\ task[p] = "dial" /\ Q!Loadable(Target)
    /\ task' = [task EXCEPT ![p] = "transfer"]
    /\ ics' = [ics EXCEPT ![p] = MultiPart \/ GapCount > 1]
    /\ UNCHANGED <<job, queueVars, pc, result, round, active, region, expected, issued, got,
                   outcome, corrupt, later>>

(* Slip: the ranges of a finished attempt stay registered.                 *)
ReturnKeepsRanges(p, o) ==
    /\ task' = [task EXCEPT ![p] = "ended"]
    /\ outcome' = [outcome EXCEPT ![p] = o]
    /\ expected' = [expected EXCEPT ![p] = {}]
    /\ corrupt' = [corrupt EXCEPT ![p] = {}]
    /\ UNCHANGED issued

(* _attempt_peer returns `o`; the finally clauses release its ranges.      *)
Return(p, o) ==
    /\ task' = [task EXCEPT ![p] = "ended"]
    /\ outcome' = [outcome EXCEPT ![p] = o]
    /\ issued' = [issued EXCEPT ![p] = {}]
    /\ expected' = [expected EXCEPT ![p] = {}]
    /\ corrupt' = [corrupt EXCEPT ![p] = {}]

Free == Miss \ UNION {issued[q] : q \in Peers}

(* The ICS selector returns up to Batch free blocks.                       *)
Ask(p) ==
    /\ task[p] = "transfer" /\ ics[p] /\ expected[p] = {} /\ got[p] < Size
    /\ \E S \in SUBSET Free :
          /\ Cardinality(S) = Min({Batch, Cardinality(Free)}) /\ S # {}
          /\ expected' = [expected EXCEPT ![p] = S]
          /\ issued' = [issued EXCEPT ![p] = @ \cup S]
    /\ UNCHANGED <<job, queueVars, pc, result, round, active, task, region, ics, got,
                   outcome, corrupt, later>>

(* A stripe transfer asks for the blocks of its region in order.           *)
Awaited(p) ==
    IF ics[p] THEN expected[p]
    ELSE {u \in region[p] : u = Min(region[p]) + got[p]}

(* _persist_block: at once, or behind the throttle.                        *)
Persist(u, q) ==
    IF job.throttled
    THEN later' = later \cup {<<u, q>>} /\ UNCHANGED queueVars
    ELSE Q!RecordBlock(Target, {u}, q) /\ UNCHANGED later

Deliver(p, u, q) ==
    /\ task[p] = "transfer" /\ u \in Awaited(p)
    /\ q = "bad" => p \in Corrupting /\ ~job.steady
    /\ Persist(u, q)
    /\ got' = [got EXCEPT ![p] = @ + 1]
    /\ expected' = [expected EXCEPT ![p] = @ \ {u}]
    /\ UNCHANGED <<job, pc, result, round, active, task, region, ics, issued, outcome, corrupt>>

(* _write_block_throttled runs; it raises when the row or the file is gone.*)
WriteLater(u, q) ==
    /\ <<u, q>> \in later
    /\ later' = later \ {<<u, q>>}
    /\ IF row[Target] # "absent" /\ Q!Loadable(Target)
       THEN Q!RecordBlock(Target, {u}, q)
       ELSE UNCHANGED queueVars
    /\ UNCHANGED <<job, pc, result, round, active, task, taskVars>>

(* base_offset + received >= bound, with the bounds of either mode.        *)
Complete(p) == got[p] >= (IF ics[p] THEN Size ELSE Cardinality(region[p]))

(* The loop of transfer ends by itself: everything received, or the        *)
(* selector has nothing.                                                   *)
TransferOver(p) ==
    /\ task[p] = "transfer" /\ expected[p] = {}
    /\ Complete(p) \/ (ics[p] /\ Free = {})

(* Parts whose MD4 on disk is wrong, if this outcome is to be verified.    *)
(* The hash set of a file of several parts does not fit their number once  *)
(* its first hash is passed over, see Hashes, and nothing is verified.     *)
CorruptParts(p) ==
    IF Complete(p) /\ p \in HasHashset /\ ~MultiPart /\ (ics[p] \/ region[p] = Units)
    THEN {Part(u) : u \in {v \in Units : data[Target][v] # "good"}}
    ELSE {}

EndTransfer(p) ==
    /\ TransferOver(p) /\ CorruptParts(p) = {}
    /\ Return(p, [bytes |-> got[p] > 0, complete |-> Complete(p)])
    /\ UNCHANGED <<job, queueVars, pc, result, round, active, region, ics, got, later>>

(* Corrupt parts and no AICH master: punched whole, without an await.      *)
PunchParts(p) ==
    /\ TransferOver(p) /\ CorruptParts(p) # {} /\ ~job.master
    /\ Q!PunchGaps(Target, UNION {PartUnits(c) : c \in CorruptParts(p)})
    /\ Return(p, [bytes |-> got[p] > 0, complete |-> FALSE])
    /\ UNCHANGED <<job, pc, result, round, active, region, ics, got, later>>

(* With a master, _aich_narrow_corrupt reads the part, and then awaits the *)
(* answer of the peer: what it will compare is the part as it is now.      *)
BadBlocks(p) == {u \in Units : Part(u) \in CorruptParts(p) /\ data[Target][u] # "good"}

BeginNarrow(p) ==
    /\ TransferOver(p) /\ CorruptParts(p) # {} /\ job.master
    /\ task' = [task EXCEPT ![p] = "narrow"]
    /\ corrupt' = [corrupt EXCEPT ![p] = BadBlocks(p)]
    /\ issued' = [issued EXCEPT ![p] = {}]
    /\ UNCHANGED <<job, queueVars, pc, result, round, active, region, ics, expected, got,
                   outcome, later>>

(* Each part is punched block by block, or whole when the answer is of no  *)
(* use.                                                                    *)
Narrow(p, whole) ==
    /\ task[p] = "narrow"
    /\ row[Target] # "absent" /\ Q!Loadable(Target)
    /\ Q!PunchGaps(Target, corrupt[p] \cup UNION {PartUnits(c) : c \in whole})
    /\ Return(p, [bytes |-> got[p] > 0, complete |-> FALSE])
    /\ UNCHANGED <<job, pc, result, round, active, region, ics, got, later>>

(* An idle timeout, a queue rank, no more parts: transfer returns early.   *)
CutTransfer(p) ==
    /\ task[p] = "transfer" /\ ~Complete(p) /\ ~job.steady
    /\ Return(p, [bytes |-> got[p] > 0, complete |-> FALSE])
    /\ UNCHANGED <<job, queueVars, pc, result, round, active, region, ics, got, later>>

(* The dial fails, or an exception ends the attempt: what was received     *)
(* before is not in the outcome.  A part file that is gone raises too.     *)
FailAttempt(p) ==
    /\ task[p] \in {"dial", "transfer"}
    /\ ~job.steady \/ ~Q!Loadable(Target)
    /\ Return(p, Nothing)
    /\ UNCHANGED <<job, queueVars, pc, result, round, active, region, ics, got, later>>

-----------------------------------------------------------------------------
(* run(): asyncio.wait has returned.                                       *)

Woken == pc = "race" /\ \E p \in Peers : task[p] = "ended"

(* Slip: the losing peers go on.                                           *)
WinKeepsLosers ==
    /\ Woken /\ row[Target] = "complete"
    /\ pc' = "idle"
    /\ IF Q!MayFinalize(Target, TRUE)
       THEN Q!Finalize(Target, TRUE) /\ result' = "complete"
       ELSE UNCHANGED queueVars /\ result' = "error"
    /\ UNCHANGED <<job, round, active, task, taskVars, later>>

(* The file is complete: the other tasks are cancelled, then finalize.     *)
Win ==
    /\ Woken /\ row[Target] = "complete"
    /\ task' = [p \in Peers |-> "none"]
    /\ issued' = [p \in Peers |-> {}]
    /\ expected' = [p \in Peers |-> {}]
    /\ corrupt' = [p \in Peers |-> {}]
    /\ pc' = "idle"
    /\ IF Q!MayFinalize(Target, TRUE)
       THEN Q!Finalize(Target, TRUE) /\ result' = "complete"
       ELSE UNCHANGED queueVars /\ result' = "error"
    /\ UNCHANGED <<job, round, active, region, ics, got, outcome, later>>

(* Slip: the outcomes are collected before the row is read.                *)
CollectUnchecked ==
    /\ Woken
    /\ task' = [p \in Peers |-> IF task[p] = "ended" THEN "seen" ELSE task[p]]
    /\ IF \E p \in Peers : Live(p)
       THEN UNCHANGED <<pc, round, active>>
       ELSE /\ pc' = "round"
            /\ round' = round + 1
            /\ active' = {p \in active : task[p] # "none" => outcome[p] # Nothing}
    /\ UNCHANGED <<job, queueVars, result, taskVars, later>>

(* Otherwise wait for the rest; after the last one the peers that          *)
(* delivered nothing leave the race.                                       *)
Collect ==
    /\ Woken /\ row[Target] # "complete"
    /\ task' = [p \in Peers |-> IF task[p] = "ended" THEN "seen" ELSE task[p]]
    /\ IF \E p \in Peers : Live(p)
       THEN UNCHANGED <<pc, round, active>>
       ELSE /\ pc' = "round"
            /\ round' = round + 1
            /\ active' = {p \in active : task[p] # "none" => outcome[p] # Nothing}
    /\ UNCHANGED <<job, queueVars, result, taskVars, later>>

(* The user, through the kernel; nothing tells the race.                   *)
PauseDownload ==
    /\ job.attended /\ row[Target] # "paused" /\ Q!Pause(Target)
    /\ UNCHANGED <<job, pc, result, round, active, task, taskVars, later>>

ResumeDownload ==
    /\ job.attended /\ Q!Resume(Target)
    /\ UNCHANGED <<job, pc, result, round, active, task, taskVars, later>>

(* The process is killed, and started again: rows, part files and sidecars *)
(* are what is left of the race.                                           *)
Restart ==
    /\ job.mortal
    /\ pc' = "idle" /\ result' = "none" /\ round' = 0 /\ active' = {}
    /\ later' = {}
    /\ task' = [p \in Peers |-> "none"]
    /\ region' = [p \in Peers |-> {}]
    /\ ics' = [p \in Peers |-> FALSE]
    /\ expected' = [p \in Peers |-> {}]
    /\ issued' = [p \in Peers |-> {}]
    /\ got' = [p \in Peers |-> 0]
    /\ outcome' = [p \in Peers |-> Nothing]
    /\ corrupt' = [p \in Peers |-> {}]
    /\ UNCHANGED <<job, queueVars>>

-----------------------------------------------------------------------------
PeerStep(p) ==
    \/ Connect(p)
    \/ Ask(p)
    \/ \E u \in Units, q \in {"good", "bad"} : Deliver(p, u, q)
    \/ EndTransfer(p)
    \/ PunchParts(p)
    \/ BeginNarrow(p)
    \/ \E whole \in SUBSET {Part(u) : u \in corrupt[p]} : Narrow(p, whole)
    \/ CutTransfer(p)
    \/ FailAttempt(p)

RunStep == StartRun \/ EndRun \/ BeginRound \/ Win \/ Collect

Next ==
    \/ AlreadyComplete
    \/ RunStep
    \/ \E p \in Peers : PeerStep(p)
    \/ \E w \in later : WriteLater(w[1], w[2])
    \/ PauseDownload
    \/ ResumeDownload
    \/ Restart

(* run() goes on when it can; every session moves on or is cut by its      *)
(* timeout; the throttle lets every write through; the kernel or the user  *)
(* starts the run again (download.run, autoresume); who pauses resumes.    *)
Fairness ==
    /\ WF_vars(RunStep)
    /\ \A p \in Peers : WF_vars(PeerStep(p))
    /\ WF_vars(\E w \in later : WriteLater(w[1], w[2]))
    /\ WF_vars(ResumeDownload)

Spec == Init /\ [][Next]_vars /\ Fairness

-----------------------------------------------------------------------------
(* The state of the race and of the files under it keeps its shape, and a  *)
(* run has no more than max_rounds rounds.                                 *)
TypeOK ==
    /\ Q!TypeOK
    /\ job \in Jobs
    /\ pc \in {"idle", "round", "race"}
    /\ result \in {"none", "already_complete", "incomplete", "complete", "error"}
    /\ round \in 0 .. MaxRounds
    /\ active \subseteq Peers
    /\ task \in [Peers -> {"none", "dial", "transfer", "narrow", "ended", "seen"}]
    /\ region \in [Peers -> SUBSET Units]
    /\ ics \in [Peers -> BOOLEAN]
    /\ expected \in [Peers -> SUBSET Units]
    /\ issued \in [Peers -> SUBSET Units]
    /\ got \in [Peers -> Nat]
    /\ outcome \in [Peers -> Outcome]
    /\ corrupt \in [Peers -> SUBSET Units]
    /\ later \subseteq Units \X {"good", "bad"}

(* runner.py:1581-1582 "First winner takes the file; the losing peers are  *)
(* cancelled mid-transfer": once the file is in incoming/ no peer of any   *)
(* run is in the middle of a transfer or about to punch it.                *)
FinalizedIsQuiet ==
    Target \in moved => \A p \in Peers : task[p] \notin {"transfer", "narrow"}

(* runner.py:1092-1094 "nothing extra to clean here": between two runs no  *)
(* task is left behind and no range is still registered, however the run   *)
(* ended.                                                                  *)
IdleIsClean ==
    pc = "idle" => \A p \in Peers : ~Live(p) /\ issued[p] = {}

(* README.md:141 "Final assembly into `incoming\` happens only when the gap *)
(* list is empty and the full MD4 verifies": with peers that send bad      *)
(* blocks, parts punched during the race and writes that land after it,    *)
(* what is in incoming/ is the file.                                       *)
AssembledIsGood ==
    Target \in moved => \A u \in Units : content[Target][u] = "good"

(* Whatever the peers do, a run ends: every round ends with its last task  *)
(* and there are MaxRounds of them.                                        *)
RunEnds == pc # "idle" ~> pc = "idle"

Gapless == Miss = {} /\ \A u \in Units : data[Target][u] = "good"

(* README.md:25 "resumes after pauses and restarts, verifies every part    *)
(* and the final MD4": a download all of whose blocks have arrived intact  *)
(* from peers that do not fail is assembled into incoming/.                *)
EventuallyAssembled == (Gapless /\ job.steady) ~> Target \in moved

(* With such peers a download that nobody pauses or kills finishes.        *)
EventuallyFinished == (job.steady /\ ~job.mortal) => <>(Target \in moved)
=============================================================================
