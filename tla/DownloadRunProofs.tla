------------------------- MODULE DownloadRunProofs --------------------------
(***************************************************************************)
(* Theorems about DownloadRun for any number of blocks and peers, any      *)
(* downloads and any number of rounds: a run leaves nothing behind, nobody *)
(* touches a file that is in incoming/, and what is there is the file.     *)
(***************************************************************************)
EXTENDS DownloadRun, FiniteSetTheorems, TLAPS

(* The types of the tasks; those of the files are the queue's.             *)
Tasks == {"none", "dial", "transfer", "narrow", "ended", "seen"}

RunShape ==
    /\ job \in Jobs
    /\ pc \in {"idle", "round", "race"}
    /\ task \in [Peers -> Tasks]
    /\ issued \in [Peers -> SUBSET Units]
    /\ expected \in [Peers -> SUBSET Units]
    /\ corrupt \in [Peers -> SUBSET Units]
    /\ later \subseteq Units \X {"good", "bad"}

(* Only a transfer holds ranges.                                           *)
RangesOfTransfers == \A p \in Peers : issued[p] # {} => task[p] = "transfer"

(* A task that narrows knows a block that was bad.                         *)
NarrowsSomething == \A p \in Peers : task[p] = "narrow" => corrupt[p] # {}

(* Tasks live in a race only.                                              *)
LiveInRace == pc # "race" => \A p \in Peers : ~Live(p)

(* finalize takes the part file away for good: this run never adds it.     *)
MovedIsGone == Target \in moved => ~exists[Target]

(* The inductive invariant: what holds of the files, what holds of the     *)
(* tasks, and that the two never meet once the file is in incoming/.       *)
FilesInv == Q!TypeOK /\ MovedIsGone /\ AssembledIsGood
TasksInv == RunShape /\ RangesOfTransfers /\ NarrowsSomething /\ LiveInRace
Inv == FilesInv /\ TasksInv /\ FinalizedIsQuiet

(* Whatever a peer, the throttle or the user does to the files is one call *)
(* of record_block, punch_gaps, pause or resume; run() calls finalize.     *)

LEMMA RecordKeeps ==
    ASSUME FilesInv,
           NEW block \in SUBSET Units, NEW q \in {"good", "bad"},
           Q!RecordBlock(Target, block, q)
    PROVE  FilesInv' /\ UNCHANGED <<moved, exists>>
  BY DEF FilesInv, Q!TypeOK, MovedIsGone, AssembledIsGood, Q!RecordBlock, Q!WriteData, Q!SaveSidecar,
         Q!SetStatus, Q!incomingVars, Q!Content, Q!Quality, Q!Status

LEMMA PunchKeeps ==
    ASSUME FilesInv,
           NEW ranges \in SUBSET Units, Q!PunchGaps(Target, ranges)
    PROVE  FilesInv' /\ UNCHANGED <<moved, exists>>
  BY DEF FilesInv, Q!TypeOK, MovedIsGone, AssembledIsGood, Q!PunchGaps, Q!SaveSidecar,
         Q!SetStatus, Q!incomingVars, Q!Status

LEMMA StatusKeeps ==
    ASSUME FilesInv, Q!Pause(Target) \/ Q!Resume(Target)
    PROVE  FilesInv' /\ UNCHANGED <<moved, exists>>
  BY DEF FilesInv, Q!TypeOK, MovedIsGone, AssembledIsGood, Q!Pause, Q!Resume, Q!SetStatus,
         Q!tempVars, Q!incomingVars, Q!Status

(* finalize is where AssembledIsGood is decided: the part file is hashed   *)
(* before it is moved.                                                     *)
LEMMA FinalizeKeeps ==
    ASSUME FilesInv, Q!Finalize(Target, TRUE)
    PROVE  FilesInv'
  BY DEF FilesInv, Q!TypeOK, MovedIsGone, AssembledIsGood, Q!Finalize, Q!MayFinalize, Q!HashMatches,
         Q!SetStatus, Q!Status, Q!Loadable

LEMMA QueueKeeps ==
    ASSUME FilesInv, UNCHANGED queueVars
    PROVE  FilesInv' /\ UNCHANGED <<moved, exists>>
  BY DEF FilesInv, Q!TypeOK, MovedIsGone, AssembledIsGood, queueVars

(* An attempt that returns frees its ranges, whatever it returns.          *)
LEMMA ReturnKeeps ==
    ASSUME TasksInv, NEW p \in Peers, NEW o, Return(p, o), UNCHANGED <<job, pc, later>>
    PROVE  /\ TasksInv'
           /\ \A q \in Peers : task'[q] \in {"transfer", "narrow"} => task'[q] = task[q]
  BY DEF TasksInv, RunShape, RangesOfTransfers, NarrowsSomething, LiveInRace, Live, Tasks, Return

(* A part is corrupt because a block of it is bad.                         *)
LEMMA CorruptHasBad ==
    ASSUME NEW p \in Peers, CorruptParts(p) # {}
    PROVE  BadBlocks(p) # {} /\ BadBlocks(p) \subseteq Units
<1>1. PICK c : c \in CorruptParts(p)
  OBVIOUS
<1>2. PICK u \in Units : data[Target][u] # "good" /\ Part(u) \in CorruptParts(p)
  BY <1>1 DEF CorruptParts
<1> QED
  BY <1>2 DEF BadBlocks

(* The peers of a race.                                                    *)
LEMMA PeersKeepInv == ASSUME Inv, NEW p \in Peers, PeerStep(p) PROVE Inv'
<1> USE DEF Inv
<1>1. CASE Connect(p)
  <2>1. FilesInv' /\ UNCHANGED moved
    BY <1>1, QueueKeeps DEF Connect
  <2>2. TasksInv'
    BY <1>1 DEF Connect, TasksInv, RunShape, RangesOfTransfers, NarrowsSomething, LiveInRace,
                Live, Tasks
  <2>3. exists[Target]
    BY <1>1 DEF Connect, Q!Loadable
  <2> QED
    BY <2>1, <2>2, <2>3 DEF FilesInv, MovedIsGone, FinalizedIsQuiet
<1>2. CASE Ask(p)
  <2>1. FilesInv' /\ UNCHANGED <<moved, task>>
    BY <1>2, QueueKeeps DEF Ask
  <2>2. PICK S \in SUBSET Free :
           /\ expected' = [expected EXCEPT ![p] = S]
           /\ issued' = [issued EXCEPT ![p] = @ \cup S]
    BY <1>2 DEF Ask
  <2>3. S \subseteq Units
    BY DEF Free, Miss, FilesInv, Q!TypeOK
  <2>4. TasksInv'
    BY <1>2, <2>2, <2>3
       DEF Ask, TasksInv, RunShape, RangesOfTransfers, NarrowsSomething, LiveInRace, Live
  <2> QED
    BY <2>1, <2>4 DEF FinalizedIsQuiet
<1>3. ASSUME NEW u \in Units, NEW q \in {"good", "bad"}, Deliver(p, u, q) PROVE Inv'
  <2>1. FilesInv' /\ UNCHANGED moved
    <3>1. CASE job.throttled
      BY <1>3, <3>1, QueueKeeps DEF Deliver, Persist
    <3>2. CASE ~job.throttled
      <4>1. Q!RecordBlock(Target, {u}, q)
        BY <1>3, <3>2 DEF Deliver, Persist
      <4> QED
        BY <4>1, RecordKeeps
    <3> QED
      BY <3>1, <3>2
  <2>2. later' = later \/ later' = later \cup {<<u, q>>}
    BY <1>3 DEF Deliver, Persist
  <2>3. TasksInv' /\ UNCHANGED task
    BY <1>3, <2>2
       DEF Deliver, TasksInv, RunShape, RangesOfTransfers, NarrowsSomething, LiveInRace, Live
  <2> QED
    BY <2>1, <2>3 DEF FinalizedIsQuiet
<1>4. ASSUME NEW o, Return(p, o), UNCHANGED <<job, pc, later>>, FilesInv', UNCHANGED moved
      PROVE  Inv'
  BY <1>4, ReturnKeeps DEF FinalizedIsQuiet
<1>5. CASE EndTransfer(p) \/ CutTransfer(p) \/ FailAttempt(p)
  <2>1. FilesInv' /\ UNCHANGED moved
    BY <1>5, QueueKeeps DEF EndTransfer, CutTransfer, FailAttempt
  <2> QED
    BY <1>4, <1>5, <2>1 DEF EndTransfer, CutTransfer, FailAttempt
<1>6. CASE PunchParts(p)
  <2> DEFINE punched == UNION {PartUnits(c) : c \in CorruptParts(p)}
  <2>1. punched \in SUBSET Units /\ Q!PunchGaps(Target, punched)
    BY <1>6 DEF PunchParts, PartUnits
  <2> HIDE DEF punched
  <2>2. FilesInv' /\ UNCHANGED moved
    BY <2>1, PunchKeeps
  <2> QED
    BY <1>4, <1>6, <2>2 DEF PunchParts
<1>7. CASE BeginNarrow(p)
  <2>1. FilesInv' /\ UNCHANGED moved
    BY <1>7, QueueKeeps DEF BeginNarrow
  <2>2. BadBlocks(p) # {} /\ BadBlocks(p) \subseteq Units
    BY <1>7, CorruptHasBad DEF BeginNarrow
  <2>3. TasksInv' /\ task[p] = "transfer" /\ task' = [task EXCEPT ![p] = "narrow"]
    BY <1>7, <2>2
       DEF BeginNarrow, TransferOver, TasksInv, RunShape, RangesOfTransfers, NarrowsSomething,
           LiveInRace, Live, Tasks
  <2> QED
    BY <2>1, <2>3 DEF FinalizedIsQuiet, TasksInv, RunShape
<1>8. ASSUME NEW whole \in SUBSET {Part(u) : u \in corrupt[p]}, Narrow(p, whole) PROVE Inv'
  <2> DEFINE punched == corrupt[p] \cup UNION {PartUnits(c) : c \in whole}
  <2>1. punched \in SUBSET Units /\ Q!PunchGaps(Target, punched)
    BY <1>8 DEF Narrow, PartUnits, TasksInv, RunShape
  <2> HIDE DEF punched
  <2>2. FilesInv' /\ UNCHANGED moved
    BY <2>1, PunchKeeps
  <2> QED
    BY <1>4, <1>8, <2>2 DEF Narrow
<1> QED
  BY ONLY PeerStep(p), <1>1, <1>2, <1>3, <1>5, <1>6, <1>7, <1>8 DEF PeerStep

(* run() itself.                                                           *)
LEMMA RunKeepsInv == ASSUME Inv, RunStep PROVE Inv'
<1> USE DEF Inv
<1>1. CASE StartRun \/ EndRun
  <2>1. FilesInv' /\ UNCHANGED <<moved, task>>
    BY <1>1, QueueKeeps DEF StartRun, EndRun
  <2>2. TasksInv'
    BY <1>1 DEF StartRun, EndRun, taskVars, TasksInv, RunShape, RangesOfTransfers,
                NarrowsSomething, LiveInRace, Live
  <2> QED
    BY <2>1, <2>2 DEF FinalizedIsQuiet
<1>2. CASE BeginRound
  <2>1. FilesInv' /\ UNCHANGED moved
    BY <1>2, QueueKeeps DEF BeginRound
  <2>2. \A p \in Peers : ~Live(p) /\ issued[p] = {}
    BY <1>2 DEF BeginRound, TasksInv, LiveInRace, RangesOfTransfers, Live
  <2>3. task' \in [Peers -> {"dial", "none"}]
    BY <1>2 DEF BeginRound
  <2>4. /\ pc' = "race" /\ UNCHANGED <<job, issued, expected, corrupt, later>>
    BY <1>2 DEF BeginRound
  <2>5. TasksInv'
    BY <2>2, <2>3, <2>4
       DEF TasksInv, RunShape, RangesOfTransfers, NarrowsSomething, LiveInRace, Tasks
  <2> QED
    BY <2>1, <2>3, <2>5 DEF FinalizedIsQuiet
<1>3. CASE Win
  <2>1. FilesInv'
    BY <1>3, FinalizeKeeps, QueueKeeps DEF Win
  <2>2. \A p \in Peers : task'[p] = "none"
    BY <1>3 DEF Win
  <2>3. TasksInv'
    BY <1>3, <2>2 DEF Win, TasksInv, RunShape, RangesOfTransfers, NarrowsSomething, LiveInRace,
                      Live, Tasks
  <2> QED
    BY <2>1, <2>2, <2>3 DEF FinalizedIsQuiet
<1>4. CASE Collect
  <2>1. FilesInv' /\ UNCHANGED moved
    BY <1>4, QueueKeeps DEF Collect
  <2>2. /\ task' = [p \in Peers |-> IF task[p] = "ended" THEN "seen" ELSE task[p]]
        /\ pc = "race" /\ UNCHANGED <<job, taskVars, later>>
        /\ pc' = "race" \/ (pc' = "round" /\ ~\E p \in Peers : Live(p))
    BY <1>4 DEF Collect, Woken
  <2>3. TasksInv'
    BY <2>2 DEF taskVars, TasksInv, RunShape, RangesOfTransfers, NarrowsSomething, LiveInRace,
                Live, Tasks
  <2> QED
    BY <2>1, <2>2, <2>3 DEF FinalizedIsQuiet
<1> QED
  BY ONLY RunStep, <1>1, <1>2, <1>3, <1>4 DEF RunStep

(* The user, the throttle, a run that finds nothing to do, and a restart.  *)
LEMMA OthersKeepInv ==
    ASSUME Inv,
           \/ AlreadyComplete \/ PauseDownload \/ ResumeDownload \/ Restart
           \/ \E w \in later : WriteLater(w[1], w[2])
    PROVE  Inv'
<1> USE DEF Inv
<1>1. CASE AlreadyComplete
  <2>1. FilesInv' /\ UNCHANGED <<moved, task>>
    BY <1>1, QueueKeeps DEF AlreadyComplete
  <2>2. TasksInv'
    BY <1>1 DEF AlreadyComplete, taskVars, TasksInv, RunShape, RangesOfTransfers,
                NarrowsSomething, LiveInRace, Live
  <2> QED
    BY <2>1, <2>2 DEF FinalizedIsQuiet
<1>2. CASE PauseDownload \/ ResumeDownload
  <2>1. FilesInv' /\ UNCHANGED <<moved, task>>
    BY <1>2, StatusKeeps DEF PauseDownload, ResumeDownload
  <2>2. TasksInv'
    BY <1>2 DEF PauseDownload, ResumeDownload, taskVars, TasksInv, RunShape, RangesOfTransfers,
                NarrowsSomething, LiveInRace, Live
  <2> QED
    BY <2>1, <2>2 DEF FinalizedIsQuiet
<1>3. CASE Restart
  <2>1. FilesInv'
    BY <1>3, QueueKeeps DEF Restart
  <2>2. \A p \in Peers : task'[p] = "none"
    BY <1>3 DEF Restart
  <2>3. TasksInv'
    BY <1>3, <2>2 DEF Restart, TasksInv, RunShape, RangesOfTransfers, NarrowsSomething,
                      LiveInRace, Live, Tasks
  <2> QED
    BY <2>1, <2>2, <2>3 DEF FinalizedIsQuiet
<1>4. ASSUME NEW w \in later, WriteLater(w[1], w[2]) PROVE Inv'
  <2>1. {w[1]} \in SUBSET Units /\ w[2] \in {"good", "bad"}
    BY DEF TasksInv, RunShape
  <2>2. Q!RecordBlock(Target, {w[1]}, w[2]) \/ UNCHANGED queueVars
    BY <1>4 DEF WriteLater
  <2>3. FilesInv' /\ UNCHANGED moved
    BY ONLY Inv, <2>1, <2>2, RecordKeeps, QueueKeeps
  <2>4. TasksInv' /\ UNCHANGED task
    BY <1>4 DEF WriteLater, taskVars, TasksInv, RunShape, RangesOfTransfers, NarrowsSomething,
                LiveInRace, Live
  <2> QED
    BY <2>3, <2>4 DEF FinalizedIsQuiet
<1> QED
  BY <1>1, <1>2, <1>3, <1>4

LEMMA InvAlways == Spec => []Inv
<1>1. Init => Inv
  <2> SUFFICES ASSUME Init PROVE Inv
    OBVIOUS
  <2>1. FilesInv
    <3>1. job.missing \in SUBSET Units
      BY DownloadRunAssumption DEF Init
    <3>2. /\ missing \in [{Target} -> SUBSET Units]
          /\ data \in [{Target} -> [Units -> Q!Content]]
          /\ row \in [{Target} -> Q!Status \cup {"absent"}]
      BY <3>1 DEF Init, Q!Content, Q!Quality, Q!Status
    <3>3. /\ exists \in [{Target} -> BOOLEAN]
          /\ scState \in [{Target} -> {"none", "ok", "torn"}]
          /\ incoming \in [{Target} -> {Target, NoFile}]
          /\ content \in [{Target} -> [Units -> Q!Content]]
      BY DEF Init, Q!Zeros, Q!Content
    <3> QED
      BY <3>2, <3>3 DEF Init, FilesInv, Q!TypeOK, MovedIsGone, AssembledIsGood
  <2>2. TasksInv
    BY DEF Init, TasksInv, RunShape, RangesOfTransfers, NarrowsSomething, LiveInRace, Live, Tasks
  <2> QED
    BY <2>1, <2>2 DEF Init, Inv, FinalizedIsQuiet
<1>2. Inv /\ [Next]_vars => Inv'
  <2> SUFFICES ASSUME Inv, [Next]_vars PROVE Inv'
    OBVIOUS
  <2>1. CASE UNCHANGED vars
    <3>1. FilesInv' /\ UNCHANGED moved
      BY <2>1, QueueKeeps DEF vars, Inv
    <3>2. TasksInv' /\ UNCHANGED task
      BY <2>1 DEF vars, taskVars, Inv, TasksInv, RunShape, RangesOfTransfers, NarrowsSomething,
                  LiveInRace, Live
    <3> QED
      BY <3>1, <3>2 DEF Inv, FinalizedIsQuiet
  <2> QED
    BY <2>1, PeersKeepInv, RunKeepsInv, OthersKeepInv DEF Next
<1> QED
  BY <1>1, <1>2, PTL DEF Spec

(* runner.py:1581-1582: the winner takes the file, and from then on no     *)
(* peer of this run or a later one writes to it or punches it.             *)
THEOREM NobodyTouchesAssembled == Spec => []FinalizedIsQuiet
<1>1. Inv => FinalizedIsQuiet
  BY DEF Inv
<1> QED
  BY <1>1, InvAlways, PTL

(* runner.py:1092-1094: between two runs no task is left and no range is   *)
(* registered, for any number of peers and however each attempt ended.     *)
THEOREM RunsLeaveNothing == Spec => []IdleIsClean
<1>1. Inv => IdleIsClean
  BY DEF Inv, TasksInv, RangesOfTransfers, LiveInRace, IdleIsClean, Live
<1> QED
  BY <1>1, InvAlways, PTL

(* README.md:141: whatever peers send, punch and write late, a file in     *)
(* incoming/ is the file whose hash was asked for.                         *)
THEOREM AssembledIsTheFile == Spec => []AssembledIsGood
<1>1. Inv => AssembledIsGood
  BY DEF Inv, FilesInv
<1> QED
  BY <1>1, InvAlways, PTL

-----------------------------------------------------------------------------
(* Regions: the shares of a set of offsets, by the ranks of the offsets.   *)

(* The missing offsets below o.                                            *)
Below(S, o) == {q \in S : q < o}
Rank(S, o) == Cardinality(Below(S, o))

(* Offsets are ranked in their order.                                      *)
LEMMA RankGrows ==
    ASSUME NEW S \in SUBSET Nat, IsFiniteSet(S), NEW a \in S, NEW b \in S
    PROVE  /\ Rank(S, a) \in 0 .. Cardinality(S) - 1
           /\ a < b <=> Rank(S, a) < Rank(S, b)
<1>1. \A o \in S : /\ IsFiniteSet(Below(S, o)) /\ Rank(S, o) \in Nat
                   /\ Rank(S, o) < Cardinality(S)
  <2> TAKE o \in S
  <2>1. Below(S, o) \subseteq S \ {o}
    BY DEF Below
  <2>2. IsFiniteSet(S \ {o}) /\ Cardinality(S \ {o}) = Cardinality(S) - 1
    BY FS_RemoveElement
  <2>3. IsFiniteSet(Below(S, o)) /\ Cardinality(Below(S, o)) <= Cardinality(S) - 1
    BY <2>1, <2>2, FS_Subset
  <2> QED
    BY <2>3, FS_CardinalityType DEF Rank
<1>2. \A x, y \in S : x < y => Rank(S, x) < Rank(S, y)
  <2> SUFFICES ASSUME NEW x \in S, NEW y \in S, x < y PROVE Rank(S, x) < Rank(S, y)
    OBVIOUS
  <2>0. S \subseteq Nat /\ x \in Nat /\ y \in Nat
    OBVIOUS
  <2>1. Below(S, x) \cup {x} \subseteq Below(S, y) /\ x \notin Below(S, x)
    <3>1. \A z \in Below(S, x) : z \in Nat /\ z \in S /\ z < x
      BY <2>0 DEF Below
    <3>2. \A z \in Below(S, x) : z < y
      BY <3>1, <2>0
    <3>3. \A z \in Below(S, x) \cup {x} : z \in S /\ z < y
      BY <3>1, <3>2, <2>0
    <3>4. Below(S, x) \cup {x} \subseteq Below(S, y)
      BY <3>3 DEF Below
    <3>5. ~(x < x)
      BY <2>0
    <3>6. x \notin Below(S, x)
      BY <3>5 DEF Below
    <3> QED
      BY <3>4, <3>6
  <2>2. Cardinality(Below(S, x) \cup {x}) = Rank(S, x) + 1
    BY <1>1, <2>1, FS_AddElement DEF Rank
  <2>3. Cardinality(Below(S, x) \cup {x}) <= Rank(S, y)
    BY <1>1, <2>1, FS_Subset DEF Rank
  <2> QED
    BY <1>1, <2>2, <2>3
<1>3. Cardinality(S) \in Nat
  BY FS_CardinalityType
<1> QED
  BY <1>1, <1>2, <1>3

(* Every rank is taken: the ranks of n offsets are n different numbers     *)
(* below n.                                                                *)
LEMMA NthExists ==
    ASSUME NEW S \in SUBSET Nat, IsFiniteSet(S), NEW k \in 0 .. Cardinality(S) - 1
    PROVE  \E o \in S : Rank(S, o) = k
<1> SUFFICES ASSUME \A o \in S : Rank(S, o) # k PROVE FALSE
  OBVIOUS
<1> DEFINE I == 0 .. Cardinality(S) - 1
           T == I \ {k}
           r == [o \in S |-> Rank(S, o)]
<1>1. Cardinality(S) \in Nat
  BY FS_CardinalityType
<1>2. IsFiniteSet(I) /\ Cardinality(I) = Cardinality(S) /\ k \in I
  BY <1>1, FS_Interval
<1>3. IsFiniteSet(T) /\ Cardinality(T) < Cardinality(S)
  <2>1. IsFiniteSet(I \ {k}) /\ Cardinality(I \ {k}) = Cardinality(I) - 1
    <3> HIDE DEF I
    <3> QED BY <1>2, FS_RemoveElement
  <2> QED
    BY <1>1, <1>2, <2>1
<1>4. r \in [S -> T]
  BY RankGrows
<1>5. PICK x \in S, y \in S : x # y /\ r[x] = r[y]
  <2> HIDE DEF T, r
  <2> QED BY <1>3, <1>4, FS_PigeonHole
<1>6. x < y \/ y < x
  BY <1>5
<1>7. Rank(S, x) \in Nat /\ Rank(S, y) \in Nat /\ Rank(S, x) = Rank(S, y)
  BY <1>5, RankGrows
<1> QED
  BY <1>6, <1>7, RankGrows

LEMMA NthIs ==
    ASSUME NEW S \in SUBSET Nat, IsFiniteSet(S), NEW k \in 0 .. Cardinality(S) - 1
    PROVE  Nth(S, k) \in S /\ Rank(S, Nth(S, k)) = k
<1>1. \E o \in S : Cardinality({q \in S : q < o}) = k
  BY NthExists DEF Rank, Below
<1> QED
  BY <1>1 DEF Nth, Rank, Below

LEMMA MaxIs ==
    ASSUME NEW S \in SUBSET Nat, IsFiniteSet(S), S # {}
    PROVE  Max(S) \in S /\ \A o \in S : o <= Max(S)
<1>1. Cardinality(S) \in Nat \ {0}
  BY FS_CardinalityType, FS_EmptySet
<1> DEFINE m == Nth(S, Cardinality(S) - 1)
<1>2. m \in S /\ Rank(S, m) = Cardinality(S) - 1
  BY <1>1, NthIs
<1> HIDE DEF m
<1>3. \A o \in S : o <= m
  BY <1>1, <1>2, RankGrows
<1> QED
  BY <1>2, <1>3 DEF Max

LEMMA DivIs ==
    ASSUME NEW a \in Nat, NEW n \in Nat \ {0}
    PROVE  a \div n \in Nat /\ (a \div n) * n <= a /\ a < (a \div n + 1) * n
  OBVIOUS

LEMMA Cancels ==
    ASSUME NEW a \in Nat, NEW b \in Nat, NEW h \in Nat, a * h < b * h
    PROVE  a < b
  OBVIOUS

LEMMA Scales ==
    ASSUME NEW a \in Nat, NEW b \in Nat, NEW h \in Nat, a <= b
    PROVE  a * h <= b * h
  OBVIOUS

(* runner.py:202-207: the regions are disjoint, together they hold every   *)
(* missing offset, and none reaches beyond the gaps.                       *)
LEMMA SharesPartition ==
    ASSUME NEW S \in SUBSET Nat, IsFiniteSet(S), NEW n \in Nat \ {0}
    PROVE  /\ \A i \in 1 .. n : \A o \in Share(S, n, i) :
                  o \in Nat /\ \E a, b \in S : a <= o /\ o <= b
           /\ \A o \in S : \E i \in 1 .. n : o \in Share(S, n, i)
           /\ \A i, j \in 1 .. n : i < j => Share(S, n, i) \cap Share(S, n, j) = {}
<1> DEFINE c == Cardinality(S)
           h == ShareSize(c, n)
           from(i) == Nth(S, (i - 1) * h)
           Starts(i) == (i - 1) * h < c
           upto(i) == IF i * h < c THEN Nth(S, i * h) - 1 ELSE Max(S)
<1>0. /\ \A o \in S : o \in Nat /\ o \in Int
      /\ \A i \in 1 .. n : i \in Nat /\ 1 <= i /\ i <= n /\ i - 1 \in Nat
  OBVIOUS
<1>1. c \in Nat /\ h \in Nat /\ c <= n * h
  <2>1. c \in Nat
    BY FS_CardinalityType
  <2>2. c + n - 1 \in Nat
    BY <2>1
  <2>3. h \in Nat /\ c + n - 1 < (h + 1) * n
    BY <2>2, DivIs DEF ShareSize
  <2>4. (h + 1) * n = n * h + n
    BY <2>3
  <2> QED
    BY <2>1, <2>3, <2>4
<1>2. \A k \in Nat : k < c => Nth(S, k) \in S /\ Rank(S, Nth(S, k)) = k
  BY <1>1, NthIs
<1>3. S # {} => Max(S) \in S /\ \A o \in S : o <= Max(S)
  BY MaxIs
<1>4. \A i \in 1 .. n : (i - 1) * h \in Nat /\ i * h \in Nat /\ (i - 1) * h <= i * h
  BY <1>1
<1>5. \A i \in 1 .. n :
         Share(S, n, i) = IF (i - 1) * h >= c THEN {} ELSE from(i) .. upto(i)
  BY DEF Share
<1>5a. \A i \in 1 .. n : Share(S, n, i) = IF Starts(i) THEN from(i) .. upto(i) ELSE {}
  BY <1>1, <1>4, <1>5
<1> HIDE DEF c, h
<1>6. S = {} => c = 0
  BY FS_EmptySet DEF c
<1>7. \A i \in 1 .. n : Starts(i) => from(i) \in S /\ upto(i) \in Int
                                     /\ \E b \in S : upto(i) <= b
  <2> SUFFICES ASSUME NEW i \in 1 .. n, Starts(i)
               PROVE  from(i) \in S /\ upto(i) \in Int /\ \E b \in S : upto(i) <= b
    OBVIOUS
  <2>1. from(i) \in S /\ S # {}
    BY <1>1, <1>2, <1>4
  <2>2. CASE i * h < c
    <3>1. Nth(S, i * h) \in S
      BY <2>2, <1>2, <1>4
    <3>2. Nth(S, i * h) \in Nat
      BY <3>1, <1>0
    <3>3. upto(i) = Nth(S, i * h) - 1
      BY <2>2
    <3>4. upto(i) \in Int /\ upto(i) <= Nth(S, i * h)
      BY <3>2, <3>3
    <3> QED
      BY <2>1, <3>1, <3>4
  <2>3. CASE ~(i * h < c)
    <3>1. Max(S) \in S /\ Max(S) \in Int /\ Max(S) <= Max(S)
      BY <2>1, <1>0, <1>3
    <3>2. upto(i) = Max(S)
      BY <2>3
    <3> QED
      BY <2>1, <3>1, <3>2
  <2> QED
    BY <2>2, <2>3
<1> HIDE DEF from, upto
<1>8. ASSUME NEW i \in 1 .. n, NEW o \in Share(S, n, i)
      PROVE  o \in Nat /\ \E a, b \in S : a <= o /\ o <= b
  <2>1. Starts(i) /\ o \in from(i) .. upto(i)
    BY <1>5a
  <2>2. from(i) \in S /\ upto(i) \in Int
    BY <2>1, <1>7
  <2>3. PICK b \in S : upto(i) <= b
    BY <2>1, <1>7
  <2>4. o \in Nat /\ from(i) <= o /\ o <= b
    <3>1. from(i) \in Nat /\ b \in Nat
      BY <2>2, <1>0
    <3> HIDE DEF Starts
    <3> QED
      BY <2>1, <2>2, <2>3, <3>1
  <2> QED
    BY <2>2, <2>4
<1>9. ASSUME NEW o \in S
      PROVE  \E i \in 1 .. n : o \in Share(S, n, i)
  <2> DEFINE r == Rank(S, o)
             i == r \div h + 1
  <2>1. r \in Nat /\ r < c
    BY <1>1, RankGrows DEF c
  <2>2. h \in Nat \ {0}
    BY <1>1, <2>1
  <2> HIDE DEF r
  <2>3. r \div h \in Nat /\ (r \div h) * h <= r /\ r < (r \div h + 1) * h
    BY <2>1, <2>2, DivIs
  <2>4. r \div h < n
    <3>1. (r \div h) * h < n * h
      BY <1>1, <2>1, <2>3
    <3> QED
      BY <3>1, <2>2, <2>3, Cancels
  <2>5. i \in 1 .. n /\ i - 1 = r \div h
    BY <2>3, <2>4
  <2>6. (i - 1) * h <= r /\ r < i * h /\ (i - 1) * h \in Nat /\ i * h \in Nat
    BY <2>3, <2>5, <1>4
  <2> HIDE DEF i
  <2>7. Starts(i)
    BY <1>1, <2>1, <2>6
  <2>8. from(i) \in S /\ from(i) <= o
    <3>1. from(i) \in S /\ Rank(S, from(i)) = (i - 1) * h
      BY <1>2, <2>6, <2>7 DEF from
    <3>2. ~(Rank(S, o) < Rank(S, from(i)))
      BY <3>1, <2>1, <2>6 DEF r
    <3>3. ~(o < from(i))
      BY <3>1, <3>2, RankGrows
    <3>4. from(i) \in Nat /\ o \in Nat
      BY <3>1, <1>0
    <3> QED
      BY <3>1, <3>3, <3>4
  <2>9. o <= upto(i)
    <3>1. CASE i * h < c
      <4>1. Nth(S, i * h) \in S /\ Rank(S, Nth(S, i * h)) = i * h
        BY <1>2, <2>6, <3>1
      <4>2. Rank(S, o) < Rank(S, Nth(S, i * h))
        BY <4>1, <2>6 DEF r
      <4>3. o < Nth(S, i * h)
        BY <4>1, <4>2, RankGrows
      <4>4. Nth(S, i * h) \in Nat /\ o \in Nat
        BY <4>1, <1>0
      <4>5. upto(i) = Nth(S, i * h) - 1
        BY <3>1 DEF upto
      <4> QED
        BY <4>3, <4>4, <4>5
    <3>2. CASE ~(i * h < c)
      BY <3>2, <1>3 DEF upto
    <3> QED
      BY <3>1, <3>2
  <2>10. o \in Share(S, n, i)
    <3>1. upto(i) \in Int
      BY <1>7, <2>5, <2>7
    <3>2. from(i) \in Int /\ o \in Int
      BY <2>8, <1>0
    <3>3. o \in from(i) .. upto(i)
      BY <3>1, <3>2, <2>8, <2>9
    <3> QED
      BY <3>3, <1>5a, <2>5, <2>7
  <2> QED
    BY <2>5, <2>10
<1>10. ASSUME NEW i \in 1 .. n, NEW j \in 1 .. n, i < j
       PROVE  Share(S, n, i) \cap Share(S, n, j) = {}
  <2> SUFFICES ASSUME NEW o \in Share(S, n, i), o \in Share(S, n, j) PROVE FALSE
    OBVIOUS
  <2>1. Starts(i) /\ o \in from(i) .. upto(i)
    BY <1>5a
  <2>2. Starts(j) /\ o \in from(j) .. upto(j)
    BY <1>5a
  <2>3. i * h <= (j - 1) * h
    <3>1. i \in Nat /\ j - 1 \in Nat /\ i <= j - 1
      BY <1>10
    <3> QED
      BY <1>1, <3>1, Scales
  <2>4. i * h < c /\ i * h \in Nat /\ (j - 1) * h \in Nat
    BY <1>1, <1>4, <2>2, <2>3
  <2>5. Nth(S, i * h) \in S /\ Rank(S, Nth(S, i * h)) = i * h /\ upto(i) = Nth(S, i * h) - 1
    BY <1>2, <2>4 DEF upto
  <2>6. from(j) \in S /\ Rank(S, from(j)) = (j - 1) * h
    BY <1>2, <2>2, <2>4 DEF from
  <2>7. ~(from(j) < Nth(S, i * h))
    <3>1. ~(Rank(S, from(j)) < Rank(S, Nth(S, i * h)))
      BY <2>3, <2>4, <2>5, <2>6
    <3> QED
      BY <3>1, <2>5, <2>6, RankGrows
  <2>8. from(i) \in Int /\ from(j) \in Int /\ upto(j) \in Int /\ Nth(S, i * h) \in Int
    BY <2>1, <2>2, <2>5, <2>6, <1>0, <1>7
  <2>9. upto(i) \in Int
    BY <2>5, <2>8
  <2> HIDE DEF Starts
  <2>10. o \in Int /\ o <= upto(i) /\ from(j) <= o
    BY <2>1, <2>2, <2>8, <2>9
  <2> QED
    BY <2>5, <2>7, <2>8, <2>9, <2>10
<1> QED
  BY <1>8, <1>9, <1>10

-----------------------------------------------------------------------------
(* The active peers are numbered without gaps.                             *)
LEMMA PlacesAre ==
    ASSUME active \subseteq Peers
    PROVE  /\ IsFiniteSet(active) /\ Cardinality(active) \in Nat
           /\ active # {} => Cardinality(active) \in Nat \ {0}
           /\ \A p \in active : Place(p) \in 1 .. Cardinality(active)
           /\ \A p, q \in active : p < q => Place(p) < Place(q)
           /\ \A i \in 1 .. Cardinality(active) : \E p \in active : Place(p) = i
<1> DEFINE A == active
<1>1. A \in SUBSET Nat /\ IsFiniteSet(A) /\ Cardinality(A) \in Nat
  BY DownloadRunAssumption, FS_Subset, FS_CardinalityType
<1>2. A # {} => Cardinality(A) # 0
  BY <1>1, FS_EmptySet
<1>3. ASSUME NEW p \in A PROVE Place(p) = Rank(A, p) + 1
  <2>1. p \in Nat /\ \A q \in A : q \in Nat
    BY <1>1, <1>3
  <2>2. {q \in A : q <= p} = Below(A, p) \cup {p}
    <3>1. \A q \in A : q <= p <=> q < p \/ q = p
      BY <2>1
    <3> HIDE DEF A
    <3> QED
      BY <3>1, <1>3 DEF Below
  <2>3. ~(p < p)
    BY <2>1
  <2>4. p \notin Below(A, p)
    BY <2>3 DEF Below
  <2>5. Below(A, p) \subseteq A
    BY DEF Below
  <2>6. IsFiniteSet(Below(A, p))
    BY <1>1, <2>5, FS_Subset
  <2>7. Cardinality(Below(A, p) \cup {p}) = Cardinality(Below(A, p)) + 1
    BY <2>4, <2>6, FS_AddElement
  <2> QED
    BY <2>2, <2>7 DEF Place, Rank
<1> HIDE DEF A
<1>4. ASSUME NEW p \in A PROVE Rank(A, p) \in 0 .. Cardinality(A) - 1
  BY <1>1, RankGrows
<1>5. \A p \in A : Place(p) \in 1 .. Cardinality(A)
  BY <1>1, <1>3, <1>4
<1>6. ASSUME NEW p \in A, NEW q \in A, p < q PROVE Place(p) < Place(q)
  <2>1. Rank(A, p) < Rank(A, q)
    BY <1>1, <1>6, RankGrows
  <2>2. Rank(A, p) \in Nat /\ Rank(A, q) \in Nat
    BY <1>1, <1>4
  <2> QED
    BY <1>3, <2>1, <2>2
<1>7. ASSUME NEW i \in 1 .. Cardinality(A) PROVE \E p \in A : Place(p) = i
  <2>1. i - 1 \in 0 .. Cardinality(A) - 1
    BY <1>1
  <2>2. PICK p \in A : Rank(A, p) = i - 1
    BY <1>1, <2>1, NthExists
  <2>3. Place(p) = i - 1 + 1
    BY <1>3, <2>2
  <2> QED
    BY <2>3
<1> QED
  BY <1>1, <1>2, <1>5, <1>6, <1>7 DEF A

(* What the regions of a round are.                                        *)
LEMMA RegionsAre ==
    ASSUME TypeOK, active # {}
    PROVE  /\ \A p \in active : RegionOf(p) \subseteq Units
           /\ GapsOfRound \subseteq UNION {RegionOf(p) : p \in active}
           /\ \A p, q \in active : p # q => RegionOf(p) \cap RegionOf(q) = {}
<1> DEFINE S == GapsOfRound
           n == Cardinality(active)
<1>1. active \subseteq Peers /\ S \subseteq Units
  BY DEF TypeOK, Q!TypeOK, GapsOfRound, Miss
<1>2. S \in SUBSET Nat /\ IsFiniteSet(S)
  <2>1. \A u \in Units : u \in Nat
    <3> DEFINE top == Cardinality(Units)
    <3>1. Units = 0 .. top - 1 /\ top \in Nat
      BY DownloadRunAssumption, FS_CardinalityType
    <3> HIDE DEF top
    <3> QED
      BY <3>1
  <2>2. IsFiniteSet(Units)
    BY DownloadRunAssumption
  <2> HIDE DEF S
  <2> QED
    BY <1>1, <2>1, <2>2, FS_Subset
<1>3. n \in Nat \ {0} /\ \A p \in active : Place(p) \in 1 .. n
  BY <1>1, PlacesAre
<1>4. \A p \in active : RegionOf(p) = Share(S, n, Place(p))
  BY DEF RegionOf
<1> HIDE DEF S, n
<1>5. /\ \A i \in 1 .. n : \A o \in Share(S, n, i) :
            o \in Nat /\ \E a, b \in S : a <= o /\ o <= b
      /\ \A o \in S : \E i \in 1 .. n : o \in Share(S, n, i)
      /\ \A i, j \in 1 .. n : i < j => Share(S, n, i) \cap Share(S, n, j) = {}
  BY <1>2, <1>3, SharesPartition
<1>6. ASSUME NEW p \in active, NEW o \in RegionOf(p) PROVE o \in Units
  <2>1. o \in Share(S, n, Place(p))
    BY <1>4
  <2>2. o \in Nat /\ \E b \in S : o <= b
    BY <1>3, <1>5, <2>1
  <2>3. PICK b \in S : o <= b
    BY <2>2
  <2>4. b \in Units
    BY <1>1
  <2> DEFINE top == Cardinality(Units)
  <2>5. Units = 0 .. top - 1 /\ top \in Nat
    BY DownloadRunAssumption, FS_CardinalityType
  <2> HIDE DEF top
  <2> QED
    BY <2>2, <2>3, <2>4, <2>5
<1>7. ASSUME NEW o \in S PROVE \E p \in active : o \in RegionOf(p)
  <2>1. PICK i \in 1 .. n : o \in Share(S, n, i)
    BY <1>5
  <2>2. PICK p \in active : Place(p) = i
    BY <1>1, PlacesAre DEF n
  <2> QED
    BY <1>4, <2>1, <2>2
<1>8. ASSUME NEW p \in active, NEW q \in active, p # q
      PROVE  RegionOf(p) \cap RegionOf(q) = {}
  <2>1. p \in Nat /\ q \in Nat
    BY <1>1, DownloadRunAssumption
  <2>2. p < q \/ q < p
    BY <1>8, <2>1
  <2>3. Place(p) < Place(q) \/ Place(q) < Place(p)
    BY <1>1, <2>2, PlacesAre
  <2>4. \/ Share(S, n, Place(p)) \cap Share(S, n, Place(q)) = {}
        \/ Share(S, n, Place(q)) \cap Share(S, n, Place(p)) = {}
    BY <1>3, <1>5, <2>3
  <2> QED
    BY <1>4, <2>4
<1> QED
  BY <1>6, <1>7, <1>8 DEF S

(* runner.py:202-207: two tasks of a round never get the same offset.      *)
RegionsApart == \A p, q \in Peers : p # q => region[p] \cap region[q] = {}

(* A race has a round to count.                                            *)
RoundsLeft == pc = "race" => round < MaxRounds

ShapeInv == TypeOK /\ RegionsApart /\ RoundsLeft

LEMMA ShapeKept == ASSUME Inv, Inv', ShapeInv, [Next]_vars PROVE ShapeInv'
<1> USE DEF ShapeInv
<1> DEFINE Rest == /\ result \in {"none", "already_complete", "incomplete", "complete", "error"}
                   /\ active \subseteq Peers
                   /\ region \in [Peers -> SUBSET Units]
                   /\ ics \in [Peers -> BOOLEAN]
                   /\ got \in [Peers -> Nat]
                   /\ outcome \in [Peers -> Outcome]
<1>1. ASSUME Rest', (round \in 0 .. MaxRounds)', RegionsApart', RoundsLeft' PROVE ShapeInv'
  BY <1>1 DEF Inv, FilesInv, TasksInv, RunShape, Tasks, TypeOK
<1>2. Rest /\ round \in 0 .. MaxRounds /\ RegionsApart /\ RoundsLeft
  BY DEF TypeOK
<1>3. ASSUME Rest', UNCHANGED <<pc, round, region>> PROVE ShapeInv'
  BY <1>1, <1>2, <1>3 DEF RegionsApart, RoundsLeft
<1>4. ASSUME NEW p \in Peers, PeerStep(p) PROVE ShapeInv'
  <2>1. CASE Connect(p) \/ Ask(p) \/ BeginNarrow(p)
    <3>1. UNCHANGED <<result, pc, round, active, region, got, outcome>>
      BY <2>1 DEF Connect, Ask, BeginNarrow
    <3>2. ics' \in [Peers -> BOOLEAN]
      BY <2>1, <1>2 DEF Connect, Ask, BeginNarrow
    <3> QED
      BY <1>2, <1>3, <3>1, <3>2
  <2>2. ASSUME NEW u \in Units, NEW q \in {"good", "bad"}, Deliver(p, u, q) PROVE ShapeInv'
    <3>1. /\ UNCHANGED <<result, pc, round, active, region, ics, outcome>>
          /\ got' \in [Peers -> Nat]
      BY <2>2, <1>2 DEF Deliver
    <3> QED
      BY <1>2, <1>3, <3>1
  <2>3. ASSUME NEW o \in Outcome, Return(p, o),
               UNCHANGED <<result, pc, round, active, region, ics, got>>
        PROVE  ShapeInv'
    <3>1. outcome' \in [Peers -> Outcome]
      BY <2>3, <1>2 DEF Return
    <3> QED
      BY <1>2, <1>3, <2>3, <3>1
  <2>4. CASE \/ EndTransfer(p) \/ PunchParts(p) \/ CutTransfer(p) \/ FailAttempt(p)
            \/ \E whole \in SUBSET {Part(u) : u \in corrupt[p]} : Narrow(p, whole)
    <3>1. /\ UNCHANGED <<result, pc, round, active, region, ics, got>>
          /\ \/ Return(p, Nothing)
             \/ Return(p, [bytes |-> got[p] > 0, complete |-> Complete(p)])
             \/ Return(p, [bytes |-> got[p] > 0, complete |-> FALSE])
      BY <2>4 DEF EndTransfer, PunchParts, CutTransfer, FailAttempt, Narrow
    <3>2. (got[p] > 0) \in BOOLEAN /\ Complete(p) \in BOOLEAN
      BY DEF Complete
    <3>3. /\ Nothing \in Outcome
          /\ [bytes |-> got[p] > 0, complete |-> Complete(p)] \in Outcome
          /\ [bytes |-> got[p] > 0, complete |-> FALSE] \in Outcome
      BY <3>2 DEF Nothing, Outcome
    <3> QED
      BY <2>3, <3>1, <3>3
  <2> QED
    BY ONLY PeerStep(p), <2>1, <2>2, <2>4 DEF PeerStep
<1>5. CASE StartRun
  <2>1. job.sources \subseteq Peers
    BY DownloadRunAssumption DEF TypeOK
  <2>2. Rest' /\ round' = 0 /\ pc' = "round" /\ UNCHANGED region
    BY <1>2, <1>5, <2>1 DEF StartRun, taskVars
  <2>3. 0 \in 0 .. MaxRounds
    BY DownloadRunAssumption
  <2> QED
    BY <1>1, <1>2, <2>2, <2>3 DEF RegionsApart, RoundsLeft
<1>6. CASE EndRun \/ AlreadyComplete
  <2>1. Rest' /\ UNCHANGED <<round, region>> /\ pc' = "idle"
    BY <1>2, <1>6 DEF EndRun, AlreadyComplete, taskVars
  <2> QED
    BY <1>1, <1>2, <2>1 DEF RegionsApart, RoundsLeft
<1>7. CASE BeginRound
  <2>1. /\ active # {} /\ round # MaxRounds
        /\ UNCHANGED <<result, round, active>>
        /\ ics' = [p \in Peers |-> FALSE]
        /\ got' = [p \in Peers |-> 0]
        /\ outcome' = [p \in Peers |-> Nothing]
        /\ region' = [p \in Peers |-> IF p \in active THEN RegionOf(p) ELSE {}]
    BY <1>7 DEF BeginRound, RunOver
  <2>2. /\ \A p \in active : RegionOf(p) \subseteq Units
        /\ \A p, q \in active : p # q => RegionOf(p) \cap RegionOf(q) = {}
    BY <2>1, RegionsAre
  <2>3. region' \in [Peers -> SUBSET Units]
    BY <2>1, <2>2
  <2>4. RegionsApart'
    BY <2>1, <2>2 DEF RegionsApart
  <2>5. Rest'
    BY <1>2, <2>1, <2>3 DEF Nothing, Outcome
  <2>6. round < MaxRounds
    BY <1>2, <2>1, DownloadRunAssumption
  <2> QED
    BY <1>1, <1>2, <2>1, <2>4, <2>5, <2>6 DEF RoundsLeft
<1>8. CASE Win
  <2>1. Rest' /\ UNCHANGED <<round, region>> /\ pc' = "idle"
    BY <1>2, <1>8 DEF Win
  <2> QED
    BY <1>1, <1>2, <2>1 DEF RegionsApart, RoundsLeft
<1>9. CASE Collect
  <2>1. /\ UNCHANGED <<result, taskVars>> /\ pc = "race"
        /\ \/ UNCHANGED <<pc, round, active>>
           \/ pc' = "round" /\ round' = round + 1 /\ active' \subseteq active
    BY <1>9 DEF Collect, Woken
  <2>2. Rest' /\ UNCHANGED region
    BY <1>2, <2>1 DEF taskVars
  <2>3. (round \in 0 .. MaxRounds)'
    BY <1>2, <2>1, DownloadRunAssumption DEF RoundsLeft
  <2> QED
    BY <1>1, <1>2, <2>1, <2>2, <2>3 DEF RegionsApart, RoundsLeft
<1>10. CASE PauseDownload \/ ResumeDownload \/ \E w \in later : WriteLater(w[1], w[2])
  <2>1. UNCHANGED <<pc, result, round, active, taskVars>>
    BY <1>10 DEF PauseDownload, ResumeDownload, WriteLater
  <2> QED
    BY <1>2, <1>3, <2>1 DEF taskVars
<1>11. CASE Restart
  <2>1. /\ Rest' /\ round' = 0 /\ pc' = "idle"
        /\ region' = [p \in Peers |-> {}]
    BY <1>11 DEF Restart, Nothing, Outcome
  <2>2. 0 \in 0 .. MaxRounds
    BY DownloadRunAssumption
  <2> QED
    BY <1>1, <2>1, <2>2 DEF RegionsApart, RoundsLeft
<1>12. CASE UNCHANGED vars
  <2>1. UNCHANGED <<pc, result, round, active, taskVars>>
    BY <1>12 DEF vars
  <2> QED
    BY <1>2, <1>3, <2>1 DEF taskVars
<1> QED
  BY ONLY [Next]_vars, <1>4, <1>5, <1>6, <1>7, <1>8, <1>9, <1>10, <1>11, <1>12 DEF Next, RunStep

LEMMA ShapeAlways == Spec => []ShapeInv
<1>1. Init /\ Inv => ShapeInv
  <2> SUFFICES ASSUME Init, Inv PROVE ShapeInv
    OBVIOUS
  <2>1. round \in 0 .. MaxRounds /\ round = 0 /\ pc = "idle"
    BY DownloadRunAssumption DEF Init
  <2>2. /\ region \in [Peers -> SUBSET Units] /\ RegionsApart
        /\ outcome \in [Peers -> Outcome]
        /\ ics \in [Peers -> BOOLEAN] /\ got \in [Peers -> Nat]
        /\ result = "none" /\ active = {}
    BY DEF Init, RegionsApart, Nothing, Outcome
  <2> QED
    BY <2>1, <2>2 DEF ShapeInv, TypeOK, RoundsLeft, Inv, FilesInv, TasksInv, RunShape, Tasks
<1>2. Inv /\ Inv' /\ ShapeInv /\ [Next]_vars => ShapeInv'
  BY ShapeKept
<1> QED
  BY <1>1, <1>2, InvAlways, PTL DEF Spec

(* The run and the files under it keep their shape for any number of       *)
(* peers, blocks and rounds; in particular max_rounds is never passed and  *)
(* every region lies within the file.                                      *)
THEOREM RunTypeCorrect == Spec => []TypeOK
<1>1. ShapeInv => TypeOK
  BY DEF ShapeInv
<1> QED
  BY <1>1, ShapeAlways, PTL

(* runner.py:1533-1544: a round leaves no missing byte without a task and  *)
(* gives none to two tasks, whichever peers are left of the race.          *)
THEOREM RoundsCoverTheGaps ==
    Spec => /\ []RegionsApart
            /\ [][BeginRound => GapsOfRound \subseteq UNION {region'[p] : p \in Peers}]_vars
<1>1. ShapeInv => RegionsApart
  BY DEF ShapeInv
<1>2. ShapeInv => (BeginRound => GapsOfRound \subseteq UNION {region'[p] : p \in Peers})
  <2> SUFFICES ASSUME ShapeInv, BeginRound
               PROVE  GapsOfRound \subseteq UNION {region'[p] : p \in Peers}
    OBVIOUS
  <2>1. active # {} /\ active \subseteq Peers
    BY DEF BeginRound, RunOver, ShapeInv, TypeOK
  <2>2. GapsOfRound \subseteq UNION {RegionOf(p) : p \in active}
    BY <2>1, RegionsAre DEF ShapeInv
  <2>3. \A p \in active : region'[p] = RegionOf(p)
    BY <2>1 DEF BeginRound
  <2> QED
    BY <2>1, <2>2, <2>3
<1> QED
  BY <1>1, <1>2, ShapeAlways, PTL

-----------------------------------------------------------------------------
(* The race and the queue.  P is the instance of the queue of which the    *)
(* theorems of DownloadQueueProofs speak; it is Q.                         *)
P == INSTANCE DownloadQueueProofs WITH
    Files <- {Target}, Names <- {Target}, NameOf <- [f \in {Target} |-> Target],
    Sparse <- FALSE, SameVolume <- TRUE, VerifyChoices <- {TRUE}

LEMMA QueueConstants == P!DownloadQueueAssumption
  BY DownloadRunAssumption DEF P!DownloadQueueAssumption

LEMMA SameQueueStep == [Q!Next]_(Q!vars) <=> [P!Next]_(P!vars)
  BY DEF Q!Next, P!Next, Q!vars, P!vars, Q!Method, P!Method, Q!Crash, P!Crash, Q!Add, P!Add,
         Q!Start, P!Start, Q!Pause, P!Pause, Q!Resume, P!Resume, Q!Cancel, P!Cancel,
         Q!RecordBlock, P!RecordBlock, Q!PunchGaps, P!PunchGaps, Q!Finalize, P!Finalize,
         Q!CrashInAdd, P!CrashInAdd, Q!CrashInRecordBlock, P!CrashInRecordBlock,
         Q!CrashInPunchGaps, P!CrashInPunchGaps, Q!CrashInCancel, P!CrashInCancel,
         Q!CrashInFinalize, P!CrashInFinalize, Q!CreatePart, P!CreatePart,
         Q!WriteData, P!WriteData, Q!SaveSidecar, P!SaveSidecar, Q!TearSidecar, P!TearSidecar,
         Q!SetStatus, P!SetStatus, Q!MayFinalize, P!MayFinalize, Q!Loadable, P!Loadable,
         Q!HashMatches, P!HashMatches, Q!tempVars, P!tempVars,
         Q!incomingVars, P!incomingVars, Q!Zeros, P!Zeros, Q!Blocks, P!Blocks,
         Q!Quality, P!Quality

LEMMA SameQueueState ==
    /\ Q!TypeOK <=> P!TypeOK
    /\ Q!NoPhantomBytes <=> P!NoPhantomBytes
    /\ Q!CompleteMeansNoGaps <=> P!CompleteMeansNoGaps
    /\ Q!NoLostPart <=> P!NoLostPart
    /\ Q!IncomingVerified <=> P!IncomingVerified
  BY DEF Q!TypeOK, P!TypeOK, Q!Status, P!Status, Q!Content, P!Content, Q!Quality, P!Quality,
         Q!NoPhantomBytes, P!NoPhantomBytes, Q!CompleteMeansNoGaps, P!CompleteMeansNoGaps,
         Q!NoLostPart, P!NoLostPart, Q!IncomingVerified, P!IncomingVerified,
         Q!Intact, P!Intact, Q!Loadable, P!Loadable

(* What a step of the race does to the files is one method of the queue,   *)
(* called as its callers are meant to.                                     *)
LEMMA StepIsMethod == ASSUME Inv, [Next]_vars PROVE [Q!Next]_(Q!vars)
<1> USE DEF Inv
<1>1. ASSUME Q!Method(Target) PROVE [Q!Next]_(Q!vars)
  BY <1>1 DEF Q!Next
<1>2. ASSUME UNCHANGED queueVars PROVE [Q!Next]_(Q!vars)
  BY <1>2 DEF queueVars, Q!vars
<1>3. ASSUME NEW u \in Units, NEW q \in {"good", "bad"}, Q!RecordBlock(Target, {u}, q)
      PROVE  Q!Method(Target)
  <2>1. {u} \in Q!Blocks /\ q \in Q!Quality
    BY DEF Q!Blocks, Q!Quality
  <2> QED
    BY <1>3, <2>1 DEF Q!Method
<1>4. ASSUME NEW ranges \in SUBSET Units, ranges # {}, Q!PunchGaps(Target, ranges)
      PROVE  Q!Method(Target)
  <2>1. ranges \in Q!Blocks
    BY <1>4 DEF Q!Blocks
  <2> QED
    BY <1>4, <2>1 DEF Q!Method
<1>5. CASE UNCHANGED vars
  BY <1>2, <1>5 DEF vars
<1>6. CASE \/ AlreadyComplete \/ StartRun \/ EndRun \/ BeginRound \/ Collect \/ Restart
           \/ \E p \in Peers : \/ Connect(p) \/ Ask(p) \/ EndTransfer(p) \/ BeginNarrow(p)
                              \/ CutTransfer(p) \/ FailAttempt(p)
  BY <1>2, <1>6 DEF AlreadyComplete, StartRun, EndRun, BeginRound, Collect, Restart, Connect, Ask,
                    EndTransfer, BeginNarrow, CutTransfer, FailAttempt
<1>7. CASE PauseDownload \/ ResumeDownload
  BY <1>1, <1>7 DEF PauseDownload, ResumeDownload, Q!Method
<1>8. CASE Win
  <2>1. CASE Q!Finalize(Target, TRUE)
    BY <1>1, <2>1 DEF Q!Method
  <2> QED
    BY <1>2, <1>8, <2>1 DEF Win
<1>9. ASSUME NEW w \in later, WriteLater(w[1], w[2]) PROVE [Q!Next]_(Q!vars)
  <2>1. w[1] \in Units /\ w[2] \in {"good", "bad"}
    BY DEF TasksInv, RunShape
  <2>2. Q!RecordBlock(Target, {w[1]}, w[2]) \/ UNCHANGED queueVars
    BY <1>9 DEF WriteLater
  <2> QED
    BY ONLY <1>1, <1>2, <1>3, <2>1, <2>2
<1>10. ASSUME NEW p \in Peers, NEW u \in Units, NEW q \in {"good", "bad"}, Deliver(p, u, q)
       PROVE  [Q!Next]_(Q!vars)
  <2>1. Q!RecordBlock(Target, {u}, q) \/ UNCHANGED queueVars
    BY <1>10 DEF Deliver, Persist
  <2> QED
    BY ONLY <1>1, <1>2, <1>3, <2>1
<1>11. ASSUME NEW p \in Peers, PunchParts(p) PROVE [Q!Next]_(Q!vars)
  <2> DEFINE punched == UNION {PartUnits(c) : c \in CorruptParts(p)}
  <2>1. punched \in SUBSET Units /\ Q!PunchGaps(Target, punched)
    BY <1>11 DEF PunchParts, PartUnits
  <2>2. punched # {}
    <3>1. PICK u : u \in BadBlocks(p)
      BY <1>11, CorruptHasBad DEF PunchParts
    <3>2. u \in PartUnits(Part(u)) /\ Part(u) \in CorruptParts(p)
      BY <3>1 DEF BadBlocks, PartUnits
    <3> QED
      BY <3>2
  <2> HIDE DEF punched
  <2> QED
    BY <1>1, <1>4, <2>1, <2>2
<1>12. ASSUME NEW p \in Peers, NEW whole \in SUBSET {Part(u) : u \in corrupt[p]}, Narrow(p, whole)
       PROVE  [Q!Next]_(Q!vars)
  <2> DEFINE punched == corrupt[p] \cup UNION {PartUnits(c) : c \in whole}
  <2>1. punched \in SUBSET Units /\ Q!PunchGaps(Target, punched) /\ punched # {}
    BY <1>12 DEF Narrow, PartUnits, TasksInv, RunShape, NarrowsSomething
  <2> HIDE DEF punched
  <2> QED
    BY <1>1, <1>4, <2>1
<1> QED
  BY ONLY [Next]_vars, <1>5, <1>6, <1>7, <1>8, <1>9, <1>10, <1>11, <1>12
     DEF Next, RunStep, PeerStep

(* The race touches row, part file, sidecar and incoming/ only through the *)
(* methods of the queue, never with an empty punch or an empty block: the  *)
(* queue's theorems, proved for any caller of its methods, apply to it.    *)
THEOREM RaceUsesTheQueue == Spec => [][Q!Next]_(Q!vars)
  BY StepIsMethod, InvAlways, PTL DEF Spec

(* README.md:25: a download that a race has in its hands is never taken    *)
(* for complete while it has gaps, has no byte that was not received, can  *)
(* be resumed until it is moved, and what finalize vouched for is good,    *)
(* although it begins in the middle of its life, in any state a kernel     *)
(* can find it in.                                                         *)
THEOREM QueueKeptInRace ==
    Spec => [](/\ Q!NoPhantomBytes /\ Q!CompleteMeansNoGaps
               /\ Q!NoLostPart /\ Q!IncomingVerified)
<1> DEFINE Guarantees == /\ Q!NoPhantomBytes /\ Q!CompleteMeansNoGaps
                         /\ Q!NoLostPart /\ Q!IncomingVerified
<1>1. Init => Guarantees
  BY DEF Init, Q!NoPhantomBytes, Q!CompleteMeansNoGaps, Q!NoLostPart, Q!IncomingVerified,
         Q!Intact, Q!Loadable
<1>2. Inv /\ Guarantees /\ [Next]_vars => Guarantees'
  <2> SUFFICES ASSUME Inv, Guarantees, [Next]_vars PROVE Guarantees'
    OBVIOUS
  <2>1. [P!Next]_(P!vars)
    BY StepIsMethod, SameQueueStep
  <2>2. /\ P!TypeOK /\ P!NoPhantomBytes /\ P!CompleteMeansNoGaps
        /\ P!NoLostPart /\ P!IncomingVerified
    BY SameQueueState DEF Inv, FilesInv
  <2>3. P!NoPhantomBytes'
    BY ONLY <2>1, <2>2, QueueConstants, P!PhantomStep
  <2>4. P!CompleteMeansNoGaps'
    BY ONLY <2>1, <2>2, QueueConstants, P!GaplessStep
  <2>5. P!NoLostPart'
    BY ONLY <2>1, <2>2, QueueConstants, P!PartStep
  <2>6. P!IncomingVerified'
    BY ONLY <2>1, <2>2, QueueConstants, P!VerifiedStep
  <2>7. /\ Q!NoPhantomBytes' <=> P!NoPhantomBytes'
        /\ Q!CompleteMeansNoGaps' <=> P!CompleteMeansNoGaps'
        /\ Q!NoLostPart' <=> P!NoLostPart'
        /\ Q!IncomingVerified' <=> P!IncomingVerified'
    BY DEF Q!NoPhantomBytes, P!NoPhantomBytes, Q!CompleteMeansNoGaps, P!CompleteMeansNoGaps,
           Q!NoLostPart, P!NoLostPart, Q!IncomingVerified, P!IncomingVerified,
           Q!Intact, P!Intact, Q!Loadable, P!Loadable
  <2> QED
    BY <2>3, <2>4, <2>5, <2>6, <2>7
<1> QED
  BY <1>1, <1>2, InvAlways, PTL DEF Spec
=============================================================================
