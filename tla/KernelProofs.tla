---------------------------- MODULE KernelProofs ----------------------------
(***************************************************************************)
(* Theorems about what the kernel runs: the tasks and boxes of the         *)
(* downloads (Kernel), the upload queue (UploadQueue) and the sessions     *)
(* that use it (Upload), and the tables of shared files (SharedFiles), for *)
(* any files, users, slots, directories and bounds.                        *)
(***************************************************************************)
EXTENDS Kernel, Upload, SharedFiles, IpFilter, Induction, SequenceTheorems

-----------------------------------------------------------------------------
(* The tasks: the boxes of the downloads tell the truth about their tasks, *)
(* and the database has one owner at a time.                               *)

(* The shape of the state, with no bound on the tasks: that one follows    *)
(* from BoxTruthful.                                                       *)
Shape ==
    /\ kernel \in {"down", "owned", "up", "stopping", "draining", "closing"}
    /\ boots \in 0 .. MaxBoots
    /\ status \in BOOLEAN /\ resume \in BOOLEAN /\ guest \in BOOLEAN
    /\ db \in {"free", "kernel", "cli"}
    /\ rows \in [Downloads -> {"none", "queued", "downloading", "paused", "complete"}]
    /\ known \in [Downloads -> 0 .. ThinPool]
    /\ box \in [Downloads -> {"none", "running", "done"}]
    /\ tasks \in [Downloads -> [Stages -> Nat]]
    /\ skipped \subseteq Downloads

(* A command that has begun names a file, and one that asked the kernel is *)
(* a command the kernel has a handler for.                                 *)
CommandShape ==
    /\ cli \in [cmd : Routed \cup Direct \cup {"none"}, file : Downloads \cup {NoHash},
                at : {"idle", "asked", "poll", "local", "race"}]
    /\ cli.at # "idle" => cli.file \in Downloads
    /\ cli.at = "asked" => cli.cmd \in Routed
    /\ late \subseteq Routed \X Downloads

(* Tasks belong to the process and end with it.                            *)
NoOrphanTask == kernel = "down" => tasks = NoTasks

(* A request is with a kernel whose control server has not closed: no      *)
(* handler runs before the database is open or after it was closed.        *)
AskedOfServer ==
    cli.at = "asked" \/ late # {} => kernel \in {"up", "stopping", "draining"}

(* The inductive invariant.  BoxTruthful alone is not inductive: a handler *)
(* starts tasks, and must not do so while the kernel is down, when the     *)
(* boxes of its last life are still there.                                 *)
KernelInv == Shape /\ CommandShape /\ NoOrphanTask /\ AskedOfServer /\ BoxTruthful

(* The database is open in the kernel exactly while the kernel lives, and  *)
(* in a command only while that command races: DuckDB is never asked for   *)
(* by a second process that believes it is free (state.py:214, cli.py:193).*)
OneOwner ==
    /\ db = "kernel" <=> kernel # "down"
    /\ db = "cli" => cli.at = "race"

(* A start adds one task to every file whose box it claims, so the count   *)
(* and the box change together.                                            *)
LEMMA StartKeepsTruth ==
    ASSUME Shape, NEW F \in SUBSET Downloads, StartTasks(F),
           \A f \in Downloads : TaskCount(f) = IF box[f] = "running" THEN 1 ELSE 0
    PROVE  /\ box' \in [Downloads -> {"none", "running", "done"}]
           /\ tasks' \in [Downloads -> [Stages -> Nat]]
           /\ \A f \in Downloads : TaskCount(f)' = IF box'[f] = "running" THEN 1 ELSE 0
<1> DEFINE S == {f \in F : Startable(f)}
<1>1. /\ box' = [f \in Downloads |-> IF f \in S THEN "running" ELSE box[f]]
      /\ tasks' = [f \in Downloads |->
                      IF f \in S THEN [tasks[f] EXCEPT !["new"] = @ + 1] ELSE tasks[f]]
  BY DEF StartTasks
<1>2. \A f \in S : box[f] # "running"
  BY DEF Startable
<1> HIDE DEF S
<1>3. box' \in [Downloads -> {"none", "running", "done"}]
  BY <1>1 DEF Shape
<1>4. ASSUME NEW f \in Downloads
      PROVE  /\ tasks'[f] \in [Stages -> Nat]
             /\ TaskCount(f)' = IF box'[f] = "running" THEN 1 ELSE 0
  <2>1. tasks[f] \in [Stages -> Nat]
    BY DEF Shape
  <2>2. CASE f \in S
    BY <1>1, <1>2, <2>1, <2>2 DEF TaskCount, Stages
  <2>3. CASE f \notin S
    BY <1>1, <2>1, <2>3 DEF TaskCount
  <2> QED
    BY <2>2, <2>3
<1>5. tasks' \in [Downloads -> [Stages -> Nat]]
  BY <1>1, <1>4
<1> QED
  BY <1>3, <1>4, <1>5

(* What a command leaves of the row and the sources of a file.             *)
LEMMA EffectTyped ==
    ASSUME KernelAssumption, Shape, NEW c, NEW f \in Downloads, Effect(c, f)
    PROVE  /\ rows' \in [Downloads -> {"none", "queued", "downloading", "paused", "complete"}]
           /\ known' \in [Downloads -> 0 .. ThinPool]
<1>1. RowAfter(c, f) \in {"none", "queued", "downloading", "paused", "complete"}
  BY DEF RowAfter, Shape
<1>2. SourcesAfter(c, f) \subseteq 0 .. ThinPool
  BY DEF SourcesAfter, SaveFoundSources, PruneFileSources, ForgetFileSources, Shape,
         KernelAssumption
<1> QED
  BY <1>1, <1>2 DEF Effect, Shape

(* A handler serves a command between two awaits of a kernel that is up or *)
(* on its way down.                                                        *)
LEMMA HandlerKeeps ==
    ASSUME KernelAssumption, Shape, BoxTruthful,
           kernel \in {"up", "stopping", "draining"},
           NEW c \in Routed, NEW f \in Downloads, Handler(c, f)
    PROVE  Shape' /\ BoxTruthful' /\ kernel' \in {"up", "stopping", "draining"}
<1> DEFINE F == IF c = "run" THEN {f} ELSE {}
<1>1. F \in SUBSET Downloads /\ StartTasks(F)
  BY DEF Handler
<1> HIDE DEF F
<1>2. \A g \in Downloads : TaskCount(g) = IF box[g] = "running" THEN 1 ELSE 0
  BY DEF BoxTruthful
<1>3. /\ box' \in [Downloads -> {"none", "running", "done"}]
      /\ tasks' \in [Downloads -> [Stages -> Nat]]
      /\ \A g \in Downloads : TaskCount(g)' = IF box'[g] = "running" THEN 1 ELSE 0
  BY ONLY Shape, <1>1, <1>2, StartKeepsTruth
<1>4. /\ rows' \in [Downloads -> {"none", "queued", "downloading", "paused", "complete"}]
      /\ known' \in [Downloads -> 0 .. ThinPool]
  BY EffectTyped DEF Handler
<1>5. /\ kernel' \in {"up", "stopping", "draining"}
      /\ UNCHANGED <<boots, status, db, resume, skipped, guest>>
  BY DEF Handler
<1> QED
  BY <1>3, <1>4, <1>5 DEF Shape, BoxTruthful

(* One task moves or ends: the other files and the other stages keep       *)
(* their counts.                                                           *)
LEMMA MovedCounts ==
    ASSUME Shape, NEW f \in Downloads, NEW s \in Stages, tasks[f][s] > 0
    PROVE  /\ \A t \in Stages \ {s} :
                  /\ Moved(f, s, t) \in [Downloads -> [Stages -> Nat]]
                  /\ tasks' = Moved(f, s, t) => \A g \in Downloads : TaskCount(g)' = TaskCount(g)
           /\ Ended(f, s) \in [Downloads -> [Stages -> Nat]]
           /\ tasks' = Ended(f, s) =>
                 \A g \in Downloads : TaskCount(g)' = IF g = f THEN TaskCount(g) - 1 ELSE TaskCount(g)
<1>1. \A g \in Downloads : tasks[g] \in [Stages -> Nat]
  BY DEF Shape
<1>2. ASSUME NEW t \in Stages \ {s}
      PROVE  /\ Moved(f, s, t) \in [Downloads -> [Stages -> Nat]]
             /\ tasks' = Moved(f, s, t) => \A g \in Downloads : TaskCount(g)' = TaskCount(g)
  <2> DEFINE M == Moved(f, s, t)
  <2>1. /\ \A g \in Downloads : g # f => M[g] = tasks[g]
        /\ M[f] = [tasks[f] EXCEPT ![s] = tasks[f][s] - 1, ![t] = tasks[f][t] + 1]
        /\ M = [g \in Downloads |-> M[g]]
    BY DEF Moved, Shape
  <2> HIDE DEF M
  <2>2. M[f] \in [Stages -> Nat]
    BY <1>1, <2>1
  <2>3. M \in [Downloads -> [Stages -> Nat]]
    BY <1>1, <2>1, <2>2
  <2>4. M[f]["new"] + M[f]["refresh"] + M[f]["race"] = TaskCount(f)
    BY <1>1, <2>1 DEF TaskCount, Stages
  <2> QED
    BY <2>1, <2>3, <2>4 DEF TaskCount, M
<1>3. /\ Ended(f, s) \in [Downloads -> [Stages -> Nat]]
      /\ tasks' = Ended(f, s) =>
            \A g \in Downloads : TaskCount(g)' = IF g = f THEN TaskCount(g) - 1 ELSE TaskCount(g)
  <2> DEFINE M == Ended(f, s)
  <2>1. /\ \A g \in Downloads : g # f => M[g] = tasks[g]
        /\ M[f] = [tasks[f] EXCEPT ![s] = tasks[f][s] - 1]
        /\ M = [g \in Downloads |-> M[g]]
    BY DEF Ended, Shape
  <2> HIDE DEF M
  <2>2. M[f] \in [Stages -> Nat]
    BY <1>1, <2>1
  <2>3. M \in [Downloads -> [Stages -> Nat]]
    BY <1>1, <2>1, <2>2
  <2>4. M[f]["new"] + M[f]["refresh"] + M[f]["race"] = TaskCount(f) - 1
    BY <1>1, <2>1 DEF TaskCount, Stages
  <2> QED
    BY <2>1, <2>3, <2>4 DEF TaskCount, M
<1> QED
  BY <1>2, <1>3

(* A stage of a task of f: nothing else runs when the box is not running.  *)
LEMMA TaskHasBox ==
    ASSUME Shape, NoOrphanTask, BoxTruthful, NEW f \in Downloads, NEW s \in Stages, tasks[f][s] > 0
    PROVE  kernel # "down" /\ box[f] = "running" /\ TaskCount(f) = 1
<1>1. kernel # "down"
  BY DEF NoOrphanTask, NoTasks
<1>2. TaskCount(f) >= tasks[f][s]
  BY DEF Shape, TaskCount, Stages
<1> QED
  BY <1>1, <1>2 DEF BoxTruthful, Shape

LEMMA NoTasksTyped == NoTasks \in [Downloads -> [Stages -> Nat]]
  BY DEF NoTasks

LEMMA InvHoldsFirst == ASSUME KernelAssumption, KernelInit PROVE KernelInv
<1>1. Shape
  <2>1. MaxBoots \in Nat /\ ThinPool \in Nat
    BY DEF KernelAssumption
  <2>2. tasks \in [Downloads -> [Stages -> Nat]]
    BY NoTasksTyped DEF KernelInit
  <2>3. known \in [Downloads -> 0 .. ThinPool]
    BY <2>1 DEF KernelInit
  <2>4. box \in [Downloads -> {"none", "running", "done"}]
    BY DEF KernelInit
  <2>5. rows \in [Downloads -> {"none", "queued", "downloading", "paused", "complete"}]
    BY DEF KernelInit
  <2>6. boots \in 0 .. MaxBoots
    BY <2>1 DEF KernelInit
  <2>7. status \in BOOLEAN /\ resume \in BOOLEAN /\ guest \in BOOLEAN
    BY DEF KernelInit
  <2>8. /\ kernel \in {"down", "owned", "up", "stopping", "draining", "closing"}
        /\ db \in {"free", "kernel", "cli"} /\ skipped \subseteq Downloads
    BY DEF KernelInit
  <2> QED
    BY <2>2, <2>3, <2>4, <2>5, <2>6, <2>7, <2>8 DEF Shape
<1>2. CommandShape
  BY DEF KernelInit, CommandShape, Idle
<1> QED
  BY <1>1, <1>2 DEF KernelInit, KernelInv, NoOrphanTask, AskedOfServer, BoxTruthful, Idle

(* What the kernel does keeps the invariant.                               *)
LEMMA KernelKeepsInv == ASSUME KernelAssumption, KernelInv, ProcessNext PROVE KernelInv'
<1> USE DEF KernelInv
<1>1. CASE Boot
  <2>1. \A f \in Downloads : TaskCount(f)' = 0 /\ box'[f] = "none"
    BY <1>1 DEF Boot, TaskCount, NoTasks, Stages
  <2>2. Shape'
    <3>1. MaxBoots \in Nat
      BY DEF KernelAssumption
    <3>2. tasks' \in [Downloads -> [Stages -> Nat]]
      BY <1>1, NoTasksTyped DEF Boot
    <3>3. boots' \in 0 .. MaxBoots /\ box' \in [Downloads -> {"none", "running", "done"}]
      BY <1>1, <3>1 DEF Boot, Shape
    <3> QED
      BY <1>1, <3>2, <3>3 DEF Boot, Shape
  <2> QED
    BY <1>1, <2>1, <2>2 DEF Boot, CommandShape, NoOrphanTask, AskedOfServer, BoxTruthful
<1>2. ASSUME kernel # "down", kernel' # "down",
             kernel' \in {"up", "stopping", "draining", "closing"},
             (late # {} \/ cli.at = "asked") => kernel' # "closing",
             status' \in BOOLEAN, resume' \in BOOLEAN, guest' \in BOOLEAN,
             UNCHANGED <<boots, db, rows, known, box, tasks, skipped, cli, late>>
      PROVE  KernelInv'
  <2>1. BoxTruthful'
    BY <1>2 DEF BoxTruthful, TaskCount
  <2>2. Shape'
    BY <1>2 DEF Shape
  <2> QED
    BY <1>2, <2>1, <2>2 DEF CommandShape, NoOrphanTask, AskedOfServer
<1>3. CASE Listen \/ Signal \/ CloseControl \/ Drained
  BY <1>2, <1>3 DEF Listen, Signal, CloseControl, Drained, Shape, CommandShape
<1>4. CASE AutoResume \/ Reask
  <2>1. /\ kernel # "down" /\ UNCHANGED <<kernel, cli, late>>
        /\ \E F \in SUBSET Downloads : StartTasks(F)
        /\ UNCHANGED <<boots, db, rows, status, guest>> /\ resume' \in BOOLEAN
        /\ known' \in [Downloads -> 0 .. ThinPool] /\ skipped' \subseteq Downloads
    <3>1. CASE AutoResume
      BY <3>1 DEF AutoResume, Shape
    <3>2. CASE Reask
      BY <3>2 DEF Reask, Shape, KernelAssumption
    <3> QED
      BY <1>4, <3>1, <3>2
  <2>2. PICK F \in SUBSET Downloads : StartTasks(F)
    BY <2>1
  <2>3. \A f \in Downloads : TaskCount(f) = IF box[f] = "running" THEN 1 ELSE 0
    BY <2>1 DEF BoxTruthful
  <2>4. /\ box' \in [Downloads -> {"none", "running", "done"}]
        /\ tasks' \in [Downloads -> [Stages -> Nat]]
        /\ \A f \in Downloads : TaskCount(f)' = IF box'[f] = "running" THEN 1 ELSE 0
    BY ONLY KernelInv, <2>2, <2>3, StartKeepsTruth
  <2>5. Shape'
    BY <2>1, <2>4 DEF Shape
  <2> QED
    BY <2>1, <2>4, <2>5 DEF BoxTruthful, CommandShape, NoOrphanTask, AskedOfServer
<1>5. CASE Exit \/ KernelCrash
  <2>1. kernel' = "down" /\ tasks' = NoTasks
    BY <1>5 DEF Exit, KernelCrash
  <2>2. Shape'
    BY <1>5, NoTasksTyped DEF Exit, KernelCrash, Shape
  <2>3. CommandShape'
    BY <1>5 DEF Exit, KernelCrash, CommandShape, Unanswered, Idle
  <2>4. cli'.at # "asked" /\ late' = {}
    BY <1>5 DEF Exit, KernelCrash, CommandShape, AskedOfServer, Unanswered, Idle
  <2> QED
    BY <2>1, <2>2, <2>3, <2>4 DEF NoOrphanTask, AskedOfServer, BoxTruthful
<1>6. ASSUME NEW f \in Downloads, TaskBegins(f) \/ RefreshEnds(f) \/ RaceEnds(f)
      PROVE  KernelInv'
  <2>1. CASE TaskBegins(f) \/ RefreshEnds(f)
    <3>1. PICK s \in Stages, t \in Stages :
             s # t /\ tasks[f][s] > 0 /\ tasks' = Moved(f, s, t)
      BY <2>1 DEF TaskBegins, RefreshEnds, Stages
    <3>2. /\ tasks' \in [Downloads -> [Stages -> Nat]]
          /\ \A g \in Downloads : TaskCount(g)' = TaskCount(g)
      BY ONLY KernelInv, <3>1, MovedCounts
    <3>3. kernel # "down"
      BY <3>1, TaskHasBox
    <3>4. /\ UNCHANGED <<processVars, db, rows, box, cli, late>>
          /\ known' \in [Downloads -> 0 .. ThinPool]
      BY <2>1 DEF TaskBegins, RefreshEnds, Shape, KernelAssumption
    <3>5. Shape'
      BY <3>2, <3>4 DEF Shape, processVars
    <3> QED
      BY <3>2, <3>3, <3>4, <3>5
         DEF BoxTruthful, CommandShape, NoOrphanTask, AskedOfServer, processVars
  <2>2. CASE RaceEnds(f)
    <3>1. "race" \in Stages /\ tasks[f]["race"] > 0
      BY <2>2 DEF RaceEnds, Stages
    <3>2. kernel # "down" /\ TaskCount(f) = 1
      BY ONLY KernelInv, <3>1, TaskHasBox
    <3>3. tasks' = Ended(f, "race")
      BY <2>2 DEF RaceEnds
    <3>4. /\ tasks' \in [Downloads -> [Stages -> Nat]]
          /\ \A g \in Downloads :
                TaskCount(g)' = IF g = f THEN TaskCount(g) - 1 ELSE TaskCount(g)
      BY ONLY KernelInv, <3>1, <3>3, MovedCounts
    <3>5. /\ UNCHANGED <<processVars, db, rows, known, cli, late>>
          /\ box' = [box EXCEPT ![f] = "done"]
      BY <2>2 DEF RaceEnds
    <3>6. Shape'
      BY <3>4, <3>5 DEF Shape, processVars
    <3>7. BoxTruthful'
      BY <3>2, <3>4, <3>5 DEF BoxTruthful, Shape, processVars
    <3> QED
      BY <3>2, <3>5, <3>6, <3>7 DEF CommandShape, NoOrphanTask, AskedOfServer, processVars
  <2> QED
    BY <1>6, <2>1, <2>2
<1>7. ASSUME NEW f \in Downloads, NEW s \in {"downloading", "complete"}, RaceRecords(f, s)
      PROVE  KernelInv'
  <2>1. Shape'
    BY <1>7 DEF RaceRecords, Recorded, Shape, processVars
  <2>2. BoxTruthful'
    BY <1>7 DEF RaceRecords, BoxTruthful, TaskCount, processVars
  <2> QED
    BY <1>7, <2>1, <2>2 DEF RaceRecords, CommandShape, NoOrphanTask, AskedOfServer, processVars
<1>8. CASE Handle
  <2>1. cli.at = "asked" /\ cli.cmd \in Routed /\ cli.file \in Downloads
    BY <1>8 DEF Handle, CommandShape
  <2>2. Handler(cli.cmd, cli.file) /\ kernel \in {"up", "stopping", "draining"}
    BY <1>8, <2>1 DEF Handle, AskedOfServer
  <2>3. Shape' /\ BoxTruthful' /\ kernel' \in {"up", "stopping", "draining"}
    BY ONLY KernelAssumption, KernelInv, <2>1, <2>2, HandlerKeeps
  <2>4. CommandShape'
    BY <1>8 DEF Handle, CommandShape, Idle
  <2> QED
    BY <2>3, <2>4 DEF NoOrphanTask, AskedOfServer
<1>9. CASE HandleLate
  <2>1. PICK r \in late : Handler(r[1], r[2]) /\ late' = late \ {r}
    BY <1>9 DEF HandleLate
  <2>2. /\ r[1] \in Routed /\ r[2] \in Downloads
        /\ kernel \in {"up", "stopping", "draining"}
    BY <2>1 DEF CommandShape, AskedOfServer
  <2>3. Shape' /\ BoxTruthful' /\ kernel' \in {"up", "stopping", "draining"}
    BY ONLY KernelAssumption, KernelInv, <2>1, <2>2, HandlerKeeps
  <2>4. CommandShape'
    BY <1>9, <2>1 DEF HandleLate, CommandShape
  <2> QED
    BY <2>3, <2>4 DEF NoOrphanTask, AskedOfServer
<1>10. CASE PeersLeave
  <2>1. /\ UNCHANGED <<kernel, boots, status, resume, skipped, db, rows, known, box, tasks, cli, late>>
        /\ guest' \in BOOLEAN
    BY <1>10 DEF PeersLeave
  <2>2. Shape' /\ BoxTruthful'
    BY <2>1 DEF Shape, BoxTruthful, TaskCount
  <2> QED
    BY <2>1, <2>2 DEF CommandShape, NoOrphanTask, AskedOfServer
<1> QED
  BY ONLY ProcessNext, <1>1, <1>3, <1>4, <1>5, <1>6, <1>7, <1>8, <1>9, <1>10 DEF ProcessNext

(* So does what a command does, whose work on the database changes neither *)
(* tasks nor boxes.                                                        *)
LEMMA CliKeepsInv == ASSUME KernelAssumption, KernelInv, CliNext PROVE KernelInv'
<1> USE DEF KernelInv
<1>1. ASSUME UNCHANGED <<processVars, box, tasks>>,
             db' \in {"free", "kernel", "cli"},
             rows' \in [Downloads -> {"none", "queued", "downloading", "paused", "complete"}],
             known' \in [Downloads -> 0 .. ThinPool],
             CommandShape', AskedOfServer'
      PROVE  KernelInv'
  <2>1. Shape'
    BY <1>1 DEF Shape, processVars
  <2>2. BoxTruthful'
    BY <1>1 DEF BoxTruthful, TaskCount, processVars
  <2> QED
    BY <1>1, <2>1, <2>2 DEF NoOrphanTask, processVars
<1>2. ASSUME NEW c \in Routed \cup Direct, NEW f \in Downloads, Command(c, f) PROVE KernelInv'
  <2>1. CommandShape'
    BY <1>2 DEF Command, CommandShape
  <2>2. AskedOfServer'
    BY <1>2 DEF Command, AskedOfServer, Serving, processVars
  <2> QED
    BY <1>1, <1>2, <2>1, <2>2 DEF Command, Shape
<1>3. CASE TimesOut
  <2>1. CommandShape'
    BY <1>3 DEF TimesOut, CommandShape, Unanswered, Idle
  <2>2. AskedOfServer'
    BY <1>3 DEF TimesOut, AskedOfServer, processVars
  <2> QED
    BY <1>1, <1>3, <2>1, <2>2 DEF TimesOut, Shape
<1>4. CASE Poll \/ LocalFails \/ LocalEnds
  <2>1. /\ cli' = Idle /\ UNCHANGED <<processVars, rows, known, box, tasks, late>>
        /\ db' \in {"free", "kernel", "cli"}
    BY <1>4 DEF Poll, LocalFails, LocalEnds, Shape
  <2>2. CommandShape' /\ AskedOfServer'
    BY <2>1 DEF CommandShape, AskedOfServer, Idle, processVars
  <2> QED
    BY <1>1, <2>1, <2>2 DEF Shape
<1>5. CASE Local
  <2>1. cli.file \in Downloads /\ Effect(cli.cmd, cli.file)
    BY <1>5 DEF Local, CommandShape
  <2>2. CommandShape' /\ AskedOfServer'
    BY <1>5 DEF Local, CommandShape, AskedOfServer, Idle, processVars
  <2> QED
    BY <1>1, <1>5, <2>1, <2>2, EffectTyped DEF Local, Shape
<1>6. CASE LocalRun
  <2>1. CommandShape' /\ AskedOfServer'
    BY <1>6 DEF LocalRun, CommandShape, AskedOfServer, processVars
  <2> QED
    BY <1>1, <1>6, <2>1 DEF LocalRun, Shape
<1>7. ASSUME NEW s \in {"downloading", "complete"}, LocalRecords(s) PROVE KernelInv'
  <2>1. CommandShape' /\ AskedOfServer'
    BY <1>7 DEF LocalRecords, CommandShape, AskedOfServer, processVars
  <2> QED
    BY <1>1, <1>7, <2>1 DEF LocalRecords, Recorded, Shape
<1>8. CASE LocalCredit
  <2>1. CommandShape' /\ AskedOfServer'
    BY <1>8 DEF LocalCredit, CommandShape, AskedOfServer, processVars
  <2> QED
    BY <1>1, <1>8, <2>1 DEF LocalCredit, Shape
<1> QED
  BY ONLY CliNext, <1>2, <1>3, <1>4, <1>5, <1>6, <1>7, <1>8 DEF CliNext

LEMMA InvAlways == ASSUME KernelAssumption PROVE KernelSpec => []KernelInv
<1>1. KernelInit => KernelInv
  BY InvHoldsFirst
<1>2. KernelInv /\ [KernelNext]_kernelVars => KernelInv'
  <2> SUFFICES ASSUME KernelInv, [KernelNext]_kernelVars PROVE KernelInv'
    OBVIOUS
  <2>1. CASE UNCHANGED kernelVars
    BY <2>1 DEF kernelVars, KernelInv, Shape, CommandShape, NoOrphanTask, AskedOfServer, BoxTruthful,
               TaskCount
  <2> QED
    BY <2>1, KernelKeepsInv, CliKeepsInv DEF KernelNext
<1> QED
  BY <1>1, <1>2, PTL DEF KernelSpec

(* core/kernel.py:265 and 900: download.run may be refused, and its answer *)
(* polled, by looking at the box, since a box that is not done stands for  *)
(* exactly one task, however handlers, the re-ask loop, the autoresume and *)
(* restarts interleave.                                                    *)
THEOREM BoxesTellTheTruth == ASSUME KernelAssumption PROVE KernelSpec => []BoxTruthful
<1>1. KernelInv => BoxTruthful
  BY DEF KernelInv
<1> QED
  BY <1>1, InvAlways, PTL

(* Every row, pool, box, task and command stays one the code can take up.  *)
(* That a file has at most MaxTasks tasks at a stage is a consequence: it  *)
(* never has two.                                                          *)
THEOREM KernelTypeCorrect == ASSUME KernelAssumption PROVE KernelSpec => []KernelTypeOK
<1>1. KernelInv => KernelTypeOK
  <2> SUFFICES ASSUME KernelInv PROVE KernelTypeOK
    OBVIOUS
  <2>1. ASSUME NEW f \in Downloads, NEW s \in Stages PROVE tasks[f][s] \in 0 .. MaxTasks
    <3>1. tasks[f][s] \in Nat
      BY DEF KernelInv, Shape
    <3>2. MaxTasks \in Nat \ {0}
      BY DEF KernelAssumption
    <3>3. CASE tasks[f][s] > 0
      <4>1. TaskCount(f) = 1
        BY <3>3, TaskHasBox DEF KernelInv
      <4>2. tasks[f][s] <= 1
        BY <4>1 DEF KernelInv, Shape, TaskCount, Stages
      <4> QED
        BY <3>1, <3>2, <4>2
    <3> QED
      BY <3>1, <3>2, <3>3
  <2>2. tasks \in [Downloads -> [Stages -> 0 .. MaxTasks]]
    BY <2>1 DEF KernelInv, Shape
  <2> QED
    BY <2>2 DEF KernelTypeOK, KernelInv, Shape, CommandShape
<1> QED
  BY <1>1, InvAlways, PTL

(* state.py:214, cli.py:193: two processes never both believe that they    *)
(* have the database.  The invariant is needed for the shape of a command. *)
THEOREM DatabaseHasOneOwner == ASSUME KernelAssumption PROVE KernelSpec => []OneOwner
<1>1. KernelInit => OneOwner
  BY DEF KernelInit, OneOwner, Idle
<1>2. KernelInv /\ OneOwner /\ [KernelNext]_kernelVars => OneOwner'
  <2> SUFFICES ASSUME KernelInv, OneOwner, [KernelNext]_kernelVars PROVE OneOwner'
    OBVIOUS
  <2> USE DEF OneOwner, processVars
  <2>1. CASE UNCHANGED kernelVars
    BY <2>1 DEF kernelVars
  <2>2. CASE Boot \/ Exit \/ KernelCrash
    BY <2>2 DEF Boot, Exit, KernelCrash, Unanswered, Idle
  <2>3. CASE Listen \/ AutoResume \/ Signal \/ CloseControl \/ Drained \/ Reask
             \/ PeersLeave
    BY <2>3 DEF Listen, AutoResume, Signal, CloseControl, Drained, Reask, PeersLeave
  <2>4. ASSUME NEW f \in Downloads,
               \/ TaskBegins(f) \/ RefreshEnds(f) \/ RaceEnds(f)
               \/ \E s \in {"downloading", "complete"} : RaceRecords(f, s)
        PROVE  OneOwner'
    BY <2>4 DEF TaskBegins, RefreshEnds, RaceEnds, RaceRecords
  <2>5. CASE Handle \/ HandleLate
    <3>1. cli.at # "race" \/ UNCHANGED cli
      BY <2>5 DEF Handle, HandleLate
    <3>2. UNCHANGED db /\ (kernel' # "down" <=> kernel # "down")
      BY <2>5 DEF Handle, HandleLate, Handler
    <3> QED
      BY <3>1, <3>2
  <2>6. ASSUME NEW c \in Routed \cup Direct, NEW f \in Downloads, Command(c, f) PROVE OneOwner'
    BY <2>6 DEF Command
  <2>7. CASE TimesOut \/ Poll \/ Local \/ LocalFails
    BY <2>7 DEF TimesOut, Poll, Local, LocalFails
  <2>8. CASE LocalRun \/ LocalCredit \/ LocalEnds
    BY <2>8 DEF LocalRun, LocalCredit, LocalEnds, Idle, KernelInv, CommandShape
  <2>9. ASSUME NEW s \in {"downloading", "complete"}, LocalRecords(s) PROVE OneOwner'
    BY <2>9 DEF LocalRecords
  <2> QED
    BY <2>1, <2>2, <2>3, <2>4, <2>5, <2>6, <2>7, <2>8, <2>9 DEF KernelNext, ProcessNext, CliNext
<1> QED
  BY <1>1, <1>2, InvAlways, PTL DEF KernelSpec

-----------------------------------------------------------------------------
(* The upload queue keeps what follows whatever its callers do, for any    *)
(* number of users, files and slots.  Its methods are operators on the     *)
(* queue record, so each lemma is about one of them and serves the         *)
(* sessions as well.                                                       *)

(* The invariant, of a queue: the parts of it are proved together, because *)
(* the bound on the slots needs them to be finite, and the order needs     *)
(* only clients that wait.                                                 *)
Ordered(Q) ==
    /\ Q.ahead \subseteq Q.waiting \X Q.waiting
    /\ \A j, k \in Q.waiting : j = k \/ <<j, k>> \in Q.ahead \/ <<k, j>> \in Q.ahead
    /\ \A j, k \in Q.waiting : ~(<<j, k>> \in Q.ahead /\ <<k, j>> \in Q.ahead)
    /\ \A i, j, k \in Q.waiting :
          <<i, j>> \in Q.ahead /\ <<j, k>> \in Q.ahead => <<i, k>> \in Q.ahead

Bounded(Q) == IsFiniteSet(Q.slots) /\ Cardinality(Q.slots) <= MaxSlots

Good(Q) ==
    /\ Q \in Queue /\ Q.aged \subseteq Q.slots
    /\ Bounded(Q)
    /\ Q.waiting \cap Q.slots = {}
    /\ Ordered(Q)

Inv == Good(q) /\ ledger \in [Users -> Row]

(* The rank of a client is a number: the clients before it are finitely    *)
(* many.                                                                   *)
LEMMA FinitelyMany ==
    ASSUME NEW S \in SUBSET Keys
    PROVE  IsFiniteSet(S) /\ Cardinality(S) \in Nat
<1>1. IsFiniteSet(Keys)
  BY FS_Product, UploadQueueAssumption DEF Keys
<1>2. IsFiniteSet(S)
  BY <1>1, FS_Subset
<1> QED
  BY <1>2, FS_CardinalityType

(* recompute changes the ranks and nothing else.                           *)
LEMMA RecomputeKeeps ==
    ASSUME NEW Q \in Queue
    PROVE  /\ recompute(Q) \in Queue
           /\ recompute(Q).waiting = Q.waiting
           /\ recompute(Q).ahead = Q.ahead
           /\ recompute(Q).prio = Q.prio
           /\ recompute(Q).slots = Q.slots
           /\ recompute(Q).aged = Q.aged
<1> DEFINE before(k) == {j \in Q.waiting : RankedBefore(Q, j, k)}
           ranks == [k \in Keys |-> IF k \in Q.waiting THEN 1 + Cardinality(before(k)) ELSE 0]
<1>1. \A k \in Keys : before(k) \in SUBSET Keys
  BY DEF Queue
<1>2. \A k \in Keys : Cardinality(before(k)) \in Nat
  BY <1>1, FinitelyMany
<1>3. ranks \in [Keys -> Nat]
  <2> HIDE DEF before
  <2> QED BY <1>2
<1>4. recompute(Q) = [Q EXCEPT !.rank = ranks]
  BY DEF recompute
<1> HIDE DEF ranks
<1> QED
  BY <1>3, <1>4 DEF Queue

(* recompute keeps the invariant.                                          *)
LEMMA RecomputeGood ==
    ASSUME NEW Q, Good(Q)
    PROVE  Good(recompute(Q))
<1>1. Q \in Queue
  BY DEF Good
<1> DEFINE R == recompute(Q)
<1>2. /\ R \in Queue /\ R.waiting = Q.waiting /\ R.ahead = Q.ahead
      /\ R.slots = Q.slots /\ R.aged = Q.aged
  BY <1>1, RecomputeKeeps
<1> HIDE DEF R
<1>3. Good(R)
  BY <1>2 DEF Good, Bounded, Ordered
<1> QED
  BY <1>3 DEF R

(* The queue with one more client, behind everyone.                        *)
Arrived(Q, k, p) ==
    [Q EXCEPT !.waiting = @ \cup {k},
              !.ahead = @ \cup {<<j, k>> : j \in Q.waiting},
              !.prio[k] = p]

(* A newcomer appended to the waiting list leaves the queue typed.         *)
LEMMA ArrivedTyped ==
    ASSUME NEW Q \in Queue, NEW k \in Keys, NEW p \in Nat
    PROVE  /\ Arrived(Q, k, p) \in Queue
           /\ Arrived(Q, k, p).waiting = Q.waiting \cup {k}
           /\ Arrived(Q, k, p).ahead = Q.ahead \cup {<<j, k>> : j \in Q.waiting}
           /\ Arrived(Q, k, p).slots = Q.slots
           /\ Arrived(Q, k, p).aged = Q.aged
<1> DEFINE D == {<<j, k>> : j \in Q.waiting}
<1>1. D \in SUBSET (Keys \X Keys)
  BY DEF Queue
<1> HIDE DEF D
<1>2. [Q EXCEPT !.waiting = @ \cup {k}, !.ahead = @ \cup D, !.prio[k] = p] \in Queue
  BY <1>1 DEF Queue
<1>3. Arrived(Q, k, p) \in Queue
  BY <1>2 DEF Arrived, D
<1> QED
  BY <1>3 DEF Arrived, Queue

(* The last to arrive is behind everyone.                                  *)
LEMMA EnqueueGood ==
    ASSUME NEW Q, Good(Q), NEW k \in Keys, NEW p \in Nat
    PROVE  Good(enqueue(Q, k, p))
<1>1. CASE k \in Q.waiting \cup Q.slots
  BY <1>1, RecomputeGood DEF enqueue
<1>2. CASE k \notin Q.waiting \cup Q.slots
  <2> DEFINE N == Arrived(Q, k, p)
  <2>1. Q \in Queue
    BY DEF Good
  <2>2. /\ N.waiting = Q.waiting \cup {k}
        /\ N.ahead = Q.ahead \cup {<<j, k>> : j \in Q.waiting}
        /\ N.slots = Q.slots /\ N.aged = Q.aged
    BY <2>1, ArrivedTyped
  <2>3. N \in Queue
    BY <2>1, ArrivedTyped
  <2> HIDE DEF N
  <2>4. Ordered(N)
    <3>1. Q.ahead \subseteq Q.waiting \X Q.waiting
      BY DEF Good, Ordered
    <3>2. \A j \in Q.waiting : <<k, j>> \notin Q.ahead /\ <<j, k>> \notin Q.ahead
      BY <1>2, <3>1
    <3>3. <<k, k>> \notin N.ahead
      BY <1>2, <2>2, <3>1
    <3>4. N.ahead \subseteq N.waiting \X N.waiting
      BY <2>2, <3>1
    <3>5. \A i, j \in N.waiting :
             <<i, j>> \in N.ahead <=> (j = k /\ i \in Q.waiting) \/ <<i, j>> \in Q.ahead
      BY <2>2
    <3> QED
      BY <1>2, <2>2, <3>1, <3>2, <3>3, <3>4, <3>5 DEF Good, Ordered
  <2>5. Good(N)
    BY <1>2, <2>2, <2>3, <2>4 DEF Good, Bounded
  <2> QED
    BY <1>2, <2>5, RecomputeGood DEF enqueue, N, Arrived
<1> QED
  BY <1>1, <1>2

(* A client that leaves takes its pairs with it.                           *)
LEMMA WithoutKeeps ==
    ASSUME NEW Q, Good(Q), NEW k \in Keys
    PROVE  /\ Good(Without(Q, k))
           /\ Without(Q, k).waiting = Q.waiting \ {k}
           /\ Without(Q, k).ahead = {e \in Q.ahead : e[1] # k /\ e[2] # k}
           /\ Without(Q, k).slots = Q.slots
           /\ Without(Q, k).aged = Q.aged
<1> DEFINE W == Without(Q, k)
<1>1. Q \in Queue
  BY DEF Good
<1>2. /\ W.waiting = Q.waiting \ {k}
      /\ W.ahead = {e \in Q.ahead : e[1] # k /\ e[2] # k}
      /\ W.slots = Q.slots /\ W.aged = Q.aged
  BY <1>1 DEF Without, Queue
<1>3. W \in Queue
  BY <1>1 DEF Without, Queue
<1> HIDE DEF W
<1>4. Q.ahead \subseteq Q.waiting \X Q.waiting
  BY DEF Good, Ordered
<1>5. \A i, j \in W.waiting : <<i, j>> \in W.ahead <=> <<i, j>> \in Q.ahead
  BY <1>2
<1>6. W.ahead \subseteq W.waiting \X W.waiting
  BY <1>2, <1>4
<1>7. Ordered(W)
  BY <1>2, <1>5, <1>6 DEF Good, Ordered
<1>8. Good(W)
  BY <1>2, <1>3, <1>7 DEF Good, Bounded
<1> QED
  BY <1>2, <1>8 DEF W

(* A slot is only granted while one is free.                               *)
LEMMA GrantGood ==
    ASSUME NEW Q, Good(Q), NEW k \in Keys, mayGrant(Q, k)
    PROVE  Good(grant_slot(Q, k))
<1> DEFINE W == Without(Q, k)
           G == [W EXCEPT !.slots = @ \cup {k}]
<1>1. /\ Good(W) /\ W.waiting = Q.waiting \ {k}
      /\ W.ahead = {e \in Q.ahead : e[1] # k /\ e[2] # k}
      /\ W.slots = Q.slots /\ W.aged = Q.aged
  BY WithoutKeeps
<1> HIDE DEF W
<1>2. /\ G.waiting = W.waiting /\ G.ahead = W.ahead
      /\ G.slots = W.slots \cup {k} /\ G.aged = W.aged
  BY <1>1 DEF Good, Queue
<1>3. G \in Queue
  BY <1>1 DEF Good, Queue
<1> HIDE DEF G
<1>4. k \in Q.waiting /\ k \notin Q.slots
  BY DEF mayGrant, IsHead, Good
<1>5. Bounded(G)
  <2>1. IsFiniteSet(W.slots) /\ Cardinality(W.slots) < MaxSlots
    BY <1>1 DEF Good, Bounded, mayGrant
  <2>2. IsFiniteSet(G.slots) /\ Cardinality(G.slots) = Cardinality(W.slots) + 1
    <3>1. k \notin W.slots
      BY <1>1, <1>4
    <3>2. IsFiniteSet(W.slots \cup {k})
          /\ Cardinality(W.slots \cup {k}) = Cardinality(W.slots) + 1
      BY <2>1, <3>1, FS_AddElement, Zenon
    <3> QED BY <1>2, <3>2
  <2>3. Cardinality(W.slots) \in Nat
    BY <2>1, FS_CardinalityType
  <2> QED
    BY <2>1, <2>2, <2>3, UploadQueueAssumption DEF Bounded
<1>6. Good(G)
  BY <1>1, <1>2, <1>3, <1>5 DEF Good, Ordered
<1> QED
  BY <1>6, RecomputeGood DEF grant_slot, W, G

(* Slots that go leave a finite set of them, and no more than before.      *)
LEMMA ShrinkGood ==
    ASSUME NEW Q, Good(Q), NEW S \in SUBSET Keys, NEW A \in SUBSET Keys,
           S \subseteq Q.slots, A \subseteq S
    PROVE  Good([Q EXCEPT !.slots = S, !.aged = A])
<1> DEFINE N == [Q EXCEPT !.slots = S, !.aged = A]
<1>1. /\ N.waiting = Q.waiting /\ N.ahead = Q.ahead
      /\ N.slots = S /\ N.aged = A /\ N \in Queue
  BY DEF Good, Queue
<1> HIDE DEF N
<1>2. IsFiniteSet(S) /\ Cardinality(S) <= Cardinality(Q.slots)
  BY FS_Subset DEF Good, Bounded
<1>3. Cardinality(S) \in Nat /\ Cardinality(Q.slots) \in Nat
  BY <1>2, FS_CardinalityType DEF Good, Bounded
<1>4. Bounded(N)
  BY <1>1, <1>2, <1>3, UploadQueueAssumption DEF Good, Bounded
<1>5. Good(N)
  BY <1>1, <1>4 DEF Good, Ordered
<1> QED
  BY <1>5 DEF N

(* release_slot, cancel's slot half, keeps the queue's invariant.          *)
LEMMA ReleaseGood ==
    ASSUME NEW Q, Good(Q), NEW k \in Keys
    PROVE  Good(release_slot(Q, k))
<1>1. Q.slots \ {k} \in SUBSET Keys /\ Q.aged \ {k} \in SUBSET Keys
  BY DEF Good, Queue
<1>2. Q.aged \ {k} \subseteq Q.slots \ {k}
  BY DEF Good
<1>3. Good([Q EXCEPT !.slots = Q.slots \ {k}, !.aged = Q.aged \ {k}])
  BY <1>1, <1>2, ShrinkGood
<1> QED
  BY <1>3 DEF release_slot

(* The initial queue is good, and every step keeps it so.                  *)
LEMMA InitGood == Init => Inv
<1> SUFFICES ASSUME Init PROVE Inv
  OBVIOUS
<1>1. q \in Queue
  BY DEF Init, EmptyQueue, Queue
<1>2. IsFiniteSet(q.slots) /\ Cardinality(q.slots) = 0
  BY FS_EmptySet DEF Init, EmptyQueue
<1>3. Bounded(q)
  BY <1>2, UploadQueueAssumption DEF Bounded
<1> QED
  BY <1>1, <1>3 DEF Init, EmptyQueue, Inv, Good, Ordered, Row

(* Every call on the queue, and every write of the credit ledger, keeps    *)
(* the inductive invariant.                                                *)
LEMMA StepGood == Inv /\ [Next]_queueVars => Inv'
<1> SUFFICES ASSUME Inv, [Next]_queueVars PROVE Inv'
  OBVIOUS
<1>a. Good(q)
  BY DEF Inv
<1> SUFFICES Good(q') /\ ledger' \in [Users -> Row]
  BY DEF Inv, Good, Bounded, Ordered, Queue
<1>1. CASE UNCHANGED queueVars
  BY <1>1 DEF queueVars, Inv
<1>2. ASSUME NEW k \in Keys, NEW p \in Priorities, Enqueue(k, p)
      PROVE  Good(q') /\ ledger' \in [Users -> Row]
  <2>1. p \in Nat
    BY UploadQueueAssumption
  <2> QED BY <1>2, <1>a, <2>1, EnqueueGood DEF Enqueue, Inv
<1>3. ASSUME NEW k \in Keys, Grant(k)
      PROVE  Good(q') /\ ledger' \in [Users -> Row]
  BY <1>3, <1>a, GrantGood DEF Grant, Inv
<1>4. ASSUME NEW k \in Keys, Release(k)
      PROVE  Good(q') /\ ledger' \in [Users -> Row]
  BY <1>4, <1>a, ReleaseGood DEF Release, Inv
<1>5. ASSUME NEW k \in Keys, Cancel(k)
      PROVE  Good(q') /\ ledger' \in [Users -> Row]
  <2>1. Good(Without(q, k))
    BY <1>a, WithoutKeeps
  <2>2. Good(release_slot(Without(q, k), k))
    BY <2>1, ReleaseGood
  <2>3. Good(recompute(release_slot(Without(q, k), k)))
    BY <2>2, RecomputeGood
  <2> QED
    BY <1>5, <2>3 DEF Cancel, cancel, Inv
<1>6. ASSUME NEW k \in Keys, Age(k)
      PROVE  Good(q') /\ ledger' \in [Users -> Row]
  <2>1. Good([q EXCEPT !.slots = q.slots, !.aged = q.aged \cup {k}])
    <3>1. q.slots \in SUBSET Keys /\ q.aged \cup {k} \in SUBSET Keys
      BY <1>a DEF Good, Queue
    <3>2. q.aged \cup {k} \subseteq q.slots
      BY <1>a, <1>6 DEF Good, Age
    <3> QED BY <1>a, <3>1, <3>2, ShrinkGood
  <2>2. q' = [q EXCEPT !.slots = q.slots, !.aged = q.aged \cup {k}]
    BY <1>a, <1>6 DEF Age, Good, Queue
  <2> QED BY <1>6, <2>1, <2>2 DEF Age, Inv
<1>7. CASE Rotate
  <2>1. Good([q EXCEPT !.slots = q.slots \ q.aged, !.aged = {}])
    <3>1. q.slots \ q.aged \in SUBSET Keys /\ {} \in SUBSET Keys
      BY <1>a DEF Good, Queue
    <3> QED BY <1>a, <3>1, ShrinkGood
  <2>2. q' = [q EXCEPT !.slots = q.slots \ q.aged, !.aged = {}]
    BY <1>7 DEF Rotate, rotate
  <2> QED BY <1>7, <2>1, <2>2 DEF Rotate, Inv
<1>8. ASSUME NEW u \in Users, RecordUploaded(u) \/ RecordDownloaded(u)
      PROVE  Good(q') /\ ledger' \in [Users -> Row]
  <2>1. q' = q
    BY <1>8 DEF RecordUploaded, RecordDownloaded
  <2>2. ledger' \in [Users -> Row]
    BY <1>8 DEF RecordUploaded, RecordDownloaded, Inv, Row
  <2> QED BY <1>a, <2>1, <2>2
<1> QED
  BY <1>1, <1>2, <1>3, <1>4, <1>5, <1>6, <1>7, <1>8 DEF Next

(* Whatever the callers do, the queue keeps its types, never takes more    *)
(* than max_slots slots, never has a client waiting for a slot it holds,   *)
(* and keeps its waiting clients in one order.                             *)
LEMMA QueueGood == Spec => []Inv
BY InitGood, StepGood, PTL DEF Spec

(* TypeOK: the dictionaries of the queue and the ledger have their shape,  *)
(* and only slots that exist can be expired.                               *)
THEOREM QueueTypeCorrect == Spec => []TypeOK
<1>1. Inv => TypeOK
  BY DEF Inv, Good, TypeOK
<1> QED
  BY <1>1, QueueGood, PTL

(* SlotBound: no sequence of calls takes more than max_slots slots.        *)
THEOREM SlotsBounded == Spec => []SlotBound
<1>1. Inv => SlotBound
  BY DEF Inv, Good, Bounded, SlotBound
<1> QED
  BY <1>1, QueueGood, PTL

(* NeverTwice: enqueue finds the holder of a slot, and a grant takes the   *)
(* client out of the queue.                                                *)
THEOREM NeverWaitsAndHolds == Spec => []NeverTwice
<1>1. Inv => NeverTwice
  BY DEF Inv, Good, NeverTwice
<1> QED
  BY <1>1, QueueGood, PTL

(* ArrivalTotal: the sort keys of the queue always order it totally.       *)
THEOREM OneOrder == Spec => []ArrivalTotal
<1>1. Inv => ArrivalTotal
  BY DEF Inv, Good, Ordered, ArrivalTotal
<1> QED
  BY <1>1, QueueGood, PTL
(* NoOvertaking: every method keeps the pairs of the clients it leaves in  *)
(* the queue.                                                              *)
THEOREM PlacesKept == Spec => NoOvertaking
<1> DEFINE Kept(Q) == \A j, k \in q.waiting \cap Q.waiting :
                         <<j, k>> \in q.ahead => <<j, k>> \in Q.ahead
<1>1. Inv /\ [Next]_queueVars => [Kept(q')]_queueVars
  <2> SUFFICES ASSUME Inv, Next PROVE Kept(q')
    OBVIOUS
  <2>a. Good(q) /\ q \in Queue
    BY DEF Inv, Good
  <2>1. ASSUME NEW k \in Keys, NEW p \in Priorities, Enqueue(k, p)
        PROVE  Kept(q')
    <3> DEFINE N == Arrived(q, k, p)
    <3>1. CASE k \in q.waiting \cup q.slots
      BY <2>1, <2>a, <3>1, RecomputeKeeps DEF Enqueue, enqueue
    <3>2. CASE k \notin q.waiting \cup q.slots
      <4>1. N \in Queue /\ N.ahead = q.ahead \cup {<<j, k>> : j \in q.waiting}
        BY <2>a, ArrivedTyped, UploadQueueAssumption
      <4>2. q' = recompute(N)
        BY <2>1, <3>2 DEF Enqueue, enqueue, Arrived
      <4>3. q'.ahead = N.ahead
        BY <4>1, <4>2, RecomputeKeeps
      <4> QED BY <4>1, <4>3
    <3> QED BY <3>1, <3>2
  <2>2. ASSUME NEW k \in Keys, Grant(k) PROVE Kept(q')
    <3> DEFINE W == Without(q, k)
    <3>1. /\ W.waiting = q.waiting \ {k}
          /\ W.ahead = {e \in q.ahead : e[1] # k /\ e[2] # k}
          /\ W \in Queue
      BY <2>a, WithoutKeeps DEF Good
    <3>2. q' = recompute([W EXCEPT !.slots = @ \cup {k}])
      BY <2>2 DEF Grant, grant_slot
    <3> HIDE DEF W
    <3>3. [W EXCEPT !.slots = @ \cup {k}] \in Queue
      BY <3>1 DEF Queue
    <3>4. q'.waiting = W.waiting /\ q'.ahead = W.ahead
      BY <3>1, <3>2, <3>3, RecomputeKeeps DEF Queue
    <3> QED BY <3>1, <3>4
  <2>3. ASSUME NEW k \in Keys, Cancel(k) PROVE Kept(q')
    <3> DEFINE W == Without(q, k)
               R == release_slot(W, k)
    <3>1. /\ W.waiting = q.waiting \ {k}
          /\ W.ahead = {e \in q.ahead : e[1] # k /\ e[2] # k}
          /\ W \in Queue /\ Good(W)
      BY <2>a, WithoutKeeps DEF Good
    <3>2. q' = recompute(R)
      BY <2>3 DEF Cancel, cancel
    <3> HIDE DEF W
    <3>3. R.waiting = W.waiting /\ R.ahead = W.ahead
      BY <3>1 DEF release_slot, Queue
    <3>4. R \in Queue
      BY <3>1, ReleaseGood DEF Good
    <3> HIDE DEF R
    <3>5. q'.waiting = W.waiting /\ q'.ahead = W.ahead
      BY <3>2, <3>3, <3>4, RecomputeKeeps
    <3> QED BY <3>1, <3>5
  <2>4. ASSUME NEW k \in Keys, Release(k) \/ Age(k) PROVE Kept(q')
    BY <2>4, <2>a DEF Release, release_slot, Age, Queue
  <2>5. CASE Rotate
    BY <2>5, <2>a DEF Rotate, rotate, Queue
  <2>6. ASSUME NEW u \in Users, RecordUploaded(u) \/ RecordDownloaded(u)
        PROVE  Kept(q')
    BY <2>6 DEF RecordUploaded, RecordDownloaded
  <2> QED
    BY <2>1, <2>2, <2>3, <2>4, <2>5, <2>6 DEF Next
<1> QED
  BY <1>1, QueueGood, PTL DEF Spec, NoOvertaking

-----------------------------------------------------------------------------
(* The sessions: what any number of them keep of the one queue they share, *)
(* and to whom its slots belong.                                           *)

(* What a session may do to the queue between two awaits: B is well formed *)
(* when A is, no slot is taken away, who no longer waits has a slot, and   *)
(* those who go on waiting stay in their order.                            *)
Follows(A, B) ==
    /\ Good(B)
    /\ A.slots \subseteq B.slots
    /\ A.waiting \ B.waiting \subseteq B.slots
    /\ \A j, k \in A.waiting \cap B.waiting : <<j, k>> \in A.ahead => <<j, k>> \in B.ahead

LEMMA FollowsItself == ASSUME NEW A, Good(A) PROVE Follows(A, A)
  BY DEF Follows

LEMMA FollowsOn ==
    ASSUME NEW A, NEW B, NEW C, Follows(A, B), Follows(B, C)
    PROVE  Follows(A, C)
<1>1. C.waiting \cap C.slots = {}
  BY DEF Follows, Good
<1>2. A.waiting \cap C.waiting \subseteq B.waiting
  BY <1>1 DEF Follows
<1> QED
  BY <1>2 DEF Follows

LEMMA EnqueueFollows ==
    ASSUME NEW A, Good(A), NEW k \in Keys, NEW p \in Nat
    PROVE  Follows(A, enqueue(A, k, p)) /\ enqueue(A, k, p).slots = A.slots
<1> DEFINE B == enqueue(A, k, p)
           N == Arrived(A, k, p)
<1>1. A \in Queue
  BY DEF Good
<1>2. Good(B)
  BY <1>1, EnqueueGood
<1>3. CASE k \in A.waiting \cup A.slots
  <2>1. B = recompute(A)
    BY <1>3 DEF enqueue
  <2>2. B.waiting = A.waiting /\ B.ahead = A.ahead /\ B.slots = A.slots
    BY <1>1, <2>1, RecomputeKeeps
  <2> QED
    BY <1>1, <1>2, <2>2 DEF Follows
<1>4. CASE k \notin A.waiting \cup A.slots
  <2>1. /\ N \in Queue /\ N.waiting = A.waiting \cup {k}
        /\ N.ahead = A.ahead \cup {<<j, k>> : j \in A.waiting}
        /\ N.slots = A.slots
    BY <1>1, ArrivedTyped
  <2>2. B = recompute(N)
    BY <1>4 DEF enqueue, Arrived
  <2> HIDE DEF N, B
  <2>3. B.waiting = N.waiting /\ B.ahead = N.ahead /\ B.slots = N.slots
    BY <2>1, <2>2, RecomputeKeeps
  <2>4. Follows(A, B) /\ B.slots = A.slots
    BY <1>1, <1>2, <2>1, <2>3 DEF Follows
  <2> QED
    BY <2>4 DEF B
<1> QED
  BY <1>3, <1>4

LEMMA GrantFollows ==
    ASSUME NEW A, Good(A), NEW k \in Keys, mayGrant(A, k)
    PROVE  Follows(A, grant_slot(A, k)) /\ grant_slot(A, k).slots = A.slots \cup {k}
<1> DEFINE B == grant_slot(A, k)
           W == Without(A, k)
           G == [W EXCEPT !.slots = @ \cup {k}]
<1>2. Good(B)
  BY GrantGood
<1>3. /\ W \in Queue /\ W.waiting = A.waiting \ {k} /\ W.slots = A.slots
      /\ W.ahead = {e \in A.ahead : e[1] # k /\ e[2] # k}
  BY WithoutKeeps DEF Good
<1> HIDE DEF W
<1>4. /\ G \in Queue /\ G.waiting = W.waiting /\ G.ahead = W.ahead
      /\ G.slots = A.slots \cup {k}
  BY <1>3 DEF Queue
<1>5. B = recompute(G)
  BY DEF grant_slot, W
<1> HIDE DEF G, B
<1>6. B.waiting = G.waiting /\ B.ahead = G.ahead /\ B.slots = G.slots
  BY <1>4, <1>5, RecomputeKeeps
<1>7. Follows(A, B) /\ B.slots = A.slots \cup {k}
  BY <1>2, <1>3, <1>4, <1>6 DEF Follows
<1> QED
  BY <1>7 DEF B

LEMMA TryFollows ==
    ASSUME NEW A, Good(A), NEW s \in Sessions, NEW k \in Keys, shared[s] \in Files
    PROVE  Follows(A, Try(A, s, k)) /\ Try(A, s, k).slots \subseteq A.slots \cup {k}
<1> DEFINE B == enqueue(A, k, PriorityOf[shared[s]])
<1>1. PriorityOf[shared[s]] \in Nat
  BY UploadAssumption, UploadQueueAssumption
<1>2. Follows(A, B) /\ B.slots = A.slots /\ Good(B)
  BY <1>1, EnqueueFollows DEF Follows
<1>3. Try(A, s, k) = IF mayGrant(B, k) THEN grant_slot(B, k) ELSE B
  BY DEF Try
<1> HIDE DEF B
<1>4. CASE mayGrant(B, k)
  <2>1. Follows(B, grant_slot(B, k)) /\ grant_slot(B, k).slots = B.slots \cup {k}
    BY <1>2, <1>4, GrantFollows
  <2> QED
    BY <1>2, <1>3, <1>4, <2>1, FollowsOn
<1> QED
  BY <1>2, <1>3, <1>4

LEMMA RankTyped == ASSUME NEW A, Good(A), NEW k \in Keys PROVE RankIn(A, k) \in Nat
  BY DEF Good, Queue, RankIn

(* The engine's hook answers with a rank or with Accept.                   *)
LEMMA HookFollows ==
    ASSUME NEW A, Good(A), NEW s \in Sessions, NEW k \in Keys, shared[s] \in Files
    PROVE  /\ Follows(A, Hook(A, s, k).queue)
           /\ Hook(A, s, k).answer \in {Accept} \cup Nat
<1> DEFINE B == IF k \in A.slots THEN A ELSE Try(A, s, k)
<1>1. Follows(A, B)
  BY TryFollows, FollowsItself
<1>2. Good(B)
  BY <1>1 DEF Follows
<1>3. RankIn(B, k) \in Nat
  BY <1>2, RankTyped
<1>4. /\ Hook(A, s, k).queue = B
      /\ Hook(A, s, k).answer = IF k \in B.slots THEN Accept ELSE RankIn(B, k)
  BY DEF Hook
<1> QED
  BY <1>1, <1>3, <1>4

-----------------------------------------------------------------------------
SessionsShape ==
    /\ clients \in Clients
    /\ pc \in [Sessions -> {"open", "hold", "engine", "closed"}]
    /\ shared \in [Sessions -> Files]
    /\ granted \in [Sessions -> SUBSET Keys]
    /\ told \in [Sessions -> {Silent, Accept} \cup Nat]

(* Who asks once is granted the slot of that request, and no other.        *)
GrantsAreOwn == ~clients.rerequests => \A s \in Sessions : granted[s] \subseteq {Key(s, shared[s])}

(* The inductive invariant: the queue is well formed, and every slot has   *)
(* its session.                                                            *)
SessionsInv == Inv /\ SessionsShape /\ GrantsAreOwn /\ SlotsAccounted

(* Order and ledger, as every step leaves them.                            *)
OrderKept ==
    \A j, k \in q.waiting \cap q'.waiting : <<j, k>> \in q.ahead => <<j, k>> \in q'.ahead

LEMMA KeyTyped ==
    ASSUME SessionsShape, NEW s \in Sessions, NEW f \in Files
    PROVE  Key(s, f) \in Keys /\ User(s) \in Users
  BY UploadAssumption DEF SessionsShape, Key, User, Keys

(* The methods of a session only let the queue go on.                      *)
LEMMA FollowsKeeps ==
    ASSUME Inv, Follows(q, q'), ledger' \in [Users -> Row]
    PROVE  Inv' /\ OrderKept
  BY DEF Inv, Follows, OrderKept

(* Taking slots away, or their age, moves nobody who waits.                *)
LEMMA ShrinkKeeps ==
    ASSUME Inv, ledger' \in [Users -> Row],
           NEW S \in SUBSET Keys, NEW A \in SUBSET Keys, S \subseteq q.slots, A \subseteq S,
           q' = [q EXCEPT !.slots = S, !.aged = A]
    PROVE  Inv' /\ OrderKept /\ q'.slots = S
<1>1. Good(q')
  BY ShrinkGood DEF Inv
<1>2. q'.waiting = q.waiting /\ q'.ahead = q.ahead /\ q'.slots = S
  BY DEF Inv, Good, Queue
<1> QED
  BY <1>1, <1>2 DEF Inv, OrderKept

(* A session is accounted for as long as it is in the engine.              *)
LEMMA AccountedOn ==
    ASSUME SessionsInv, NEW s \in Sessions,
           UNCHANGED clients,
           \A r \in Sessions \ {s} : pc'[r] = pc[r] /\ granted'[r] = granted[r],
           pc[s] # "engine" \/ (pc'[s] = "engine" /\ granted'[s] = granted[s]),
           \/ q'.slots \subseteq q.slots
           \/ pc'[s] = "engine" /\ q'.slots \ q.slots \subseteq granted'[s]
    PROVE  SlotsAccounted'
  BY DEF SessionsInv, SlotsAccounted

LEMMA StartUploadKeeps ==
    ASSUME SessionsInv, NEW s \in Sessions, StartUpload(s) PROVE SessionsInv' /\ OrderKept
<1> USE DEF SessionsInv
<1> DEFINE k == Key(s, shared[s])
           B == IF k \in q.slots THEN q ELSE Try(q, s, k)
<1>1. k \in Keys /\ Good(q) /\ shared[s] \in Files
  BY KeyTyped DEF SessionsShape, Inv
<1>2. Follows(q, B) /\ B.slots \subseteq q.slots \cup {k}
  BY <1>1, TryFollows, FollowsItself
<1>3. RankIn(B, k) \in Nat
  BY <1>1, <1>2, RankTyped DEF Follows
<1>4. /\ pc[s] = "open" /\ q' = B /\ UNCHANGED <<clients, ledger, shared>>
      /\ \/ /\ k \in B.slots
            /\ pc' = [pc EXCEPT ![s] = "engine"]
            /\ granted' = [granted EXCEPT ![s] = {k} \ q.slots]
            /\ told' = [told EXCEPT ![s] = Accept]
         \/ /\ k \notin B.slots
            /\ pc' = [pc EXCEPT ![s] = "hold"]
            /\ told' = [told EXCEPT ![s] = RankIn(B, k)]
            /\ UNCHANGED granted
  BY DEF StartUpload
<1> HIDE DEF B
<1>5. Inv' /\ OrderKept
  BY <1>2, <1>4, FollowsKeeps DEF Inv
<1>6. SessionsShape' /\ GrantsAreOwn'
  BY <1>1, <1>3, <1>4 DEF SessionsShape, GrantsAreOwn, Key, User
<1>7. SlotsAccounted'
  <2>1. \A r \in Sessions \ {s} : pc'[r] = pc[r] /\ granted'[r] = granted[r]
    BY <1>4 DEF SessionsShape
  <2>2. \/ q'.slots \subseteq q.slots
        \/ pc'[s] = "engine" /\ q'.slots \ q.slots \subseteq granted'[s]
    BY <1>2, <1>4 DEF SessionsShape
  <2> QED
    BY <1>4, <2>1, <2>2, AccountedOn
<1> QED
  BY <1>5, <1>6, <1>7

LEMMA RefreshKeeps ==
    ASSUME SessionsInv, NEW s \in Sessions, Refresh(s) PROVE SessionsInv' /\ OrderKept
<1> USE DEF SessionsInv
<1> DEFINE k == Key(s, shared[s])
<1>1. k \in Keys /\ Good(q) /\ q.rank[k] \in Nat
  BY KeyTyped DEF SessionsShape, Inv, Good, Queue
<1>2. /\ pc[s] = "hold" /\ UNCHANGED <<clients, ledger, shared>>
      /\ \/ /\ mayGrant(q, k) /\ q' = grant_slot(q, k)
            /\ pc' = [pc EXCEPT ![s] = "engine"]
            /\ granted' = [granted EXCEPT ![s] = {k}]
            /\ told' = [told EXCEPT ![s] = Accept]
         \/ /\ told' = [told EXCEPT ![s] = IF k \in q.waiting THEN q.rank[k] ELSE @]
            /\ UNCHANGED <<q, pc, granted>>
  BY DEF Refresh
<1>3. Follows(q, q') /\ (UNCHANGED q \/ q'.slots = q.slots \cup {k})
  BY <1>1, <1>2, GrantFollows, FollowsItself
<1>4. Inv' /\ OrderKept
  BY <1>2, <1>3, FollowsKeeps DEF Inv
<1>5. SessionsShape' /\ GrantsAreOwn'
  BY <1>1, <1>2 DEF SessionsShape, GrantsAreOwn, Key, User
<1>6. SlotsAccounted'
  <2>1. \A r \in Sessions \ {s} : pc'[r] = pc[r] /\ granted'[r] = granted[r]
    BY <1>2 DEF SessionsShape
  <2>2. \/ q'.slots \subseteq q.slots
        \/ pc'[s] = "engine" /\ q'.slots \ q.slots \subseteq granted'[s]
    BY <1>2, <1>3 DEF SessionsShape
  <2> QED
    BY <1>2, <2>1, <2>2, AccountedOn
<1> QED
  BY <1>4, <1>5, <1>6

(* A second request, held or in the engine: SlotsAccounted does not speak  *)
(* of clients that send one.                                               *)
LEMMA RerequestKeeps ==
    ASSUME SessionsInv, NEW s \in Sessions, NEW f \in Files, AskAgain(s, f) \/ EngineAsks(s, f)
    PROVE  SessionsInv' /\ OrderKept
<1> USE DEF SessionsInv
<1> DEFINE k == Key(s, f)
           first == Key(s, shared[s])
           B == Try(q, s, k)
<1>1. k \in Keys /\ first \in Keys /\ Good(q) /\ shared[s] \in Files
  BY KeyTyped DEF SessionsShape, Inv
<1>2. Follows(q, B) /\ Good(B) /\ RankIn(B, k) \in Nat
  BY <1>1, TryFollows, RankTyped DEF Follows
<1>3. /\ Follows(B, Hook(B, s, first).queue) /\ Hook(B, s, first).answer \in {Accept} \cup Nat
      /\ Follows(q, Hook(q, s, k).queue) /\ Hook(q, s, k).answer \in {Accept} \cup Nat
  BY <1>1, <1>2, HookFollows
<1>4. Follows(q, Hook(B, s, first).queue)
  BY <1>2, <1>3, FollowsOn
<1> HIDE DEF B, k, first
<1>5. /\ clients.rerequests /\ UNCHANGED <<clients, ledger, shared>>
      /\ q' \in {B, Hook(B, s, first).queue, Hook(q, s, k).queue}
      /\ pc' \in {pc, [pc EXCEPT ![s] = "engine"]}
      /\ granted' \in {granted, [granted EXCEPT ![s] = {k}]}
      /\ \E n \in {Accept} \cup Nat : told' = [told EXCEPT ![s] = n]
  BY <1>2, <1>3 DEF AskAgain, EngineAsks, B, k, first
<1>6. Follows(q, q')
  BY <1>2, <1>3, <1>4, <1>5
<1>7. Inv' /\ OrderKept
  BY <1>5, <1>6, FollowsKeeps DEF Inv
<1>8. SessionsShape'
  BY <1>1, <1>5 DEF SessionsShape
<1> QED
  BY <1>5, <1>7, <1>8 DEF GrantsAreOwn, SlotsAccounted

LEMMA LeaveKeeps ==
    ASSUME SessionsInv, NEW s \in Sessions, Refuse(s) \/ LeaveQueue(s)
    PROVE  SessionsInv' /\ OrderKept
<1> USE DEF SessionsInv
<1>1. /\ pc[s] # "engine" /\ pc' = [pc EXCEPT ![s] = "closed"]
      /\ UNCHANGED <<clients, q, ledger, shared, granted, told>>
  BY DEF Refuse, LeaveQueue
<1>2. Inv' /\ OrderKept
  BY <1>1 DEF Inv, OrderKept
<1>3. SessionsShape' /\ GrantsAreOwn'
  BY <1>1 DEF SessionsShape, GrantsAreOwn, Key, User
<1>4. SlotsAccounted'
  <2>1. \A r \in Sessions \ {s} : pc'[r] = pc[r] /\ granted'[r] = granted[r]
    BY <1>1 DEF SessionsShape
  <2> QED
    BY <1>1, <2>1, AccountedOn
<1> QED
  BY <1>2, <1>3, <1>4

(* The end of a session frees the one slot that is its own, and every      *)
(* other slot keeps its session.                                           *)
LEMMA EngineEndsKeeps ==
    ASSUME SessionsInv, NEW s \in Sessions, EngineEnds(s) PROVE SessionsInv' /\ OrderKept
<1> USE DEF SessionsInv
<1>1. ledger' \in [Users -> Row]
  <2>1. User(s) \in Users
    BY UploadAssumption DEF SessionsShape, User
  <2> QED
    BY <2>1 DEF EngineEnds, Credit, Inv, Row
<1>2. /\ pc[s] = "engine" /\ pc' = [pc EXCEPT ![s] = "closed"]
      /\ granted' = [granted EXCEPT ![s] = {}]
      /\ UNCHANGED <<clients, shared, told>>
      /\ \/ granted[s] = {} /\ UNCHANGED q
         \/ \E k \in granted[s] : q' = [q EXCEPT !.slots = @ \ {k}, !.aged = @ \ {k}]
  BY DEF EngineEnds, release_slot
<1>3. /\ Inv' /\ OrderKept
      /\ \/ granted[s] = {} /\ UNCHANGED q
         \/ \E k \in granted[s] : q'.slots = q.slots \ {k}
  <2>1. CASE granted[s] = {} /\ UNCHANGED q
    BY <1>1, <2>1 DEF Inv, OrderKept
  <2>2. ASSUME NEW k \in granted[s], q' = [q EXCEPT !.slots = @ \ {k}, !.aged = @ \ {k}]
        PROVE  Inv' /\ OrderKept /\ q'.slots = q.slots \ {k}
    <3>1. /\ q.slots \ {k} \in SUBSET Keys /\ q.aged \ {k} \in SUBSET Keys
          /\ q.slots \ {k} \subseteq q.slots /\ q.aged \ {k} \subseteq q.slots \ {k}
      BY DEF Inv, Good, Queue
    <3> QED
      BY <1>1, <2>2, <3>1, ShrinkKeeps
  <2> QED
    BY <1>2, <2>1, <2>2
<1>4. SessionsShape' /\ GrantsAreOwn'
  BY <1>2 DEF SessionsShape, GrantsAreOwn, Key, User
<1>5. SlotsAccounted'
  <2> SUFFICES ASSUME ~clients.rerequests, ~clients.errors, NEW j \in q'.slots
               PROVE  \E r \in Sessions : pc'[r] = "engine" /\ j \in granted'[r]
    BY <1>2 DEF SlotsAccounted
  <2>1. j \in q.slots
    BY <1>3
  <2>2. PICK r \in Sessions : pc[r] = "engine" /\ j \in granted[r]
    BY <2>1 DEF SlotsAccounted
  <2>3. r # s
    BY <1>3, <2>2 DEF GrantsAreOwn
  <2> QED
    BY <1>2, <2>2, <2>3 DEF SessionsShape
<1> QED
  BY <1>3, <1>4, <1>5

LEMMA EngineFailsKeeps ==
    ASSUME SessionsInv, NEW s \in Sessions, EngineFails(s) PROVE SessionsInv' /\ OrderKept
<1> USE DEF SessionsInv
<1>1. ledger' \in [Users -> Row]
  <2>1. User(s) \in Users
    BY UploadAssumption DEF SessionsShape, User
  <2> QED
    BY <2>1 DEF EngineFails, Credit, Inv, Row
<1>2. /\ clients.errors /\ pc' = [pc EXCEPT ![s] = "closed"]
      /\ UNCHANGED <<clients, q, shared, granted, told>>
  BY DEF EngineFails
<1> QED
  BY <1>1, <1>2 DEF Inv, OrderKept, SessionsShape, GrantsAreOwn, Key, User, SlotsAccounted

LEMMA TimersKeep ==
    ASSUME SessionsInv, Rotation \/ \E k \in Keys : SlotAges(k)
    PROVE  SessionsInv' /\ OrderKept
<1> USE DEF SessionsInv
<1>1. ASSUME Inv', OrderKept, q'.slots \subseteq q.slots, UNCHANGED <<clients, sessionVars>>
      PROVE  SessionsInv' /\ OrderKept
  BY <1>1 DEF sessionVars, SessionsShape, GrantsAreOwn, Key, User, SlotsAccounted
<1>2. CASE Rotation
  <2>1. q' = [q EXCEPT !.slots = @ \ q.aged, !.aged = {}] /\ UNCHANGED <<ledger, clients, sessionVars>>
    BY <1>2 DEF Rotation, Rotate, rotate
  <2>2. q.slots \ q.aged \in SUBSET Keys /\ {} \in SUBSET Keys
    BY DEF Inv, Good, Queue
  <2>3. Inv' /\ OrderKept /\ q'.slots = q.slots \ q.aged
    BY <2>1, <2>2, ShrinkKeeps DEF Inv
  <2> QED
    BY <1>1, <2>1, <2>3
<1>3. ASSUME NEW k \in Keys, SlotAges(k) PROVE SessionsInv' /\ OrderKept
  <2>1. /\ k \in q.slots /\ q' = [q EXCEPT !.aged = @ \cup {k}]
        /\ UNCHANGED <<ledger, clients, sessionVars>>
    BY <1>3 DEF SlotAges, Age
  <2>2. /\ q.slots \in SUBSET Keys /\ q.aged \cup {k} \in SUBSET Keys
        /\ q.aged \cup {k} \subseteq q.slots
        /\ q' = [q EXCEPT !.slots = q.slots, !.aged = q.aged \cup {k}]
    BY <2>1 DEF Inv, Good, Queue
  <2>3. Inv' /\ OrderKept /\ q'.slots = q.slots
    BY <2>1, <2>2, ShrinkKeeps DEF Inv
  <2> QED
    BY <1>1, <2>1, <2>3
<1> QED
  BY <1>2, <1>3

LEMMA SessionsStep ==
    ASSUME SessionsInv, [SessionsNext]_vars PROVE SessionsInv' /\ (OrderKept \/ UNCHANGED q)
<1>1. ASSUME NEW s \in Sessions, SessionStep(s) PROVE SessionsInv' /\ OrderKept
  <2> USE <1>1
  <2>1. CASE \E f \in Files : AskAgain(s, f) \/ EngineAsks(s, f)
    BY <2>1, RerequestKeeps
  <2> QED
    BY <2>1, StartUploadKeeps, RefreshKeeps, LeaveKeeps, EngineEndsKeeps, EngineFailsKeeps
       DEF SessionStep
<1>2. CASE UNCHANGED vars
  BY <1>2 DEF vars, queueVars, sessionVars, SessionsInv, Inv, SessionsShape, GrantsAreOwn, Key, User,
              SlotsAccounted
<1> QED
  BY <1>1, <1>2, TimersKeep DEF SessionsNext, Done

LEMMA SessionsGood == SessionsSpec => []SessionsInv
<1>1. SessionsInit => SessionsInv
  <2> SUFFICES ASSUME SessionsInit PROVE SessionsInv
    OBVIOUS
  <2>1. Inv
    BY InitGood DEF SessionsInit
  <2>2. q.slots = {}
    BY DEF SessionsInit, Init, EmptyQueue
  <2> QED
    BY <2>1, <2>2 DEF SessionsInit, SessionsInv, SessionsShape, GrantsAreOwn, SlotsAccounted
<1>2. SessionsInv /\ [SessionsNext]_vars => SessionsInv'
  BY SessionsStep
<1> QED
  BY <1>1, <1>2, PTL DEF SessionsSpec

-----------------------------------------------------------------------------
(* listener.py:1126-1128: however many sessions share the queue, whoever   *)
(* they belong to and however the rotation cuts in, a slot without a       *)
(* session in the engine takes an error or a second request.               *)
THEOREM EverySlotHasASession == SessionsSpec => []SlotsAccounted
<1>1. SessionsInv => SlotsAccounted
  BY DEF SessionsInv
<1> QED
  BY <1>1, SessionsGood, PTL

(* The queue, its ledger and what each session remembers keep their shape, *)
(* whatever the clients do.                                                *)
THEOREM SessionsTypeCorrect == SessionsSpec => []SessionsTypeOK
<1>1. SessionsInv => SessionsTypeOK
  BY DEF SessionsInv, Inv, Good, SessionsShape, SessionsTypeOK, TypeOK
<1> QED
  BY <1>1, SessionsGood, PTL

(* upload/queue.py:7-12 under real sessions, which take several methods    *)
(* between two awaits and test for the head before they grant: no more     *)
(* slots than max_slots, nobody waits for what it holds, one head.         *)
THEOREM SessionsKeepQueue == SessionsSpec => [](SlotBound /\ NeverTwice /\ ArrivalTotal)
<1>1. SessionsInv => SlotBound /\ NeverTwice /\ ArrivalTotal
  BY DEF SessionsInv, Inv, Good, Bounded, Ordered, SlotBound, NeverTwice, ArrivalTotal
<1> QED
  BY <1>1, SessionsGood, PTL

(* upload/queue.py:10-12 for the sessions: who keeps waiting keeps its     *)
(* place, also when others ask again, leave, fail or are rotated away.     *)
THEOREM SessionsKeepOrder == SessionsSpec => NoOvertaking
<1>1. SessionsInv /\ [SessionsNext]_vars => [OrderKept]_queueVars
  BY SessionsStep DEF queueVars, OrderKept
<1> QED
  BY <1>1, SessionsGood, PTL DEF SessionsSpec, NoOvertaking, OrderKept

-----------------------------------------------------------------------------
(* The tables of shared files.                                             *)

(* The scan in progress: files of its directory, hashed or still to hash.  *)
ScanTyped ==
    scan # <<>> =>
        \E d \in Dirs, todo \in Seq(Paths), records \in Seq(Paths \X Contents), kind \in {"scan", "add"} :
            /\ scan = <<d, todo, records, kind>>
            /\ \A i \in 1..Len(todo) : todo[i] \in Under(d)
            /\ \A i \in 1..Len(records) : records[i] \in Under(d) \X Contents

(* The row of a content that is recorded in one directory names a path in  *)
(* that directory.                                                         *)
RowIsNear ==
    \A p \in indexed : disk[p] \notin twins =>
        /\ share[disk[p]] # NoRow
        /\ share[disk[p]] \in Paths => share[disk[p]] \in Under(p[1])

IndexedExist == \A p \in indexed : disk[p] # NoFile

FilesInv == FilesTypeOK /\ ScanTyped /\ IndexedExist /\ RowIsNear

(* A directory and what is below it.                                       *)
LEMMA UnderIs ==
    /\ \A p : \A d \in Dirs : p \in Under(d) <=> p \in Paths /\ p[1] = d
    /\ \A p \in Paths : p \in Under(p[1]) /\ p[1] \in Dirs
    /\ \A d, e, p : p \in Under(d) /\ p \in Under(e) => d = e
BY DEF Under, Paths

(* What a scan lists.                                                      *)
LEMMA ListedIs ==
    ASSUME NEW d \in Dirs, NEW todo \in SetToSeqs({p \in Under(d) : disk[p] # NoFile})
    PROVE  todo \in Seq(Paths) /\ \A i \in 1..Len(todo) : todo[i] \in Under(d)
<1> DEFINE S == {p \in Under(d) : disk[p] # NoFile}
<1>1. IsFiniteSet(Under(d))
  <2>1. IsFiniteSet({d}) /\ IsFiniteSet(Names)
    BY FS_Singleton, SharedFilesAssumption
  <2> QED
    BY <2>1, FS_Product DEF Under
<1>2. Cardinality(S) \in Nat
  <2>1. S \subseteq Under(d)
    OBVIOUS
  <2> QED
    BY <1>1, <2>1, FS_Subset, FS_CardinalityType
<1>3. \A p \in S : p \in Paths /\ p \in Under(d)
  BY UnderIs
<1> HIDE DEF S
<1>4. todo \in [1..Cardinality(S) -> S]
  BY DEF SetToSeqs, S
<1> QED
  BY <1>2, <1>3, <1>4

(* The filled after the records of a directory are inserted: a content that  *)
(* was found has one of the paths it was found under.                      *)
LEMMA InsertIs ==
    ASSUME NEW records \in Seq(Paths \X Contents), NEW c \in Contents
    PROVE  /\ (\A i \in 1..Len(records) : records[i][2] # c) => Insert(share, records)[c] = share[c]
           /\ (\E i \in 1..Len(records) : records[i][2] = c) =>
                 \E i \in 1..Len(records) : /\ records[i][2] = c
                                            /\ Insert(share, records)[c] = records[i][1]
<1> DEFINE at == {i \in 1..Len(records) : records[i][2] = c}
<1>1. Len(records) \in Nat /\ DOMAIN records = 1..Len(records)
  OBVIOUS
<1>2. Insert(share, records)[c] = IF at = {} THEN share[c] ELSE records[Max(at)][1]
  BY <1>1 DEF Insert
<1>3. at \in SUBSET (1..Len(records))
  OBVIOUS
<1>4. at # {} => Max(at) \in at
  BY <1>1, <1>3, MaxIsGreatest
<1> QED
  BY <1>2, <1>4

LEMMA FilesStart == FilesInit => FilesInv
BY DEF FilesInit, FilesInv, FilesTypeOK, ScanTyped, IndexedExist, RowIsNear

(* The files change under the tables' feet, and scans go on hashing.       *)
LEMMA ScanSteps ==
    ASSUME FilesInv,
           \/ \E p \in Paths, c \in Contents \cup {NoFile} : Change(p, c)
           \/ \E d \in Dirs : BeginScan(d)
           \/ \E p \in Paths : BeginAdd(p)
           \/ HashNext \/ ScanFails
    PROVE  FilesInv'
<1> USE DEF FilesInv
<1>1. ASSUME NEW p \in Paths, NEW c \in Contents \cup {NoFile}, Change(p, c)
      PROVE  FilesInv'
  <2>1. /\ disk' = [disk EXCEPT ![p] = c] /\ indexed' = indexed \ {p}
        /\ UNCHANGED <<dirs, share, scan, twins>>
    BY <1>1 DEF Change
  <2>2. FilesTypeOK'
    BY <2>1 DEF FilesTypeOK
  <2>3. \A x \in indexed' : x \in indexed /\ disk'[x] = disk[x]
    BY <2>1 DEF FilesTypeOK
  <2>4. IndexedExist' /\ RowIsNear' /\ ScanTyped'
    BY <2>1, <2>3 DEF IndexedExist, RowIsNear, ScanTyped
  <2> QED
    BY <2>2, <2>4
<1>2. ASSUME UNCHANGED <<disk, dirs, share, indexed, twins>>, ScanTyped'
      PROVE  FilesInv'
  BY <1>2 DEF FilesTypeOK, IndexedExist, RowIsNear
<1>3. ASSUME NEW d \in Dirs, BeginScan(d)
      PROVE  FilesInv'
  <2>1. PICK todo \in SetToSeqs({p \in Under(d) : disk[p] # NoFile}) : scan' = <<d, todo, <<>>, "scan">>
    BY <1>3 DEF BeginScan
  <2>2. todo \in Seq(Paths) /\ \A i \in 1..Len(todo) : todo[i] \in Under(d)
    BY <2>1, ListedIs
  <2>3. <<>> \in Seq(Paths \X Contents) /\ \A i \in 1..Len(<<>>) : <<>>[i] \in Under(d) \X Contents
    OBVIOUS
  <2>4. ScanTyped'
    BY <2>1, <2>2, <2>3 DEF ScanTyped
  <2> QED
    BY <1>2, <1>3, <2>4 DEF BeginScan
<1>4. ASSUME NEW p \in Paths, BeginAdd(p)
      PROVE  FilesInv'
  <2>1. p[1] \in Dirs /\ p \in Under(p[1]) /\ scan' = <<p[1], <<p>>, <<>>, "add">>
    BY <1>4, UnderIs DEF BeginAdd
  <2>2. /\ <<p>> \in Seq(Paths) /\ \A i \in 1..Len(<<p>>) : <<p>>[i] \in Under(p[1])
        /\ <<>> \in Seq(Paths \X Contents) /\ \A i \in 1..Len(<<>>) : <<>>[i] \in Under(p[1]) \X Contents
    BY <2>1
  <2>3. ScanTyped'
    BY <2>1, <2>2 DEF ScanTyped
  <2> QED
    BY <1>2, <1>4, <2>3 DEF BeginAdd
<1>5. CASE HashNext
  <2>1. PICK d \in Dirs, todo \in Seq(Paths), records \in Seq(Paths \X Contents), kind \in {"scan", "add"} :
            /\ scan = <<d, todo, records, kind>>
            /\ \A i \in 1..Len(todo) : todo[i] \in Under(d)
            /\ \A i \in 1..Len(records) : records[i] \in Under(d) \X Contents
    BY <1>5 DEF HashNext, ScanTyped
  <2> DEFINE new == <<Head(todo), disk[Head(todo)]>>
             more == Append(records, new)
  <2>2. todo # <<>> /\ disk[Head(todo)] # NoFile /\ scan' = <<d, Tail(todo), more, kind>>
    BY <1>5, <2>1 DEF HashNext
  <2>3. Head(todo) \in Paths /\ Head(todo) \in Under(d)
    BY <2>1, <2>2
  <2>4. new \in Under(d) \X Contents /\ new \in Paths \X Contents
    BY <2>2, <2>3 DEF FilesTypeOK
  <2> HIDE DEF new
  <2>5. Tail(todo) \in Seq(Paths) /\ \A i \in 1..Len(Tail(todo)) : Tail(todo)[i] \in Under(d)
    BY <2>1, <2>2
  <2>6. more \in Seq(Paths \X Contents) /\ \A i \in 1..Len(more) : more[i] \in Under(d) \X Contents
    BY <2>1, <2>4
  <2>7. ScanTyped'
    BY <2>2, <2>5, <2>6 DEF ScanTyped
  <2> QED
    BY <1>2, <1>5, <2>7 DEF HashNext
<1>6. CASE ScanFails
  BY <1>2, <1>6 DEF ScanFails, ScanTyped
<1> QED
  BY <1>1, <1>3, <1>4, <1>5, <1>6

(* Rows come and go by hand.                                               *)
LEMMA HandSteps ==
    ASSUME FilesInv,
           \/ \E c \in Contents : ImportShared(c) \/ RemoveFile(c)
           \/ \E d \in Dirs, keep \in BOOLEAN : RemoveDir(d, keep)
    PROVE  FilesInv'
<1> USE DEF FilesInv
<1>1. ASSUME NEW c \in Contents, ImportShared(c)
      PROVE  FilesInv'
  <2>1. share' = [share EXCEPT ![c] = NoPath] /\ UNCHANGED <<disk, dirs, scan, indexed, twins>>
    BY <1>1 DEF ImportShared
  <2>2. FilesTypeOK' /\ IndexedExist' /\ ScanTyped'
    BY <2>1 DEF FilesTypeOK, IndexedExist, ScanTyped
  <2>3. \A x \in Contents : share'[x] = share[x] \/ share'[x] = NoPath
    BY <2>1 DEF FilesTypeOK
  <2>4. RowIsNear'
    BY <2>1, <2>3, SharedFilesAssumption DEF FilesTypeOK, RowIsNear, IndexedExist
  <2> QED
    BY <2>2, <2>4
<1>2. ASSUME NEW c \in Contents, RemoveFile(c)
      PROVE  FilesInv'
  <2>1. /\ share' = [share EXCEPT ![c] = NoRow] /\ indexed' = {p \in indexed : disk[p] # c}
        /\ UNCHANGED <<disk, dirs, scan, twins>>
    BY <1>2 DEF RemoveFile
  <2>2. FilesTypeOK' /\ IndexedExist' /\ ScanTyped'
    BY <2>1 DEF FilesTypeOK, IndexedExist, ScanTyped
  <2>3. \A p \in indexed' : p \in indexed /\ share'[disk[p]] = share[disk[p]]
    BY <2>1 DEF FilesTypeOK, IndexedExist
  <2>4. RowIsNear'
    BY <2>1, <2>3 DEF RowIsNear
  <2> QED
    BY <2>2, <2>4
<1>3. ASSUME NEW d \in Dirs, NEW keep \in BOOLEAN, RemoveDir(d, keep)
      PROVE  FilesInv'
  <2>1. CASE keep
    BY <1>3, <2>1 DEF RemoveDir, FilesTypeOK, ScanTyped, IndexedExist, RowIsNear
  <2>2. CASE ~keep
    <3>1. /\ share' = DropStale(share, d, {}) /\ indexed' = indexed \ Under(d)
          /\ UNCHANGED <<disk, scan, twins>> /\ dirs' \subseteq dirs
      BY <1>3, <2>2 DEF RemoveDir
    <3>2. \A c \in Contents : share'[c] = IF share[c] \in Under(d) THEN NoRow ELSE share[c]
      BY <3>1 DEF DropStale
    <3>3. share' \in [Contents -> Paths \cup {NoPath, NoRow}]
      BY <3>1 DEF DropStale, FilesTypeOK
    <3>4. FilesTypeOK' /\ IndexedExist' /\ ScanTyped'
      BY <3>1, <3>3 DEF FilesTypeOK, IndexedExist, ScanTyped
    <3>5. ASSUME NEW p \in indexed', disk[p] \notin twins
          PROVE  share'[disk[p]] = share[disk[p]]
      <4>1. p \in indexed /\ p \in Paths /\ p \notin Under(d) /\ disk[p] \in Contents
        BY <3>1, <3>5 DEF FilesTypeOK, IndexedExist
      <4>2. share[disk[p]] \in Under(d) => share[disk[p]] \in Under(p[1])
        BY <3>5, <4>1, UnderIs DEF RowIsNear
      <4>3. share[disk[p]] \notin Under(d)
        BY <4>1, <4>2, UnderIs
      <4> QED
        BY <3>2, <4>1, <4>3
    <3>6. RowIsNear'
      BY <3>1, <3>5 DEF RowIsNear
    <3> QED
      BY <3>4, <3>6
  <2> QED
    BY <2>1, <2>2
<1> QED
  BY <1>1, <1>2, <1>3

(* The records of a finished scan, and what follows for the contents found *)
(* and for the others.                                                     *)
LEMMA CommitIs ==
    ASSUME FilesInv, NEW d \in Dirs, NEW records \in Seq(Paths \X Contents),
           \A i \in 1..Len(records) : records[i] \in Under(d) \X Contents
    PROVE  LET filled  == Insert(share, records)
               scanned == {rec[1] : rec \in Range(records)}
               found   == {rec[2] : rec \in Range(records)}
           IN  /\ filled \in [Contents -> Paths \cup {NoPath, NoRow}]
               /\ scanned \subseteq Under(d) /\ found \subseteq Contents
               /\ \A c \in found : filled[c] \in scanned
               /\ \A c \in Contents \ found : filled[c] = share[c]
               /\ \A p \in Current(records) : p \in scanned /\ p \in Under(d) /\ p \in Paths /\ disk[p] \in found
<1> DEFINE filled == Insert(share, records)
           scanned == {rec[1] : rec \in Range(records)}
           found == {rec[2] : rec \in Range(records)}
<1>1. /\ \A rec \in Range(records) : \E i \in 1..Len(records) : rec = records[i]
      /\ \A i \in 1..Len(records) : records[i] \in Range(records) /\ records[i] \in Paths \X Contents
  <2>1. DOMAIN records = 1..Len(records) /\ \A i \in 1..Len(records) : records[i] \in Paths \X Contents
    OBVIOUS
  <2> QED
    BY <2>1 DEF Range
<1>2. \A i \in 1..Len(records) : /\ records[i][1] \in scanned /\ records[i][2] \in found
                                  /\ records[i][1] \in Under(d) /\ records[i][2] \in Contents
                                  /\ records[i][1] \in Paths
  BY <1>1
<1>3. /\ \A p \in scanned : \E i \in 1..Len(records) : p = records[i][1]
      /\ \A c \in found : \E i \in 1..Len(records) : c = records[i][2]
  BY <1>1
<1>4. ASSUME NEW p \in Current(records)
      PROVE  p \in scanned /\ p \in Under(d) /\ p \in Paths /\ disk[p] \in found
  <2>1. PICK rec \in Range(records) : disk[rec[1]] = rec[2] /\ p = rec[1]
    BY <1>4 DEF Current
  <2> QED
    BY <1>1, <1>2, <2>1
<1> HIDE DEF scanned, found
<1>5. \A c \in Contents : /\ c \in found => filled[c] \in scanned /\ filled[c] \in Paths
                          /\ c \notin found => filled[c] = share[c]
  <2> SUFFICES ASSUME NEW c \in Contents
               PROVE  /\ c \in found => filled[c] \in scanned /\ filled[c] \in Paths
                      /\ c \notin found => filled[c] = share[c]
    OBVIOUS
  <2>1. c \in found => \E i \in 1..Len(records) : records[i][2] = c
    BY <1>3
  <2>2. c \notin found => \A i \in 1..Len(records) : records[i][2] # c
    BY <1>2
  <2> QED
    BY <1>2, <2>1, <2>2, InsertIs
<1>6. filled \in [Contents -> Paths \cup {NoPath, NoRow}]
  <2>1. \A c \in Contents : filled[c] \in Paths \cup {NoPath, NoRow}
    BY <1>5 DEF FilesInv, FilesTypeOK
  <2>2. \E f : filled = [c \in Contents |-> f[c]]
    <3>1. filled = [c \in Contents |-> filled[c]]
      BY DEF Insert
    <3> QED
      BY <3>1
  <2> QED
    BY <2>1, <2>2
<1>7. scanned \subseteq Under(d) /\ found \subseteq Contents
  BY <1>2, <1>3
<1>8. \A c \in found : c \in Contents
  BY <1>7
<1> QED
  BY <1>4, <1>5, <1>6, <1>7, <1>8 DEF scanned, found

(* What was recorded stays recorded: a content found anew that is also     *)
(* recorded elsewhere becomes one of the twins.                            *)
LEMMA CommitSteps ==
    ASSUME FilesInv, CommitScan \/ CommitAdd
    PROVE  FilesInv'
<1> USE DEF FilesInv
<1>1. PICK d \in Dirs, todo \in Seq(Paths), records \in Seq(Paths \X Contents), kind \in {"scan", "add"} :
            /\ scan = <<d, todo, records, kind>>
            /\ \A i \in 1..Len(todo) : todo[i] \in Under(d)
            /\ \A i \in 1..Len(records) : records[i] \in Under(d) \X Contents
  BY DEF CommitScan, CommitAdd, ScanTyped
<1> DEFINE filled == Insert(share, records)
           scanned == {rec[1] : rec \in Range(records)}
           found == {rec[2] : rec \in Range(records)}
<1>2. scan[1] = d /\ scan[3] = records
  BY <1>1
<1>3. /\ filled \in [Contents -> Paths \cup {NoPath, NoRow}]
      /\ scanned \subseteq Under(d) /\ found \subseteq Contents
      /\ \A c \in found : filled[c] \in scanned
      /\ \A c \in Contents \ found : filled[c] = share[c]
      /\ \A p \in Current(records) : p \in scanned /\ p \in Under(d) /\ p \in Paths /\ disk[p] \in found
  BY <1>1, CommitIs
<1>4. /\ scan' = <<>> /\ disk' = disk /\ twins' = twins \cup Elsewhere(d, found)
      /\ dirs' = dirs \/ dirs' = dirs \cup {d}
      /\ \/ share' = DropStale(filled, d, scanned) /\ indexed' = (indexed \ Under(d)) \cup Current(records)
         \/ share' = filled /\ indexed' = indexed \cup Current(records)
  BY <1>2 DEF CommitScan, CommitAdd
<1> HIDE DEF filled, scanned, found
<1>5. Elsewhere(d, found) \subseteq found
  BY DEF Elsewhere
<1>6. \A c \in Contents : share'[c] = IF share' # filled /\ filled[c] \in Under(d) \ scanned THEN NoRow ELSE filled[c]
  BY <1>4 DEF DropStale
<1>7. share' \in [Contents -> Paths \cup {NoPath, NoRow}]
  BY <1>3, <1>4 DEF DropStale
<1>8. FilesTypeOK'
  <2>1. indexed' \subseteq Paths
    BY <1>3, <1>4 DEF FilesTypeOK
  <2>2. twins' \subseteq Contents /\ dirs' \subseteq Dirs
    BY <1>3, <1>4, <1>5 DEF FilesTypeOK
  <2> QED
    BY <1>4, <1>7, <2>1, <2>2 DEF FilesTypeOK
<1>9. IndexedExist' /\ ScanTyped'
  BY <1>3, <1>4, SharedFilesAssumption DEF IndexedExist, ScanTyped
<1>10. ASSUME NEW p \in indexed', disk[p] \notin twins'
       PROVE  /\ share'[disk[p]] # NoRow
              /\ share'[disk[p]] \in Paths => share'[disk[p]] \in Under(p[1])
  <2> DEFINE c == disk[p]
  <2>1. p \in Paths /\ c \in Contents /\ c \notin twins /\ c \notin Elsewhere(d, found)
    BY <1>4, <1>8, <1>9, <1>10 DEF FilesTypeOK, IndexedExist
  <2>2. CASE c \in found
    <3>1. filled[c] \in scanned /\ filled[c] \in Under(d) /\ filled[c] \in Paths
      BY <1>3, <2>2, UnderIs
    <3>2. share'[c] = filled[c]
      BY <1>6, <2>1, <3>1
    <3>3. p \in Under(d)
      <4>1. CASE p \in Current(records)
        BY <1>3, <4>1
      <4>2. CASE p \in indexed
        BY <2>1, <2>2, <4>2 DEF Elsewhere
      <4> QED
        BY <1>4, <4>1, <4>2
    <3>4. p[1] = d
      BY <3>3, UnderIs
    <3> QED
      BY <3>1, <3>2, <3>4, SharedFilesAssumption
  <2>3. CASE c \notin found
    <3>1. p \in indexed /\ filled[c] = share[c] /\ (share' # filled => p \notin Under(d))
      BY <1>3, <1>4, <2>1, <2>3
    <3>2. share[c] # NoRow /\ (share[c] \in Paths => share[c] \in Under(p[1]))
      BY <2>1, <3>1 DEF RowIsNear
    <3>3. share[c] \in Under(d) => p \in Under(d)
      BY <2>1, <3>2, UnderIs
    <3>4. share'[c] = share[c]
      BY <1>6, <2>1, <3>1, <3>3
    <3> QED
      BY <3>2, <3>4
  <2> QED
    BY <2>2, <2>3
<1>11. RowIsNear'
  BY <1>4, <1>10 DEF RowIsNear
<1> QED
  BY <1>8, <1>9, <1>11

LEMMA FilesStep == FilesInv /\ [FilesNext]_fileVars => FilesInv'
<1> SUFFICES ASSUME FilesInv, [FilesNext]_fileVars
             PROVE  FilesInv'
  OBVIOUS
<1>1. CASE UNCHANGED fileVars
  <2>1. UNCHANGED <<disk, dirs, share, scan, indexed, twins>>
    BY <1>1 DEF fileVars
  <2>2. FilesTypeOK'
    BY <2>1 DEF FilesInv, FilesTypeOK
  <2>3. ScanTyped'
    BY <2>1 DEF FilesInv, ScanTyped
  <2>4. IndexedExist' /\ RowIsNear'
    BY <2>1 DEF FilesInv, IndexedExist, RowIsNear
  <2> QED
    BY <2>2, <2>3, <2>4 DEF FilesInv
<1>2. CASE FilesNext
  BY <1>2, ScanSteps, HandSteps, CommitSteps DEF FilesNext
<1> QED
  BY <1>1, <1>2

(* What a scan or share.add has seen, and nobody has changed or removed    *)
(* since, has a row, unless its content was recorded under a second        *)
(* directory: for any directories, names and contents, however files move  *)
(* while they are hashed (replace_shared_directory_scan, ctl_share_add).   *)
THEOREM SeenIsShared == FilesSpec => []IndexedIsShared
<1>1. FilesInv => IndexedIsShared
  BY DEF FilesInv, RowIsNear, IndexedIsShared
<1> QED
  BY FilesStart, FilesStep, <1>1, PTL DEF FilesSpec

(* The tables keep their shape, and what is indexed is still a file.       *)
THEOREM FilesTypeCorrect == FilesSpec => [](FilesTypeOK /\ IndexedExist)
<1>1. FilesInv => FilesTypeOK /\ IndexedExist
  BY DEF FilesInv
<1> QED
  BY FilesStart, FilesStep, <1>1, PTL DEF FilesSpec

-----------------------------------------------------------------------------
(* The address filter: what is at the path of the list is one list in      *)
(* full, as long as the updaters take turns.                               *)

(* The file of a list that was written to its end.                         *)
FileOf(l) == <<FirstHalf(l), Rest(l)>>
WholeLists == {FileOf(l) : l \in Lists}

(* The two halves of a list are the list.                                  *)
LEMMA HalvesAreAll ==
    ASSUME NEW l \in Seq(RangeLine)
    PROVE  FirstHalf(l) \o Rest(l) = l
<1> DEFINE n == Len(l)
           h == n \div 2
<1>1. n \in Nat
  OBVIOUS
<1>2. h \in Nat /\ h <= n
  <2> HIDE DEF n
  <2> QED
    BY <1>1
<1> HIDE DEF n, h
<1>3. /\ FirstHalf(l) = SubSeq(l, 1, h) /\ Rest(l) = SubSeq(l, h + 1, n)
  BY DEF FirstHalf, Rest, n, h
<1>4. /\ SubSeq(l, 1, h) \in Seq(RangeLine) /\ Len(SubSeq(l, 1, h)) = h
      /\ \A i \in 1 .. h : SubSeq(l, 1, h)[i] = l[i]
  BY <1>1, <1>2 DEF n
<1>5. /\ SubSeq(l, h + 1, n) \in Seq(RangeLine) /\ Len(SubSeq(l, h + 1, n)) = n - h
      /\ \A i \in 1 .. (n - h) : SubSeq(l, h + 1, n)[i] = l[h + i]
  BY <1>1, <1>2 DEF n
<1> DEFINE a == SubSeq(l, 1, h)
           b == SubSeq(l, h + 1, n)
<1> HIDE DEF a, b
<1>6. /\ a \o b \in Seq(RangeLine) /\ Len(a \o b) = n
      /\ \A i \in 1 .. n : (a \o b)[i] = IF i <= h THEN a[i] ELSE b[i - h]
  BY <1>1, <1>2, <1>4, <1>5, ConcatProperties DEF a, b
<1>7. \A i \in 1 .. n : (a \o b)[i] = l[i]
  <2> TAKE i \in 1 .. n
  <2>1. CASE i <= h
    <3>1. i \in 1 .. h
      BY <1>2, <2>1
    <3> QED
      BY <1>4, <1>6, <2>1, <3>1 DEF a
  <2>2. CASE ~(i <= h)
    <3>1. i - h \in 1 .. (n - h) /\ h + (i - h) = i
      BY <1>1, <1>2, <2>2
    <3> QED
      BY <1>5, <1>6, <2>2, <3>1 DEF b
  <2> QED
    BY <2>1, <2>2
<1>8. a \o b = l
  <2> DEFINE r == a \o b
  <2>1. r \in Seq(RangeLine) /\ Len(r) = Len(l) /\ \A i \in 1 .. Len(r) : r[i] = l[i]
    BY <1>6, <1>7 DEF n
  <2> HIDE DEF r
  <2>2. r = l
    BY <2>1, SeqEqual
  <2> QED
    BY <2>2 DEF r
<1> QED
  BY <1>3, <1>8 DEF a, b

FilterShape ==
    /\ updater \in [Updaters -> {"idle", "open", "half", "rest", "replace", "stamp"}]
    /\ got \in [Updaters -> Lists \cup {Blank}]
    /\ written \in [Updaters -> {"part", "dest", "gone"}]
    /\ mixed \in BOOLEAN

(* One updater is at work at a time, and the list is one that was served.  *)
TakeTurns == \A u, v \in Updaters : u # v => updater[u] = "idle" \/ updater[v] = "idle"
FileIsList == dest = Blank \/ dest \in WholeLists

(* The part file is as far as the updater that writes it.                  *)
PartFollows ==
    \A u \in Updaters :
        /\ updater[u] # "idle" => got[u] \in Lists
        /\ written[u] = IF updater[u] \in {"half", "rest", "replace"} THEN "part" ELSE "gone"
        /\ updater[u] = "half" => part = <<Blank, Blank>>
        /\ updater[u] = "rest" => part = <<FirstHalf(got[u]), Blank>>
        /\ updater[u] = "replace" => part = FileOf(got[u])

OneByOne == TakeTurns /\ FileIsList /\ PartFollows

FilterInv == FilterShape /\ (~mixed => OneByOne) /\ SweptByOneList

LEMMA FilterStart == FilterInit => FilterInv
<1> SUFFICES ASSUME FilterInit
             PROVE  FilterInv
  OBVIOUS
<1>1. FilterShape
  BY DEF FilterInit, FilterShape, Blank
<1>2. OneByOne
  BY DEF FilterInit, OneByOne, TakeTurns, FileIsList, PartFollows, WholeLists, FileOf
<1>3. SweptByOneList
  BY DEF FilterInit, SweptByOneList
<1> QED
  BY <1>1, <1>2, <1>3 DEF FilterInv

(* What is kept by a step that changes neither the list nor a sweep.       *)
LEMMA SweepKept ==
    ASSUME FilterInv, FilterShape', UNCHANGED sweeps, mixed => mixed', ~mixed' => OneByOne'
    PROVE  FilterInv'
BY DEF FilterInv, SweptByOneList, sweeps

LEMMA DownloadOn ==
    ASSUME FilterInv, NEW w \in Updaters, Download(w)
    PROVE  FilterInv'
<1>1. PICK l \in Lists : got' = [got EXCEPT ![w] = l]
  BY DEF Download
<1>2. /\ \/ updater[w] = "idle" /\ updater' = [updater EXCEPT ![w] = "open"]
         \/ updater[w] = "idle" /\ updater' = [updater EXCEPT ![w] = "idle"]
      /\ mixed' = (mixed \/ \E v \in Updaters : updater'[v] # "idle" /\ updater'[w] # "idle" /\ v # w)
      /\ UNCHANGED <<written, part, dest, sweeps>>
  BY DEF Download, Goes, files
<1>3. FilterShape
  BY DEF FilterInv
<1>4. FilterShape'
  BY <1>1, <1>2, <1>3 DEF FilterShape
<1>5. ASSUME ~mixed'
      PROVE  OneByOne'
  <2>1. OneByOne
    BY <1>2, <1>5 DEF FilterInv
  <2>2. /\ got'[w] \in Lists /\ updater'[w] \in {"idle", "open"}
        /\ \A v \in Updaters : v # w => got'[v] = got[v] /\ updater'[v] = updater[v]
    BY <1>1, <1>2, <1>3 DEF FilterShape
  <2>3. updater'[w] # "idle" => \A v \in Updaters : v # w => updater'[v] = "idle"
    BY <1>2, <1>5
  <2>4. TakeTurns'
    BY <2>1, <2>2, <2>3 DEF OneByOne, TakeTurns
  <2>5. FileIsList'
    BY <1>2, <2>1 DEF OneByOne, FileIsList
  <2>6. PartFollows'
    <3>1. PartFollows
      BY <2>1 DEF OneByOne
    <3>2. written[w] = "gone"
      BY <1>2, <3>1 DEF PartFollows
    <3> QED
      BY <1>2, <2>2, <3>1, <3>2 DEF PartFollows
  <2> QED
    BY <2>4, <2>5, <2>6 DEF OneByOne
<1> QED
  BY <1>2, <1>4, <1>5, SweepKept

LEMMA OpenOn ==
    ASSUME FilterInv, NEW w \in Updaters, Open(w)
    PROVE  FilterInv'
<1>1. /\ updater[w] = "open" /\ updater' = [updater EXCEPT ![w] = "half"]
      /\ part' = <<Blank, Blank>> /\ written' = [written EXCEPT ![w] = "part"]
      /\ UNCHANGED <<dest, got, sweeps, mixed>>
  BY DEF Open, Goes
<1>2. FilterShape
  BY DEF FilterInv
<1>3. FilterShape'
  BY <1>1, <1>2 DEF FilterShape
<1>4. ASSUME ~mixed'
      PROVE  OneByOne'
  <2>1. OneByOne
    BY <1>1, <1>4 DEF FilterInv
  <2>2. /\ updater'[w] = "half" /\ written'[w] = "part" /\ got[w] \in Lists
        /\ \A v \in Updaters : v # w => /\ updater'[v] = "idle" /\ updater[v] = "idle"
                                        /\ written'[v] = "gone"
    BY <1>1, <1>2, <2>1 DEF FilterShape, OneByOne, TakeTurns, PartFollows
  <2>3. TakeTurns'
    BY <2>2 DEF TakeTurns
  <2>4. FileIsList'
    BY <1>1, <2>1 DEF OneByOne, FileIsList
  <2>5. PartFollows'
    BY <1>1, <2>2 DEF PartFollows
  <2> QED
    BY <2>3, <2>4, <2>5 DEF OneByOne
<1> QED
  BY <1>1, <1>3, <1>4, SweepKept

LEMMA WriteOn ==
    ASSUME FilterInv, NEW w \in Updaters, Write(w)
    PROVE  FilterInv'
<1>1. UNCHANGED <<written, got, sweeps, mixed>>
  BY DEF Write, Puts
<1>2. \/ /\ updater[w] = "half" /\ updater' = [updater EXCEPT ![w] = "rest"]
         /\ Puts(w, 1, FirstHalf(got[w]))
      \/ /\ updater[w] = "rest" /\ updater' = [updater EXCEPT ![w] = "replace"]
         /\ Puts(w, 2, Rest(got[w]))
  BY DEF Write, Goes
<1>3. FilterShape
  BY DEF FilterInv
<1>4. FilterShape'
  BY <1>1, <1>2, <1>3 DEF FilterShape
<1>5. ASSUME ~mixed'
      PROVE  OneByOne'
  <2>1. OneByOne
    BY <1>1, <1>5 DEF FilterInv
  <2>2. /\ written[w] = "part" /\ got[w] \in Lists
        /\ \A v \in Updaters : v # w => /\ updater'[v] = "idle" /\ updater[v] = "idle"
                                        /\ written[v] = "gone"
    BY <1>2, <1>3, <2>1 DEF FilterShape, OneByOne, TakeTurns, PartFollows
  <2>3. dest' = dest
    BY <1>2, <2>2 DEF Puts
  <2>4. TakeTurns'
    BY <2>2 DEF TakeTurns
  <2>5. FileIsList'
    BY <2>1, <2>3 DEF OneByOne, FileIsList
  <2>6. CASE updater[w] = "half"
    <3>1. part = <<Blank, Blank>> /\ part' = [part EXCEPT ![1] = FirstHalf(got[w])]
      BY <1>2, <2>1, <2>2, <2>6 DEF OneByOne, PartFollows, Puts
    <3>2. part' = <<FirstHalf(got[w]), Blank>>
      BY <3>1
    <3>3. updater'[w] = "rest"
      BY <1>2, <1>3, <2>6 DEF FilterShape
    <3>4. PartFollows'
      BY <1>1, <2>2, <3>2, <3>3 DEF PartFollows
    <3> QED
      BY <2>4, <2>5, <3>4 DEF OneByOne
  <2>7. CASE updater[w] = "rest"
    <3>1. part = <<FirstHalf(got[w]), Blank>> /\ part' = [part EXCEPT ![2] = Rest(got[w])]
      BY <1>2, <2>1, <2>2, <2>7 DEF OneByOne, PartFollows, Puts
    <3>2. part' = FileOf(got[w])
      BY <3>1 DEF FileOf
    <3>3. updater'[w] = "replace"
      BY <1>2, <1>3, <2>7 DEF FilterShape
    <3>4. PartFollows'
      BY <1>1, <2>2, <3>2, <3>3 DEF PartFollows
    <3> QED
      BY <2>4, <2>5, <3>4 DEF OneByOne
  <2> QED
    BY <1>2, <2>6, <2>7
<1> QED
  BY <1>1, <1>4, <1>5, SweepKept

LEMMA ReplaceOn ==
    ASSUME FilterInv, NEW w \in Updaters, Replace(w)
    PROVE  FilterInv'
<1> DEFINE next == IF w = "kernel" THEN "stamp" ELSE "idle"
<1>1. /\ dest' = part /\ updater[w] = "replace" /\ updater' = [updater EXCEPT ![w] = next]
      /\ written' = [v \in Updaters |-> IF v # w /\ written[v] = "part" THEN "dest" ELSE "gone"]
      /\ UNCHANGED <<got, sweeps, mixed>>
  BY DEF Replace, Goes
<1>2. next \in {"stamp", "idle"}
  OBVIOUS
<1> HIDE DEF next
<1>3. FilterShape
  BY DEF FilterInv
<1>4. FilterShape'
  BY <1>1, <1>2, <1>3 DEF FilterShape
<1>5. ASSUME ~mixed'
      PROVE  OneByOne'
  <2>1. OneByOne
    BY <1>1, <1>5 DEF FilterInv
  <2>2. /\ part = FileOf(got[w]) /\ got[w] \in Lists
        /\ \A v \in Updaters : v # w => updater[v] = "idle" /\ written[v] = "gone"
    BY <1>1, <1>3, <2>1 DEF FilterShape, OneByOne, TakeTurns, PartFollows
  <2>3. /\ updater'[w] = next /\ \A v \in Updaters : v # w => updater'[v] = "idle"
        /\ \A v \in Updaters : written'[v] = "gone"
    BY <1>1, <1>3, <2>2 DEF FilterShape
  <2>4. TakeTurns'
    BY <2>3 DEF TakeTurns
  <2>5. FileIsList'
    BY <1>1, <2>2 DEF FileIsList, WholeLists
  <2>6. PartFollows'
    BY <1>1, <1>2, <2>2, <2>3 DEF PartFollows
  <2> QED
    BY <2>4, <2>5, <2>6 DEF OneByOne
<1> QED
  BY <1>1, <1>4, <1>5, SweepKept

(* The stamp, and an end of an updater at any step of it.                  *)
LEMMA UpdaterEnds ==
    ASSUME FilterInv, NEW w \in Updaters, updater[w] # "idle",
           updater' = [updater EXCEPT ![w] = "idle"],
           written' = [written EXCEPT ![w] = "gone"],
           UNCHANGED <<got, part, dest, sweeps, mixed>>
    PROVE  FilterInv'
<1>1. FilterShape
  BY DEF FilterInv
<1>2. FilterShape'
  BY <1>1 DEF FilterShape
<1>3. ASSUME ~mixed'
      PROVE  OneByOne'
  <2>1. OneByOne
    BY <1>3 DEF FilterInv
  <2>2. /\ updater'[w] = "idle" /\ written'[w] = "gone"
        /\ \A v \in Updaters : v # w => updater'[v] = updater[v] /\ written'[v] = written[v]
    BY <1>1 DEF FilterShape
  <2>3. TakeTurns'
    BY <2>1, <2>2 DEF OneByOne, TakeTurns
  <2>4. FileIsList'
    BY <2>1 DEF OneByOne, FileIsList
  <2>5. PartFollows'
    BY <2>1, <2>2 DEF OneByOne, PartFollows
  <2> QED
    BY <2>3, <2>4, <2>5 DEF OneByOne
<1> QED
  BY <1>2, <1>3, SweepKept

LEMMA StampOn ==
    ASSUME FilterInv, Stamp
    PROVE  FilterInv'
<1>1. /\ updater["kernel"] = "stamp" /\ updater' = [updater EXCEPT !["kernel"] = "idle"]
      /\ UNCHANGED <<got, written, part, dest, sweeps, mixed>> /\ "kernel" \in Updaters
  BY DEF Stamp, Goes, files, Updaters
<1>2. FilterShape
  BY DEF FilterInv
<1>3. CASE mixed
  <2>1. FilterShape'
    BY <1>1, <1>2 DEF FilterShape
  <2> QED
    BY <1>1, <1>3, <2>1, SweepKept
<1>4. CASE ~mixed
  <2>1. written["kernel"] = "gone"
    BY <1>1, <1>4 DEF FilterInv, OneByOne, PartFollows
  <2>2. written' = [written EXCEPT !["kernel"] = "gone"]
    BY <1>1, <1>2, <2>1 DEF FilterShape
  <2> QED
    BY <1>1, <2>2, UpdaterEnds
<1> QED
  BY <1>3, <1>4

(* A sweep reads the list that is there.                                   *)
LEMMA SweepOn ==
    ASSUME FilterAssumption, FilterInv, Sweep
    PROVE  FilterInv'
<1>1. /\ judged' = (dest # Blank)
      /\ admitted' = {s \in Servers : dest = Blank \/ Evaluate(Load(dest[1] \o dest[2]), s)}
      /\ UNCHANGED <<updater, got, written, part, dest, mixed>>
  BY DEF Sweep, files
<1>2. FilterShape' /\ (~mixed' => OneByOne')
  BY <1>1 DEF FilterInv, FilterShape, OneByOne, TakeTurns, FileIsList, PartFollows
<1>3. ASSUME judged', ~mixed'
      PROVE  \E l \in Lists : admitted' = {s \in Servers : Evaluate(Load(l), s)}
  <2>1. dest # Blank /\ dest \in WholeLists
    BY <1>1, <1>3 DEF FilterInv, OneByOne, FileIsList
  <2>2. PICK l \in Lists : dest = FileOf(l)
    BY <2>1 DEF WholeLists
  <2>3. dest[1] = FirstHalf(l) /\ dest[2] = Rest(l)
    BY <2>2 DEF FileOf
  <2>4. l \in Seq(RangeLine)
    BY DEF FilterAssumption
  <2>5. dest[1] \o dest[2] = l
    BY <2>3, <2>4, HalvesAreAll
  <2>6. admitted' = {s \in Servers : Evaluate(Load(l), s)}
    BY <1>1, <2>1, <2>5
  <2> QED
    BY <2>6
<1> QED
  BY <1>2, <1>3 DEF FilterInv, SweptByOneList

LEMMA FilterStep ==
    ASSUME FilterAssumption, FilterInv, [FilterNext]_filterVars
    PROVE  FilterInv'
<1>1. CASE UNCHANGED filterVars
  <2>1. UNCHANGED <<updater, got, written, part, dest, admitted, judged, mixed>>
    BY <1>1 DEF filterVars, files, sweeps
  <2> QED
    BY <2>1 DEF FilterInv, FilterShape, OneByOne, TakeTurns, FileIsList, PartFollows, SweptByOneList
<1>2. ASSUME NEW w \in Updaters, UpdaterCrash(w)
      PROVE  FilterInv'
  BY <1>2, UpdaterEnds DEF UpdaterCrash, Goes
<1>3. CASE Period
  <2>1. UNCHANGED <<updater, got, written, part, dest, admitted, judged, mixed>>
    BY <1>3 DEF Period, files, sweeps
  <2> QED
    BY <2>1 DEF FilterInv, FilterShape, OneByOne, TakeTurns, FileIsList, PartFollows, SweptByOneList
<1>4. CASE AutoUpdate \/ UpdateCommand
  <2>1. "kernel" \in Updaters /\ "command" \in Updaters
    BY DEF Updaters
  <2> QED
    BY <1>4, <2>1, DownloadOn DEF AutoUpdate, UpdateCommand
<1> QED
  BY <1>1, <1>2, <1>3, <1>4, OpenOn, WriteOn, ReplaceOn, StampOn, SweepOn DEF FilterNext

(* A sweep goes by one list in full, for any lists, servers and threshold: *)
(* whatever the updates and their ends leave behind, what os.replace puts  *)
(* at the path of the list is a list that was served, unless two updaters  *)
(* wrote the part file at the same time (update_ipfilter_from_url).        *)
THEOREM SweepGoesByOneList == ASSUME FilterAssumption PROVE FilterSpec => []SweptByOneList
<1>1. FilterInv => SweptByOneList
  BY DEF FilterInv
<1>2. FilterInit => FilterInv
  BY FilterStart
<1>3. FilterInv /\ [FilterNext]_filterVars => FilterInv'
  BY FilterStep
<1> QED
  BY <1>1, <1>2, <1>3, PTL DEF FilterSpec

(* Of the ranges that contain an address one comes first.                  *)
LEMMA OneIsFirst ==
    ASSUME NEW l \in Seq(RangeLine), NEW ip, NEW r0 \in Load(l), InRange(r0, ip)
    PROVE  \E r \in Load(l) : /\ InRange(r, ip)
                              /\ \A o \in Load(l) \ {r} : InRange(o, ip) => Before(r, o)
<1> DEFINE P == {r \in Load(l) : InRange(r, ip)}
           A == {r[1].start : r \in P}
<1>1. \A r \in P : /\ r[1].start \in Nat /\ r[1].end \in Nat /\ r[2] \in Nat
                   /\ r = <<l[r[2]], r[2]>> /\ r[1] = l[r[2]]
  <2> SUFFICES ASSUME NEW r \in P
               PROVE  /\ r[1].start \in Nat /\ r[1].end \in Nat /\ r[2] \in Nat
                      /\ r = <<l[r[2]], r[2]>> /\ r[1] = l[r[2]]
    OBVIOUS
  <2>1. PICK i \in DOMAIN l : r = <<l[i], i>>
    BY DEF Load
  <2>2. i \in Nat /\ l[i] \in RangeLine
    OBVIOUS
  <2> QED
    BY <2>1, <2>2 DEF RangeLine
<1>2. r0 \in P
  OBVIOUS
<1> HIDE DEF P
<1>3. PICK a \in A : \A k \in A : a <= k
  <2>1. A \in SUBSET Nat /\ A # {}
    BY <1>1, <1>2
  <2> HIDE DEF A
  <2> QED
    BY <2>1, LeastNumber
<1> DEFINE Q == {r \in P : r[1].start = a}
           B == {r[1].end : r \in Q}
<1>4. PICK b \in B : \A k \in B : b <= k
  <2>0. PICK r \in P : r[1].start = a
    BY <1>3
  <2>1. B \in SUBSET Nat /\ B # {}
    <3>1. r[1].end \in B
      BY <2>0
    <3>2. \A k \in B : k \in Nat
      BY <1>1
    <3> QED
      BY <3>1, <3>2
  <2> HIDE DEF B
  <2> QED
    BY <2>1, LeastNumber
<1> DEFINE R == {r \in Q : r[1].end = b}
           C == {r[2] : r \in R}
<1>5. PICK c \in C : \A k \in C : c <= k
  <2>1. C \in SUBSET Nat /\ C # {}
    BY <1>1, <1>4
  <2> HIDE DEF C
  <2> QED
    BY <2>1, LeastNumber
<1>6. PICK r \in R : r[2] = c
  BY <1>5
<1>7. r \in P /\ r[1].start = a /\ r[1].end = b
  BY <1>6
<1>8. ASSUME NEW o \in P, o # r
      PROVE  Before(r, o)
  <2>1. /\ o[1].start \in Nat /\ o[1].end \in Nat /\ o[2] \in Nat
        /\ a \in Nat /\ b \in Nat /\ c \in Nat
    BY <1>1, <1>6, <1>7
  <2>2. o[2] # c
    BY <1>1, <1>6, <1>7, <1>8
  <2>3. a <= o[1].start
    BY <1>3
  <2>4. o[1].start = a => b <= o[1].end
    BY <1>4
  <2>5. o[1].start = a /\ o[1].end = b => c <= o[2]
    BY <1>5
  <2> QED
    BY <1>6, <1>7, <2>1, <2>2, <2>3, <2>4, <2>5 DEF Before
<1>9. r \in Load(l) /\ InRange(r, ip) /\ \A o \in Load(l) : InRange(o, ip) => o \in P
  BY <1>7 DEF P
<1> QED
  BY <1>8, <1>9

(* What a list says of an address, however it is sorted: it lets through   *)
(* an address in no range of it, and where the ranges that contain one     *)
(* agree, their side of the threshold is the answer (IpFilter.is_filtered).*)
THEOREM ListDecides ==
    ASSUME FilterAssumption, NEW l \in Lists, NEW ip
    PROVE  LET over == {r \in Load(l) : InRange(r, ip)}
           IN  /\ over = {} => Evaluate(Load(l), ip)
               /\ (\A r \in over : r[1].level < Threshold) => Evaluate(Load(l), ip)
               /\ over # {} /\ (\A r \in over : r[1].level >= Threshold) => ~Evaluate(Load(l), ip)
<1>0. l \in Seq(RangeLine) /\ Threshold \in Int
  BY DEF FilterAssumption
<1>1. ASSUME NEW r \in Load(l)
      PROVE  r[1].level \in Int
  <2>1. PICK i \in DOMAIN l : r = <<l[i], i>>
    BY DEF Load
  <2>2. l[i] \in RangeLine
    BY <1>0
  <2>3. l[i].level \in Int
    BY <2>2 DEF RangeLine
  <2> QED
    BY <2>1, <2>3
<1>2. ASSUME \A r \in Load(l) : InRange(r, ip) => r[1].level < Threshold
      PROVE  Evaluate(Load(l), ip)
  BY <1>0, <1>1, <1>2 DEF Evaluate, IsFiltered
<1>3. ASSUME NEW r0 \in Load(l), InRange(r0, ip),
             \A r \in Load(l) : InRange(r, ip) => r[1].level >= Threshold
      PROVE  ~Evaluate(Load(l), ip)
  <2>1. PICK r \in Load(l) : /\ InRange(r, ip)
                             /\ \A o \in Load(l) \ {r} : InRange(o, ip) => Before(r, o)
    BY <1>0, <1>3, OneIsFirst
  <2> QED
    BY <1>0, <1>1, <1>3, <2>1 DEF Evaluate, IsFiltered
<1> QED
  BY <1>2, <1>3
=============================================================================
