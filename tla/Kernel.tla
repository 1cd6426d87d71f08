------------------------------- MODULE Kernel -------------------------------
(***************************************************************************)
(* The kernel process (core/kernel.py, core/kernel_control.py), the        *)
(* command line (cli.py) and the DuckDB file both want (state.py).         *)
(*                                                                         *)
(* DuckDB admits one process.  The kernel opens the database when it       *)
(* starts and keeps it; a command first asks the kernel, through the port  *)
(* in kernel_status.json, and opens the database itself when nobody        *)
(* answers.  Downloads run as tasks of the kernel, started by a command,   *)
(* by the start of the kernel or by the re-ask loop; a race is abstract    *)
(* here (DownloadRun models it): it records blocks and ends.               *)
(***************************************************************************)
EXTENDS Integers, FiniteSets

CONSTANTS
    Downloads,          \* hashes
    ThinPool,       \* a pool with fewer sources is refreshed before a race
    MaxTasks,       \* bound on the tasks of one file
    MaxBoots,       \* bound on the starts of the kernel
    MaxLate,        \* bound on requests abandoned by their clients
    NoHash          \* str(None): what a missing key gives

KernelAssumption ==
    /\ ThinPool \in Nat \ {0} /\ {MaxTasks, MaxBoots, MaxLate} \subseteq Nat \ {0}
    /\ NoHash \notin Downloads

VARIABLES
    kernel,         \* "down", "owned" (database open), "up", "stopping",
                    \* "draining" (no new control connections), "closing"
    boots,          \* starts so far
    status,         \* kernel_status.json names a control port
    db,             \* who has the database open: "free", "kernel", "cli"
    rows,            \* table downloads: status, or "none"
    known,          \* rows of file_sources for the file, up to ThinPool
    box,            \* download_box: "none", "running", "done"
    tasks,          \* how many tasks of the file are at each stage
    resume,         \* _resume_active_downloads has not run yet
    skipped,        \* entries the last re-ask cycle could not look up
    guest,          \* the listener, closing, waits for peers that are connected
    cli,            \* the command in progress and where it is
    late            \* requests whose client has given up waiting

kernelVars == <<kernel, boots, status, db, rows, known, box, tasks, resume, skipped, cli,
                late, guest>>
processVars == <<kernel, boots, status, resume, skipped, guest>>

Stages == {"new", "refresh", "race"}
Lifecycle == {"pause", "resume", "start"}
Routed == Lifecycle \cup {"add", "cancel", "run", "save", "stop"}
Direct == {"forget", "prune"}       \* these never ask the kernel
Idle == [cmd |-> "none", file |-> NoHash, at |-> "idle"]
NoTasks == [f \in Downloads |-> [s \in Stages |-> 0]]
TaskCount(f) == tasks[f]["new"] + tasks[f]["refresh"] + tasks[f]["race"]

KernelTypeOK ==
    /\ kernel \in {"down", "owned", "up", "stopping", "draining", "closing"}
    /\ boots \in 0 .. MaxBoots
    /\ {status, resume, guest} \subseteq BOOLEAN
    /\ db \in {"free", "kernel", "cli"}
    /\ rows \in [Downloads -> {"none", "queued", "downloading", "paused", "complete"}]
    /\ known \in [Downloads -> 0 .. ThinPool]
    /\ box \in [Downloads -> {"none", "running", "done"}]
    /\ tasks \in [Downloads -> [Stages -> 0 .. MaxTasks]]
    /\ skipped \subseteq Downloads
    /\ cli \in [cmd : Routed \cup Direct \cup {"none"}, file : Downloads \cup {NoHash},
                at : {"idle", "asked", "poll", "local", "race"}]
    /\ late \subseteq Routed \X Downloads

KernelInit ==
    /\ kernel = "down" /\ boots = 0 /\ status = FALSE /\ db = "free"
    /\ rows \in [Downloads -> {"none", "queued", "downloading", "paused"}]
    /\ known \in [Downloads -> {0, ThinPool}]
    /\ box = [f \in Downloads |-> "none"] /\ tasks = NoTasks
    /\ resume = FALSE /\ skipped = {} /\ guest = FALSE
    /\ cli = Idle /\ late = {}

-----------------------------------------------------------------------------
(* Downloads.                                                              *)

(* _start_download_task for the files of F: refused while the box of the   *)
(* file is not done, or when there is no row.                              *)
StartableAnyway(f) == rows[f] # "none"       \* faulty: ignores the box
Startable(f) == box[f] # "running" /\ rows[f] # "none"

StartTasks(F) ==
    LET S == {f \in F : Startable(f)}
    IN  /\ box' = [f \in Downloads |-> IF f \in S THEN "running" ELSE box[f]]
        /\ tasks' = [f \in Downloads |->
                        IF f \in S THEN [tasks[f] EXCEPT !["new"] = @ + 1] ELSE tasks[f]]

Moved(f, from, to) == [tasks EXCEPT ![f][from] = @ - 1, ![f][to] = @ + 1]
Ended(f, from) == [tasks EXCEPT ![f][from] = @ - 1]

(* The task looks at the source pool first.                                *)
TaskBegins(f) ==
    /\ tasks[f]["new"] > 0
    /\ tasks' = Moved(f, "new", IF known[f] < ThinPool THEN "refresh" ELSE "race")
    /\ UNCHANGED <<processVars, db, rows, known, box, cli, late>>

(* The KAD lookup of _refresh_sources_async returns or fails; what it      *)
(* found is saved.                                                         *)
RefreshEnds(f) ==
    /\ tasks[f]["refresh"] > 0
    /\ \E n \in known[f] .. ThinPool : known' = [known EXCEPT ![f] = n]
    /\ tasks' = Moved(f, "refresh", "race")
    /\ UNCHANGED <<processVars, db, rows, box, cli, late>>

(* record_block: whatever the row said, it is downloading or complete now. *)
Recorded(f, s) ==
    /\ rows[f] \notin {"none", "complete"}
    /\ known[f] > 0
    /\ rows' = [rows EXCEPT ![f] = s]

RaceRecords(f, s) ==
    /\ tasks[f]["race"] > 0
    /\ Recorded(f, s)
    /\ UNCHANGED <<processVars, db, known, box, tasks, cli, late>>

(* run() returns (complete, incomplete, already complete) or raises (no    *)
(* row, no sources): the box is done either way.                           *)
RaceEnds(f) ==
    /\ tasks[f]["race"] > 0
    /\ tasks' = Ended(f, "race")
    /\ box' = [box EXCEPT ![f] = "done"]
    /\ UNCHANGED <<processVars, db, rows, known, cli, late>>

(* The hash the re-ask loop reads from an entry: list_downloads names it   *)
(* "hash", the loop asks for "file_hash".                                  *)
EntryHash(f) == NoHash

(* One cycle of _source_refresh_loop: entries whose hash cannot be decoded *)
(* are skipped, the others are looked up and raced again.                  *)
Reask ==
    /\ kernel = "up"
    /\ LET due == {f \in Downloads : rows[f] \in {"queued", "downloading"}}
           bad == {f \in due : EntryHash(f) \notin Downloads}
       IN  /\ skipped' = bad
           /\ \E found \in SUBSET (due \ bad) :
                 /\ known' = [f \in Downloads |-> IF f \in found THEN ThinPool ELSE known[f]]
                 /\ StartTasks(found)
    /\ UNCHANGED <<kernel, boots, status, resume, guest, db, rows, cli, late>>

-----------------------------------------------------------------------------
(* The kernel process.                                                     *)

(* AmuleDKernel(): the database is opened first.  While another process    *)
(* has it open, the start fails.                                           *)
Boot ==
    /\ kernel = "down" /\ db = "free" /\ boots < MaxBoots
    /\ kernel' = "owned" /\ db' = "kernel" /\ boots' = boots + 1
    /\ box' = [f \in Downloads |-> "none"] /\ tasks' = NoTasks
    /\ skipped' = {}
    /\ UNCHANGED <<status, rows, known, resume, guest, cli, late>>

(* run(): listener, spider, control server, loops; the status file is      *)
(* written by the first turn of _status_loop.                              *)
Listen ==
    /\ kernel = "owned"
    /\ kernel' = "up" /\ status' = TRUE /\ resume' = TRUE
    /\ UNCHANGED <<boots, db, rows, known, box, tasks, skipped, guest, cli, late>>

AutoResumeQueued ==                          \* faulty: the wrong rows
    /\ kernel \notin {"down", "owned"} /\ resume
    /\ resume' = FALSE
    /\ StartTasks({f \in Downloads : rows[f] = "queued"})
    /\ UNCHANGED <<kernel, boots, status, db, rows, known, skipped, guest, cli, late>>

(* _resume_active_downloads.                                               *)
AutoResume ==
    /\ kernel \notin {"down", "owned"} /\ resume
    /\ resume' = FALSE
    /\ StartTasks({f \in Downloads : rows[f] = "downloading"})
    /\ UNCHANGED <<kernel, boots, status, db, rows, known, skipped, guest, cli, late>>

(* A signal.                                                               *)
Signal ==
    /\ kernel = "up"
    /\ kernel' = "stopping"
    /\ UNCHANGED <<boots, status, db, rows, known, box, tasks, resume, skipped, guest, cli, late>>

(* The loops are cancelled, the port is unmapped, and the control server   *)
(* stops listening.                                                        *)
CloseControl ==
    /\ kernel = "stopping"
    /\ kernel' = "draining"
    /\ UNCHANGED <<boots, status, db, rows, known, box, tasks, resume, skipped, guest, cli, late>>

(* wait_closed() waits for the control connections that are open; then the *)
(* status file is removed and the listener stops accepting.  Peers may be  *)
(* connected to it: clients that wait for a slot or have one, the buddy.   *)
Drained ==
    /\ kernel = "draining"
    /\ late = {} /\ cli.at # "asked"
    /\ kernel' = "closing" /\ status' = FALSE /\ guest' \in BOOLEAN
    /\ UNCHANGED <<boots, db, rows, known, box, tasks, resume, skipped, cli, late>>

(* The last peer goes, or its connection fails.                            *)
PeersLeave ==
    /\ guest
    /\ guest' = FALSE
    /\ UNCHANGED <<kernel, boots, status, resume, skipped, db, rows, known, box, tasks, cli, late>>

ExitKeepsState ==                            \* faulty: state.close() is skipped
    /\ kernel = "closing" /\ ~guest
    /\ kernel' = "down"
    /\ tasks' = NoTasks /\ resume' = FALSE
    /\ UNCHANGED <<boots, status, db, rows, known, box, skipped, guest, cli, late>>

(* close() of the listener awaits wait_closed() too, which ends when no    *)
(* peer is connected any more (Python 3.12.1 and later): it closes their   *)
(* sessions only after that.  Then the cancelled tasks are awaited and the *)
(* state closes last; with run() the event loop ends, and with it the      *)
(* download tasks.                                                         *)
Exit ==
    /\ kernel = "closing" /\ ~guest
    /\ kernel' = "down" /\ db' = "free"
    /\ tasks' = NoTasks /\ resume' = FALSE
    /\ UNCHANGED <<boots, status, rows, known, box, skipped, guest, cli, late>>

(* Where a command goes when the kernel does not answer.                   *)
Unanswered == IF cli.cmd = "stop" THEN Idle ELSE [cli EXCEPT !.at = "local"]

(* The process dies; the status file stays, connections break.             *)
KernelCrash ==
    /\ kernel # "down"
    /\ kernel' = "down" /\ db' = "free"
    /\ tasks' = NoTasks /\ resume' = FALSE /\ guest' = FALSE /\ late' = {}
    /\ cli' = IF cli.at = "asked" THEN Unanswered ELSE cli
    /\ UNCHANGED <<boots, status, rows, known, box, skipped>>

-----------------------------------------------------------------------------
(* Commands.                                                               *)

Serving == status /\ kernel \in {"up", "stopping"}

(* _kernel_control reads the status file and connects to the port it       *)
(* names; without a file, or when nobody listens there, the command works  *)
(* on the database itself.                                                 *)
Command(c, f) ==
    /\ cli.at = "idle"
    /\ cli' = [cmd |-> c, file |-> f,
               at |-> IF c \in Routed /\ Serving THEN "asked" ELSE "local"]
    /\ UNCHANGED <<processVars, db, rows, known, box, tasks, late>>

(* What a command does to a row: add of a known file returns its row,      *)
(* resume is refused unless the row is paused, the others need a row.      *)
RowAfter(c, f) ==
    CASE c = "add" /\ rows[f] = "none"       -> "queued"
      [] c = "pause" /\ rows[f] # "none"     -> "paused"
      [] c = "start" /\ rows[f] # "none"     -> "downloading"
      [] c = "resume" /\ rows[f] = "paused"  -> "downloading"
      [] c = "cancel"                       -> "none"
      [] OTHER                              -> rows[f]

(* Saving sources adds the new ones and refreshes the others, pruning      *)
(* drops the worst of them and forgetting all of them.                     *)
SaveFoundSources(f) == known[f] .. ThinPool
PruneFileSources(f) == 0 .. known[f]
ForgetFileSources(f) == {0}

SourcesAfter(c, f) ==
    CASE c = "save" -> SaveFoundSources(f) [] c = "prune" -> PruneFileSources(f)
      [] c = "forget" -> ForgetFileSources(f) [] OTHER -> {known[f]}

Effect(c, f) ==
    /\ rows' = [rows EXCEPT ![f] = RowAfter(c, f)]
    /\ \E n \in SourcesAfter(c, f) : known' = [known EXCEPT ![f] = n]

(* A control handler, between two awaits of the kernel.                    *)
Handler(c, f) ==
    /\ Effect(c, f)
    /\ StartTasks(IF c = "run" THEN {f} ELSE {})
    /\ kernel' = IF c = "stop" /\ kernel = "up" THEN "stopping" ELSE kernel
    /\ UNCHANGED <<boots, status, db, resume, skipped, guest>>

(* The kernel answers.  After a run that was started the client polls.     *)
Handle ==
    /\ cli.at = "asked"
    /\ Handler(cli.cmd, cli.file)
    /\ cli' = IF cli.cmd = "run" /\ Startable(cli.file) THEN [cli EXCEPT !.at = "poll"] ELSE Idle
    /\ UNCHANGED late

(* The request waits in the socket of a client that has gone.              *)
HandleLate ==
    /\ \E r \in late :
          /\ Handler(r[1], r[2])
          /\ late' = late \ {r}
    /\ UNCHANGED cli

(* control_request gives up after its timeout.                             *)
TimesOut ==
    /\ cli.at = "asked" /\ Cardinality(late) < MaxLate
    /\ late' = late \cup {<<cli.cmd, cli.file>>}
    /\ cli' = Unanswered
    /\ UNCHANGED <<processVars, db, rows, known, box, tasks>>

PollUntilDone ==                             \* faulty: waits for a box that is done
    /\ cli.at = "poll" /\ Serving /\ box[cli.file] = "done"
    /\ cli' = Idle
    /\ UNCHANGED <<processVars, db, rows, known, box, tasks, late>>

(* download run asks for download.status until the box is done, until      *)
(* there is no box, or until the kernel does not answer.                   *)
Poll ==
    /\ cli.at = "poll"
    /\ \/ ~Serving
       \/ box[cli.file] # "running"
    /\ cli' = Idle
    /\ UNCHANGED <<processVars, db, rows, known, box, tasks, late>>

(* The command opens the database itself, works, and its process ends; a   *)
(* run stays, with the database open.                                      *)
Local ==
    /\ cli.at = "local" /\ cli.cmd \notin {"run", "stop"} /\ db = "free"
    /\ Effect(cli.cmd, cli.file)
    /\ cli' = Idle
    /\ UNCHANGED <<processVars, db, box, tasks, late>>

LocalRun ==
    /\ cli.at = "local" /\ cli.cmd = "run" /\ db = "free"
    /\ db' = "cli"
    /\ cli' = [cli EXCEPT !.at = "race"]
    /\ UNCHANGED <<processVars, rows, known, box, tasks, late>>

(* The kernel has the database open for longer than the retries last.      *)
LocalFails ==
    /\ cli.at = "local" /\ (db = "kernel" \/ cli.cmd = "stop")
    /\ cli' = Idle
    /\ UNCHANGED <<processVars, db, rows, known, box, tasks, late>>

(* A block of a local run; the connection is opened again if it was        *)
(* closed.  While the kernel has the database the block is not recorded.   *)
LocalRecords(s) ==
    /\ cli.at = "race" /\ db # "kernel"
    /\ Recorded(cli.file, s)
    /\ db' = "cli"
    /\ UNCHANGED <<processVars, known, box, tasks, cli, late>>

(* _credit_downloaded closes the state it shares with the queue.           *)
LocalCredit ==
    /\ cli.at = "race" /\ db # "kernel" /\ rows[cli.file] # "none"
    /\ db' = "free"
    /\ UNCHANGED <<processVars, rows, known, box, tasks, cli, late>>

(* The local run returns or fails, or the user ends it.                    *)
LocalEnds ==
    /\ cli.at = "race"
    /\ db' = IF db = "cli" THEN "free" ELSE db
    /\ cli' = Idle
    /\ UNCHANGED <<processVars, rows, known, box, tasks, late>>

-----------------------------------------------------------------------------
ProcessNext ==
    \/ Boot \/ Listen \/ AutoResume \/ Signal \/ CloseControl \/ Drained \/ Exit \/ KernelCrash \/ Reask
    \/ \E f \in Downloads : TaskBegins(f) \/ RefreshEnds(f) \/ RaceEnds(f)
    \/ \E f \in Downloads, s \in {"downloading", "complete"} : RaceRecords(f, s)
    \/ PeersLeave \/ Handle \/ HandleLate

CliNext ==
    \/ \E c \in Routed \cup Direct, f \in Downloads : Command(c, f)
    \/ TimesOut \/ Poll
    \/ Local \/ LocalRun \/ LocalFails \/ LocalCredit \/ LocalEnds
    \/ \E s \in {"downloading", "complete"} : LocalRecords(s)

KernelNext == ProcessNext \/ CliNext

KernelSpec == KernelInit /\ [][KernelNext]_kernelVars

(* The event loop runs every task that can run; lookups and races end      *)
(* (their timeouts, and RunEnds of DownloadRun); a command runs to its end.*)
(* Peers stay connected for as long as they like.                          *)
KernelFairness ==
    /\ WF_kernelVars(Listen) /\ WF_kernelVars(AutoResume)
    /\ WF_kernelVars(CloseControl) /\ WF_kernelVars(Drained) /\ WF_kernelVars(Exit)
    /\ WF_kernelVars(Handle \/ TimesOut) /\ WF_kernelVars(HandleLate)
    /\ \A f \in Downloads :
          WF_kernelVars(TaskBegins(f)) /\ WF_kernelVars(RefreshEnds(f)) /\ WF_kernelVars(RaceEnds(f))
    /\ WF_kernelVars(Poll)
    /\ WF_kernelVars(Local \/ LocalRun \/ LocalFails) /\ WF_kernelVars(LocalEnds)

FairSpec == KernelSpec /\ KernelFairness

-----------------------------------------------------------------------------
(* A box that is not done stands for exactly one task of the kernel, and   *)
(* no task runs without one: download.run can be refused, and polled, by   *)
(* looking at the box (core/kernel.py:265, 900).                           *)
BoxTruthful ==
    kernel # "down" => \A f \in Downloads : TaskCount(f) = IF box[f] = "running" THEN 1 ELSE 0

(* Once asked to stop, the kernel goes down and gives the database back,   *)
(* whatever downloads are running and whatever commands do (core/kernel.py:*)
(* 1298-1340), unless a peer of the listener never leaves.                 *)
Stopping == kernel \in {"stopping", "draining", "closing"}
StopEnds == Stopping ~> \/ kernel = "down" /\ db # "kernel"
                        \/ [](kernel = "closing" /\ guest)

(* "shuts down gracefully on Ctrl+C or `amuled daemon stop`" (README.md):  *)
(* the kernel does not wait for a peer to leave (listener.py:1451-1458).   *)
StopsGracefully == Stopping ~> kernel = "down" /\ db # "kernel"

(* What was downloading when the kernel came up is raced again without a   *)
(* command (core/kernel.py:1264-1296).                                     *)
ResumedAfterRestart ==
    \A f \in Downloads :
        resume /\ rows[f] = "downloading"
            ~> TaskCount(f) > 0 \/ rows[f] # "downloading" \/ kernel # "up"

(* Every command returns to the user: whoever crashes, restarts or holds   *)
(* the database (cli.py:1651, 2152-2210).                                  *)
CommandReturns == cli.at # "idle" ~> cli.at = "idle"

(* "every interval, refresh KAD sources for every queued/download entry"   *)
(* (core/kernel.py:415): a cycle of the re-ask loop skips none of them.    *)
EveryEntryReasked == skipped = {}
=============================================================================
