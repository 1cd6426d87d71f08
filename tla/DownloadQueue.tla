--------------------------- MODULE DownloadQueue ---------------------------
(***************************************************************************)
(* The download queue: the DuckDB row of each download, its part file and  *)
(* sidecar in temp/, and the finished files in incoming/                   *)
(* (core/download/queue.py, the downloads table of state.py, and the way   *)
(* queue.py drives partfile.py).                                           *)
(*                                                                         *)
(* Every method is synchronous, so on the event loop it is one step.  What *)
(* can interrupt it is the end of the process: the Crash... actions leave  *)
(* exactly the prefix of the method's durable effects that was reached.    *)
(* A file is a set of block positions; the gap list of a sidecar is the    *)
(* set of missing positions (PartFile shows that list to be that set).     *)
(***************************************************************************)
EXTENDS Naturals, FiniteSets

CONSTANTS
    Files,          \* file hashes
    Units,          \* block positions of a file
    Names,          \* target names in incoming/
    NameOf,         \* the name column of each download
    Sparse,         \* download.sparse_part_files
    SameVolume,     \* temp/ and incoming/ are on one volume: the move is a rename
    VerifyChoices,  \* how finalize is called: {TRUE} by the kernel, also FALSE by
                    \* `download run --no-verify`
    NoFile          \* nothing stored under a name of incoming/

ASSUME DownloadQueueAssumption ==
    /\ NameOf \in [Files -> Names]
    /\ Sparse \in BOOLEAN
    /\ SameVolume \in BOOLEAN
    /\ VerifyChoices \subseteq BOOLEAN
    /\ NoFile \notin Files

VARIABLES
    row,            \* downloads.status, "absent" when there is no row
    exists,         \* the .part file is in temp/
    data,           \* content of its positions
    scState,        \* the sidecar: "none", "ok", or "torn" inside save
    missing,        \* the gaps it records
    incoming,       \* which download is stored under each name of incoming/
    content,        \* the content stored there
    vouched,        \* names whose last finalize answered verified = True
    moved,          \* history: downloads finalize has moved since add
    damaged         \* history: downloads a crash cut short since add

vars == <<row, exists, data, scState, missing, incoming, content, vouched,
          moved, damaged>>

tempVars == <<exists, data, scState, missing>>
incomingVars == <<incoming, content, vouched, moved>>

Status == {"queued", "downloading", "paused", "complete"}
Quality == {"good", "bad"}
Content == Quality \cup {"zero"}
Zeros == [u \in Units |-> "zero"]

(* Every row, part file, sidecar and name in incoming/ stays one the next  *)
(* method, or the next start of the program, can take up.                  *)
TypeOK ==
    /\ row \in [Files -> Status \cup {"absent"}]
    /\ exists \in [Files -> BOOLEAN]
    /\ data \in [Files -> [Units -> Content]]
    /\ scState \in [Files -> {"none", "ok", "torn"}]
    /\ missing \in [Files -> SUBSET Units]
    /\ incoming \in [Names -> Files \cup {NoFile}]
    /\ content \in [Names -> [Units -> Content]]
    /\ vouched \subseteq Names
    /\ moved \subseteq Files
    /\ damaged \subseteq Files

Init ==
    /\ row = [f \in Files |-> "absent"]
    /\ exists = [f \in Files |-> FALSE]
    /\ data = [f \in Files |-> Zeros]
    /\ scState = [f \in Files |-> "none"]
    /\ missing = [f \in Files |-> Units]
    /\ incoming = [n \in Names |-> NoFile]
    /\ content = [n \in Names |-> Zeros]
    /\ vouched = {}
    /\ moved = {}
    /\ damaged = {}

(* PartFile.resume succeeds.                                               *)
Loadable(f) == exists[f] /\ scState[f] = "ok"

(* ed2k_hash_file of a part file equals the hash it was queued under.      *)
HashMatches(f) == \A u \in Units : data[f][u] = "good"

-----------------------------------------------------------------------------
(* PartFile.open_new on the part path: a file of full size is kept, a      *)
(* sparse one that has not grown to full size is truncated.                *)
CreatePart(f, keep) ==
    /\ keep => exists[f]
    /\ ~keep => ~exists[f] \/ Sparse
    /\ exists' = [exists EXCEPT ![f] = TRUE]
    /\ data' = [data EXCEPT ![f] = IF keep THEN data[f] ELSE Zeros]

(* PartFile.write_block: the bytes of the written positions.               *)
WriteData(f, written, q) ==
    data' = [data EXCEPT ![f] = [u \in Units |-> IF u \in written THEN q ELSE data[f][u]]]

(* json.dump of the gap list over the old sidecar.                         *)
SaveSidecar(f, gaps) ==
    /\ scState' = [scState EXCEPT ![f] = "ok"]
    /\ missing' = [missing EXCEPT ![f] = gaps]

(* The process ends after open(sidecar, "w") emptied the file.             *)
TearSidecar(f) ==
    /\ scState' = [scState EXCEPT ![f] = "torn"]
    /\ UNCHANGED missing

SetStatus(f, s) == row' = [row EXCEPT ![f] = s]

(* Slip: open_new keeps a sidecar it finds, as it keeps a full-size file.  *)
AddKeepsSidecar(f, keep) ==
    /\ row[f] = "absent"
    /\ CreatePart(f, keep)
    /\ IF scState[f] = "ok" THEN UNCHANGED <<scState, missing>> ELSE SaveSidecar(f, Units)
    /\ SetStatus(f, "queued")
    /\ moved' = moved \ {f}
    /\ damaged' = damaged \ {f}
    /\ UNCHANGED <<incoming, content, vouched>>

Add(f, keep) ==
    /\ row[f] = "absent"
    /\ CreatePart(f, keep)
    /\ SaveSidecar(f, Units)
    /\ SetStatus(f, "queued")
    /\ moved' = moved \ {f}
    /\ damaged' = damaged \ {f}
    /\ UNCHANGED <<incoming, content, vouched>>

Start(f) ==
    /\ row[f] # "absent"
    /\ SetStatus(f, "downloading")
    /\ UNCHANGED <<tempVars, incomingVars, damaged>>

Pause(f) ==
    /\ row[f] # "absent"
    /\ SetStatus(f, "paused")
    /\ UNCHANGED <<tempVars, incomingVars, damaged>>

Resume(f) ==
    /\ row[f] = "paused"
    /\ SetStatus(f, "downloading")
    /\ UNCHANGED <<tempVars, incomingVars, damaged>>

(* Slip: the row is only paused, although its files are deleted.           *)
CancelKeepsRow(f, keepFiles) ==
    /\ row[f] # "absent"
    /\ exists' = [exists EXCEPT ![f] = exists[f] /\ keepFiles]
    /\ scState' = [scState EXCEPT ![f] = IF keepFiles THEN scState[f] ELSE "none"]
    /\ SetStatus(f, "paused")
    /\ UNCHANGED <<data, missing, incomingVars, damaged>>

Cancel(f, keepFiles) ==
    /\ row[f] # "absent"
    /\ exists' = [exists EXCEPT ![f] = exists[f] /\ keepFiles]
    /\ scState' = [scState EXCEPT ![f] = IF keepFiles THEN scState[f] ELSE "none"]
    /\ SetStatus(f, "absent")
    /\ UNCHANGED <<data, missing, incomingVars, damaged>>

(* record_block: the write, the gap fill, the save and the new status,     *)
(* whatever the status was before.                                         *)
RecordBlock(f, block, q) ==
    /\ row[f] # "absent" /\ Loadable(f)
    /\ WriteData(f, block, q)
    /\ SaveSidecar(f, missing[f] \ block)
    /\ SetStatus(f, IF missing[f] \ block = {} THEN "complete" ELSE "downloading")
    /\ UNCHANGED <<exists, incomingVars, damaged>>

(* Slip: punch_gaps leaves the status as it is.                            *)
PunchGapsKeepsStatus(f, ranges) ==
    /\ row[f] # "absent" /\ Loadable(f)
    /\ SaveSidecar(f, missing[f] \cup ranges)
    /\ UNCHANGED <<row, exists, data, incomingVars, damaged>>

PunchGaps(f, ranges) ==
    /\ row[f] # "absent" /\ Loadable(f)
    /\ SaveSidecar(f, missing[f] \cup ranges)
    /\ SetStatus(f, "downloading")
    /\ UNCHANGED <<exists, data, incomingVars, damaged>>

(* Slip: finalize trusts the gap list and does not hash the file.          *)
MayFinalizeUnhashed(f, verify) ==
    /\ row[f] = "complete" /\ exists[f]
    /\ verify => Loadable(f) /\ missing[f] = {}

(* The checks of finalize, on a volume that has room for the file.         *)
MayFinalize(f, verify) ==
    /\ row[f] = "complete" /\ exists[f]
    /\ verify => Loadable(f) /\ missing[f] = {} /\ HashMatches(f)

(* finalize.  A failed check raises and changes nothing.  The sidecar      *)
(* stays behind in temp/.                                                  *)
Finalize(f, verify) ==
    /\ MayFinalize(f, verify)
    /\ exists' = [exists EXCEPT ![f] = FALSE]
    /\ incoming' = [incoming EXCEPT ![NameOf[f]] = f]
    /\ content' = [content EXCEPT ![NameOf[f]] = data[f]]
    /\ vouched' = (vouched \ {NameOf[f]}) \cup (IF verify THEN {NameOf[f]} ELSE {})
    /\ moved' = moved \cup {f}
    /\ SetStatus(f, "complete")
    /\ UNCHANGED <<data, scState, missing, damaged>>

-----------------------------------------------------------------------------
(* The process ends inside a method.                                       *)

CrashInAdd(f, keep) ==
    /\ row[f] = "absent"
    /\ CreatePart(f, keep)
    /\ \/ UNCHANGED <<scState, missing>>
       \/ TearSidecar(f)
       \/ SaveSidecar(f, Units)
    /\ UNCHANGED <<row, incomingVars, damaged>>

(* write_block leaves the end of the block in the buffer of the handle     *)
(* until close(), which comes after save(): `flushed` is what reached the  *)
(* file.                                                                   *)
CrashInRecordBlock(f, block, flushed, q) ==
    /\ row[f] # "absent" /\ Loadable(f)
    /\ flushed \subseteq block
    /\ WriteData(f, flushed, q)
    /\ \/ UNCHANGED <<scState, missing>>
       \/ TearSidecar(f)
       \/ SaveSidecar(f, missing[f] \ block)
    /\ damaged' = damaged \cup {f}
    /\ UNCHANGED <<row, exists, incomingVars>>

CrashInPunchGaps(f, ranges) ==
    /\ row[f] # "absent" /\ Loadable(f)
    /\ TearSidecar(f) \/ SaveSidecar(f, missing[f] \cup ranges)
    /\ damaged' = damaged \cup {f}
    /\ UNCHANGED <<row, exists, data, incomingVars>>

CrashInCancel(f) ==
    /\ row[f] # "absent"
    /\ exists' = [exists EXCEPT ![f] = FALSE]
    /\ \/ UNCHANGED scState
       \/ scState' = [scState EXCEPT ![f] = "none"]
    /\ damaged' = damaged \cup {f}
    /\ UNCHANGED <<row, data, missing, incomingVars>>

(* shutil.move between two volumes copies, then unlinks; between the two   *)
(* the target holds what was copied so far and the part file is intact.    *)
CrashInFinalize(f, verify, copied) ==
    /\ ~SameVolume
    /\ MayFinalize(f, verify)
    /\ incoming' = [incoming EXCEPT ![NameOf[f]] = f]
    /\ content' = [content EXCEPT ![NameOf[f]] =
                      [u \in Units |-> IF u \in copied THEN data[f][u] ELSE "zero"]]
    /\ vouched' = vouched \ {NameOf[f]}
    /\ UNCHANGED <<row, tempVars, moved, damaged>>

-----------------------------------------------------------------------------
Blocks == (SUBSET Units) \ {{}}

Method(f) ==
    \/ \E keep \in BOOLEAN : Add(f, keep)
    \/ Start(f)
    \/ Pause(f)
    \/ Resume(f)
    \/ \E keepFiles \in BOOLEAN : Cancel(f, keepFiles)
    \/ \E block \in Blocks, q \in Quality : RecordBlock(f, block, q)
    \/ \E ranges \in Blocks : PunchGaps(f, ranges)
    \/ \E verify \in VerifyChoices : Finalize(f, verify)

Crash(f) ==
    \/ \E keep \in BOOLEAN : CrashInAdd(f, keep)
    \/ \E block \in Blocks, flushed \in SUBSET Units, q \in Quality :
            CrashInRecordBlock(f, block, flushed, q)
    \/ \E ranges \in Blocks : CrashInPunchGaps(f, ranges)
    \/ CrashInCancel(f)
    \/ \E verify \in VerifyChoices, copied \in SUBSET Units : CrashInFinalize(f, verify, copied)

Next == \E f \in Files : Method(f) \/ Crash(f)

Spec == Init /\ [][Next]_vars

-----------------------------------------------------------------------------
(* A queued download no crash has cut short since it was added.            *)
Intact(f) == row[f] # "absent" /\ f \notin damaged

(* No resume ever believes a byte was downloaded that was not: every       *)
(* position the sidecar of a download does not list as a gap holds         *)
(* received data, whatever part file or sidecar an earlier, cancelled or   *)
(* crashed, life of the same hash left behind in temp/.                    *)
NoPhantomBytes ==
    \A f \in Files :
        Intact(f) /\ Loadable(f) =>
            \A u \in Units \ missing[f] : data[f][u] # "zero"

(* README.md:141 "Final assembly into incoming\ happens only when the gap  *)
(* list is empty and the full MD4 verifies": what the last finalize under  *)
(* a name reported as verified is what the hash promised, also after any   *)
(* crash, any cancel and any later download of the same name.              *)
IncomingVerified ==
    \A n \in vouched :
        incoming[n] # NoFile /\ \A u \in Units : content[n][u] = "good"

(* A download the table calls complete has no gaps left: otherwise run()   *)
(* answers already_complete for a file nobody will finish                  *)
(* (queue.py:254-255 downgrades the status for this reason).               *)
CompleteMeansNoGaps ==
    \A f \in Files :
        Intact(f) /\ row[f] = "complete" => scState[f] = "ok" /\ missing[f] = {}

(* A row whose part file cannot be opened is one whose file finalize has   *)
(* moved to incoming/.                                                     *)
NoLostPart ==
    \A f \in Files : Intact(f) => Loadable(f) \/ f \in moved
=============================================================================
