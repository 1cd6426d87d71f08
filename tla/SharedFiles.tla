---------------------------- MODULE SharedFiles ----------------------------
(***************************************************************************)
(* The shared-file tables (state.py) and the scans that fill them          *)
(* (core/sharing/shared_files.py, cli.py, the share.add handler of         *)
(* core/kernel.py).                                                        *)
(*                                                                         *)
(* A row is keyed by the hash of the content and names one path.  A scan   *)
(* lists a directory, hashes the files one after the other while users go  *)
(* on changing them, and replaces the rows of the directory in one         *)
(* transaction.                                                            *)
(***************************************************************************)
EXTENDS Integers, Sequences, FiniteSets, SequencesExt

CONSTANTS
    Dirs,           \* directories, none below another
    Incoming,       \* the one share.add takes files from
    Names,          \* file names
    Contents,       \* contents; two contents have two ED2K hashes
    NoFile,         \* nothing under a path
    NoRow, NoPath   \* no row for a hash; a row without a path

Paths == Dirs \X Names
Under(d) == {d} \X Names

ASSUME SharedFilesAssumption ==
    /\ IsFiniteSet(Names)
    /\ NoFile \notin Contents /\ NoRow # NoPath
    /\ NoRow \notin Paths /\ NoPath \notin Paths

VARIABLES
    disk,           \* content of each path
    dirs,           \* table shared_directories
    share,          \* table shared_files: hash -> path
    scan,           \* the scan or share.add in progress: its directory, the
                    \* paths still to hash, the records made, and which it is
    indexed,        \* paths that hold what the last scan or share.add saw
    twins           \* contents recorded under a second directory

fileVars == <<disk, dirs, share, scan, indexed, twins>>

FilesTypeOK ==
    /\ disk \in [Paths -> Contents \cup {NoFile}]
    /\ dirs \subseteq Dirs
    /\ share \in [Contents -> Paths \cup {NoPath, NoRow}]
    /\ indexed \subseteq Paths /\ twins \subseteq Contents

FilesInit ==
    /\ disk = [p \in Paths |-> NoFile]
    /\ dirs = {}
    /\ share = [c \in Contents |-> NoRow]
    /\ scan = <<>>
    /\ indexed = {} /\ twins = {}

(* The user creates, overwrites, moves or deletes a file.                  *)
Change(p, c) ==
    /\ disk[p] # c
    /\ disk' = [disk EXCEPT ![p] = c]
    /\ indexed' = indexed \ {p}
    /\ UNCHANGED <<dirs, share, scan, twins>>

(* scan_shared_directory lists the regular files, in one fixed order.      *)
BeginScan(d) ==
    /\ scan = <<>>
    /\ \E todo \in SetToSeqs({p \in Under(d) : disk[p] # NoFile}) :
          scan' = <<d, todo, <<>>, "scan">>
    /\ UNCHANGED <<disk, dirs, share, indexed, twins>>

(* share.add hashes one file of incoming/ in an executor.  The command     *)
(* line and the kernel have the database one at a time, so a scan and a    *)
(* share.add exclude each other.                                           *)
BeginAdd(p) ==
    /\ scan = <<>>
    /\ p[1] = Incoming /\ disk[p] # NoFile
    /\ scan' = <<p[1], <<p>>, <<>>, "add">>
    /\ UNCHANGED <<disk, dirs, share, indexed, twins>>

(* One file is hashed.                                                     *)
HashNext ==
    /\ scan # <<>> /\ scan[2] # <<>>
    /\ disk[Head(scan[2])] # NoFile
    /\ scan' = <<scan[1], Tail(scan[2]),
                 Append(scan[3], <<Head(scan[2]), disk[Head(scan[2])]>>), scan[4]>>
    /\ UNCHANGED <<disk, dirs, share, indexed, twins>>

(* The file is gone: the scan raises before it has touched the tables.     *)
ScanFails ==
    /\ scan # <<>> /\ scan[2] # <<>>
    /\ disk[Head(scan[2])] = NoFile
    /\ scan' = <<>>
    /\ UNCHANGED <<disk, dirs, share, indexed, twins>>

(* INSERT OR REPLACE of the records, in their order: the last one of a     *)
(* content stays.                                                          *)
Insert(rows, records) ==
    [c \in Contents |->
        LET at == {i \in DOMAIN records : records[i][2] = c}
        IN  IF at = {} THEN rows[c] ELSE records[Max(at)][1]]

(* Rows below d that were not scanned are deleted.                         *)
DropStale(rows, d, scanned) ==
    [c \in Contents |-> IF rows[c] \in Under(d) \ scanned THEN NoRow ELSE rows[c]]

(* Contents also recorded outside d.                                       *)
Elsewhere(d, found) ==
    {c \in found : \/ share[c] \in Paths \ Under(d)
                   \/ \E p \in indexed \ Under(d) : disk[p] = c}

(* Paths that still hold what was hashed.                                  *)
Current(records) ==
    {rec[1] : rec \in {r \in Range(records) : disk[r[1]] = r[2]}}

CommitScanStaleFirst ==                      \* faulty: looks for stale rows too early
    /\ scan # <<>> /\ scan[2] = <<>> /\ scan[4] = "scan"
    /\ LET d       == scan[1]
           records == scan[3]
           scanned == {rec[1] : rec \in Range(records)}
           stale   == {c \in Contents : share[c] \in Under(d) \ scanned}
           rows    == Insert(share, records)
       IN  /\ dirs' = dirs \cup {d}
           /\ share' = [c \in Contents |-> IF c \in stale THEN NoRow ELSE rows[c]]
           /\ indexed' = (indexed \ Under(d))
                           \cup Current(records)
           /\ twins' = twins \cup Elsewhere(d, {rec[2] : rec \in Range(records)})
    /\ scan' = <<>>
    /\ UNCHANGED disk

(* replace_shared_directory_scan, one transaction.                         *)
CommitScan ==
    /\ scan # <<>> /\ scan[2] = <<>> /\ scan[4] = "scan"
    /\ LET d       == scan[1]
           records == scan[3]
           scanned == {rec[1] : rec \in Range(records)}
           found   == {rec[2] : rec \in Range(records)}
       IN  /\ dirs' = dirs \cup {d}
           /\ share' = DropStale(Insert(share, records), d, scanned)
           /\ indexed' = (indexed \ Under(d))
                           \cup Current(records)
           /\ twins' = twins \cup Elsewhere(d, found)
    /\ scan' = <<>>
    /\ UNCHANGED disk

(* The share.add handler saves the row of its one file; the directory is   *)
(* not registered.                                                         *)
CommitAdd ==
    /\ scan # <<>> /\ scan[2] = <<>> /\ scan[4] = "add"
    /\ share' = Insert(share, scan[3])
    /\ indexed' = indexed \cup Current(scan[3])
    /\ twins' = twins \cup Elsewhere(scan[1], {rec[2] : rec \in Range(scan[3])})
    /\ scan' = <<>>
    /\ UNCHANGED <<disk, dirs>>

(* import shared: rows from v1 metadata, which need not have a path.       *)
ImportShared(c) ==
    /\ scan = <<>>
    /\ share' = [share EXCEPT ![c] = NoPath]
    /\ UNCHANGED <<disk, dirs, scan, indexed, twins>>

(* share remove file.                                                      *)
RemoveFile(c) ==
    /\ scan = <<>>
    /\ share[c] # NoRow
    /\ share' = [share EXCEPT ![c] = NoRow]
    /\ indexed' = {p \in indexed : disk[p] # c}
    /\ UNCHANGED <<disk, dirs, scan, twins>>

(* share remove dir, with or without --keep-files.                         *)
RemoveDir(d, keep) ==
    /\ scan = <<>>
    /\ d \in dirs
    /\ dirs' = dirs \ {d}
    /\ share' = IF keep THEN share ELSE DropStale(share, d, {})
    /\ indexed' = IF keep THEN indexed ELSE indexed \ Under(d)
    /\ UNCHANGED <<disk, scan, twins>>

FilesNext ==
    \/ \E p \in Paths, c \in Contents \cup {NoFile} : Change(p, c)
    \/ \E d \in Dirs : BeginScan(d)
    \/ HashNext
    \/ ScanFails
    \/ CommitScan
    \/ \E p \in Paths : BeginAdd(p)
    \/ CommitAdd
    \/ \E c \in Contents : ImportShared(c)
    \/ \E c \in Contents : RemoveFile(c)
    \/ \E d \in Dirs, keep \in BOOLEAN : RemoveDir(d, keep)

FilesSpec == FilesInit /\ [][FilesNext]_fileVars

-----------------------------------------------------------------------------
(* What a scan or share.add has seen, and nobody has changed or removed    *)
(* since, has a row, however files are renamed and swapped between scans   *)
(* (state.py:1261-1343).  A content recorded under two directories has one *)
(* row, which goes with either of them: those are exempt.                  *)
IndexedIsShared ==
    \A p \in indexed : share[disk[p]] # NoRow \/ disk[p] \in twins
=============================================================================
