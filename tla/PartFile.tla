------------------------------ MODULE PartFile ------------------------------
(***************************************************************************)
(* One incomplete download on disk: the data file, the gap list of the     *)
(* open PartFile object, and the .amuled.json sidecar                      *)
(* (src/src/amuled_v2/core/download/partfile.py).                          *)
(*                                                                         *)
(* Gaps are half-open intervals <<start, end>> in a list, as in the code.  *)
(* Data is abstracted to the set of offsets that were ever written.  The   *)
(* buffer of the file handle is invisible to the process that owns it;     *)
(* DownloadQueue models what a crash makes of it.                          *)
(***************************************************************************)
EXTENDS Integers, Sequences, FiniteSets, SequencesExt

CONSTANTS
    TotalSize,          \* total_size
    ChunkSize           \* ED2K_CHUNK_SIZE

PartFileAssumption ==
    TotalSize \in Nat \ {0} /\ ChunkSize \in Nat \ {0}

VARIABLES
    disk,       \* offsets of the data file that hold received bytes
    size,       \* st_size of the data file
    sidecar,    \* gap list saved in the sidecar
    gaps,       \* self.gaps of the open object
    handle      \* self._handle is not None

fileVars == <<disk, size, sidecar, gaps, handle>>

Offsets == 0 .. TotalSize - 1
WholeFile == << <<0, TotalSize>> >>

(* Offsets that a gap list covers.                                         *)
Covered(gs) == UNION {gs[i][1] .. gs[i][2] - 1 : i \in DOMAIN gs}

-----------------------------------------------------------------------------
(* Pure operations on gap lists.                                           *)

ClampTo(x) == IF x < 0 THEN 0 ELSE IF x > TotalSize THEN TotalSize ELSE x

Earlier(g, h) == g[1] < h[1] \/ (g[1] = h[1] /\ g[2] < h[2])

(* sorted() *)
Sorted(S) ==
    CHOOSE s \in [1 .. Cardinality(S) -> S] :
        \A i, j \in 1 .. Cardinality(S) : i < j => Earlier(s[i], s[j])

(* The loop of _normalize_gaps over the sorted list: extend the last       *)
(* merged gap when the next one starts inside it or at its end.            *)
MergeInto(merged, g) ==
    IF merged # << >> /\ g[1] <= Last(merged)[2]
    THEN [merged EXCEPT ![Len(merged)] = <<@[1], IF g[2] > @[2] THEN g[2] ELSE @[2]>>]
    ELSE Append(merged, g)

(* _normalize_gaps of the gaps in a set: it sorts them, and merging drops  *)
(* copies.                                                                 *)
NormalizeGaps(S) ==
    LET clipped == {<<ClampTo(g[1]), ClampTo(g[2])>> : g \in S}
        list == Sorted({g \in clipped : g[1] < g[2]})
        merged[k \in 0 .. Len(list)] ==
            IF k = 0 THEN << >> ELSE MergeInto(merged[k - 1], list[k])
    IN  merged[Len(list)]

(* What one gap leaves behind when [from, to) is written.                  *)
CutGap(g, from, to) ==
    IF to <= g[1] \/ from >= g[2] THEN {g}
    ELSE {h \in {<<g[1], from>>, <<to, g[2]>>} : h[1] < h[2]}

ApplyGapFill(gs, from, to) ==
    NormalizeGaps(UNION {CutGap(gs[i], from, to) : i \in DOMAIN gs})

Punched(gs, from, to) ==
    LET s == IF from < 0 THEN 0 ELSE from
        e == IF to > TotalSize THEN TotalSize ELSE to
    IN  IF e <= s THEN gs ELSE NormalizeGaps(ToSet(gs) \cup {<<s, e>>})

ChunkCount == (TotalSize + ChunkSize - 1) \div ChunkSize

ChunkBitmap(gs) ==
    [c \in 0 .. ChunkCount - 1 |->
        LET from == c * ChunkSize
            to == IF from + ChunkSize < TotalSize THEN from + ChunkSize ELSE TotalSize
        IN  ~ \E i \in DOMAIN gs : gs[i][1] < to /\ gs[i][2] > from]

-----------------------------------------------------------------------------
(* The state machine: PartFile() and open_new have run once.               *)

PartInit ==
    /\ disk = {}
    /\ size \in {0, TotalSize}          \* sparse or preallocated
    /\ gaps = WholeFile
    /\ sidecar = WholeFile
    /\ handle = TRUE

(* open_new on a fresh object: an existing file of the full size is kept,  *)
(* any other one is truncated; the sidecar is rewritten either way.        *)
OpenNew(sparse) ==
    /\ ~handle
    /\ IF size = TotalSize
       THEN UNCHANGED <<disk, size>>
       ELSE /\ disk' = {}
            /\ size' = IF sparse THEN 0 ELSE TotalSize
    /\ gaps' = WholeFile
    /\ sidecar' = WholeFile
    /\ handle' = TRUE

(* PartFile.resume.                                                        *)
ResumePart ==
    /\ ~handle
    /\ gaps' = NormalizeGaps(ToSet(sidecar))
    /\ handle' = TRUE
    /\ UNCHANGED <<disk, size, sidecar>>

(* write_block: data first, then the gap list; out-of-bounds blocks raise. *)
WriteBlock(from, len) ==
    /\ handle
    /\ from >= 0 /\ from + len <= TotalSize
    /\ disk' = disk \cup (from .. from + len - 1)
    /\ size' = IF from + len > size THEN from + len ELSE size
    /\ gaps' = ApplyGapFill(gaps, from, from + len)
    /\ UNCHANGED <<sidecar, handle>>

Punch(from, to) ==
    /\ handle
    /\ gaps' = Punched(gaps, from, to)
    /\ UNCHANGED <<disk, size, sidecar, handle>>

(* Slip: the chunk bitmap is saved, not the gaps.                          *)
SaveByChunk ==
    /\ handle
    /\ sidecar' = NormalizeGaps(
           {<<c * ChunkSize, (c + 1) * ChunkSize>> :
               c \in {d \in 0 .. ChunkCount - 1 : ~ChunkBitmap(gaps)[d]}})
    /\ UNCHANGED <<disk, size, gaps, handle>>

Save ==
    /\ handle
    /\ sidecar' = gaps
    /\ UNCHANGED <<disk, size, gaps, handle>>

(* close(): the gap list in memory is given up, saved or not.              *)
Close ==
    /\ handle
    /\ handle' = FALSE
    /\ UNCHANGED <<disk, size, sidecar, gaps>>

PartNext ==
    \/ \E sparse \in BOOLEAN : OpenNew(sparse)
    \/ ResumePart
    \/ \E from \in Offsets : \E len \in 1 .. TotalSize : WriteBlock(from, len)
    \/ \E from \in -1 .. TotalSize : \E to \in 0 .. TotalSize + 1 : Punch(from, to)
    \/ Save
    \/ Close

PartSpec == PartInit /\ [][PartNext]_fileVars

-----------------------------------------------------------------------------
IsGapList(gs) ==
    \A i \in DOMAIN gs : gs[i] \in (0 .. TotalSize) \X (0 .. TotalSize)

(* The data file, the gap list in memory and the one in the sidecar keep   *)
(* their shape: write_block and punch never leave [0, total_size).         *)
PartTypeOK ==
    /\ disk \subseteq Offsets
    /\ size \in 0 .. TotalSize
    /\ IsGapList(gaps)
    /\ IsGapList(sidecar)
    /\ handle \in BOOLEAN

(* The gap list is the "ordered, non-overlapping" list partfile.py         *)
(* documents, and no two neighbours touch: merging left nothing to merge.  *)
CanonicalGaps ==
    /\ \A i \in DOMAIN gaps : gaps[i][1] < gaps[i][2]
    /\ \A i \in 1 .. Len(gaps) - 1 : gaps[i][2] < gaps[i + 1][1]

(* The gap list implements the set of missing offsets.  A closed object is *)
(* seen as already restarted: its list in memory is not readable any more. *)
Abs == INSTANCE PartFileAbs WITH
    missing <- IF handle THEN Covered(gaps) ELSE Covered(sidecar),
    durable <- Covered(sidecar),
    held <- disk

(* Every method is a Fill, Reopen, Checkpoint, Restart or Recreate of the  *)
(* abstract part file, or changes nothing it knows of: in particular       *)
(* neither the open object nor what a later resume loads counts an offset  *)
(* as downloaded that was not written, also when open_new has thrown away  *)
(* a file that a saved sidecar described.                                  *)
AbsSpec == Abs!Spec
=============================================================================
