-------------------------------- MODULE Ics --------------------------------
(***************************************************************************)
(* Block selection for one multi-part download that several peer sessions  *)
(* fetch at once: the ICS selector (core/download/ics.py), the registry of *)
(* requested ranges and the A4AF gate of the runner                        *)
(* (core/download/runner.py), and the request loop of PeerClient.transfer  *)
(* (core/peer/client.py) that drives them.                                 *)
(*                                                                         *)
(* Ranges are inclusive pairs <<start, end>> as in ics.py; << >> is None.  *)
(* The gap list of the part file is the set of missing offsets: its list   *)
(* form is canonical (PartFile!CanonicalGaps), so the two determine each   *)
(* other.                                                                  *)
(***************************************************************************)
EXTENDS Integers, Sequences, FiniteSets, FiniteSetsExt, SequencesExt

CONSTANTS
    TotalSize,          \* size of the file
    PartSize,           \* ics.PART_SIZE
    EmblockSize,        \* ics.EMBLOCK_SIZE
    MaxBlocks,          \* ranges asked for at a time: block_selector(3)
    SpreadMinSrc,       \* CM_SPREAD_MINSRC
    ShareMinSrc,        \* CM_SHARE_MINSRC
    MaxSrcChunk,        \* CM_MAX_SRC_CHUNK
    PrefShift,          \* 2^8, the shift of size2transfer in _c_pref
    MaxRetries,         \* _OUTOFPART_MAX_RETRIES
    Peers,              \* peer sessions of the race
    Told,               \* peers that sent a part status
    PartStatus,         \* the parts each of them has
    Missing0            \* gap sets the download may start from

Offsets == 0 .. TotalSize - 1

(* part_count *)
PartCount == (TotalSize + PartSize - 1) \div PartSize
Parts == 0 .. PartCount - 1

IcsAssumption ==
    /\ {TotalSize, PartSize, EmblockSize, MaxBlocks, PrefShift, MaxSrcChunk} \subseteq Nat \ {0}
    /\ {SpreadMinSrc, ShareMinSrc, MaxRetries} \subseteq Nat
    /\ Told \subseteq Peers
    /\ PartStatus \in [Peers -> SUBSET Parts]
    /\ Missing0 \subseteq SUBSET Offsets

VARIABLES
    missing,        \* offsets in the gaps of the part file
    requested,      \* _requested_ranges: ranges in flight for the file
    issued,         \* issued_ranges of each transfer
    due,            \* offsets of the current round of a transfer not yet arrived
    lastPart,       \* last_part_box, PartCount standing for None
    retries,        \* outofpart_retries
    received,       \* payload bytes of a transfer
    stage           \* "out", "asking", "waiting", "nns"

icsVars == <<missing, requested, issued, due, lastPart, retries, received, stage>>

Bytes(r) == r[1] .. r[2]
AllBytes(rs) == UNION {Bytes(r) : r \in rs}

(* part_bounds *)
PartBytes(p) == p * PartSize .. Min({(p + 1) * PartSize, TotalSize}) - 1

(* The maximal runs of a set of offsets, as inclusive ranges.              *)
Runs(S) ==
    {r \in S \X S :
        r[1] <= r[2] /\ Bytes(r) \subseteq S /\ r[1] - 1 \notin S /\ r[2] + 1 \notin S}

Gaps == Runs(missing)

-----------------------------------------------------------------------------
(* shrink_to_avoid: one pass over the ranges, then passes until nothing    *)
(* changes, at most one more than there are ranges.                        *)
Clip(w, r) ==
    IF w = << >> \/ w[2] < w[1] THEN << >>
    ELSE IF r[1] <= w[1] /\ w[2] <= r[2] THEN << >>
    ELSE IF r[1] <= w[1] /\ w[1] <= r[2] THEN <<r[2] + 1, w[2]>>
    ELSE IF r[1] <= w[2] /\ w[2] <= r[2] THEN <<w[1], r[1] - 1>>
    ELSE w

Pass(w, ranges) ==
    LET clipped[i \in 0 .. Len(ranges)] ==
            IF i = 0 THEN w ELSE Clip(clipped[i - 1], ranges[i])
    IN  clipped[Len(ranges)]

ShrinkToAvoid(w, ranges) ==
    LET passed[k \in 0 .. Len(ranges) + 1] ==
            IF k = 0 THEN w ELSE Pass(passed[k - 1], ranges)
        shrunk == passed[Len(ranges) + 1]
    IN  IF shrunk = << >> \/ shrunk[2] < shrunk[1] THEN << >> ELSE shrunk

(* Slip: a gap is not cut at the EMBLOCK boundaries.                       *)
WindowsUncut(p) == Runs(missing \cap PartBytes(p))

(* The EMBLOCK windows next_block_in_part walks through in a part: each    *)
(* gap cut at the part and at the EMBLOCK boundaries, counted from the     *)
(* start of the part.                                                      *)
Windows(p) ==
    LET cell(o) == (o - p * PartSize) \div EmblockSize
    IN  UNION {Runs({o \in missing \cap PartBytes(p) : cell(o) = c}) :
                  c \in 0 .. PartSize \div EmblockSize}

(* Slip: only the first window of the part is tried.                       *)
NextBlockFirstWindow(p, ranges) ==
    IF Windows(p) = {} THEN << >>
    ELSE ShrinkToAvoid(CHOOSE w \in Windows(p) : \A v \in Windows(p) : w[1] <= v[1], ranges)

(* next_block_in_part *)
NextBlockInPart(p, ranges) ==
    LET free == {w \in Windows(p) : ShrinkToAvoid(w, ranges) # << >>}
    IN  IF free = {} THEN << >>
        ELSE ShrinkToAvoid(CHOOSE w \in free : \A v \in free : w[1] <= v[1], ranges)

-----------------------------------------------------------------------------
(* The part scores.                                                        *)

LivePeers == {p \in Peers : stage[p] \in {"asking", "waiting"}}

(* _part_frequencies; a peer without a part status counts for every part.  *)
Frequency(part) ==
    Cardinality({p \in LivePeers : p \in Told => part \in PartStatus[p]})

GapSize(part) == Cardinality(missing \cap PartBytes(part))

(* ics_mode *)
IcsMode(gapParts) ==
    LET least == Min({Frequency(part) : part \in gapParts})
    IN  IF gapParts = {} THEN "share"
        ELSE IF least <= SpreadMinSrc THEN "release"
        ELSE IF least <= ShareMinSrc THEN "spread"
        ELSE "share"

(* downloading_counts: ranges of other sessions that overlap the part.     *)
Downloading(peer, part) ==
    Cardinality({r \in requested \ issued[peer] :
        r[1] \div PartSize <= part /\ part <= r[2] \div PartSize})

(* _c_pref as <<high byte, rest>>: lower is better, and 0xFF in the high   *)
(* byte marks a part with enough downloaders.                              *)
Pref(mode, peer, part) ==
    LET size2transfer == PartSize - GapSize(part)
        pd == Downloading(peer, part)
        shifted == Min({65535, (size2transfer + (PartSize * pd) \div MaxSrcChunk) \div PrefShift})
        crowded == pd >= (GapSize(part) * 3 + PartSize - 1) \div PartSize
    IN  IF mode = "release"
        THEN <<IF crowded THEN 255 ELSE 0, size2transfer>>
        ELSE <<IF crowded THEN 255 ELSE shifted \div 256, shifted % 256>>

Lower(x, y) == x[1] < y[1] \/ (x[1] = y[1] /\ x[2] < y[2])

(* `available` of the selector: an unknown or empty status means all.      *)
Available(peer) ==
    IF peer \in Told /\ PartStatus[peer] # {} THEN PartStatus[peer] ELSE Parts

(* choose_part: the parts it may return, none when there is no candidate.  *)
(* The last part wins outright; ties of the best score are drawn at random.*)
ChoosePart(peer, gapParts, last) ==
    LET candidates == gapParts \cap Available(peer)
        mode == IcsMode(gapParts)
        pref == [part \in candidates |-> Pref(mode, peer, part)]
    IN  IF last \in candidates THEN {last}
        ELSE {part \in candidates : \A q \in candidates : ~Lower(pref[q], pref[part])}

(* One turn of the loop of select_blocks: all outcomes of the random draw. *)
SelectTurn(peer, sel) ==
    LET chosen == ChoosePart(peer, sel.gapParts, sel.last)
        turn(part) ==
            LET block == NextBlockInPart(part, SetToSeq(requested) \o sel.blocks)
            IN  IF block = << >>
                THEN [sel EXCEPT !.gapParts = @ \ {part}, !.last = part]
                ELSE [sel EXCEPT !.blocks = Append(@, block), !.last = part]
    IN  IF chosen = {} THEN {sel} ELSE {turn(part) : part \in chosen}

(* select_blocks: the possible results of a selector call.                 *)
SelectBlocks(peer) ==
    LET start == [blocks |-> << >>, last |-> lastPart[peer],
                  gapParts |-> {part \in Parts : GapSize(part) > 0}]
        turns[k \in 0 .. MaxBlocks] ==
            IF k = 0 THEN {start}
            ELSE UNION {SelectTurn(peer, sel) : sel \in turns[k - 1]}
    IN  turns[MaxBlocks]

(* _a4af_needed_parts is False: only the parts of the two ends of each gap *)
(* are looked at.                                                          *)
NoNeededParts(peer) ==
    LET gapParts == UNION {{g[1] \div PartSize, g[2] \div PartSize} : g \in Gaps}
    IN  /\ missing # {}
        /\ peer \in Told
        /\ gapParts \cap PartStatus[peer] = {}

-----------------------------------------------------------------------------
IcsInit ==
    /\ missing \in Missing0
    /\ requested = {}
    /\ issued = [p \in Peers |-> {}]
    /\ due = [p \in Peers |-> {}]
    /\ lastPart = [p \in Peers |-> PartCount]
    /\ retries = [p \in Peers |-> 0]
    /\ received = [p \in Peers |-> 0]
    /\ stage = [p \in Peers |-> "out"]

(* The upload slot was granted and the A4AF gate passed: a new transfer.   *)
Join(p) ==
    /\ stage[p] = "out"
    /\ ~NoNeededParts(p)
    /\ stage' = [stage EXCEPT ![p] = "asking"]
    /\ lastPart' = [lastPart EXCEPT ![p] = PartCount]
    /\ retries' = [retries EXCEPT ![p] = 0]
    /\ received' = [received EXCEPT ![p] = 0]
    /\ UNCHANGED <<missing, requested, issued, due>>

(* The gate refuses the peer; resolve_sources never returns it again.      *)
Gate(p) ==
    /\ stage[p] = "out"
    /\ NoNeededParts(p)
    /\ stage' = [stage EXCEPT ![p] = "nns"]
    /\ UNCHANGED <<missing, requested, issued, due, lastPart, retries, received>>

(* transfer returns or is cancelled, on whatever path: its finally clause  *)
(* releases every range it ever issued.                                    *)
Leave(p) ==
    /\ stage' = [stage EXCEPT ![p] = "out"]
    /\ requested' = requested \ issued[p]
    /\ issued' = [issued EXCEPT ![p] = {}]
    /\ due' = [due EXCEPT ![p] = {}]
    /\ UNCHANGED <<missing, lastPart, retries, received>>

(* The selector answers and the ranges are registered and sent.            *)
Ask(p) ==
    /\ stage[p] = "asking" /\ received[p] < TotalSize
    /\ \E sel \in SelectBlocks(p) :
          /\ sel.blocks # << >>
          /\ requested' = requested \cup ToSet(sel.blocks)
          /\ issued' = [issued EXCEPT ![p] = @ \cup ToSet(sel.blocks)]
          /\ due' = [due EXCEPT ![p] = AllBytes(ToSet(sel.blocks))]
          /\ lastPart' = [lastPart EXCEPT ![p] = sel.last]
    /\ stage' = [stage EXCEPT ![p] = "waiting"]
    /\ UNCHANGED <<missing, retries, received>>

(* The selector has nothing, or the transfer has as many bytes as the file.*)
Finish(p) ==
    /\ stage[p] = "asking"
    /\ received[p] >= TotalSize \/ \E sel \in SelectBlocks(p) : sel.blocks = << >>
    /\ Leave(p)

(* A data packet: a part of one window of what was asked, in any order.    *)
(* The round is over when every byte of it has arrived.                    *)
DataPacket(p, r) ==
    /\ stage[p] = "waiting"
    /\ Bytes(r) \subseteq due[p]
    /\ missing' = missing \ Bytes(r)
    /\ received' = [received EXCEPT ![p] = @ + Cardinality(Bytes(r))]
    /\ due' = [due EXCEPT ![p] = @ \ Bytes(r)]
    /\ stage' = [stage EXCEPT ![p] = IF due[p] = Bytes(r) THEN "asking" ELSE "waiting"]
    /\ UNCHANGED <<requested, issued, lastPart, retries>>

(* OP_END_OF_DOWNLOAD ends the round.                                      *)
EndOfDownload(p) ==
    /\ stage[p] = "waiting"
    /\ due' = [due EXCEPT ![p] = {}]
    /\ stage' = [stage EXCEPT ![p] = "asking"]
    /\ UNCHANGED <<missing, requested, issued, lastPart, retries, received>>

(* OP_OUTOFPARTREQS: ask again after a pause, a bounded number of times.   *)
OutOfPartReqs(p) ==
    /\ stage[p] = "waiting"
    /\ retries[p] < MaxRetries
    /\ retries' = [retries EXCEPT ![p] = @ + 1]
    /\ due' = [due EXCEPT ![p] = {}]
    /\ stage' = [stage EXCEPT ![p] = "asking"]
    /\ UNCHANGED <<missing, requested, issued, lastPart, received>>

(* One OUTOFPARTREQS too many, OP_QUEUERANK, an idle timeout, a connection *)
(* error, a cancelled task.                                                *)
Drop(p) ==
    /\ stage[p] = "waiting"
    /\ Leave(p)

IcsNext ==
    \E p \in Peers :
        \/ Join(p)
        \/ Gate(p)
        \/ Ask(p)
        \/ Finish(p)
        \/ \E r \in Offsets \X Offsets : r[1] <= r[2] /\ DataPacket(p, r)
        \/ EndOfDownload(p)
        \/ OutOfPartReqs(p)
        \/ Drop(p)

IcsSpec == IcsInit /\ [][IcsNext]_icsVars

-----------------------------------------------------------------------------
Ranges == {r \in Offsets \X Offsets : r[1] <= r[2]}

(* Requested and issued ranges stay inside the file, and a session stops   *)
(* after _OUTOFPART_MAX_RETRIES retries.                                   *)
IcsTypeOK ==
    /\ missing \subseteq Offsets
    /\ requested \subseteq Ranges
    /\ issued \in [Peers -> SUBSET Ranges]
    /\ due \in [Peers -> SUBSET Offsets]
    /\ lastPart \in [Peers -> 0 .. PartCount]
    /\ retries \in [Peers -> 0 .. MaxRetries]
    /\ received \in [Peers -> 0 .. TotalSize]
    /\ stage \in [Peers -> {"out", "asking", "waiting", "nns"}]

(* runner.py:374-377 "Prevents duplicate block requests between peers": a  *)
(* range is asked for only when all its bytes are missing and in no other  *)
(* request, it is in one part that the peer has, and no longer than a      *)
(* block.                                                                  *)
NoDuplicateRequest ==
    [][\A p \in Peers : \A r \in issued'[p] \ issued[p] :
          /\ Bytes(r) \subseteq missing \ AllBytes(requested)
          /\ \E part \in Available(p) : Bytes(r) \subseteq PartBytes(part)
          /\ Cardinality(Bytes(r)) <= EmblockSize]_icsVars

(* The ranges two live transfers hold never overlap, and the registry      *)
(* holds exactly the ranges of live transfers: the release of one transfer *)
(* neither leaks a range nor frees one that another still waits for.       *)
RegistryExact ==
    /\ requested = UNION {issued[p] : p \in Peers}
    /\ \A p, q \in Peers : p # q => AllBytes(issued[p]) \cap AllBytes(issued[q]) = {}

(* Bytes of the parts of a peer that are missing and nobody has asked for. *)
FreeBytes(p) ==
    {o \in missing \ AllBytes(requested) : o \div PartSize \in Available(p)}

(* Parts a turn of select_blocks is wasted on: wanted, and all requested.  *)
Saturated(p) ==
    {part \in Available(p) : GapSize(part) > 0 /\ PartBytes(part) \cap FreeBytes(p) = {}}

(* ics.py:354 "Stops at max_blocks or no candidates": the selector comes   *)
(* back empty-handed, which ends the session, only when nothing that the   *)
(* peer has is left to ask for.  The loop has max_blocks turns and spends  *)
(* one on each saturated part it meets, hence the second condition.        *)
SelectorExhaustive ==
    \A p \in Peers :
        /\ stage[p] = "asking" /\ FreeBytes(p) # {}
        /\ Cardinality(Saturated(p)) < MaxBlocks
        => \A sel \in SelectBlocks(p) : sel.blocks # << >>
=============================================================================
