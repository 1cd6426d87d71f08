------------------------------- MODULE Hashes -------------------------------
(***************************************************************************)
(* How a download that has arrived is verified and salvaged: the ED2K part *)
(* hashes (core/hashes/ed2k.py, and what upload/engine.py, peer/codec.py   *)
(* and download/runner.py make of them) and the AICH tree with its         *)
(* recovery data (core/hashes/aich.py), from the source that builds them   *)
(* to the runner that checks its copy with them.                           *)
(*                                                                         *)
(* A digest is the sequence that names what was hashed.                    *)
(***************************************************************************)
EXTENDS Integers, Sequences, SequencesExt, FiniteSets

CONSTANTS
    PARTSIZE, BLOCKSIZE,
    Sizes,          \* of files
    Damages         \* offsets at which blocks may have arrived damaged

VARIABLES
    size,           \* of the file
    bad,            \* starts of the blocks that are wrong in our copy, or not in it yet
    sender,         \* who sent the hash set: "amuled" or "emule"
    theirs,         \* starts of the blocks that are wrong in the sender's own copy
    stripe,         \* the attempt fetched the beginning of the file only
    pc,             \* "verify", "narrow", "audit", "done"
    corrupt,        \* parts found corrupt that are to be narrowed
    ranges,         \* starts of the blocks to be punched
    stored          \* the master stored as trusted (aich_masters), or NoMaster

attemptVars == <<size, bad, sender, theirs, stripe>>
vars == <<attemptVars, pc, corrupt, ranges, stored>>

Ceil(a, b) == (a + b - 1) \div b
Least(a, b) == IF a < b THEN a ELSE b

NoMaster == <<>>
Broken == <<-1>>            \* an IndexError
Sha(l, r) == IF l = Broken \/ r = Broken THEN Broken ELSE <<0>> \o l \o r
BlockHash(start, length, damage) == <<1, start, length, IF start \in damage THEN 1 ELSE 0>>

-----------------------------------------------------------------------------
(* The tree.                                                               *)

(* Where a segment is split; the rule depends on its side.                 *)
LeftSize(length, is_left) ==
    LET base  == IF length <= PARTSIZE THEN BLOCKSIZE ELSE PARTSIZE
        count == Ceil(length, base)
        left  == (IF is_left THEN (count + 1) \div 2 ELSE count \div 2) * base
    IN  IF left >= length THEN (count \div 2) * base ELSE left

(* The hash and the block hashes of a segment.                             *)
RECURSIVE Segment(_, _, _, _)
Segment(start, length, is_left, damage) ==
    IF length <= BLOCKSIZE
    THEN LET h == BlockHash(start, length, damage) IN [hash |-> h, leaves |-> <<h>>]
    ELSE LET k == LeftSize(length, is_left)
             l == Segment(start, k, TRUE, damage)
             r == Segment(start + k, length - k, FALSE, damage)
         IN  [hash |-> Sha(l.hash, r.hash), leaves |-> l.leaves \o r.leaves]

Node(leaves, start, length, is_left) ==
    [leaves |-> leaves, start |-> start, length |-> length, left |-> is_left]

(* The children of a node of the materialized tree: the block hashes are   *)
(* divided by the number of blocks in the left half.                       *)
Children(n) ==
    LET k == LeftSize(n.length, n.left)
        c == Ceil(k, BLOCKSIZE)
    IN  [l |-> Node(SubSeq(n.leaves, 1, Least(c, Len(n.leaves))), n.start, k, TRUE),
         r |-> Node(SubSeq(n.leaves, c + 1, Len(n.leaves)), n.start + k, n.length - k, FALSE)]

RECURSIVE BuildTree(_)
BuildTree(n) ==
    IF n.length <= BLOCKSIZE
    THEN IF n.leaves = <<>> THEN Broken ELSE Head(n.leaves)
    ELSE Sha(BuildTree(Children(n).l), BuildTree(Children(n).r))

-----------------------------------------------------------------------------
(* The source: recovery data of a part, as pairs of identifier and hash.   *)

Shift(ident, is_left) == 2 * ident + (IF is_left THEN 1 ELSE 0)

RECURSIVE Emit(_, _)
Emit(n, ident) ==
    LET i == Shift(ident, n.left)
    IN  IF n.length <= BLOCKSIZE THEN {<<i, BuildTree(n)>>}
        ELSE Emit(Children(n).l, i) \cup Emit(Children(n).r, i)

(* Down to the node of the part, with the sibling of every step.           *)
RECURSIVE Walk(_, _, _, _)
Walk(n, ident, start, length) ==
    IF n.start = start /\ n.length = length THEN Emit(n, ident)
    ELSE LET c == Children(n)
             go_left == start < c.l.start + c.l.length
             next == IF go_left THEN c.l ELSE c.r
             sibling == IF go_left THEN c.r ELSE c.l
         IN  {<<Shift(ident, sibling.left), BuildTree(sibling)>>}
             \cup Walk(next, Shift(ident, next.left), start, length)

PartCount == Ceil(size, PARTSIZE)
PartStart(p) == p * PARTSIZE
PartLength(p) == Least(PARTSIZE, size - PartStart(p))
File == Segment(0, size, TRUE, {})
Source == Segment(0, size, TRUE, theirs)
Ours == Segment(0, size, TRUE, bad)

(* What the source sends for a part of the file, {} if nothing: it hashes  *)
(* its copy as it is on its disk now.                                      *)
PartRecoveryData(p) ==
    LET root == Node(Source.leaves, 0, size, TRUE)
    IN  IF size <= BLOCKSIZE \/ p >= PartCount \/ BuildTree(root) # Source.hash THEN {}
        ELSE Walk(root, 1, PartStart(p), PartLength(p))

(* It answers if its copy has the master that is asked about.              *)
RecoveryAnswer(p, master) == IF master = Source.hash THEN PartRecoveryData(p) ELSE {}

-----------------------------------------------------------------------------
(* The requester; the answer may not come in time.                         *)

RequestAich(p, master) == {{}, RecoveryAnswer(p, master)}

(* The entries are a dict.                                                 *)
Entry(entries, ident) ==
    IF \E e \in entries : e[1] = ident
    THEN (CHOOSE e \in entries : e[1] = ident)[2] ELSE Broken

(* The sides taken from the root to the part, by sizes alone.              *)
RECURSIVE Sides(_, _, _, _, _)
Sides(start, length, is_left, p, from) ==
    IF start = PartStart(p) /\ length = PartLength(p) THEN from
    ELSE LET k == LeftSize(length, is_left)
         IN  IF PartStart(p) < start + k
             THEN Sides(start, k, TRUE, p, Append(from, TRUE))
             ELSE Sides(start + k, length - k, FALSE, p, Append(from, FALSE))
PartPath(p) == Sides(0, size, TRUE, p, <<>>)

PathIdent(sides) == FoldLeft(Shift, 1, sides)

RECURSIVE SubtreeLeafIdentsOnce(_, _, _)     \* slip: without the part's own bit
SubtreeLeafIdentsOnce(ident, count, is_left) ==
    IF count = 1 THEN <<ident>>
    ELSE LET l == IF is_left THEN (count + 1) \div 2 ELSE count \div 2
         IN  SubtreeLeafIdentsOnce(Shift(ident, TRUE), l, TRUE)
             \o SubtreeLeafIdentsOnce(Shift(ident, FALSE), count - l, FALSE)

(* Identifiers of the block hashes of a part, left to right.               *)
RECURSIVE SubtreeLeafIdents(_, _, _)
SubtreeLeafIdents(ident, count, is_left) ==
    LET i == Shift(ident, is_left)
        l == IF is_left THEN (count + 1) \div 2 ELSE count \div 2
    IN  IF count = 1 THEN <<i>>
        ELSE SubtreeLeafIdents(i, l, TRUE) \o SubtreeLeafIdents(i, count - l, FALSE)

IsLeft(sides) == IF sides = <<>> THEN TRUE ELSE Last(sides)

(* The block hashes of a part, if they and the siblings give the master    *)
(* that is trusted; <<>> if not.                                           *)
VerifiedPartBlocks(entries, p, master) ==
    LET sides == PartPath(p)
        idents == SubtreeLeafIdents(PathIdent(sides), Ceil(PartLength(p), BLOCKSIZE), IsLeft(sides))
        blocks == [i \in DOMAIN idents |-> Entry(entries, idents[i])]
        part == BuildTree(Node(blocks, PartStart(p), PartLength(p), IsLeft(sides)))
        sibling(i) == Entry(entries, Shift(PathIdent(SubSeq(sides, 1, i - 1)), ~sides[i]))
        up[i \in 0..Len(sides)] ==
            IF i = Len(sides) THEN part
            ELSE IF sides[i + 1] THEN Sha(up[i + 1], sibling(i + 1)) ELSE Sha(sibling(i + 1), up[i + 1])
    IN  IF up[0] = master THEN blocks ELSE <<>>

(* The master as the bytes of one part and the recovery data give it.      *)
RECURSIVE Resolve(_, _, _, _, _, _)
Resolve(start, length, is_left, above, p, entries) ==
    LET ident == Shift(above, is_left)
        known == Entry(entries, ident)
        k == LeftSize(length, is_left)
    IN  IF known # Broken /\ length <= BLOCKSIZE THEN known
        ELSE IF start >= PartStart(p) /\ start + length <= PartStart(p) + PartLength(p)
        THEN Segment(start, length, is_left, bad).hash
        ELSE IF known # Broken THEN known
        ELSE IF length <= BLOCKSIZE THEN Broken
        ELSE Sha(Resolve(start, k, TRUE, ident, p, entries),
                 Resolve(start + k, length - k, FALSE, ident, p, entries))

RebuildMasterFromPart(p, entries) == Resolve(0, size, TRUE, 0, p, entries)

-----------------------------------------------------------------------------
(* The part hashes.                                                        *)

Md4(start, length, damage) ==
    <<2, start, length, Cardinality({b \in damage : b >= start /\ b < start + length})>>

(* Ed2kHasher: a file that ends with a full part has an empty one behind.  *)
ChunkHashes ==
    [i \in 1..(size \div PARTSIZE + 1) |->
        Md4((i - 1) * PARTSIZE, Least(PARTSIZE, size - (i - 1) * PARTSIZE), {})]

(* _load_chunk_hashes: it is not sent; eMule sends it.                     *)
SentHashes ==
    IF sender = "amuled" /\ Len(ChunkHashes) = PartCount + 1 THEN Front(ChunkHashes) ELSE ChunkHashes

(* HASHSETANSWER is the file's hash and the part hashes; parsed, the file's*)
(* hash is not one of chunk_hashes.                                        *)
HashsetAnswer == <<"file">> \o SentHashes
ParsedHashes == Tail(HashsetAnswer)

(* _verify_parts_against_hashset passes over the first of chunk_hashes,    *)
(* but for a single part.                                                  *)
Expected ==
    IF Len(ParsedHashes) = 1 /\ PartCount = 1 THEN ParsedHashes ELSE Tail(ParsedHashes)

PartsAgainstHashset ==
    IF Len(Expected) # PartCount THEN {}
    ELSE {p \in 0..(PartCount - 1) : Md4(PartStart(p), PartLength(p), bad) # Expected[p + 1]}

-----------------------------------------------------------------------------
(* The runner, when a session has received its region.                     *)

Blocks(p) == {PartStart(p) + i * BLOCKSIZE : i \in 0..(Ceil(PartLength(p), BLOCKSIZE) - 1)}
Fitting == {B \in Damages : \A b \in B : \E p \in 0..(PartCount - 1) : b \in Blocks(p)}

(* What earlier attempts may have left: nothing, the master of the file,   *)
(* that of the source's copy, or that of what a single part was then.      *)
Earlier == {NoMaster, File.hash, Source.hash} \cup IF PartCount = 1 THEN {Ours.hash} ELSE {}

(* eMule answers from the hashes it keeps, not from its copy.  A file of   *)
(* one part is fetched in stripes, and so are the others when the ICS      *)
(* selector cannot be built.                                               *)
Init ==
    /\ size \in Sizes
    /\ bad \in Fitting
    /\ sender \in {"amuled", "emule"}
    /\ theirs \in IF sender = "amuled" THEN {B \in Fitting : B \subseteq bad} ELSE {{}}
    /\ stripe \in BOOLEAN
    /\ pc = "verify" /\ corrupt = {} /\ ranges = {}
    /\ stored \in Earlier

(* The parts are compared only when the region is the whole file.          *)
Verify ==
    /\ pc = "verify"
    /\ corrupt' = IF stripe THEN {} ELSE PartsAgainstHashset
    /\ pc' = IF corrupt' = {} THEN "audit" ELSE "narrow"
    /\ UNCHANGED <<attemptVars, ranges, stored>>

(* The block hashes of a part, by the master that is stored; <<>> if there *)
(* is none, or no good answer.                                             *)
TrustedBlocks(p, data) == IF stored = NoMaster THEN <<>> ELSE VerifiedPartBlocks(data, p, stored)

(* _aich_narrow_corrupt, part by part: the part is punched whole if its    *)
(* block hashes are not known, or if no block differs and nothing was      *)
(* found before it.                                                        *)
Narrow ==
    /\ pc = "narrow" /\ corrupt # {}
    /\ \E p \in corrupt :
          /\ \A q \in corrupt : p <= q
          /\ corrupt' = corrupt \ {p}
          /\ \E data \in RequestAich(p, stored) :
                LET verified == TrustedBlocks(p, data)
                    ours == Segment(PartStart(p), PartLength(p), TRUE, bad).leaves
                    found == ranges \cup {PartStart(p) + (i - 1) * BLOCKSIZE : i \in
                                 {j \in DOMAIN verified : verified[j] # ours[j]}}
                IN  ranges' = IF verified # <<>> /\ found # {} THEN found ELSE ranges \cup Blocks(p)
    /\ UNCHANGED <<attemptVars, pc, stored>>

Punch ==
    /\ pc = "narrow" /\ corrupt = {}
    /\ pc' = "done"
    /\ UNCHANGED <<attemptVars, corrupt, ranges, stored>>

AuditTrusting(data) == TRUE                  \* faulty: the answer is not looked at
(* The answer about part 0 gives our master again; a file of one part is   *)
(* not asked about.                                                        *)
AuditPasses(data) ==
    PartCount = 1 \/ (data # {} /\ RebuildMasterFromPart(0, data) = Ours.hash)

(* _aich_audit, of any region that begins the file: the master of our copy *)
(* as it is, whatever of it is there.                                      *)
Audit ==
    /\ pc = "audit"
    /\ \E data \in RequestAich(0, Ours.hash) :
          stored' = IF AuditPasses(data) THEN Ours.hash ELSE stored
    /\ pc' = "done"
    /\ UNCHANGED <<attemptVars, corrupt, ranges>>

Next == Verify \/ Narrow \/ Punch \/ Audit

-----------------------------------------------------------------------------
(* The identifiers the source gives the hashes are those the requester     *)
(* looks for, and both rebuilds of the master agree with the tree that is  *)
(* hashed, for every part of every file (of up to 8 parts, see             *)
(* RecoveryServed): an authentic answer is not taken for a forged one      *)
(* (aich_part_recovery_data, aich_verified_part_blocks,                    *)
(* aich_rebuild_master_from_part).                                         *)
RecoveryAuthentic ==
    pc = "verify" => \A p \in 0..(PartCount - 1) :
       LET data == PartRecoveryData(p)
           copy == Segment(PartStart(p), PartLength(p), TRUE, theirs)
       IN  data # {} =>
              /\ VerifiedPartBlocks(data, p, Source.hash) = copy.leaves
              /\ (RebuildMasterFromPart(p, data) = Source.hash) <=> (bad \cap Blocks(p) = theirs \cap Blocks(p))

(* Everything damaged in the parts that were found corrupt is fetched      *)
(* again, whatever master an earlier attempt left, unless the source       *)
(* vouches for its own damaged copy with it; and a master that neither the *)
(* file nor the source's copy has is trusted for a file of one part only,  *)
(* about which nobody is asked (_aich_narrow_corrupt, _aich_audit).        *)
DamageRefetched ==
    pc = "done" =>
       /\ (ranges # {} /\ (stored = Source.hash => theirs = {})) =>
             (bad \ ranges) \cap UNION {Blocks(p) : p \in PartsAgainstHashset} = {}
       /\ stored \in {NoMaster, File.hash, Source.hash} \/ PartCount = 1

(* "store the recovery-verified master" of "the file just completed"       *)
(* (runner.py:1043-1046), "verified by the recovery walk" (state.py:808):  *)
(* what is stored is the master of the file.                               *)
MasterVerified == [][stored' # stored => stored' = File.hash]_vars

(* "After the transfer every part's MD4 is verified against the peer       *)
(* hashset" (README.md:141): what is found corrupt is what is.             *)
PartsVerified ==
    (pc # "verify" /\ ~stripe) =>
       \A p \in 0..(PartCount - 1) :
          bad \cap Blocks(p) # {} => (p \in corrupt \/ bad \cap Blocks(p) \subseteq ranges)

(* "AICH recovery (both sides)" (README.md:5), the gate of                 *)
(* _handle_aich_request (listener.py:1185): a source answers for every     *)
(* part of a complete file that is larger than a block.                    *)
RecoveryServed ==
    (pc # "verify" /\ size > BLOCKSIZE) => \A p \in 0..(PartCount - 1) : PartRecoveryData(p) # {}

=============================================================================
