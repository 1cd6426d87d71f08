------------------------------- MODULE Blocks -------------------------------
(***************************************************************************)
(* The bytes of one transfer: PeerClient.transfer (core/peer/client.py)    *)
(* asks for ranges, UploadSession (core/upload/engine.py) or a foreign     *)
(* peer sends them in sub-packets, with 32 or 64 bit offsets and perhaps   *)
(* compressed, and the client puts them together (core/peer/codec.py).     *)
(* Which ranges an ICS selector returns is in Ics, here any will do.       *)
(*                                                                         *)
(* A byte of the file is its offset; a byte of a compressed block is       *)
(* <<start, end, index>>.                                                  *)
(***************************************************************************)
EXTENDS Integers, Sequences, FiniteSets

CONSTANTS
    EMBLOCK,            \* EMBLOCK_SIZE, blocks the client asks for
    SPLIT_THRESHOLD, SPLIT_CHUNK_SIZE,
    U32,                \* the largest value of a 32 bit field
    BlocksLimit,        \* max_blocks
    OutOfPartRetries,   \* _OUTOFPART_MAX_RETRIES
    CompressedSizes,    \* what zlib may make of a block
    Jobs                \* transfers: records of size, base, bound, selector
                        \* (BOOLEAN), and server ("amuled" or "other")

BlocksAssumption ==
    /\ {EMBLOCK, SPLIT_CHUNK_SIZE} \subseteq Nat \ {0}
    /\ {SPLIT_THRESHOLD, U32, BlocksLimit, OutOfPartRetries} \cup CompressedSizes \subseteq Nat
    /\ SPLIT_CHUNK_SIZE <= SPLIT_THRESHOLD
    /\ Jobs \subseteq [size : Nat, base : Nat, bound : Nat, selector : BOOLEAN, server : {"amuled", "other"}]
    /\ \A j \in Jobs : j.base <= j.bound /\ j.bound <= j.size

VARIABLES
    job,
    pc,                 \* "ask", "read", "done", "failed"
    receivedBytes, receivedBlocks, expectedBytes, outOfPartRetries,
    issuedRanges,       \* issued_ranges of a selector
    pendingCompressed,  \* by key, the part of a block that has arrived
    partRequests,       \* requests the server has not come to
    packets,            \* on their way to the client
    file,               \* what has been written where, -1 for nothing
    rewritten           \* some byte has been written twice

blocksVars == <<job, pc, receivedBytes, receivedBlocks, expectedBytes, outOfPartRetries,
                issuedRanges, pendingCompressed, partRequests, packets, file, rewritten>>

Field(family, v) == IF family = 32 THEN v % (U32 + 1) ELSE v
Capped(v, limit) == IF v < limit THEN v ELSE limit
BytesOf(start, end) == [i \in 1..(end - start) |-> start + i - 1]

BlocksInit ==
    /\ job \in Jobs
    /\ pc = "ask"
    /\ receivedBytes = 0 /\ receivedBlocks = 0 /\ expectedBytes = 0 /\ outOfPartRetries = 0
    /\ issuedRanges = {} /\ pendingCompressed = <<>>
    /\ partRequests = <<>> /\ packets = <<>>
    /\ file = [o \in 0..(job.size - 1) |-> -1] /\ rewritten = FALSE

-----------------------------------------------------------------------------
(* The client asks.  A request has three slots, unused ones are 0..0.      *)
Slots == 1..3
Unused == [s |-> 0, e |-> 0]
Size(r) == IF r.s < r.e THEN r.e - r.s ELSE 0

(* EMBLOCK_SIZE steps from what has been received.                         *)
LinearRanges ==
    LET start(i) == job.base + receivedBytes + (i - 1) * EMBLOCK
    IN  [i \in Slots |-> IF start(i) >= job.bound THEN Unused
                         ELSE [s |-> start(i), e |-> Capped(start(i) + EMBLOCK, job.bound)]]

(* What a selector may return: up to three windows not asked for yet.      *)
Window(k) == LET start == job.base + k * EMBLOCK IN [s |-> start, e |-> Capped(start + EMBLOCK, job.bound)]
SelectedRanges ==
    LET left == {Window(k) : k \in {i \in 0..(job.bound - job.base) : job.base + i * EMBLOCK < job.bound}} \ issuedRanges
    IN  {ranges \in [Slots -> left \cup {Unused}] :
            \A i, j \in Slots : i < j => IF ranges[i] = Unused THEN ranges[j] = Unused ELSE ranges[i] # ranges[j]}

RequestFamily(ranges) == IF \E i \in Slots : ranges[i].s > U32 \/ ranges[i].e > U32 THEN 64 ELSE 32

(* The fields of the request.                                              *)
BuildRequestParts(ranges) ==
    LET family == RequestFamily(ranges)
    IN  [i \in Slots |-> [s |-> Field(family, ranges[i].s), e |-> Field(family, ranges[i].e)]]

Finished == job.base + receivedBytes >= job.bound \/ receivedBlocks >= BlocksLimit

AskForParts ==
    /\ pc = "ask" /\ ~Finished
    /\ \E ranges \in IF job.selector THEN SelectedRanges ELSE {LinearRanges} :
          IF ranges[1] = Unused
          THEN pc' = "done" /\ UNCHANGED <<expectedBytes, issuedRanges, partRequests>>
          ELSE /\ pc' = "read"
               /\ partRequests' = Append(partRequests, BuildRequestParts(ranges))
               /\ expectedBytes' = Size(ranges[1]) + Size(ranges[2]) + Size(ranges[3])
               /\ issuedRanges' = IF job.selector THEN (issuedRanges \cup {ranges[i] : i \in Slots}) \ {Unused} ELSE issuedRanges
    /\ UNCHANGED <<job, receivedBytes, receivedBlocks, outOfPartRetries, pendingCompressed, packets, file, rewritten>>

TransferOver ==
    /\ pc = "ask" /\ Finished
    /\ pc' = "done"
    /\ UNCHANGED <<job, receivedBytes, receivedBlocks, expectedBytes, outOfPartRetries, issuedRanges,
                   pendingCompressed, partRequests, packets, file, rewritten>>

-----------------------------------------------------------------------------
(* The engine serves.                                                      *)

(* Nothing of a request with a reversed range.                             *)
ParseRequestParts(r) == IF \E i \in Slots : r[i].s > r[i].e THEN [i \in Slots |-> Unused] ELSE r

(* Trimmed to the file and to three blocks.                                *)
Trimmed(r) == [s |-> r.s, e |-> Capped(Capped(r.e, job.size), r.s + 3 * EMBLOCK)]

(* A chunk is sent at a time while more than SPLIT_THRESHOLD of n bytes is *)
(* left, then the rest: how many pieces, and where each begins and ends.   *)
PieceCount(n) ==
    IF n <= SPLIT_THRESHOLD THEN 1 ELSE 2 + (n - SPLIT_THRESHOLD - 1) \div SPLIT_CHUNK_SIZE
PieceStart(i) == (i - 1) * SPLIT_CHUNK_SIZE
PieceEnd(n, i) == IF i = PieceCount(n) THEN n ELSE i * SPLIT_CHUNK_SIZE

PieceFamilyByStart(s, e) == IF s > U32 THEN 64 ELSE 32  \* faulty: by where it starts
(* Of a piece sent as it is: by where it ends.                             *)
PieceFamily(s, e) == IF e > U32 THEN 64 ELSE 32

SendingPart(s, e) ==
    LET f == PieceFamily(s, e)
    IN  [op |-> "part", start |-> Field(f, s), end |-> Field(f, e), data |-> BytesOf(s, e)]
SendingParts(r) ==
    LET n == r.e - r.s
    IN  [i \in 1..PieceCount(n) |-> SendingPart(r.s + PieceStart(i), r.s + PieceEnd(n, i))]

(* Of a block compressed to n bytes: the start of the block and n in each. *)
Compressed(r, from, to) == [i \in 1..(to - from) |-> <<r.s, r.e, from + i>>]
CompressedPart(r, n, from, to) ==
    LET f == IF r.e > U32 THEN 64 ELSE 32
    IN  [op |-> "packed", start |-> Field(f, r.s), end |-> n, data |-> Compressed(r, from, to)]
CompressedParts(r, n) == [i \in 1..PieceCount(n) |-> CompressedPart(r, n, PieceStart(i), PieceEnd(n, i))]

(* A block is sent compressed if that makes it shorter, an empty one not.  *)
SendBlock(r) ==
    IF r.s >= r.e THEN {<<>>}
    ELSE {SendingParts(r)} \cup {CompressedParts(r, n) : n \in CompressedSizes \cap 1..(r.e - r.s - 1)}

HandleRequestParts(request) ==
    LET answers(i) == SendBlock(Trimmed(ParseRequestParts(request)[i]))
    IN  {a \o b \o c : a \in answers(1), b \in answers(2), c \in answers(3)}

Answering ==
    /\ partRequests # <<>>
    /\ partRequests' = Tail(partRequests)
    /\ UNCHANGED <<job, pc, receivedBytes, receivedBlocks, expectedBytes, outOfPartRetries, issuedRanges,
                   pendingCompressed, file, rewritten>>

Serve ==
    /\ Answering
    /\ \E sent \in HandleRequestParts(Head(partRequests)) : packets' = packets \o sent

(* Another client takes the slot back somewhere in between, or is silent.  *)
ServeBriefly ==
    /\ Answering /\ job.server = "other"
    /\ \E sent \in HandleRequestParts(Head(partRequests)) :
          \E k \in 0..Len(sent), last \in {<<>>} \cup {<<[op |-> op]>> : op \in {"outofparts", "rank", "end"}} :
             packets' = packets \o (SubSeq(sent, 1, k) \o last)

-----------------------------------------------------------------------------
(* The client reads.                                                       *)

(* write_block, and the accounts of a round.                               *)
Written(start, data) ==
    /\ file' = [o \in DOMAIN file |-> IF o >= start /\ o < start + Len(data) THEN data[o - start + 1] ELSE file[o]]
    /\ rewritten' = (rewritten \/ \E i \in DOMAIN data : start + i - 1 \notin DOMAIN file \/ file[start + i - 1] # -1)
    /\ receivedBytes' = receivedBytes + Len(data)
    /\ receivedBlocks' = receivedBlocks + 1
    /\ expectedBytes' = expectedBytes - Len(data)
    /\ pc' = IF expectedBytes - Len(data) > 0 THEN "read" ELSE "ask"

NothingWritten == UNCHANGED <<file, rewritten, receivedBytes, receivedBlocks>>

ReceivePacket(op) ==
    /\ pc = "read" /\ packets # <<>> /\ Head(packets).op = op
    /\ packets' = Tail(packets)
    /\ UNCHANGED <<job, issuedRanges, partRequests>>

ParseSendingPart(p) == Len(p.data) = p.end - p.start

ReceivePart ==
    /\ ReceivePacket("part")
    /\ LET p == Head(packets) IN
          IF ParseSendingPart(p) THEN Written(p.start, p.data)
          ELSE pc' = "failed" /\ NothingWritten /\ UNCHANGED expectedBytes
    /\ UNCHANGED <<outOfPartRetries, pendingCompressed>>

(* Key of pending_compressed, and what has arrived of a block with p.      *)
Key(p) == <<p.start, p.end>>
Gathered(p) == (IF Key(p) \in DOMAIN pendingCompressed THEN pendingCompressed[Key(p)] ELSE <<>>) \o p.data

(* Decompressing what is not one whole stream raises.                      *)
Decompresses(buf) == buf = Compressed([s |-> buf[1][1], e |-> buf[1][2]], 0, Len(buf))

ReceiveCompressed ==
    /\ ReceivePacket("packed")
    /\ LET p == Head(packets)
           buf == Gathered(p)
           others == DOMAIN pendingCompressed \ {Key(p)}
       IN  IF Len(buf) < p.end
           THEN /\ pendingCompressed' = [k \in others \cup {Key(p)} |-> IF k = Key(p) THEN buf ELSE pendingCompressed[k]]
                /\ NothingWritten /\ UNCHANGED <<pc, expectedBytes>>
           ELSE /\ pendingCompressed' = [k \in others |-> pendingCompressed[k]]
                /\ IF Decompresses(buf)
                   THEN Written(p.start, BytesOf(buf[1][1], buf[1][2]))
                   ELSE pc' = "failed" /\ NothingWritten /\ UNCHANGED expectedBytes
    /\ UNCHANGED outOfPartRetries

(* OUTOFPARTREQS: ask again, at most so often.                             *)
ReceiveOutOfParts ==
    /\ ReceivePacket("outofparts")
    /\ outOfPartRetries' = outOfPartRetries + 1
    /\ IF outOfPartRetries + 1 > OutOfPartRetries
       THEN pc' = "done" /\ UNCHANGED expectedBytes
       ELSE pc' = "ask" /\ expectedBytes' = 0
    /\ NothingWritten /\ UNCHANGED pendingCompressed

(* END_OF_DOWNLOAD ends the round, QUEUERANK the transfer.                 *)
ReceiveEnd ==
    \/ ReceivePacket("end") /\ pc' = "ask" /\ expectedBytes' = 0
       /\ NothingWritten /\ UNCHANGED <<outOfPartRetries, pendingCompressed>>
    \/ ReceivePacket("rank") /\ pc' = "done"
       /\ NothingWritten /\ UNCHANGED <<expectedBytes, outOfPartRetries, pendingCompressed>>

(* Nothing comes for three times response_timeout.                         *)
IdleTimeout ==
    /\ pc = "read"
    /\ pc' = "done"
    /\ UNCHANGED <<job, receivedBytes, receivedBlocks, expectedBytes, outOfPartRetries, issuedRanges,
                   pendingCompressed, partRequests, packets, file, rewritten>>

BlocksNext ==
    \/ AskForParts \/ TransferOver
    \/ Serve \/ ServeBriefly
    \/ ReceivePart \/ ReceiveCompressed \/ ReceiveOutOfParts \/ ReceiveEnd
    \/ IdleTimeout

BlocksSpec == BlocksInit /\ [][BlocksNext]_blocksVars

-----------------------------------------------------------------------------
(* Every byte that is written is the file's at that place, in every width  *)
(* of offsets and however blocks are split, compressed and cut off.  No    *)
(* byte comes twice and a complete transfer has its whole region, but for  *)
(* linear rounds with a peer that cuts them short.  With AmuleD's engine   *)
(* no packet fails and no round waits for bytes that will not come         *)
(* (_send_block, parse_sending_part, transfer: "counting PACKETS           *)
(* deadlocks the round").                                                  *)
ServedAsAsked ==
    /\ \A o \in DOMAIN file : file[o] \in {-1, o}
    /\ (job.selector \/ job.server = "amuled") =>
          /\ ~rewritten /\ pc # "failed"
          /\ (pc = "done" /\ job.base + receivedBytes >= job.bound) => \A o \in job.base..(job.bound - 1) : file[o] = o
    /\ (job.server = "amuled" /\ pc = "read" /\ partRequests = <<>>) => packets # <<>>

=============================================================================
