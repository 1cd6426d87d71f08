------------------------------ MODULE Bootstrap ------------------------------
(***************************************************************************)
(* The start of a KAD command: load_kad_runtime and bootstrap_runtime      *)
(* (core/kad/runtime.py), which ask the best contacts of nodes.dat         *)
(* (core/kad/nodes_dat.py) for more and listen for a while                 *)
(* (core/kad/bootstrap.py).                                                *)
(*                                                                         *)
(* An endpoint stands for its IP and UDP port.  A contact in `live` is the *)
(* word it was taken from: "listed" (its own answer, with the ports and    *)
(* version of nodes.dat), "own" (its own HELLO_RES), "bare" (its own       *)
(* answer, no ports) or "told" (somebody's BOOTSTRAP_RES).  Which of the   *)
(* offered contacts the routing table keeps is KadRouting's business.      *)
(***************************************************************************)
EXTENDS Naturals, Sequences, FiniteSets, SequencesExt

CONSTANTS
    Images,         \* what nodes.dat may hold
    Cached,         \* contacts of db/kad_nodes.json
    Endpoints,      \* all that may send us something
    Usable,         \* those with a unicast IP address
    Count           \* most contacts of nodes.dat that are asked

VARIABLES
    stage,          \* "start", "seeds", "listening", "over", "failed"
    image,          \* the nodes.dat
    pending,        \* asked, and silent so far
    live,           \* what is known of the contacts that are alive
    offered,        \* contacts given to the routing table
    asked, spoken, heard, named     \* history: asked; sent a packet; one that parsed; named in one

history == <<asked, spoken, heard, named>>
bootstrapVars == <<stage, image, pending, live, offered, history>>

BootstrapInit ==
    /\ stage = "start" /\ image \in Images
    /\ pending = {} /\ live = <<>> /\ offered = {}
    /\ asked = {} /\ spoken = {} /\ heard = {} /\ named = {}

-----------------------------------------------------------------------------
(* nodes.dat: [version, count, records, tail], version 0 being a file that *)
(* starts with its count; a tail is anything after the last record.        *)

\* A legacy record is refused unless a byte follows it, so a file that ends with its last
\* record is refused as a whole.
Malformed(dat) ==
    \/ dat.version \notin 0..3
    \/ dat.count > Len(dat.records)
    \/ dat.version = 0 /\ dat.count > 0 /\ dat.count = Len(dat.records) /\ ~dat.tail

\* Contacts without a UDP port are left out.  Before version 2 none is verified, before
\* version 1 none has a version.
Parsed(dat) ==
    LET Read(r) == [r EXCEPT !.verified = @ /\ dat.version >= 2,
                             !.version = IF dat.version = 0 THEN 0 ELSE @]
    IN  SelectSeq([i \in 1..dat.count |-> Read(dat.records[i])], LAMBDA r : r.port # 0)

\* Verified ones first, then the highest version, then the order of the file.
Before(contacts, i, j) ==
    LET a == contacts[i]
        b == contacts[j]
    IN  IF a.verified # b.verified THEN a.verified
        ELSE IF a.version # b.version THEN a.version > b.version
        ELSE i < j

PickBootstrapNodes(dat) ==
    LET contacts == Parsed(dat)
        Rank(i) == Cardinality({j \in DOMAIN contacts : Before(contacts, j, i)})
    IN  {contacts[i].at : i \in {j \in DOMAIN contacts : Rank(j) < Count}}

-----------------------------------------------------------------------------
\* nodes.dat takes no part in this: a cached contact with a unicast address is offered.
LoadKadRuntime ==
    /\ stage = "start" /\ stage' = "seeds"
    /\ offered' = Cached \cap Usable
    /\ UNCHANGED <<image, pending, live, history>>

\* BOOTSTRAP_REQ and HELLO_REQ go to every seed; a send that fails is ignored.
Ask ==
    /\ stage = "seeds"
    /\ IF Malformed(image) THEN stage' = "failed" /\ UNCHANGED <<pending, asked>>
       ELSE /\ asked' = PickBootstrapNodes(image)
            /\ pending' = asked'
            /\ stage' = IF asked' = {} THEN "over" ELSE "listening"
    /\ UNCHANGED <<image, live, offered, spoken, heard, named>>

\* What an answer of e says of e itself, by its opcode.
OwnWord(e, opcode) ==
    CASE opcode = "hello" -> "own"
      [] opcode # "hello" /\ e \in pending -> "listed"
      [] OTHER -> "bare"

NamedOverwrite(e, opcode, contacts) ==      \* faulty: the last word on a contact counts
    [c \in DOMAIN live \cup {e} \cup contacts |->
        CASE c \in contacts -> "told" [] c = e /\ c \notin contacts -> OwnWord(e, opcode) [] OTHER -> live[c]]

\* The sender is set, those it names are only added.
Learnt(e, opcode, contacts) ==
    [c \in DOMAIN live \cup {e} \cup contacts |->
        IF c = e THEN OwnWord(e, opcode) ELSE IF c \in DOMAIN live THEN live[c] ELSE "told"]

\* A datagram of e, asked or not, once or again, packed or not.  The first one that is a
\* KAD packet settles the request, whether or not its payload parses and whatever it is.
OnDatagram(e) ==
    /\ stage = "listening"
    /\ pending' = pending \ {e} /\ spoken' = spoken \cup {e}
    /\ \/ \E opcode \in {"bootstrap", "hello", "pong"}, contacts \in SUBSET Endpoints :
            /\ opcode # "bootstrap" => contacts = {}
            /\ live' = Learnt(e, opcode, contacts)
            /\ heard' = heard \cup {e} /\ named' = named \cup contacts
       \/ UNCHANGED <<live, heard, named>>      \* another opcode, or a payload that does not parse
    /\ UNCHANGED <<stage, image, offered, asked>>

\* The timeout: every live contact is offered, whatever its address.
Deadline ==
    /\ stage = "listening" /\ stage' = "over"
    /\ offered' = offered \cup DOMAIN live
    /\ UNCHANGED <<image, pending, live, history>>

BootstrapNext == LoadKadRuntime \/ Ask \/ (\E e \in Endpoints : OnDatagram(e)) \/ Deadline

BootstrapSpec == BootstrapInit /\ [][BootstrapNext]_bootstrapVars

-----------------------------------------------------------------------------
\* Whatever arrives twice, unasked, broken or out of turn: what a node says of itself is
\* not replaced by what others say of it; all who answered and all they named, and no seed
\* that stayed silent, are offered next to the cached contacts (runtime.py:177-179: the
\* bundled contacts "would poison routing.closest()"); and the failed are those silent.
AnswersKept ==
    /\ \A e \in heard : live[e] # "told"
    /\ stage = "over" => /\ offered = (Cached \cap Usable) \cup heard \cup named
                         /\ pending = asked \ spoken
=============================================================================
