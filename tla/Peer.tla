-------------------------------- MODULE Peer --------------------------------
(***************************************************************************)
(* One TCP connection of a download: the dialer is PeerClient of           *)
(* core/peer/client.py as the runner drives it, the acceptor is            *)
(* IncomingPeerSession of core/peer/listener.py over StreamTransport, and  *)
(* both may talk through the RC4 streams of core/peer/obfuscation.py.      *)
(*                                                                         *)
(* A packet is a header and, unless it is bare, a payload; the network     *)
(* delivers them in order, in pieces.  Offsets count what has gone through *)
(* the keystream of a direction.  The decision who gets a slot when is the *)
(* upload queue's, see Upload.                                             *)
(***************************************************************************)
EXTENDS Naturals, Sequences, SequencesExt, FiniteSets

CONSTANTS
    Ranks,          \* times the queue refreshes a rank before it stops to
    Crypts          \* how the connection is dialed, see crypt

ASSUME PeerAssumption == Ranks \in Nat /\ Crypts \subseteq {"plain", "basic", "wrong", "dh"}

VARIABLES
    crypt,          \* "plain", "basic", "wrong" (the published hash is not the
                    \* peer's) or "dh" (a dialer that is not AmuleD's)
    setting,        \* what the two ends are, see PeerInit
    cpc, spc,       \* where the dialer and the acceptor are
    wire, here,     \* units sent to an end and not read, and how many arrived
    enc, dec,       \* keystream positions of the writer to an end, and of its reader
    half,           \* header an end has read whose payload it waits for
    c, s,           \* handshake of the dialer, of the acceptor
    ranks,          \* rank refreshes so far
    late, cut,      \* a timer has fired; one has fired inside a packet
    why,            \* how the dialer's handshake failed
    sx              \* the acceptor has passed over a request for sources

net == <<wire, here, enc, dec, half>>
peerVars == <<crypt, setting, cpc, spc, net, c, s, ranks, late, cut, why, sx>>

Ends == {"cl", "sv"}
Other(e) == IF e = "cl" THEN "sv" ELSE "cl"
Bare == {"accept"}

-----------------------------------------------------------------------------
(* Framing and keystreams.                                                 *)

(* The units of packets of these kinds.  A bare packet is sent alone.      *)
Frames(kinds) ==
    IF \A i \in DOMAIN kinds : kinds[i] \in Bare
    THEN [i \in DOMAIN kinds |-> <<kinds[i], "head">>]
    ELSE [i \in 1..(2 * Len(kinds)) |->
             <<kinds[(i + 1) \div 2], IF i % 2 = 1 THEN "head" ELSE "body">>]

(* encrypt(): the stream of the direction goes on where it stands.         *)
Encrypted(units, from) ==
    [i \in 1..Len(units) |-> [k |-> units[i][1], part |-> units[i][2], off |-> from + i]]

(* me consumes and decrypts take units and sends packets of these kinds.   *)
Net(me, take, kinds) ==
    LET to == Other(me)
        new == Encrypted(Frames(kinds), enc[to])
    IN  /\ wire' = [wire EXCEPT ![me] = SubSeq(@, take + 1, Len(@)), ![to] = @ \o new]
        /\ here' = [here EXCEPT ![me] = @ - take]
        /\ enc' = [enc EXCEPT ![to] = @ + Len(new)]
        /\ dec' = [dec EXCEPT ![me] = @ + take]
        /\ half' = [half EXCEPT ![me] = "none"]

(* The packet recv() or _receive() can return: its kind, and the units it  *)
(* takes from the stream.  Payload read as a header is garbage.            *)
Packets(me) ==
    IF here[me] = 0 THEN {}
    ELSE LET u == Head(wire[me])
         IN  CASE half[me] # "none"                  -> {[k |-> half[me], take |-> 1]}
               [] half[me] = "none" /\ u.part = "body" -> {[k |-> "garbage", take |-> 1]}
               [] half[me] = "none" /\ u.part = "head" /\ u.k \in Bare -> {[k |-> u.k, take |-> 1]}
               [] half[me] = "none" /\ u.part = "head" /\ u.k \notin Bare /\ here[me] >= 2
                                                     -> {[k |-> u.k, take |-> 2]}
               [] OTHER -> {}

Talking(me) == \/ me = "cl" /\ cpc \in {"hs", "req", "wait"}
               \/ me = "sv" /\ spc \in {"pre", "queue", "engine", "drain"}
               \/ me = "sv" /\ spc = "first" /\ wire["sv"] # <<>> /\ Head(wire["sv"]).k = "hello"

(* The network brings what was sent, in pieces of any size.                *)
Arrive(me) ==
    /\ \E n \in (here[me] + 1)..Len(wire[me]) : here' = [here EXCEPT ![me] = n]
    /\ UNCHANGED <<crypt, setting, cpc, spc, wire, enc, dec, half, c, s, ranks, late, cut, why, sx>>

(* A header whose payload has not arrived is consumed and decrypted.       *)
ReadHeader(me) ==
    /\ Talking(me) /\ half[me] = "none" /\ here[me] = 1
    /\ Head(wire[me]).part = "head" /\ Head(wire[me]).k \notin Bare
    /\ wire' = [wire EXCEPT ![me] = Tail(@)]
    /\ here' = [here EXCEPT ![me] = 0]
    /\ dec' = [dec EXCEPT ![me] = @ + 1]
    /\ half' = [half EXCEPT ![me] = Head(wire[me]).k]
    /\ UNCHANGED <<crypt, setting, cpc, spc, enc, c, s, ranks, late, cut, why, sx>>

-----------------------------------------------------------------------------
(* Connecting.  Plain text has no offset.                                  *)

Clear(k) == [k |-> k, part |-> "head", off |-> 0]
Sealed(k, n) == [k |-> k, part |-> "head", off |-> n]

(* What a dialer writes first: HELLO and EMULEINFO at once when plain, or  *)
(* a request for obfuscation, whose magic and padding are encrypted in a   *)
(* BASIC one; the public value of a DH one is longer.                      *)
Opening(how) ==
    CASE how = "plain" -> Encrypted(Frames(<<"hello", "info">>), 0)
      [] how = "dh"    -> <<Clear("part"), Clear("magic"), Clear("rest"), Clear("pad")>>
      [] OTHER         -> <<Clear("part"), Sealed("magic", 1), Sealed("pad", 2)>>

Sent(how) == Cardinality({i \in DOMAIN Opening(how) : Opening(how)[i].off # 0})

NoShake == [hello |-> FALSE, info |-> FALSE, challenged |-> FALSE, grace |-> FALSE,
            blob |-> FALSE, verified |-> FALSE]

PeerInit ==
    /\ crypt \in Crypts
    /\ setting \in [ckeys : BOOLEAN,                    \* the dialer has a SecureIdent
                    file : {"shared", "unknown", "gone"},
                    silent : BOOLEAN,                   \* the acceptor answers no challenge
                    fallback : BOOLEAN,                 \* plain_dial_ok
                    sources : BOOLEAN]                  \* the acceptor knows sources
    /\ cpc = IF crypt = "plain" THEN "hs" ELSE "negotiate"
    /\ spc = "first"
    /\ wire = [e \in Ends |-> IF e = "sv" THEN Opening(crypt) ELSE <<>>]
    /\ here = [e \in Ends |-> 0]
    /\ enc = [e \in Ends |-> IF e = "sv" THEN Sent(crypt) ELSE 0]
    /\ dec = [e \in Ends |-> 0]
    /\ half = [e \in Ends |-> "none"]
    /\ c = NoShake /\ s = NoShake
    /\ ranks = 0 /\ late = FALSE /\ cut = FALSE /\ why = "none" /\ sx = FALSE

(* _expect_first_packet: a byte that is no protocol byte starts the accept *)
(* of BASIC with our own user hash, which reads two pieces ahead.          *)
(* Whether its magic decrypts or not, they have been read.                 *)
AcceptObfuscated ==
    /\ spc = "first" /\ here["sv"] >= 2 /\ wire["sv"][1].k = "part"
    /\ spc' = IF crypt = "basic" THEN "basic" ELSE "dh"
    /\ wire' = [wire EXCEPT !["sv"] = SubSeq(@, 3, Len(@))]
    /\ here' = [here EXCEPT !["sv"] = @ - 2]
    /\ dec' = [dec EXCEPT !["sv"] = IF crypt = "basic" THEN 1 ELSE 0]
    /\ UNCHANGED <<crypt, setting, cpc, enc, half, c, s, ranks, late, cut, why, sx>>

(* accept_basic_client after the magic, or accept_dh_client once all of    *)
(* the public value is there: read the padding, answer, encrypt from now.  *)
AnswerObfuscated ==
    /\ \/ spc = "basic" /\ here["sv"] >= 1
       \/ spc = "dh" /\ here["sv"] >= 2
    /\ spc' = "first"
    /\ LET n == IF spc = "basic" THEN 1 ELSE 2
       IN  /\ wire' = [wire EXCEPT !["sv"] = SubSeq(@, n + 1, Len(@)), !["cl"] = @ \o <<Sealed("answer", 1)>>]
           /\ here' = [here EXCEPT !["sv"] = @ - n]
           /\ dec' = [dec EXCEPT !["sv"] = IF spc = "basic" THEN 2 ELSE 0]
    /\ enc' = [enc EXCEPT !["cl"] = 1]
    /\ UNCHANGED <<crypt, setting, cpc, half, c, s, ranks, late, cut, why, sx>>

NegotiatedFresh ==                           \* faulty: the session starts its own stream
    LET hi == Encrypted(Frames(<<"hello", "info">>), 0)
    IN  /\ wire' = [wire EXCEPT !["cl"] = Tail(@), !["sv"] = @ \o hi]
        /\ here' = [here EXCEPT !["cl"] = @ - 1]
        /\ enc' = [enc EXCEPT !["sv"] = Len(hi)]
        /\ dec' = [dec EXCEPT !["cl"] = 1]

(* feed_response has the whole answer; the handshake's packets go out on   *)
(* the stream the request was encrypted with.                              *)
Negotiated ==
    LET hi == Encrypted(Frames(<<"hello", "info">>), enc["sv"])
    IN  /\ wire' = [wire EXCEPT !["cl"] = Tail(@), !["sv"] = @ \o hi]
        /\ here' = [here EXCEPT !["cl"] = @ - 1]
        /\ enc' = [enc EXCEPT !["sv"] = @ + Len(hi)]
        /\ dec' = [dec EXCEPT !["cl"] = 1]

NegotiationEnds ==
    /\ cpc = "negotiate" /\ here["cl"] >= 1
    /\ cpc' = "hs"
    /\ Negotiated
    /\ UNCHANGED <<crypt, setting, spc, half, c, s, ranks, late, cut, why, sx>>

(* The BASIC handshake times out, or the acceptor has gone.  The runner    *)
(* dials again in plain if it may; the old connection is closed.           *)
NegotiationFails ==
    /\ cpc = "negotiate"
    /\ late' = (late \/ spc # "closed")
    /\ IF setting.fallback /\ crypt # "dh"
       THEN /\ crypt' = "plain" /\ cpc' = "hs" /\ spc' = "first"
            /\ wire' = [e \in Ends |-> IF e = "sv" THEN Opening("plain") ELSE <<>>]
            /\ here' = [e \in Ends |-> 0]
            /\ enc' = [e \in Ends |-> IF e = "sv" THEN Sent("plain") ELSE 0]
            /\ dec' = [e \in Ends |-> 0]
            /\ s' = NoShake
            /\ UNCHANGED why
       ELSE /\ cpc' = "closed" /\ why' = "negotiation"
            /\ UNCHANGED <<crypt, spc, wire, here, enc, dec, s>>
    /\ UNCHANGED <<setting, half, c, ranks, cut, sx>>

-----------------------------------------------------------------------------
(* The dialer.                                                             *)

Challenges == setting.ckeys /\ c.hello /\ ~c.challenged

(* handshake() after a packet of kind k, and what it sends.                *)
Shaken(k) ==
    CASE k = "helloans" -> [c EXCEPT !.hello = TRUE]
      [] k = "infoans"  -> [c EXCEPT !.info = TRUE, !.challenged = @ \/ Challenges,
                                     !.grace = @ \/ Challenges]
      [] k = "pubkey"   -> [c EXCEPT !.blob = TRUE]
      [] k = "sign"     -> [c EXCEPT !.verified = @ \/ (c.challenged /\ c.blob), !.grace = FALSE]
      [] OTHER          -> c
ShakeReply(k) ==
    CASE k = "secstate" /\ setting.ckeys -> <<"pubkey", "sign">>
      [] k = "infoans" /\ Challenges     -> <<"secstate">>
      [] OTHER                           -> <<>>

ShakenOverEarly(h) == h.hello /\ h.info      \* faulty: no grace for the signature
(* The loop of handshake() is left.                                        *)
ShakenOver(h) == h.hello /\ h.info /\ ~h.grace

FileRequestStartFirst == <<"start", "name", "setid", "hashreq">>   \* faulty: in this order
(* request_file up to its first read.                                      *)
FileRequest == <<"name", "setid", "hashreq", "start">>

ClientShakes ==
    /\ cpc = "hs"
    /\ \E p \in Packets("cl") :
          LET h == Shaken(p.k) IN
          /\ c' = h
          /\ cpc' = IF ShakenOver(h) THEN "req" ELSE "hs"
          /\ Net("cl", p.take, ShakeReply(p.k) \o (IF ShakenOver(h) THEN FileRequest ELSE <<>>))
    /\ UNCHANGED <<crypt, setting, spc, s, ranks, late, cut, why, sx>>

(* The grace for the signature is over just after another packet came.     *)
GraceEnds ==
    /\ cpc = "hs" /\ c.hello /\ c.info /\ c.grace
    /\ \E p \in Packets("cl") : Net("cl", p.take, ShakeReply(p.k) \o FileRequest)
    /\ cpc' = "req" /\ c' = [c EXCEPT !.grace = FALSE]
    /\ late' = TRUE
    /\ UNCHANGED <<crypt, setting, spc, s, ranks, cut, why, sx>>

(* request_file's loop; with the hash set in hand the runner asks for      *)
(* sources and waits for the slot.  All but the hash set is passed over.   *)
ClientRequests ==
    /\ cpc = "req"
    /\ \E p \in Packets("cl") :
          /\ cpc' = IF p.k = "hashans" THEN "wait" ELSE "req"
          /\ Net("cl", p.take, IF p.k = "hashans" THEN <<"sx2">> ELSE <<>>)
    /\ UNCHANGED <<crypt, setting, spc, c, s, ranks, late, cut, why, sx>>

(* wait_upload_slot's loop.                                                *)
ClientWaits ==
    /\ cpc = "wait"
    /\ \E p \in Packets("cl") :
          /\ cpc' = IF p.k = "accept" THEN "transfer" ELSE "wait"
          /\ Net("cl", p.take, <<>>)
    /\ UNCHANGED <<crypt, setting, spc, c, s, ranks, late, cut, why, sx>>

(* A wait of response_timeout is over in wait_upload_slot: it goes on, and *)
(* forgets the header it has read.                                         *)
ClientRetries ==
    /\ cpc = "wait" /\ half["cl"] # "none"
    /\ half' = [half EXCEPT !["cl"] = "none"]
    /\ late' = TRUE /\ cut' = TRUE
    /\ UNCHANGED <<crypt, setting, cpc, spc, wire, here, enc, dec, c, s, ranks, why, sx>>

(* The transfer is over: AmuleD closes, other dialers say so first.        *)
ClientDone ==
    /\ cpc = "transfer" /\ cpc' = "done"
    /\ UNCHANGED net \/ Net("cl", 0, <<"end">>)
    /\ UNCHANGED <<crypt, setting, spc, c, s, ranks, late, cut, why, sx>>

GivesUpNever == FALSE                        \* faulty: a slot is waited for without a deadline
(* Timeouts that close: of a packet in handshake() and request_file, and   *)
(* of queue_wait_timeout in wait_upload_slot.                              *)
GivesUp == cpc = "wait"

ClientCloses(reason) ==
    /\ cpc' = "closed" /\ why' = reason
    /\ UNCHANGED <<crypt, setting, spc, net, c, s, ranks, cut, sx>>
ClientTimesOut ==
    /\ cpc \in {"hs", "req"} \/ GivesUp
    /\ late' = TRUE
    /\ ClientCloses(IF cpc = "hs" /\ c.hello /\ c.info THEN "grace" ELSE cpc)
ClientSeesEnd ==
    /\ cpc \in {"hs", "req", "wait"}
    /\ \/ spc = "closed" /\ wire["cl"] = <<>>
       \/ \E p \in Packets("cl") : p.k = "garbage"
    /\ ClientCloses("peer") /\ UNCHANGED late

-----------------------------------------------------------------------------
(* The acceptor.                                                           *)

(* The pre-engine loop before STARTUPLOADREQ: the answer to each packet.   *)
Known == setting.file # "unknown"
PreReply(k) ==
    CASE k = "info"     -> <<"infoans">>
      [] k = "secstate" /\ ~setting.silent -> <<"pubkey", "sign">>
      [] k = "name" /\ Known      -> <<"nameans">>
      [] k = "hashreq" /\ Known   -> <<"hashans">>
      [] k = "sx2" /\ setting.sources -> <<"sxans">>
      [] OTHER          -> <<>>

ServerHello ==
    /\ spc = "first" /\ wire["sv"] # <<>> /\ Head(wire["sv"]).k = "hello"
    /\ \E p \in Packets("sv") :
          /\ Net("sv", p.take, <<"helloans", "secstate">>)
          /\ spc' = "pre"
          /\ s' = [s EXCEPT !.challenged = TRUE]
    /\ UNCHANGED <<crypt, setting, cpc, c, ranks, late, cut, why, sx>>

ServerPre ==
    /\ spc = "pre"
    /\ \E p \in Packets("sv") :
          /\ p.k \notin {"start", "garbage"}
          /\ ~(p.k = "hashreq" /\ setting.file = "gone")
          /\ Net("sv", p.take, PreReply(p.k))
          /\ s' = CASE p.k = "pubkey" -> [s EXCEPT !.blob = TRUE]
                    [] p.k = "sign"   -> [s EXCEPT !.verified = @ \/ (s.challenged /\ s.blob)]
                    [] OTHER          -> s
    /\ UNCHANGED <<crypt, setting, cpc, spc, c, ranks, late, cut, why, sx>>

(* STARTUPLOADREQ ends the loop: no such file, a slot, or a place in the   *)
(* queue.  The engine answers the replayed request for a granted slot.     *)
ServerStart ==
    /\ spc = "pre"
    /\ \E p \in Packets("sv") :
          /\ p.k = "start"
          /\ \/ ~Known /\ spc' = "closed" /\ Net("sv", p.take, <<"eod">>)
             \/ setting.file = "shared" /\ spc' = "engine" /\ Net("sv", p.take, <<"accept">>)
             \/ setting.file = "shared" /\ spc' = "queue" /\ Net("sv", p.take, <<"rank">>)
    /\ UNCHANGED <<crypt, setting, cpc, c, s, ranks, late, cut, why, sx>>

(* The queue hold: a packet other than END_OF_DOWNLOAD is answered with a  *)
(* rank.                                                                   *)
ServerQueued ==
    /\ spc = "queue"
    /\ \E p \in Packets("sv") :
          /\ p.k # "garbage"
          /\ spc' = IF p.k = "end" THEN "closed" ELSE "queue"
          /\ Net("sv", p.take, IF p.k = "end" THEN <<>> ELSE <<"rank">>)
          /\ sx' = (sx \/ (p.k = "sx2" /\ setting.sources))
    /\ UNCHANGED <<crypt, setting, cpc, c, s, ranks, late, cut, why>>

(* queue_rank_period passes, and cancels the recv() under way: the slot is *)
(* granted or the rank is sent again.                                      *)
ServerRefreshes ==
    /\ spc = "queue" /\ ranks < Ranks
    /\ ranks' = ranks + 1
    /\ cut' = (cut \/ half["sv"] # "none")
    /\ \E grant \in BOOLEAN :
          /\ spc' = IF grant THEN "engine" ELSE "queue"
          /\ Net("sv", 0, IF grant THEN <<"accept">> ELSE <<"rank">>)
    /\ UNCHANGED <<crypt, setting, cpc, c, s, late, why, sx>>

(* UploadSession.run, of which this connection sees the file's names and   *)
(* hashes again; then what the drain after it serves.                      *)
ServerEngine ==
    /\ spc \in {"engine", "drain"}
    /\ \E p \in Packets("sv") :
          /\ p.k # "garbage"
          /\ spc' = IF spc = "engine" /\ p.k = "end" THEN "drain" ELSE spc
          /\ Net("sv", p.take, IF spc = "engine" /\ p.k \in {"name", "hashreq"} THEN PreReply(p.k) ELSE <<>>)
          /\ sx' = (sx \/ (p.k = "sx2" /\ setting.sources))
    /\ UNCHANGED <<crypt, setting, cpc, c, s, ranks, late, cut, why>>

(* The session ends: an unreadable packet, a file that is gone, the end of *)
(* the stream, or the idle timeout.                                        *)
ServerCloses ==
    /\ spc # "closed" /\ spc' = "closed"
    /\ \/ \E p \in Packets("sv") : \/ Talking("sv") /\ p.k = "garbage"
                                   \/ spc = "pre" /\ p.k = "hashreq" /\ setting.file = "gone"
       \/ cpc \in {"closed", "done"} /\ wire["sv"] = <<>>
    /\ UNCHANGED <<crypt, setting, cpc, net, c, s, ranks, late, cut, why, sx>>
ServerTimesOut ==
    /\ spc \notin {"closed", "queue"} /\ spc' = "closed"
    /\ late' = TRUE
    /\ UNCHANGED <<crypt, setting, cpc, net, c, s, ranks, cut, why, sx>>

-----------------------------------------------------------------------------
ClientStep == ClientShakes \/ ClientRequests \/ ClientWaits \/ ClientDone \/ NegotiationEnds
              \/ ClientSeesEnd \/ ReadHeader("cl")
ServerStep == ServerHello \/ ServerPre \/ ServerStart \/ ServerQueued \/ ServerEngine
              \/ AcceptObfuscated \/ AnswerObfuscated \/ ServerCloses \/ ReadHeader("sv")
Timers == NegotiationFails \/ GraceEnds \/ ClientTimesOut

PeerNext ==
    \/ \E e \in Ends : Arrive(e)
    \/ ClientStep \/ ServerStep
    \/ Timers \/ ClientRetries \/ ServerRefreshes \/ ServerTimesOut

PeerSpec == PeerInit /\ [][PeerNext]_peerVars

PeerFairness == WF_peerVars(ClientStep) /\ WF_peerVars(Timers)

-----------------------------------------------------------------------------
(* Every byte is decrypted at the position of the stream it was encrypted  *)
(* at: the handshake and the session share one stream per direction        *)
(* (BasicObfuscationSession, AcceptorSession, _read_exact, _read_wire).    *)
StreamsInStep ==
    \A e \in Ends : crypt # "wrong" =>
       \A i \in DOMAIN wire[e] : wire[e][i].off # 0 =>
          wire[e][i].off = dec[e] + Cardinality({j \in 1..i : wire[e][j].off # 0})

(* A slot is never given to a dialer that will not hear of it: when all    *)
(* the acceptor sent is read and its engine serves, the dialer transfers,  *)
(* unless a timer fired inside a packet.                                   *)
SlotHeard ==
    (spc = "engine" /\ wire["cl"] = <<>> /\ half["cl"] = "none" /\ ~cut)
        => cpc \in {"transfer", "done", "closed"}

(* Two ends that own keys have verified each other by the time the dialer  *)
(* asks for the file and the acceptor decides about the slot, if nobody    *)
(* keeps silent and no timer fires.                                        *)
MutuallyVerified ==
    (setting.ckeys /\ ~setting.silent /\ ~late) =>
        /\ cpc \in {"req", "wait", "transfer"} => c.verified
        /\ spc \in {"queue", "engine", "drain"} => s.verified

(* The dialer gets to the transfer or gives up, whatever the acceptor does *)
(* and the network delays.                                                 *)
SessionEnds == <>(cpc \in {"done", "closed"})

(* "SUI grace only; the app handshake is complete" (client.py:641): a      *)
(* dialer that has seen HELLO and EMULEINFO does not lose the connection   *)
(* for want of a signature.                                                *)
GraceHarmless == why # "grace"

(* cap_source_exchange, "OP_REQUESTSOURCES(2) ... (responder" in           *)
(* codec.py:177: a request for sources that are known is answered.         *)
SourcesAnswered == ~sx

=============================================================================
