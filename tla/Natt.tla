-------------------------------- MODULE Natt --------------------------------
(***************************************************************************)
(* NAT traversal: the rendezvous of core/natt/session.py and the uTP       *)
(* stream of core/natt/utp.py, between a downloader ("req") and a          *)
(* firewalled source ("src"), over a network that loses, duplicates and    *)
(* reorders datagrams.  The buddy that relays the request is external.     *)
(*                                                                         *)
(* A uTP packet is <<to, type, seq, ack, chunk>>; the other datagrams are  *)
(* <<to, type>>.  Chunks are numbered in the order they were written.      *)
(***************************************************************************)
EXTENDS Integers, Sequences, FiniteSets, SequencesExt

CONSTANTS
    Modulus,        \* sequence numbers are taken modulo this: 2^16
    Chunks,         \* Chunks[e]: most chunks end e writes
    Capacity        \* most datagrams in flight; more are lost

Sides == {"req", "src"}

ASSUME NattAssumption ==
    Modulus \in Nat \ {0} /\ Capacity \in Nat \ {0} /\ Chunks \in [Sides -> Nat]

Far(e) == IF e = "req" THEN "src" ELSE "req"

VARIABLES
    phase,          \* where rendezvous_connect is
    requests,       \* requests sent to the buddy in the loop that waits for a hint
    air,            \* datagrams in flight
    pending,        \* the source has an accept task that has not run
    st              \* st[e]: the uTP stream of end e

nattVars == <<phase, requests, air, pending, st>>

(* UtpStream.__init__; no stream yet.                                      *)
NewStream ==
    [here |-> FALSE, open |-> TRUE, up |-> FALSE, seq |-> 1, ack |-> 0,
     sent |-> {}, early |-> {}, got |-> <<>>, fin |-> FALSE,
     wrote |-> 0, closing |-> FALSE]

NattTypeOK ==
    /\ phase \in {"idle", "hint", "hinted", "caps", "offered", "connecting",
                  "connected", "failed"}
    /\ requests \in 0..3
    /\ \A e \in Sides : /\ st[e].seq \in 0..(Modulus - 1)
                        /\ st[e].ack \in 0..(Modulus - 1)
                        /\ st[e].wrote \in 0..Chunks[e]

NattInit ==
    /\ phase = "idle" /\ requests = 0
    /\ air = {} /\ pending = FALSE
    /\ st = [e \in Sides |-> NewStream]

(* What the network carries once packets were sent and others consumed:    *)
(* anything may get lost, nothing is made up.                              *)
Carries(sent) ==
    \E kept \in SUBSET (air \cup sent) :
        /\ Cardinality(kept) <= Capacity
        /\ air' = kept

-----------------------------------------------------------------------------
(* rendezvous_connect.                                                     *)

(* The punch before the request goes out when the target's KAD endpoint is *)
(* known; an IPv6 target is known and needs no hint.                       *)
Request ==
    /\ phase = "idle"
    /\ \E way \in {"hint", "known", "direct"} :
          /\ phase' = IF way = "direct" THEN "hinted" ELSE "hint"
          /\ requests' = IF way = "direct" THEN 0 ELSE 1
          /\ Carries({<<"buddy", "reask">>}
                       \cup IF way = "hint" THEN {} ELSE {<<"src", "punch">>})
    /\ UNCHANGED <<pending, st>>

(* The buddy answers with the endpoint and wakes the source, which punches.*)
BuddyRelays ==
    /\ <<"buddy", "reask">> \in air
    /\ Carries({<<"req", "hint">>, <<"req", "punch">>})
    /\ UNCHANGED <<phase, requests, pending, st>>

(* _on_endpoint_hint: the first hint sets the future, later ones do not.   *)
OnEndpointHint ==
    /\ <<"req", "hint">> \in air /\ phase = "hint"
    /\ phase' = "hinted"
    /\ requests' = 0
    /\ UNCHANGED <<air, pending, st>>

(* No hint within a second, twice: the request is sent again.              *)
AskAgain ==
    /\ phase = "hint" /\ requests < 3
    /\ requests' = requests + 1
    /\ Carries({<<"buddy", "reask">>})
    /\ UNCHANGED <<phase, pending, st>>

(* The driver registers the target, punches and sends its CAPS.            *)
Punch ==
    /\ phase = "hinted"
    /\ phase' = "caps"
    /\ Carries({<<"src", "punch">>, <<"src", "caps">>})
    /\ UNCHANGED <<requests, pending, st>>

(* _on_holepunch of the armed source; the downloader only notes a punch.   *)
OnHolepunch ==
    /\ <<"src", "punch">> \in air
    /\ Carries({<<"req", "caps">>})
    /\ UNCHANGED <<phase, requests, pending, st>>

(* _on_caps: CAPS are acknowledged by either end; the future of the        *)
(* target's expectation is set once it is registered.                      *)
OnCaps(e, kind) ==
    /\ kind \in {"caps", "capsack"}
    /\ <<e, kind>> \in air
    /\ phase' = IF e = "req" /\ phase = "caps" THEN "offered" ELSE phase
    /\ Carries(IF kind = "caps" THEN {<<Far(e), "capsack">>} ELSE {})
    /\ UNCHANGED <<requests, pending, st>>

Packet(e, type, seq, chunk) == <<Far(e), type, seq, st[e].ack, chunk>>

(* The stream is created and registered, and its SYN goes out.  Datagrams  *)
(* of the rendezvous that are still in flight change nothing any more.     *)
Connect ==
    /\ phase = "offered"
    /\ phase' = "connecting"
    /\ st' = [st EXCEPT !["req"].here = TRUE, !["req"].sent = {<<"syn", 1, 0>>}]
    /\ air' \in SUBSET {Packet("req", "syn", 1, 0)}
    /\ UNCHANGED <<requests, pending>>

(* The options of the CAPS lack uTP: the session is closed.                *)
NoUtp ==
    /\ phase = "offered"
    /\ phase' = "failed"
    /\ st' = [st EXCEPT !["req"].open = FALSE]
    /\ UNCHANGED <<requests, air, pending>>

(* wait_for(stream.connect()) comes back.                                  *)
Connected ==
    /\ phase = "connecting" /\ st["req"].up
    /\ phase' = "connected"
    /\ st' = [st EXCEPT !["req"].seq = (@ + 1) % Modulus]
    /\ UNCHANGED <<requests, air, pending>>

(* The hint, the CAPS or the first acknowledgement do not come in time:    *)
(* _connect_via_rendezvous closes the session and gives up.                *)
TimesOut ==
    /\ \/ phase = "hint" /\ requests = 3
       \/ phase = "caps"
       \/ phase = "connecting" /\ ~st["req"].up
    /\ phase' = "failed"
    /\ st' = [st EXCEPT !["req"].open = FALSE]
    /\ UNCHANGED <<requests, air, pending>>

-----------------------------------------------------------------------------
(* The stream.                                                             *)

(* _on_utp finds no stream for a SYN: an accept task is spawned.           *)
OnSyn ==
    /\ \E p \in air : p[1] = "src" /\ p[2] = "syn"
    /\ ~st["src"].here
    /\ pending' = TRUE
    /\ UNCHANGED <<phase, requests, air, st>>

(* The task runs: the stream is registered, then the SYN acknowledged.     *)
Accept ==
    /\ pending
    /\ pending' = FALSE
    /\ st' = [st EXCEPT !["src"].here = TRUE, !["src"].ack = 1, !["src"].up = TRUE]
    /\ Carries({<<"req", "state", st["src"].seq, 1, 0>>})
    /\ UNCHANGED <<phase, requests>>

(* Packets received in order from seq on, out of those kept.               *)
Drained(early, seq) ==
    CHOOSE n \in seq..Modulus :
        /\ \A k \in (seq + 1)..n : \E x \in early : x[1] = k
        /\ ~\E x \in early : x[1] = n + 1

ChunkAt(early, k) == (CHOOSE x \in early : x[1] = k)[2]

(* A FIN has no chunk, which stands for a payload that is not handed on.   *)
Payload(chunk) == IF chunk = 0 THEN <<>> ELSE <<chunk>>

(* Chunks of the packets seq+1..n, taken one by one.                       *)
ChunksOf(early, seq, n) ==
    LET taken[i \in 0..(n - seq)] ==
            IF i = 0 THEN <<>> ELSE taken[i - 1] \o Payload(ChunkAt(early, seq + i))
    IN  taken[n - seq]

(* faulty: whatever arrives is handed on                                   *)
ReceivedUnordered(s, type, seq, chunk) ==
    IF seq > s.ack
    THEN [s EXCEPT !.ack = seq, !.fin = @ \/ type = "fin",
                   !.got = @ \o Payload(chunk)]
    ELSE [s EXCEPT !.fin = @ \/ type = "fin"]

(* The stream after DATA or FIN.                                           *)
Received(s, type, seq, chunk) ==
    LET n == Drained(s.early, seq)
        t == CASE seq = s.ack + 1 ->
                    [s EXCEPT !.ack = n,
                              !.early = {x \in s.early : x[1] > n},
                              !.got = @ \o Payload(chunk) \o ChunksOf(s.early, seq, n)]
               [] seq > s.ack + 1 ->
                    [s EXCEPT !.early =
                        IF \E x \in @ : x[1] = seq THEN @ ELSE @ \cup {<<seq, chunk>>}]
               [] OTHER -> s
    IN  [t EXCEPT !.fin = @ \/ (type = "fin" /\ seq <= t.ack)]

(* What is still to be acknowledged.                                       *)
Unacked(s, ack) == {x \in s.sent : x[2] > ack}

(* _on_wire_packet of an open stream.  A SYN is ignored; STATE is what     *)
(* connect() waits for; DATA and FIN are acknowledged, new or not.         *)
OnWirePacket(e, p) ==
    /\ p[1] = e /\ p[2] \in {"state", "data", "fin"}
    /\ st[e].here /\ st[e].open
    /\ LET s == [st[e] EXCEPT !.sent = Unacked(st[e], p[4]),
                              !.up = @ \/ p[2] = "state"]
           t == IF p[2] = "state" THEN s ELSE Received(s, p[2], p[3], p[5])
       IN  /\ st' = [st EXCEPT ![e] = t]
           /\ Carries(IF p[2] = "state" THEN {}
                      ELSE {<<Far(e), "state", t.seq, t.ack, 0>>})
    /\ UNCHANGED <<phase, requests, pending>>

Deliver(e) == \E p \in air : OnWirePacket(e, p)

(* Delivery of a packet that is not a mere duplicate.                      *)
DeliverNews(e) == Deliver(e) /\ st' # st

(* A chunk is written once the stream is handed to the peer session.       *)
Write(e) ==
    /\ IF e = "req" THEN phase = "connected" ELSE st[e].up
    /\ st[e].open /\ ~st[e].closing /\ st[e].wrote < Chunks[e]
    /\ LET n == st[e].wrote + 1
       IN  /\ st' = [st EXCEPT ![e].wrote = n, ![e].seq = (@ + 1) % Modulus,
                               ![e].sent = @ \cup {<<"data", st[e].seq, n>>}]
           /\ Carries({Packet(e, "data", st[e].seq, n)})
    /\ UNCHANGED <<phase, requests, pending>>

(* close(): the FIN goes out,                                              *)
BeginClose(e) ==
    /\ IF e = "req" THEN phase = "connected" ELSE st[e].up
    /\ st[e].open /\ ~st[e].closing
    /\ st' = [st EXCEPT ![e].closing = TRUE, ![e].seq = (@ + 1) % Modulus,
                        ![e].sent = @ \cup {<<"fin", st[e].seq, 0>>}]
    /\ Carries({Packet(e, "fin", st[e].seq, 0)})
    /\ UNCHANGED <<phase, requests, pending>>

(* and 0.2 s later the stream stops sending, receiving and retransmitting. *)
EndClose(e) ==
    /\ st[e].closing /\ st[e].open
    /\ st' = [st EXCEPT ![e].open = FALSE]
    /\ UNCHANGED <<phase, requests, air, pending>>

RetransmitControl(e) ==                      \* faulty: chunks are sent once
    /\ st[e].open /\ st[e].sent # {}
    /\ Carries({Packet(e, x[1], x[2], x[3]) : x \in {y \in st[e].sent : y[1] # "data"}})
    /\ UNCHANGED <<phase, requests, pending, st>>

(* _retransmit_loop: what is unacknowledged goes out again.                *)
Retransmit(e) ==
    /\ st[e].open /\ st[e].sent # {}
    /\ Carries({Packet(e, x[1], x[2], x[3]) : x \in st[e].sent})
    /\ UNCHANGED <<phase, requests, pending, st>>

(* The loop was held up for more than 24 s: the stream fails.              *)
GiveUp(e) ==
    /\ st[e].open /\ st[e].sent # {} /\ st[e].up
    /\ st' = [st EXCEPT ![e].open = FALSE]
    /\ UNCHANGED <<phase, requests, air, pending>>

(* All attempts are over.                                                  *)
Done ==
    /\ ~st["req"].open
    /\ UNCHANGED nattVars

Rendezvous ==
    \/ Request \/ BuddyRelays \/ OnEndpointHint \/ AskAgain \/ Punch
    \/ OnHolepunch \/ Connect \/ NoUtp \/ Connected \/ TimesOut
    \/ \E e \in Sides, kind \in {"caps", "capsack"} : OnCaps(e, kind)

Stream(e) ==
    Deliver(e) \/ Write(e) \/ BeginClose(e) \/ EndClose(e) \/ Retransmit(e) \/ GiveUp(e)

NattNext == Rendezvous \/ OnSyn \/ Accept \/ Done \/ \E e \in Sides : Stream(e)

NattSpec == NattInit /\ [][NattNext]_nattVars

(* A retransmission of which nothing is lost; a packet of which the        *)
(* acknowledgement is not lost.                                            *)
RetransmitThrough(e) ==
    /\ Retransmit(e)
    /\ {Packet(e, x[1], x[2], x[3]) : x \in st[e].sent} \subseteq air'
DeliverAnswered(e) ==
    /\ Deliver(e)
    /\ <<Far(e), "state", st[e]'.seq, st[e]'.ack, 0>> \in air'

(* The event loop runs what is due.  What is sent again and again gets     *)
(* through at times.                                                       *)
NattFairness ==
    /\ WF_nattVars(AskAgain) /\ WF_nattVars(Punch) /\ WF_nattVars(Connect \/ NoUtp)
    /\ WF_nattVars(Connected) /\ WF_nattVars(TimesOut)
    /\ \A e \in Sides : /\ WF_nattVars(EndClose(e))
                        /\ SF_nattVars(RetransmitThrough(e))
                        /\ SF_nattVars(DeliverNews(e)) /\ SF_nattVars(DeliverAnswered(e))

NattFairSpec == NattSpec /\ NattFairness

-----------------------------------------------------------------------------
(* SYN, the chunks and FIN do not use up the numbers: none wraps around.   *)
NumbersSuffice == \A e \in Sides : Chunks[e] + 3 < Modulus

(* What an end has received is what the other wrote, from the beginning,   *)
(* in order and without holes or repetitions (utp.py:6, :14-16), whatever  *)
(* the network does; and a reader that sees the end of the stream because  *)
(* of a FIN has everything that was written before it (utp.py:152-182).    *)
ReadIsWritten ==
    \A e \in Sides :
        /\ IsPrefix(st[e].got, [n \in 1..st[Far(e)].wrote |-> n])
        /\ st[e].fin => Len(st[e].got) = st[Far(e)].wrote

(* While both ends stay open, what is written arrives, however much is     *)
(* lost on the way (utp.py:267-292).                                       *)
WrittenArrives ==
    \A e \in Sides : \A n \in 1..Chunks[e] :
        (phase = "connected" /\ st[e].wrote >= n)
            ~> (n \in Range(st[Far(e)].got) \/ \E x \in Sides : ~st[x].open)
=============================================================================
