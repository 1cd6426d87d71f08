------------------------------ MODULE Inbound -------------------------------
(***************************************************************************)
(* Connections from one IP: IncomingPeerServer of core/peer/listener.py,   *)
(* and the download attempts of runner.py that ask a firewalled source to  *)
(* dial back (direct callback, or through its buddy) and wait for it.      *)
(***************************************************************************)
EXTENDS Naturals, Sequences, SequencesExt, FiniteSets

CONSTANTS
    Direct, Relayed,    \* attempts by kad6 sources, by kad3 and kad5 sources
    Conns,              \* connections from the IP
    MaxConnections,     \* of the server
    MaxRecent           \* connections per 5 s that the server takes

Attempts == Direct \cup Relayed

Fates == {"none", "session", "refused", "orphan"}   \* of connections without an attempt

ASSUME InboundAssumption == Attempts \cap Fates = {}

VARIABLES
    att,            \* where an attempt is
    expected,       \* IncomingPeerServer._expected of the IP
    asked,          \* attempts whose request is on its way or arrived
    conn,           \* what became of a connection
    recent          \* _conn_timestamps of the last 5 s

inboundVars == <<att, expected, asked, conn, recent>>

Sessions == {k \in Conns : conn[k] = "session"}

InboundInit ==
    /\ att = [a \in Attempts |-> "idle"]
    /\ expected = <<>>
    /\ asked = {}
    /\ conn = [k \in Conns |-> "none"]
    /\ recent = {}

(* The waiter is registered before the request is sent.                    *)
Expect(a) ==
    /\ att[a] = "idle"
    /\ att' = [att EXCEPT ![a] = "waiting"]
    /\ expected' = Append(expected, a)
    /\ UNCHANGED <<asked, conn, recent>>

(* send_direct_callback_req or send_kad_callback_req: three datagrams, of  *)
(* which any may be lost.                                                  *)
SendCallbackReq(a) ==
    /\ att[a] \in {"waiting", "given"} /\ a \notin asked
    /\ asked' = asked \cup {a}
    /\ UNCHANGED <<att, expected, conn, recent>>

(* A connection comes: an answer to a request, or of the peer's own accord.*)
(* Refused, handed to the first waiter if that still waits, or served.     *)
OnClient(k) ==
    /\ conn[k] = "none"
    /\ \/ /\ \/ Cardinality(recent) >= MaxRecent
             \/ Cardinality(Sessions) >= MaxConnections
          /\ conn' = [conn EXCEPT ![k] = "refused"]
          /\ recent' = IF Cardinality(recent) >= MaxRecent THEN recent ELSE recent \cup {k}
          /\ UNCHANGED <<att, expected>>
       \/ /\ Cardinality(recent) < MaxRecent
          /\ Cardinality(Sessions) < MaxConnections
          /\ recent' = recent \cup {k}
          /\ expected' = IF expected = <<>> THEN <<>> ELSE Tail(expected)
          /\ IF expected # <<>> /\ att[Head(expected)] = "waiting"
             THEN /\ att' = [att EXCEPT ![Head(expected)] = "given"]
                  /\ conn' = [conn EXCEPT ![k] = Head(expected)]
             ELSE /\ conn' = [conn EXCEPT ![k] = "session"]
                  /\ UNCHANGED att
    /\ UNCHANGED asked

(* 5 s pass.                                                               *)
Forget ==
    /\ recent # {} /\ recent' = {}
    /\ UNCHANGED <<att, expected, asked, conn>>

(* 12 s or 15 s pass, or the attempt is cancelled because another source   *)
(* won: the future is done, the waiter has not run yet.                    *)
Expire(a, how) ==
    /\ att[a] = "waiting"
    /\ att' = [att EXCEPT ![a] = how]
    /\ UNCHANGED <<expected, asked, conn, recent>>

UnregisteredAll(a) == <<>>                   \* faulty: the entry of the IP is dropped
(* The waiter's own future leaves the queue of the IP, if it is there.     *)
Unregistered(a) ==
    IF a \in Range(expected)
    THEN RemoveAt(expected, CHOOSE i \in DOMAIN expected : expected[i] = a)
    ELSE expected

(* expect_connection_from raises.  An attempt through a buddy goes on to   *)
(* the rendezvous.                                                         *)
Unregister(a) ==
    /\ att[a] \in {"late", "cancelled"}
    /\ expected' = Unregistered(a)
    /\ att' = [att EXCEPT ![a] = IF @ = "late" /\ a \in Relayed THEN "rendezvous" ELSE "failed"]
    /\ UNCHANGED <<asked, conn, recent>>

(* The waiter gets its connection and the attempt adopts it.               *)
Adopt(a) ==
    /\ att[a] = "given" /\ a \in asked
    /\ att' = [att EXCEPT ![a] = "adopted"]
    /\ UNCHANGED <<expected, asked, conn, recent>>

(* Cancelled after the hand-over: nobody closes the connection.            *)
CancelLate(a) ==
    /\ att[a] = "given"
    /\ att' = [att EXCEPT ![a] = "failed"]
    /\ conn' = [k \in Conns |-> IF conn[k] = a THEN "orphan" ELSE conn[k]]
    /\ UNCHANGED <<expected, asked, recent>>

(* The rendezvous succeeds or fails, see Natt.                             *)
RendezvousEnds(a) ==
    /\ att[a] = "rendezvous"
    /\ att' = [att EXCEPT ![a] = "failed"]
    /\ UNCHANGED <<expected, asked, conn, recent>>

(* An attempt is over; the same source may be tried in a later round.      *)
Again(a) ==
    /\ att[a] \in {"failed", "adopted"}
    /\ att' = [att EXCEPT ![a] = "idle"]
    /\ asked' = asked \ {a}
    /\ conn' = [k \in Conns |-> IF conn[k] = a THEN "none" ELSE conn[k]]
    /\ UNCHANGED <<expected, recent>>

SessionOver(k) ==
    /\ conn[k] \in {"session", "refused"}
    /\ conn' = [conn EXCEPT ![k] = "none"]
    /\ UNCHANGED <<att, expected, asked, recent>>

InboundNext ==
    \/ \E a \in Attempts :
          \/ Expect(a) \/ SendCallbackReq(a) \/ Unregister(a)
          \/ \E how \in {"late", "cancelled"} : Expire(a, how)
          \/ Adopt(a) \/ CancelLate(a) \/ RendezvousEnds(a) \/ Again(a)
    \/ \E k \in Conns : OnClient(k) \/ SessionOver(k)
    \/ Forget

InboundSpec == InboundInit /\ [][InboundNext]_inboundVars

-----------------------------------------------------------------------------
(* Whoever waits for a dial-back can be found by it, however the waits of  *)
(* other attempts for the same IP end (expect_connection_from, _on_client);*)
(* and a connection belongs to one attempt.                                *)
WaitersFound ==
    /\ \A a \in Attempts : att[a] = "waiting" => a \in Range(expected)
    /\ \A a \in Attempts : att[a] \in {"given", "adopted"} =>
          Cardinality({k \in Conns : conn[k] = a}) = 1

=============================================================================
