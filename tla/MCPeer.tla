------------------------------- MODULE MCPeer -------------------------------
(***************************************************************************)
(* Two peers and what connects them: a session's handshake (Peer), the     *)
(* choice of blocks and their transfer (Ics, Blocks), and the connections  *)
(* of the listener with those who wait for them (Inbound).  They share no  *)
(* state here: a behaviour is about one of them, the others rest in an     *)
(* initial state.                                                          *)
(***************************************************************************)
EXTENDS Peer, Inbound, Ics, Blocks, TLC

CONSTANTS Components    \* those the run is about

VARIABLES component

vars == <<component, peerVars, inboundVars, icsVars, blocksVars>>

\* Two parts, the second with a short block; p1 has the first part only, p2 sent no status.
\* The download is new, or resumed with a gap that ends inside a block.
StatusOfRun == [p \in Peers |-> IF p = "p1" THEN {0} ELSE {}]
GapsOfRun == {Offsets, {0, 3, 4, 5, 6}}

\* A file of 22 bytes whose offsets pass the 4-bit field at 15: a second part of it, with or
\* without the selector, from either kind of server, and a single part from the start.
JobsOfRun ==
    [size : {22}, base : {8}, bound : {22}, selector : BOOLEAN, server : {"amuled", "other"}]
    \cup [size : {22}, base : {0}, bound : {19}, selector : {FALSE}, server : {"amuled"}]

ASSUME ConstantsFit == IcsAssumption /\ BlocksAssumption

-----------------------------------------------------------------------------
About(x) == component = x /\ UNCHANGED component

\* A component that a behaviour is not about rests in one of its initial states.
PeerRests ==
    crypt = "plain" /\ setting = [ckeys |-> FALSE, file |-> "gone", silent |-> TRUE,
                                  fallback |-> FALSE, sources |-> FALSE]
IcsRests == missing = Offsets
BlocksRest == job.base = 0

Init ==
    /\ component \in Components
    /\ PeerInit /\ (component = "peer" \/ PeerRests)
    /\ InboundInit
    /\ IcsInit /\ (component = "ics" \/ IcsRests)
    /\ BlocksInit /\ (component = "blocks" \/ BlocksRest)

Next ==
    \/ About("peer") /\ PeerNext /\ UNCHANGED <<inboundVars, icsVars, blocksVars>>
    \/ About("inbound") /\ InboundNext /\ UNCHANGED <<peerVars, icsVars, blocksVars>>
    \/ About("ics") /\ IcsNext /\ UNCHANGED <<peerVars, inboundVars, blocksVars>>
    \/ About("blocks") /\ BlocksNext /\ UNCHANGED <<peerVars, inboundVars, icsVars>>

\* Only DialEnds needs fairness, for the behaviours that are about it.
Spec == Init /\ [][Next]_vars /\ PeerFairness

-----------------------------------------------------------------------------
\* Peer: the dialer gets to the transfer or gives up, whatever the acceptor does.
DialEnds == component = "peer" => SessionEnds
=============================================================================
