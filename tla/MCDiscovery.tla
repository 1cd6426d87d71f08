-------------------------------- MODULE MCDiscovery --------------------------------
(***************************************************************************)
(* How AmuleD finds files and peers: the five KAD components and the ED2K  *)
(* servers side by side, one of them per behaviour: they share no state in *)
(* these instances, so the run explores their sum.                         *)
(***************************************************************************)
EXTENDS Buddy, Bootstrap, Server, KadPool, KadLookup, KadRouting

CONSTANT Parts          \* the components a run looks at

VARIABLE part

vars == <<part, lookupVars, bins, poolVars, buddyVars, serverVars, bootstrapVars>>

\* Two nodes behind one IP, one that moved, one old, one dead at another's endpoint.
C(i, a, o) == [id |-> i, addr |-> a, old |-> o]
n1 == C(1, <<"p", 1>>, FALSE)
n2 == C(2, <<"q", 1>>, FALSE)
n3 == C(3, <<"q", 2>>, FALSE)
dead == C(4, <<"p", 1>>, FALSE)
moved == C(2, <<"s", 1>>, FALSE)
old == C(5, <<"r", 1>>, TRUE)
KnownOf == n1 :> <<n2>> @@ n2 :> <<n1, moved, n3>> @@ n3 :> <<old, moved, n1>> @@ old :> <<n2, n3, n1>>
HeldBy == n1 :> <<[id |-> "f", addr |-> 1], [id |-> "g", addr |-> 1]>> @@ n2 :> <<[id |-> "f", addr |-> 2]>>
        @@ n3 :> <<>> @@ old :> <<[id |-> "h", addr |-> 1], [id |-> "g", addr |-> 230]>>

ContactsOfRun == {n1, n2, n3, moved, dead, old}
LiveOfRun == {n1, n2, n3, old}
\* The pool may know a node at two endpoints, so that two seeds are at one distance.
SeedOrdersOfRun == {<<n3, moved, old>>, <<old, dead, n3>>, <<moved, n2, n3>>}
DistOfRun == <<[i \in 1..5 |-> i], [i \in 1..5 |-> <<3, 1, 2, 5, 4>>[i]]>>

\* Two IDs of either half share an endpoint.
PeersOfRun == {[id |-> i, key |-> i[1] + 2 * i[3]] : i \in Ids}

\* The last server in order is the one that accepts.
OrderOfRun == <<"s1", "s2", "s3">>

\* Files of every version, good ones and cut ones.
Node(e, port, verified, version) == [at |-> e, port |-> port, verified |-> verified, version |-> version]
Listed == <<Node(1, 0, TRUE, 8), Node(2, 1, FALSE, 9), Node(3, 1, TRUE, 2), Node(1, 1, FALSE, 9)>>
ImagesOfRun ==
    {[version |-> i[1], count |-> i[2], records |-> Listed, tail |-> i[1] = 0 /\ i[2] # 4] :
        i \in {<<0, 0>>, <<0, 4>>, <<0, 3>>, <<1, 4>>, <<2, 4>>, <<2, 5>>, <<4, 3>>}}

Init == BootstrapInit /\ part \in Parts /\ LookupInit /\ RoutingInit /\ PoolInit /\ BuddyInit /\ ServerInit

\* A lookup's kind and a nodes.dat are of interest to their own parts only.
InitOfPart ==
    /\ Init
    /\ part = "bootstrap" \/ (image.version = 0 /\ image.count = 0 /\ image.tail)
    /\ (part = "lookup" \/ (kind = "keyword" /\ Len(seeds) = 3 /\ seeds[1] = n3))

Next ==
    /\ UNCHANGED part
    /\ \/ part = "lookup" /\ LookupNext /\ UNCHANGED <<bins, poolVars, buddyVars, serverVars, bootstrapVars>>
       \/ part = "routing" /\ RoutingNext /\ UNCHANGED <<lookupVars, poolVars, buddyVars, serverVars, bootstrapVars>>
       \/ part = "pool" /\ PoolNext /\ UNCHANGED <<lookupVars, bins, buddyVars, serverVars, bootstrapVars>>
       \/ part = "buddy" /\ BuddyNext /\ UNCHANGED <<lookupVars, bins, poolVars, serverVars, bootstrapVars>>
       \/ part = "server" /\ ServerNext /\ UNCHANGED <<lookupVars, bins, poolVars, buddyVars, bootstrapVars>>
       \/ part = "bootstrap" /\ BootstrapNext /\ UNCHANGED <<lookupVars, bins, poolVars, buddyVars, serverVars>>

\* The event loop runs the walk and the clock goes on; no fair action of Server is enabled
\* while it rests.
Fair ==
    /\ ServerFairness
    /\ WF_vars(part = "lookup" /\ Next /\ LookupStep) /\ WF_vars(part = "lookup" /\ Next /\ Time)

Spec == InitOfPart /\ [][Next]_vars /\ Fair

-----------------------------------------------------------------------------
\* Every walk of search, source search and publish ends under any stream of answers.
WalkEnds == part = "lookup" => LookupEnds

=============================================================================
