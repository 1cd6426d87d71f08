------------------------------ MODULE KadRouting ------------------------------
(***************************************************************************)
(* The tree of k-buckets of core/kad/routing.py.  A node ID is the         *)
(* sequence of the bits of its XOR distance to our own ID, so the root's   *)
(* zone is <<>> and the zone of a contact is a prefix of its ID.  A leaf   *)
(* holds a bin of at most K contacts, the most recently confirmed last.    *)
(* last_seen and the contact type only feed the unused mark_failed sweep   *)
(* and are left out.                                                       *)
(***************************************************************************)
EXTENDS Naturals, FiniteSets, SequencesExt

CONSTANTS Depth,        \* bits of an ID (128 in the code)
          K,            \* contacts of a bin
          Peers,        \* contacts that are added: records [id, key]
          EarlySplits,  \* contacts below which every full bin splits (BOOTSTRAP_NODE_COUNT)
          KK, KBase     \* the gates of later splits

Ids == [1..Depth -> {0, 1}]

(* IDs and endpoints have a fixed width, so there are only so many.        *)
ASSUME RoutingAssumption ==
    /\ Depth \in Nat \ {0} /\ K \in Nat
    /\ IsFiniteSet(Peers) /\ \A c \in Peers : c.id \in Ids

VARIABLE bins           \* zone prefix -> its bin; the domain is the set of leaves

Zones == DOMAIN bins

Held == UNION {Range(bins[z]) : z \in Zones}

\* An ID or a zone s in the zone z.
Within(s, z) == Len(z) <= Len(s) /\ \A i \in DOMAIN z : s[i] = z[i]

LeafOf(t, id) == CHOOSE z \in DOMAIN t : Within(id, z)

Index(z) == FoldLeft(LAMBDA n, b : 2 * n + b, 0, z)

RoutingInit == bins = [z \in {<<>>} |-> <<>>]

\* The members of S in the order R, a set of pairs.
InOrder(S, R) ==
    [n \in 1..Cardinality(S) |-> CHOOSE x \in S : Cardinality({y \in S : <<y, x>> \in R}) = n - 1]

-----------------------------------------------------------------------------
\* CRoutingZone::CanSplit: early on every full bin, later only those near the root.
CanSplit(t, z) ==
    /\ Len(z) < Depth - 1
    /\ Len(t[z]) = K
    /\ \/ FoldFunction(LAMBDA bin, n : Len(bin) + n, 0, t) < EarlySplits
       \/ Index(z) < KK
       \/ Len(z) < KBase

\* The contacts of a bin whose bit at a level is b, the last one first: contacts() lists
\* the most recent first, and each is added to its half.
Half(bin, level, b) ==
    LET places == {i \in DOMAIN bin : bin[i].id[level] = b}
        later == {p \in places \X places : p[1] > p[2]}
    IN  [n \in 1..Cardinality(places) |-> bin[InOrder(places, later)[n]]]

Children(z) == {Append(z, 0), Append(z, 1)}

\* As if the bit below the zone's own decided.
SplitByParent(t, z) ==
    [y \in (DOMAIN t \ {z}) \cup Children(z) |->
        IF y \in DOMAIN t THEN t[y] ELSE Half(t[z], IF Len(z) = 0 THEN 1 ELSE Len(z), Last(y))]

Split(t, z) ==
    [y \in (DOMAIN t \ {z}) \cup Children(z) |->
        IF y \in DOMAIN t THEN t[y] ELSE Half(t[z], Len(z) + 1, Last(y))]

\* push_to_bottom, with what is known now.
Moved(bin, i, c) == Append(RemoveAt(bin, i), c)

HasId(bin, id) == \E i \in DOMAIN bin : bin[i].id = id

\* The contact with the same ID is refreshed (its endpoint replaced) and moved to the end.
Refreshed(bin, c) ==
    IF HasId(bin, c.id) THEN Moved(bin, CHOOSE i \in DOMAIN bin : bin[i].id = c.id, c)
    ELSE Append(bin, c)

Crowded(bin, c) == ~HasId(bin, c.id) /\ Len(bin) >= K

\* One level of the descent: split a full leaf that may be.
Room(t, c) ==
    LET z == LeafOf(t, c.id)
    IN  IF Crowded(t[z], c) /\ CanSplit(t, z) THEN Split(t, z) ELSE t

\* Descend, and split as often as it takes to make room.
Grown(c) ==
    LET grow[n \in 0..Depth] == IF n = 0 THEN bins ELSE Room(grow[n - 1], c)
    IN  grow[Depth]

Added(c) ==
    LET t == Grown(c)
        z == LeafOf(t, c.id)
    IN  IF Crowded(t[z], c) THEN t ELSE [t EXCEPT ![z] = Refreshed(@, c)]

Add(c) == bins' = Added(c)

\* The zones one meets first going down the 0-sides first.
LeftOf(y, z) ==
    \E n \in (DOMAIN y) \cap (DOMAIN z) : (\A i \in 1..(n - 1) : y[i] = z[i]) /\ y[n] < z[n]

\* The first leaf, in tree order, that knows the key moves its first contact with that
\* key to the end.
MarkAlive(key) ==
    LET at(z) == {i \in DOMAIN bins[z] : bins[z][i].key = key}
        owners == {z \in Zones : at(z) # {}}
    IN  \E z \in owners :
            /\ \A y \in owners : y = z \/ LeftOf(z, y)
            /\ \E i \in at(z) :
                /\ \A j \in at(z) : i <= j
                /\ bins' = [bins EXCEPT ![z] = Moved(@, i, @[i])]

-----------------------------------------------------------------------------
\* The XOR of target and a is the smaller number: the first bit where a and b differ
\* decides.
Closer(target, a, b) ==
    \E n \in 1..Depth : (\A i \in 1..(n - 1) : a[i] = b[i]) /\ a[n] = target[n] /\ b[n] # target[n]

\* sorted() of a bin as contacts() lists it, which keeps the order of equals.
Nearest(bin, target) ==
    LET before == {p \in (DOMAIN bin) \X (DOMAIN bin) :
                      \/ Closer(target, bin[p[1]].id, bin[p[2]].id)
                      \/ bin[p[1]].id = bin[p[2]].id /\ p[1] > p[2]}
    IN  [n \in DOMAIN bin |-> bin[InOrder(DOMAIN bin, before)[n]]]

Branches == UNION {[1..n -> {0, 1}] : n \in 0..Depth}

\* _collect_closest of every zone, when near is what it gives below: the half that holds
\* the target is read first, the other one if more are wanted.
Collect(near, target, count) ==
    [z \in Branches |->
        IF z \in Zones THEN Nearest(bins[z], target)
        ELSE IF Len(z) = Depth THEN <<>>
        ELSE LET side == target[Len(z) + 1]
                 first == near[Append(z, side)]
             IN  IF Len(first) >= count THEN first ELSE first \o near[Append(z, 1 - side)]]

\* The last n levels of the tree.
Collected(target, count) ==
    LET near[n \in 0..Depth] ==
            IF n = 0 THEN [z \in Branches |-> <<>>] ELSE Collect(near[n - 1], target, count)
    IN  near[Depth][<<>>]

closest(target, count) ==
    LET all == Collected(target, count)
    IN  SubSeq(all, 1, IF Len(all) < count THEN Len(all) ELSE count)

RoutingNext == \E c \in Peers : Add(c) \/ MarkAlive(c.key)

RoutingSpec == RoutingInit /\ [][RoutingNext]_bins

-----------------------------------------------------------------------------
\* A lookup starts from the contacts that really are the closest of the whole table,
\* whatever splits came before: each is in the zone of its ID, and none is there twice.
ClosestIsClosest ==
    \A target \in Ids : LET best == closest(target, K) IN
        /\ Len(best) = (IF Cardinality(Held) < K THEN Cardinality(Held) ELSE K)
        /\ \A i \in DOMAIN best :
              Cardinality({c \in Held : Closer(target, c.id, best[i].id)}) = i - 1

=============================================================================
