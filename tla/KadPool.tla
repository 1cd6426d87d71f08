------------------------------- MODULE KadPool -------------------------------
(***************************************************************************)
(* The maturation loop of SpiderEngine (core/kad/spider.py) over its node  *)
(* pool: HELLO and PING batches, the receiver task, the sweep of           *)
(* unanswered requests, bootstraps, snapshots, a stop or a kill, and the   *)
(* next start from the cache file.                                         *)
(* A pool record is [hellos, pings, fails]; the two counts are capped at 1 *)
(* because only "verified" and "first HELLO" are looked at.  Node IDs,     *)
(* ports, obfuscation keys and round-trip times are left out; so is        *)
(* prune_pool, which runs only where the periodic snapshot does.           *)
(***************************************************************************)
EXTENDS Naturals, FiniteSets, SequencesExt

CONSTANTS Nodes,            \* endpoints
          Seeds,            \* the routable entries of nodes.dat
          Batch, PingEvery, \* BATCH; every PingEvery-th node of a batch is pinged (3)
          Window,           \* HELLO_PING_TIMEOUT_S in cycles
          MaxFails,         \* MAX_NODE_FAILS
          BootstrapEvery,   \* bootstrap_every
          SaveEvery,        \* save_s in cycles
          Epoch             \* wall clock minus monotonic clock, in cycles

ASSUME PoolAssumption == Seeds \subseteq Nodes /\ MaxFails \in Nat \ {0} /\ Window \in Nat

VARIABLES
    nodes,              \* pool: endpoint -> record
    order,              \* the order of the keys of nodes
    hello_sent, ping_sent,  \* endpoint -> cycles since the request
    phase,                 \* "down", "cycle", "send", "sweep"
    batch,              \* what is left of the batch
    sent,               \* sent, modulo PingEvery
    cycle,              \* state["cycle"] modulo BootstrapEvery; 0 is also the first
    first,              \* cycle = 0 for real
    cache,              \* kad_nodes.json
    unsaved,            \* cycles since the last snapshot
    flight,             \* requests sent: each may be answered late, twice or never
    silent              \* history: requests to an endpoint that expired since its last answer

poolVars == <<nodes, order, hello_sent, ping_sent, phase, batch, sent, cycle, first, cache, unsaved, flight, silent>>

Blank == [hellos |-> 0, pings |-> 0, fails |-> 0]
Without(f, k) == [x \in DOMAIN f \ {k} |-> f[x]]
SetDefault(f, S, v) == [x \in DOMAIN f \cup S |-> IF x \in DOMAIN f THEN f[x] ELSE v]
Ordered(keys, S) == keys \o SetToSeq(S \ Range(keys))

\* build_pool: the cached nodes that ever answered, then nodes.dat.
Pool == SetDefault(cache, Seeds, Blank)

PoolInit ==
    /\ nodes = [s \in Seeds |-> Blank] /\ order = SetToSeq(Seeds)
    /\ hello_sent = << >> /\ ping_sent = << >>
    /\ phase = "cycle" /\ batch = <<>> /\ sent = 0 /\ cycle = 0 /\ first = TRUE
    /\ cache = << >> /\ unsaved = 0
    /\ flight = {<<"boot", s>> : s \in Seeds}
    /\ silent = [n \in Nodes |-> 0]

\* A start after a stop or a kill: the pool from the cache, one bootstrap round.
Boot ==
    /\ phase = "down"
    /\ nodes' = Pool /\ order' = Ordered(SetToSeq(DOMAIN cache), Seeds)
    /\ hello_sent' = << >> /\ ping_sent' = << >>
    /\ phase' = "cycle" /\ batch' = <<>> /\ sent' = 0 /\ cycle' = 0 /\ first' = TRUE
    /\ flight' = {<<"boot", s>> : s \in Seeds}
    /\ silent' = [n \in Nodes |-> IF n \in DOMAIN Pool THEN Pool[n].fails ELSE 0]
    /\ UNCHANGED <<cache, unsaved>>

\* The cycle's batch: the best of the warmer half as the strategy and the learned
\* weights have it (any choice), and the end of the colder half.
BeginCycle ==
    /\ phase = "cycle"
    /\ LET warm == SelectSeq(order, LAMBDA k : nodes[k].hellos > 0)
           pool == warm \o SelectSeq(order, LAMBDA k : nodes[k].hellos = 0)
           mid == Len(pool) \div 2
           tail == SubSeq(pool, IF Len(pool) - Batch > mid THEN Len(pool) - Batch + 1 ELSE mid + 1, Len(pool))
       IN  \E core \in SUBSET Range(SubSeq(pool, 1, mid)) :
               /\ Cardinality(core) = (IF mid < Batch THEN mid ELSE Batch)
               /\ batch' = SetToSeq(core) \o tail
    /\ phase' = "send" /\ sent' = 0
    /\ UNCHANGED <<nodes, order, hello_sent, ping_sent, cycle, first, cache, unsaved, flight, silent>>

\* A HELLO, now and then with a PING; a request that is still open keeps its time.
Send ==
    /\ phase = "send" /\ batch # <<>>
    /\ LET k == Head(batch)
           ping == sent + 1 = PingEvery
           asked == {<<"hello", k>>} \cup (IF ping THEN {<<"ping", k>>} ELSE {})
       IN  /\ hello_sent' = SetDefault(hello_sent, {k}, 0)
           /\ ping_sent' = IF ping THEN SetDefault(ping_sent, {k}, 0) ELSE ping_sent
           /\ flight' = flight \cup asked
           /\ sent' = IF ping THEN 0 ELSE sent + 1
    /\ batch' = Tail(batch)
    /\ UNCHANGED <<nodes, order, phase, cycle, first, cache, unsaved, silent>>

\* Between the sends of a batch, during the waits of a cycle.
Listening == phase \in {"cycle", "send"}

HelloResKeepsFails(k) ==
    SetDefault(nodes, {k}, [Blank EXCEPT !.hellos = 1])

\* A HELLO_RES also brings back a node that was evicted meanwhile.
HelloRes(k) ==
    [x \in DOMAIN nodes \cup {k} |->
        IF x # k THEN nodes[x]
        ELSE [hellos |-> 1, pings |-> IF k \in DOMAIN nodes THEN nodes[k].pings ELSE 0, fails |-> 0]]

OnHelloRes(k) ==
    /\ Listening /\ <<"hello", k>> \in flight
    /\ nodes' = HelloRes(k) /\ order' = Ordered(order, {k})
    /\ hello_sent' = Without(hello_sent, k)
    /\ silent' = [silent EXCEPT ![k] = 0]
    /\ UNCHANGED <<ping_sent, phase, batch, sent, cycle, first, cache, unsaved, flight>>

OnPong(k) ==
    /\ Listening /\ <<"ping", k>> \in flight /\ k \in DOMAIN nodes
    /\ nodes' = [nodes EXCEPT ![k].pings = 1, ![k].fails = 0]
    /\ ping_sent' = Without(ping_sent, k)
    /\ silent' = [silent EXCEPT ![k] = 0]
    /\ UNCHANGED <<order, hello_sent, phase, batch, sent, cycle, first, cache, unsaved, flight>>

\* New contacts enter the pool with a clean record, known ones keep theirs.
OnBootstrapRes(k) ==
    /\ Listening /\ <<"boot", k>> \in flight
    /\ \E contacts \in SUBSET Nodes :
           /\ nodes' = SetDefault(nodes, contacts, Blank)
           /\ order' = Ordered(order, contacts)
    /\ UNCHANGED <<hello_sent, ping_sent, phase, batch, sent, cycle, first, cache, unsaved, flight, silent>>

\* One pass over the expired entries of hello_sent, then of ping_sent.
Struck(pool, pending) ==
    LET late == {k \in DOMAIN pool : k \in DOMAIN pending /\ pending[k] > Window}
        hit == [k \in DOMAIN pool |-> IF k \in late THEN [pool[k] EXCEPT !.fails = @ + 1] ELSE pool[k]]
    IN  [k \in {x \in DOMAIN hit : x \notin late \/ hit[x].fails < MaxFails} |-> hit[k]]

Open(pending) ==
    [k \in {x \in DOMAIN pending : pending[x] <= Window} |-> pending[k] + 1]

Late(pending, k) == IF k \in DOMAIN pending /\ pending[k] > Window THEN 1 ELSE 0

\* loop.time() is compared with a last_save that time.time() set: the two clocks are Epoch
\* cycles apart.
SaveDue == unsaved >= Epoch + SaveEvery

Snapshot == LET hot == {k \in DOMAIN nodes : nodes[k].hellos > 0 \/ nodes[k].pings > 0}
            IN  [k \in hot |-> nodes[k]]

\* The end of a cycle: sweep, a bootstrap round when it is time, the snapshot when due.
EndCycle ==
    /\ phase = "send" /\ batch = <<>>
    /\ LET swept == Struck(Struck(nodes, hello_sent), ping_sent)
           again == ~first /\ cycle = 0
       IN  /\ nodes' = IF again THEN SetDefault(swept, Seeds, Blank) ELSE swept
           /\ order' = Ordered(SelectSeq(order, LAMBDA k : k \in DOMAIN swept), DOMAIN nodes')
           /\ flight' = IF again THEN flight \cup {<<"boot", s>> : s \in Seeds} ELSE flight
    /\ silent' = [k \in Nodes |-> IF silent[k] >= MaxFails THEN silent[k]
                                  ELSE silent[k] + Late(hello_sent, k) + Late(ping_sent, k)]
    /\ hello_sent' = Open(hello_sent) /\ ping_sent' = Open(ping_sent)
    /\ cycle' = (cycle + 1) % BootstrapEvery /\ first' = FALSE
    /\ IF SaveDue
       THEN cache' = nodes' /\ unsaved' = 0
       ELSE UNCHANGED cache /\ unsaved' = (IF unsaved > SaveEvery THEN unsaved ELSE unsaved + 1)
    /\ phase' = "cycle"
    /\ UNCHANGED <<batch, sent>>

\* stop is set, between two sends or in the wait: the finally block saves.
Stop ==
    /\ Listening
    /\ phase' = "down" /\ cache' = Snapshot /\ unsaved' = 0
    /\ flight' = {} /\ batch' = <<>>
    /\ UNCHANGED <<nodes, order, hello_sent, ping_sent, sent, cycle, first, silent>>

Kill ==
    /\ Listening
    /\ phase' = "down" /\ flight' = {} /\ batch' = <<>> /\ unsaved' = 0
    /\ UNCHANGED <<nodes, order, hello_sent, ping_sent, sent, cycle, first, cache, silent>>

PoolNext ==
    \/ Boot \/ BeginCycle \/ Send \/ EndCycle \/ Stop \/ Kill
    \/ \E k \in Nodes : OnHelloRes(k) \/ OnPong(k) \/ OnBootstrapRes(k)

PoolSpec == PoolInit /\ [][PoolNext]_poolVars

-----------------------------------------------------------------------------
\* A running node is taken out of the pool only when MaxFails requests to it expired with
\* no answer from it in between: late answers, answers of the other kind, evictions and
\* returns of the same endpoint do not carry old failures over.
OnlySilentLeave ==
    \A k \in DOMAIN nodes : phase # "down" /\ phase' # "down" /\ k \notin DOMAIN nodes' => silent'[k] >= MaxFails
\* As a property of behaviours: no step of the spider, its timers or its kills does that
\* (spider's sweep of expired requests).
EvictedSilent == [][OnlySilentLeave]_poolVars

\* What the pool has learned is in the cache file save_s later.
SavedInTime == unsaved <= SaveEvery

=============================================================================
