------------------------------ MODULE KadLookup ------------------------------
(***************************************************************************)
(* The iterative walk of core/kad: kad_keyword_search (search.py),         *)
(* kad_file_source_search (source_search.py) and _lookup_closest with the  *)
(* keyword and source publish passes that follow it on the same socket     *)
(* (publish.py).  One loop iteration asks the closest candidates, then     *)
(* waits for one datagram or a quiet window.                               *)
(* A contact is a record [id, addr, old]; addr is <<ip, port>>; old means a *)
(* version below 3.  Dist gives the XOR distance to the target of a pass.  *)
(***************************************************************************)
EXTENDS Naturals, FiniteSets, SequencesExt, TLC

CONSTANTS
    Contacts,       \* every (id, endpoint) a routing table or a node may know
    Live,           \* the contacts at whose endpoint a node with that id answers
    Knows,          \* [Live -> Seq(Contacts)]: what a node returns, its best first
    Answers,        \* [Live -> Seq of [id, addr]]: the results a node holds
    SeedOrders,     \* what routing.closest may return: a RoutingZone gives the order of
                    \* distances, the spider's pool its warm nodes first
    Dist,           \* [1..2 -> [ids -> Nat]]
    Alpha,          \* ALPHA
    FindValue, FindValueMore,
    NodeCount,      \* node_count: the copies a publish wants
    MaxResults,     \* max_results, max_sources
    Idle, Hard      \* quiet windows in idle_extend and in timeout

Kinds == {"keyword", "source", "publish"}

ASSUME LookupAssumption ==
    /\ IsFiniteSet(Contacts) /\ Live \subseteq Contacts
    /\ Knows \in [Live -> Seq(Contacts)] /\ SeedOrders \subseteq Seq(Contacts)
    /\ Dist \in [1..2 -> [{c.id : c \in Contacts} -> Nat]]
    /\ Alpha \in Nat \ {0} /\ {FindValue, FindValueMore} \subseteq Nat

VARIABLES
    kind, pass,     \* what the walk is for; publish runs a keyword and a source pass
    state,          \* "loop", "recv", "settle", "collect", "done"
    seeds, seedPos,
    possible, tried,    \* contacts still to ask and contacts that were asked
    asking,         \* addr_to_dist, with the contact itself
    responded,      \* responded, in the order of its keys
    queried,        \* asked_search, asked_source
    reasked, strikes,
    idle, hard,     \* windows since last_progress and since the start
    results,        \* results, sources: id -> endpoint
    seen,           \* seen_sources
    rewards,        \* the endpoints of rewards
    targets,        \* targets_info
    accepts,        \* number of accepts
    mail            \* requests sent: each may be answered at any time, several times or never

walk == <<possible, tried, asking, responded, queried, reasked, strikes, idle, hard>>
outcome == <<results, seen, rewards, targets, accepts>>
lookupVars == <<kind, pass, state, seeds, seedPos, walk, outcome, mail>>

D(c) == Dist[pass][c.id]
Dists(S) == {D(c) : c \in S}
Least(n, m) == IF n < m THEN n ELSE m
FirstOf(s, n) == SubSeq(s, 1, Least(n, Len(s)))
None == [x \in {} |-> x]

\* The n closest contacts of a set.
Closest(S, n) == {c \in S : Cardinality({d \in S : D(d) < D(c)}) < n}

-----------------------------------------------------------------------------
\* _seed_more(ALPHA) from a position of the seeds on: the next ALPHA whose distances are
\* not taken, and where to go on.  possible is keyed by distance, so that of two seeds at
\* one distance the later is passed over.
Unread(p, order, pos, taken) ==
    {i \in pos..Len(order) :
        LET d == Dist[p][order[i].id]
        IN  d \notin taken /\ \A j \in pos..(i - 1) : Dist[p][order[j].id] # d}

Fresh(p, order, pos, taken) ==
    LET unread == Unread(p, order, pos, taken)
    IN  {i \in unread : Cardinality({j \in unread : j < i}) < Alpha}

NextSeed(order, fresh) ==
    IF Cardinality(fresh) < Alpha THEN Len(order) + 1 ELSE 1 + CHOOSE i \in fresh : \A j \in fresh : j <= i

StartWalk(p, order) ==
    /\ pass' = p
    /\ state' = "loop"
    /\ seeds' = order
    /\ LET fresh == Fresh(p, order, 1, {})
       IN  possible' = {order[i] : i \in fresh} /\ seedPos' = NextSeed(order, fresh)
    /\ tried' = {} /\ asking' = None /\ responded' = <<>> /\ queried' = {}
    /\ reasked' = FALSE /\ strikes' = 0 /\ idle' = 0 /\ hard' = 0

LookupInit ==
    /\ kind \in Kinds
    /\ pass = 1
    /\ state = "loop"
    /\ seeds \in SeedOrders
    /\ LET fresh == Fresh(1, seeds, 1, {})
       IN  possible = {seeds[i] : i \in fresh} /\ seedPos = NextSeed(seeds, fresh)
    /\ tried = {} /\ asking = None /\ responded = <<>> /\ queried = {}
    /\ reasked = FALSE /\ strikes = 0 /\ idle = 0 /\ hard = 0
    /\ results = None /\ seen = {} /\ rewards = {} /\ targets = <<>> /\ accepts = 0
    /\ mail = {}

-----------------------------------------------------------------------------
ExpiredIdle == idle >= Idle

\* The loop's test: idle_extend since the last progress, or the hard deadline.
Expired == idle >= Idle \/ hard >= Hard

\* A search goes on to its re-ask pass, a publish to its store requests.
WalkOver == state' = "settle"

WalkDeadline ==
    /\ state = "loop" /\ Expired
    /\ WalkOver
    /\ UNCHANGED <<kind, pass, seeds, seedPos, walk, outcome, mail>>

\* Pop the closest candidates until ALPHA are queried; the skipped ones among them are
\* dropped without being marked tried.
AskClosest(skipped) ==
    /\ state = "loop" /\ ~Expired
    /\ LET usable == possible \ skipped
           now == Closest(usable, Alpha)
           popped == now \cup {c \in possible \cap skipped :
                        Cardinality(usable) < Alpha \/ \E a \in now : D(c) < D(a)}
       IN  /\ possible' = possible \ popped
           /\ tried' = tried \cup now
           /\ asking' = [a \in DOMAIN asking \cup {c.addr : c \in now} |->
                 IF \E c \in now : c.addr = a
                 THEN CHOOSE c \in now : c.addr = a /\ \A d \in now : d.addr = a => D(d) <= D(c)
                 ELSE asking[a]]
           /\ mail' = mail \cup [op : {"find"}, to : now, n : {FindValue}, pass : {pass}]
    /\ state' = "recv"
    /\ UNCHANGED <<kind, pass, seeds, seedPos, responded, queried, reasked, strikes, idle, hard, outcome>>

AskKeyword == kind = "keyword" /\ AskClosest({})
AskSource == kind = "source" /\ AskClosest({c \in Contacts : c.old})
AskPublish == kind = "publish" /\ AskClosest({c \in Contacts : c.old})

SearchReq(addrs) == [op : {"search"}, to : {c \in Live : c.addr \in addrs}, n : {0}, pass : {pass}]

\* The endpoint a responder was queried at: tried[d].
EndpointOf(d) == (CHOOSE c \in tried : D(c) = d).addr

\* Responders that were not sent the search yet, the first ALPHA of them.
Pending == {EndpointOf(d) : d \in
               Range(FirstOf(SelectSeq(responded, LAMBDA d : EndpointOf(d) \notin queried), Alpha))}

\* A window without a datagram: search the late responders, re-ask the closest node for
\* more once, and after two such windows seed again or give up.
QuietWindow(late) ==
    /\ state = "recv"
    /\ LET more == ~reasked /\ Cardinality(tried) >= 3 * FindValue
       IN  /\ queried' = queried \cup late
           /\ reasked' = (reasked \/ more)
           /\ mail' = mail \cup SearchReq(late)
                 \cup (IF more THEN [op : {"find"}, to : Closest(tried, 1), n : {FindValueMore}, pass : {pass}] ELSE {})
    /\ idle' = idle + 1 /\ hard' = Least(hard + 1, Hard)
    /\ IF strikes = 0
       THEN strikes' = 1 /\ state' = "loop" /\ UNCHANGED <<seedPos, possible>>
       ELSE LET fresh == Fresh(pass, seeds, seedPos, Dists(tried \cup possible))
            IN  /\ possible' = possible \cup {seeds[i] : i \in fresh}
                /\ seedPos' = NextSeed(seeds, fresh)
                /\ IF fresh = {} /\ possible = {}
                   THEN WalkOver /\ UNCHANGED strikes
                   ELSE strikes' = 0 /\ state' = "loop"
    /\ UNCHANGED <<kind, pass, seeds, tried, asking, responded, outcome>>

QuietKeyword == kind = "keyword" /\ QuietWindow(Pending)
QuietSource == kind = "source" /\ QuietWindow(Pending)
QuietPublish == kind = "publish" /\ QuietWindow({})

\* A datagram of a node never queried, one that does not parse, an unexpected opcode.
Noise ==
    /\ state = "recv"
    /\ strikes' = 0
    /\ state' = "loop"
    /\ UNCHANGED <<kind, pass, seeds, seedPos, possible, tried, asking, responded, queried, reasked,
                   idle, hard, outcome, mail>>

Time ==
    /\ state \in {"loop", "recv", "collect"} /\ hard < Hard
    /\ idle' = Least(idle + 1, Idle)
    /\ hard' = hard + 1
    /\ UNCHANGED <<kind, pass, state, seeds, seedPos, possible, tried, asking, responded, queried, reasked,
                   strikes, outcome, mail>>

\* One contact of a RES: followed when it is new, strictly closer than the responder, and
\* (in the two searches) the first of its IP address; an address counts even when its
\* contact is not followed.
Follow(acc, from, c) ==
    IF D(c) \in Dists(tried \cup acc.take) \/ c.addr[1] \in acc.ips THEN acc
    ELSE [take |-> IF D(c) < D(from) THEN acc.take \cup {c} ELSE acc.take,
          ips |-> IF kind = "publish" THEN acc.ips ELSE acc.ips \cup {c.addr[1]}]

Followed(from, contacts) ==
    LET acc[k \in 0..Len(contacts)] ==
            IF k = 0 THEN [take |-> possible, ips |-> {from.addr[1]}]
            ELSE Follow(acc[k - 1], from, contacts[k])
    IN  acc[Len(contacts)].take

\* The search goes to a fresh responder at once.
ToSearchLater(a) == {}

ToSearch(a) == {a} \ queried

\* KADEMLIA2_RES of an queried endpoint.
Res(m) ==
    /\ state = "recv" /\ m \in mail /\ m.op = "find"
    /\ m.to \in Live /\ m.to.addr \in DOMAIN asking
    /\ LET from == asking[m.to.addr] IN
           /\ possible' = Followed(from, FirstOf(Knows[m.to], m.n))
           /\ responded' = IF D(from) \in Range(responded) THEN responded ELSE Append(responded, D(from))
    /\ idle' = 0 /\ strikes' = 0
    /\ state' = "loop"
    /\ UNCHANGED <<kind, pass, seeds, seedPos, tried, asking, reasked, hard, results, seen, targets, accepts>>

Searched(m) ==
    /\ queried' = queried \cup ToSearch(m.to.addr)
    /\ rewards' = rewards \cup {m.to.addr}
    /\ mail' = mail \cup SearchReq(ToSearch(m.to.addr))

KeywordRes(m) == kind = "keyword" /\ Res(m) /\ Searched(m)
SourceRes(m) == kind = "source" /\ Res(m) /\ Searched(m)
PublishWalkRes(m) == kind = "publish" /\ Res(m) /\ UNCHANGED <<queried, rewards, mail>>

\* A source whose IP is no unicast address is kept without one.
ParseSource(e) == [e EXCEPT !.addr = IF e.addr \in 1..223 THEN e.addr ELSE 0]

Full == Cardinality(DOMAIN results) >= MaxResults

\* A keyword keeps the first answer per file.
CollectFiles(items) ==
    /\ results' = FoldLeft(LAMBDA acc, e :
                    IF Cardinality(DOMAIN acc) >= MaxResults \/ e.id \in DOMAIN acc THEN acc
                    ELSE acc @@ (e.id :> e.addr),
                 results, items)
    /\ UNCHANGED seen

\* A source search keeps the last answer per source ID among the (ID, endpoint) pairs
\* not yet seen.
CollectSources(items) ==
    LET got == FoldLeft(LAMBDA acc, e :
                  IF Cardinality(DOMAIN acc.results) >= MaxResults \/ e \in acc.seen THEN acc
                  ELSE [results |-> (e.id :> e.addr) @@ acc.results, seen |-> acc.seen \cup {e}],
               [results |-> results, seen |-> seen],
               [i \in DOMAIN items |-> ParseSource(items[i])])
    IN  results' = got.results /\ seen' = got.seen

FromSearched(m) == m.op = "search" /\ m.to.addr \in DOMAIN asking

\* KADEMLIA2_SEARCH_RES during the walk.
SearchRes(m) ==
    /\ state = "recv"
    /\ LET d == D(asking[m.to.addr]) IN
          responded' = IF d \in Range(responded) THEN responded ELSE Append(responded, d)
    /\ rewards' = rewards \cup {m.to.addr}
    /\ state' = IF Full' THEN "settle" ELSE "loop"
    /\ strikes' = 0 /\ idle' = 0
    /\ UNCHANGED <<kind, pass, seeds, seedPos, possible, tried, asking, queried, reasked, hard,
                   targets, accepts, mail>>

KeywordResult(m) ==
    kind = "keyword" /\ FromSearched(m) /\ CollectFiles(Answers[m.to]) /\ SearchRes(m)
SourceResult(m) ==
    kind = "source" /\ FromSearched(m) /\ CollectSources(Answers[m.to]) /\ SearchRes(m)

\* In the re-ask pass.
LateRes(m) ==
    /\ state = "collect" /\ ~Full
    /\ idle' = 0
    /\ UNCHANGED <<kind, pass, state, seeds, seedPos, possible, tried, asking, responded, queried, reasked,
                   strikes, hard, rewards, targets, accepts, mail>>

LateKeywordResult(m) ==
    kind = "keyword" /\ FromSearched(m) /\ CollectFiles(Answers[m.to]) /\ LateRes(m)
LateSourceResult(m) ==
    kind = "source" /\ FromSearched(m) /\ CollectSources(Answers[m.to]) /\ LateRes(m)

\* The re-ask pass: the ALPHA best rewarded endpoints (which, is left open).
Settle ==
    /\ state = "settle"
    /\ IF rewards = {} \/ Full
       THEN state' = "done" /\ UNCHANGED <<mail, hard>>
       ELSE /\ \E top \in SUBSET rewards :
                  /\ Cardinality(top) = Least(Alpha, Cardinality(rewards))
                  /\ mail' = mail \cup SearchReq(top)
            /\ state' = "collect"
            /\ hard' = 0
    /\ UNCHANGED <<kind, pass, seeds, seedPos, possible, tried, asking, responded, queried, reasked,
                   strikes, idle, outcome>>

SettleKeyword == kind = "keyword" /\ Settle
SettleSource == kind = "source" /\ Settle

\* The nodes that answered, in the order of their first answer.
Responders == responded

Store ==
    /\ state = "settle" /\ kind = "publish"
    /\ targets' = [i \in 1..Least(NodeCount, Len(Responders)) |-> EndpointOf(Responders[i])]
    /\ mail' = mail \cup [op : {"store"}, to : {c \in Live : c.addr \in Range(targets')}, n : {0}, pass : {pass}]
    /\ accepts' = 0
    /\ state' = "collect"
    /\ hard' = 0
    /\ UNCHANGED <<kind, pass, seeds, seedPos, possible, tried, asking, responded, queried, reasked,
                   strikes, idle, results, seen, rewards>>

StoreKeyword == pass = 1 /\ Store
StoreSource == pass = 2 /\ Store

\* KADEMLIA2_PUBLISH_RES of a target: of this pass or a late one of the last, the first
\* or a repeated one.
PublishRes(m) ==
    /\ state = "collect" /\ kind = "publish" /\ accepts < NodeCount
    /\ m \in mail /\ m.op = "store" /\ m.to.addr \in Range(targets)
    /\ accepts' = accepts + 1
    /\ UNCHANGED <<kind, pass, state, seeds, seedPos, walk, results, seen, rewards, targets, mail>>

KeywordStored(m) == pass = 1 /\ PublishRes(m)
SourceStored(m) == pass = 2 /\ PublishRes(m)

CollectEnds ==
    /\ state = "collect"
    /\ hard >= Hard \/ Full \/ (kind = "publish" /\ (accepts >= NodeCount \/ targets = <<>>))
    /\ IF kind = "publish" /\ pass = 1
       THEN /\ \E order \in SeedOrders : StartWalk(2, order)
            /\ UNCHANGED <<kind, outcome, mail>>
       ELSE state' = "done" /\ UNCHANGED <<kind, pass, seeds, seedPos, walk, outcome, mail>>

AnswerArrives ==
    \E m \in mail :
        \/ KeywordRes(m) \/ SourceRes(m) \/ PublishWalkRes(m)
        \/ KeywordResult(m) \/ SourceResult(m) \/ LateKeywordResult(m) \/ LateSourceResult(m)
        \/ KeywordStored(m) \/ SourceStored(m)

LookupStep ==
    \/ WalkDeadline \/ AskKeyword \/ AskSource \/ AskPublish
    \/ QuietKeyword \/ QuietSource \/ QuietPublish \/ Noise \/ AnswerArrives
    \/ SettleKeyword \/ SettleSource \/ StoreKeyword \/ StoreSource \/ CollectEnds

LookupNext == LookupStep \/ Time

LookupSpec == LookupInit /\ [][LookupNext]_lookupVars

-----------------------------------------------------------------------------
\* However a search ends (search.py, source_search.py), every node that answered the walk
\* has been sent the search itself.
RespondersAsked ==
    state \in {"settle", "collect", "done"} /\ kind # "publish" =>
        \A i \in DOMAIN responded : EndpointOf(responded[i]) \in queried

\* A walk ends although repeated answers keep refreshing last_progress and stray
\* datagrams keep resetting the strikes.
LookupEnds == <>(state = "done")

=============================================================================
