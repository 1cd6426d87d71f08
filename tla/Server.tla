------------------------------- MODULE Server -------------------------------
(***************************************************************************)
(* ED2K servers: the TCP session of core/ed2k/server_client.py, the        *)
(* autoconnect of core/ed2k/server_session.py, the searches of cli.py and  *)
(* the table server_blacklist of state.py.                                 *)
(*                                                                         *)
(* The database has one owner at a time: the kernel, or a command when no  *)
(* kernel runs.  Each of them has at most one session.                     *)
(***************************************************************************)
EXTENDS Integers, Sequences, FiniteSets, SequencesExt

CONSTANTS
    Order,          \* the servers, static ones first, then by priority
    Good,           \* servers that accept whoever connects
    Threshold,      \* failures that blacklist a server
    MaxRuns         \* commands and kernels that are run

Servers == Range(Order)

(* A server is stored once: the table's key is its address.                *)
ASSUME ServerAssumption ==
    /\ Order \in Seq(Servers) /\ Order # <<>>
    /\ \A i, j \in DOMAIN Order : Order[i] = Order[j] => i = j
    /\ Threshold \in Nat \ {0} /\ MaxRuns \in Nat

VARIABLES
    rows,           \* server_blacklist: failures, and the end of the cooldown
    owner,          \* "nobody", "kernel", "search", "sources"
    runs,           \* commands and kernels so far
    pc,             \* where the owner is
    pos,            \* ServerSessionManager._pos
    todo,           \* candidates of this pass, with their place in the list
    link,           \* the session: server, open, logged in, framed
    connected,      \* ServerSessionManager._connected
    found           \* the search has received results

serverVars == <<rows, owner, runs, pc, pos, todo, link, connected, found>>

NoRow == [n |-> 0, until |-> "none"]
NoLink == [to |-> Order[1], open |-> FALSE, logged |-> FALSE, framed |-> TRUE]

ServerTypeOK ==
    /\ rows \in [Servers -> [n : 0..Threshold, until : {"none", "future", "past"}]]
    /\ owner \in {"nobody", "kernel", "search", "sources"}
    /\ pos \in 0..(Len(Order) - 1)

ServerInit ==
    /\ rows = [s \in Servers |-> NoRow]
    /\ owner = "nobody" /\ runs = 0 /\ pc = "off"
    /\ pos = 0 /\ todo = <<>>
    /\ link = NoLink
    /\ connected = FALSE /\ found = FALSE

-----------------------------------------------------------------------------
(* The blacklist.                                                          *)

(* The row after record_server_failure.                                    *)
Failed(row) ==
    LET n == CASE row.until = "future" -> row.n
               [] row.until = "past"   -> 1
               [] OTHER                -> row.n + 1
    IN  [n |-> n, until |-> IF n >= Threshold THEN "future" ELSE row.until]

RecordFailure(s) == rows' = [rows EXCEPT ![s] = Failed(@)]
RecordSuccess(s) == rows' = [rows EXCEPT ![s] = NoRow]
NoRecord == UNCHANGED rows

Blacklisted(s) == rows[s].until = "future"

(* Time passes the end of a cooldown.                                      *)
Expire(s) ==
    /\ Blacklisted(s)
    /\ rows' = [rows EXCEPT ![s].until = "past"]
    /\ UNCHANGED <<owner, runs, pc, pos, todo, link, connected, found>>

(* servers forgive.                                                        *)
Forgive(s) ==
    /\ owner = "nobody"
    /\ rows[s] # NoRow
    /\ RecordSuccess(s)
    /\ UNCHANGED <<owner, runs, pc, pos, todo, link, connected, found>>

-----------------------------------------------------------------------------
(* The session.                                                            *)

(* The session after close().                                              *)
Closed(l) == [l EXCEPT !.open = FALSE, !.logged = FALSE]

(* connect(): refused or too late, or open.                                *)
Connects(s) ==
    {[NoLink EXCEPT !.to = s, !.open = TRUE]} \cup
    (IF s \in Good THEN {} ELSE {[NoLink EXCEPT !.to = s]})

(* What _receive_packet comes back with, and the session after it.  A      *)
(* timeout between the header and the payload of a packet loses the header *)
(* when the session is kept; from then on payload is read as headers.      *)
Receive(l, keep, kinds) ==
    (IF l.framed THEN {[got |-> k, then |-> l] : k \in kinds}
     ELSE {[got |-> "other", then |-> l]})
    \cup {[got |-> "late", then |-> IF keep THEN l ELSE Closed(l)]}
    \cup {[got |-> "late",
           then |-> IF keep THEN [l EXCEPT !.framed = FALSE] ELSE Closed(l)]}
    \cup {[got |-> "eof", then |-> Closed(l)], [got |-> "reset", then |-> Closed(l)]}
    \cup {[got |-> "malformed", then |-> l], [got |-> "malformed", then |-> Closed(l)]}

Broken == {"eof", "reset", "malformed"}

(* What login() comes to.                                                  *)
Logins(l) ==
    IF l.to \in Good THEN {[got |-> "idchange", then |-> l]}
    ELSE Receive(l, FALSE, {"aux", "idchange", "reject", "other"})

-----------------------------------------------------------------------------
(* ServerSessionManager.                                                   *)

Start(who) ==
    /\ owner = "nobody" /\ runs < MaxRuns
    /\ owner' = who
    /\ runs' = runs + 1

StartKernel ==
    /\ Start("kernel")
    /\ pc' = "build" /\ pos' = 0
    /\ UNCHANGED <<rows, todo, link, connected, found>>

CandidatesAll == Order                       \* faulty: the blacklist is not consulted

(* _build_candidates without the blacklisted: the first of those that are  *)
(* left in the order, the second, and so on.                               *)
Candidates ==
    LET left == {i \in DOMAIN Order : ~Blacklisted(Order[i])}
        Nth(n) == CHOOSE i \in left : Cardinality({j \in left : j <= i}) = n
    IN  [n \in 1..Cardinality(left) |-> Order[Nth(n)]]

(* One pass: the candidates from the persistent position on, each with the *)
(* place pos takes when it is tried.                                       *)
Rotated ==
    LET num == Len(Candidates)
    IN  [i \in 1..num |-> <<Candidates[((pos + i - 1) % num) + 1], (pos + i - 1) % num>>]

Build ==
    /\ owner = "kernel" /\ pc = "build"
    /\ IF Candidates = <<>> THEN pc' = "wait" /\ UNCHANGED todo
       ELSE pc' = "dial" /\ todo' = Rotated
    /\ UNCHANGED <<rows, owner, runs, pos, link, connected, found>>

GiveUpPass == todo' = <<>> /\ pc' = "wait"   \* faulty: one failure ends the pass

(* A candidate did not work out; after the last one the pass is over.      *)
GiveUp ==
    /\ todo' = Tail(todo)
    /\ pc' = IF Len(todo) = 1 THEN "wait" ELSE "dial"

Dial ==
    /\ owner = "kernel" /\ pc = "dial"
    /\ pos' = Head(todo)[2]
    /\ \E l \in Connects(Head(todo)[1]) :
          /\ link' = l
          /\ IF l.open THEN pc' = "login" /\ NoRecord /\ UNCHANGED todo
             ELSE RecordFailure(l.to) /\ GiveUp
    /\ UNCHANGED <<owner, runs, connected, found>>

(* login() of the manager.  Whatever ends it without an ID is recorded as  *)
(* a failure.                                                              *)
Login ==
    /\ owner = "kernel" /\ pc = "login"
    /\ \E r \in Logins(link) :
          CASE r.got = "idchange" ->
                 /\ link' = [r.then EXCEPT !.logged = TRUE]
                 /\ RecordSuccess(link.to)
                 /\ pc' = "hold" /\ connected' = TRUE /\ UNCHANGED todo
            [] r.got \in {"aux", "other"} ->
                 /\ link' = r.then
                 /\ NoRecord /\ UNCHANGED <<pc, connected, todo>>
            [] OTHER ->
                 /\ link' = Closed(r.then)
                 /\ RecordFailure(link.to) /\ GiveUp /\ UNCHANGED connected
    /\ UNCHANGED <<owner, runs, pos, found>>

(* _hold_session.                                                          *)
Hold ==
    /\ owner = "kernel" /\ pc = "hold"
    /\ \E r \in Receive(link, TRUE, {"aux", "other"}) :
          IF r.got \in Broken
          THEN /\ link' = Closed(r.then) /\ connected' = FALSE
               /\ pc' = "wait" /\ todo' = <<>>
          ELSE link' = r.then /\ UNCHANGED <<connected, pc, todo>>
    /\ UNCHANGED <<rows, owner, runs, pos, found>>

Retry ==
    /\ owner = "kernel" /\ pc = "wait"
    /\ pc' = "build"
    /\ UNCHANGED <<rows, owner, runs, pos, todo, link, connected, found>>

(* The kernel stops and cancels the manager wherever it is.                *)
StopKernel ==
    /\ owner = "kernel"
    /\ owner' = "nobody" /\ pc' = "off"
    /\ todo' = <<>> /\ link' = NoLink /\ connected' = FALSE
    /\ UNCHANGED <<rows, runs, pos, found>>

-----------------------------------------------------------------------------
(* search server and sources of the command line.                          *)

Release == owner' = "nobody" /\ pc' = "off" /\ link' = NoLink

(* A command on a blacklisted server ends here.                            *)
Command(who, s) ==
    /\ who \in {"search", "sources"}
    /\ Start(who)
    /\ ~Blacklisted(s)
    /\ pc' = "connect" /\ link' = [NoLink EXCEPT !.to = s] /\ found' = FALSE
    /\ UNCHANGED <<rows, pos, todo, connected>>

(* The finally of _run_ed2k_search: silence counts as a failure.           *)
EndSearch ==
    /\ IF owner = "search" /\ ~found THEN RecordFailure(link.to) ELSE NoRecord
    /\ Release

CommandConnects ==
    /\ pc = "connect"
    /\ \E l \in Connects(link.to) :
          IF l.open THEN link' = l /\ pc' = "enter" /\ NoRecord /\ UNCHANGED owner
          ELSE EndSearch
    /\ UNCHANGED <<runs, pos, todo, connected, found>>

(* A search records the login as a success.                                *)
CommandLogsIn ==
    /\ pc = "enter"
    /\ \E r \in Logins(link) :
          CASE r.got = "idchange" ->
                 /\ link' = [r.then EXCEPT !.logged = TRUE]
                 /\ IF owner = "search" THEN RecordSuccess(link.to) ELSE NoRecord
                 /\ pc' = "answers" /\ UNCHANGED owner
            [] r.got \in {"aux", "other"} ->
                 link' = r.then /\ NoRecord /\ UNCHANGED <<pc, owner>>
            [] OTHER -> EndSearch
    /\ UNCHANGED <<runs, pos, todo, connected, found>>

(* search(): results are gathered until the window closes or the server    *)
(* hangs up; after any other error they are lost.                          *)
Gather ==
    /\ owner = "search" /\ pc = "answers"
    /\ \E r \in Receive(link, TRUE, {"aux", "result", "reject", "other"}) :
          CASE r.got = "result" ->
                 /\ found' = TRUE /\ link' = r.then
                 /\ NoRecord /\ UNCHANGED <<owner, pc>>
            [] r.got \in {"aux", "other", "late"} ->
                 link' = r.then /\ NoRecord /\ UNCHANGED <<owner, pc, found>>
            [] r.got = "eof" -> EndSearch /\ UNCHANGED found
            [] OTHER ->
                 found' = FALSE /\ RecordFailure(link.to) /\ Release
    /\ UNCHANGED <<runs, pos, todo, connected>>

WindowCloses ==
    /\ owner = "search" /\ pc = "answers"
    /\ EndSearch
    /\ UNCHANGED <<runs, pos, todo, connected, found>>

(* get_sources(): the first answer, or none in time.                       *)
GetSources ==
    /\ owner = "sources" /\ pc = "answers"
    /\ \E r \in Receive(link, TRUE, {"aux", "result", "reject", "other"}) :
          IF r.got \in {"aux", "other"}
          THEN link' = r.then /\ UNCHANGED <<owner, pc>>
          ELSE Release
    /\ UNCHANGED <<rows, runs, pos, todo, connected, found>>

Manager == Build \/ Dial \/ Login \/ Hold \/ Retry

ServerNext ==
    \/ \E s \in Servers : Expire(s) \/ Forgive(s)
    \/ StartKernel \/ Manager \/ StopKernel
    \/ \E who \in {"search", "sources"}, s \in Servers : Command(who, s)
    \/ CommandConnects \/ CommandLogsIn \/ Gather \/ WindowCloses \/ GetSources

ServerSpec == ServerInit /\ [][ServerNext]_serverVars

(* login() is cut by its timeout, so a server cannot talk for ever.        *)
LoginEnds == Login /\ pc' # "login"

ServerFairness ==
    /\ WF_serverVars(Build) /\ WF_serverVars(Dial) /\ WF_serverVars(Retry)
    /\ WF_serverVars(LoginEnds)

FairServerSpec == ServerSpec /\ ServerFairness

-----------------------------------------------------------------------------
(* Nobody connects to a server during its cooldown, though the list of     *)
(* candidates is older than the failures of the pass (server_session.py:   *)
(* 225-267, cli.py:544-559).                                               *)
NoDialInCooldown ==
    [][\A s \in Servers :
          (~link.open /\ link'.open /\ link'.to = s) => ~Blacklisted(s)]_serverVars

(* Autoconnect gets to a server that accepts, however the others fail and  *)
(* however the list it rotates shrinks and grows meanwhile                 *)
(* (server_session.py:403-451).                                            *)
ReachesGood ==
    (owner = "kernel" /\ Good # {}) ~> (connected \/ owner # "kernel")

=============================================================================
