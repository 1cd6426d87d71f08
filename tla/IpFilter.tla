------------------------------ MODULE IpFilter ------------------------------
(***************************************************************************)
(* The IP filter: update_ipfilter_from_url (core/ipfilter.py) run by the   *)
(* kernel's _ipfilter_autoupdate and by `ipfilter update`, the list they   *)
(* leave on disk, and ServerFilter.evaluate (core/server_filter.py), which *)
(* `search global --sweep` asks about every stored server.                 *)
(*                                                                         *)
(* A list is a sequence of lines [start, end, level]; an address is a      *)
(* number.  A file is written in two steps, its first half before the rest.*)
(* Loading keeps the lines as a set with their numbers: the order that the *)
(* code sorts them into is the one that IsFiltered searches in.            *)
(* The counters of ServerFilter have no caller: each command makes a new   *)
(* one, so that its blacklist is always empty.                             *)
(***************************************************************************)
EXTENDS Integers, Sequences

CONSTANTS
    Lists,          \* what the URL may serve at one time or another
    Servers,        \* addresses of the stored servers
    Threshold,      \* filter_level
    MaxFetches      \* bound on downloads

(* What _parse_line makes of a line: addresses and a level are numbers.    *)
RangeLine == [start : Nat, end : Nat, level : Int]

FilterAssumption == Lists \subseteq Seq(RangeLine) /\ Threshold \in Int

Blank == <<>>

Updaters == {"kernel", "command"}

VARIABLES
    updater,             \* per updater: "idle", "open", "half", "rest", "replace", "stamp"
    got,            \* per updater: the list it has downloaded
    written,         \* per updater: where the file it writes is now, "part", "dest" or "gone"
    part, dest,     \* the two files: <<first half of, rest of>> lists, Blank when there is none
    due,            \* the stamp is missing or older than the period
    admitted,       \* servers of the last sweep
    judged,         \* there was a list for that sweep
    fetches,        \* downloads so far
    mixed           \* history: both updaters were at work at the same time

files == <<written, part, dest>>
sweeps == <<admitted, judged>>
filterVars == <<updater, got, files, due, sweeps, fetches, mixed>>

FirstHalf(list) == SubSeq(list, 1, Len(list) \div 2)
Rest(list) == SubSeq(list, Len(list) \div 2 + 1, Len(list))

FilterInit ==
    /\ updater = [u \in Updaters |-> "idle"] /\ got = [u \in Updaters |-> Blank]
    /\ written = [u \in Updaters |-> "gone"] /\ part = Blank
    /\ dest \in {Blank} \cup {<<FirstHalf(l), Rest(l)>> : l \in Lists}
    /\ due \in BOOLEAN
    /\ admitted = {} /\ judged = FALSE /\ fetches = 0 /\ mixed = FALSE

-----------------------------------------------------------------------------
(* The updaters.                                                           *)

Goes(u, from, to) == updater[u] = from /\ updater' = [updater EXCEPT ![u] = to]

\* What cannot be fetched, is too long, is no gzip or has no range in it leaves everything
\* as it was.
Download(u) ==
    /\ fetches < MaxFetches /\ fetches' = fetches + 1
    /\ \E l \in Lists : got' = [got EXCEPT ![u] = l]
    /\ Goes(u, "idle", "open") \/ Goes(u, "idle", "idle")
    /\ mixed' = (mixed \/ \E v \in Updaters : updater'[v] # "idle" /\ updater'[u] # "idle" /\ v # u)
    /\ UNCHANGED <<files, due, sweeps>>

AutoUpdate == due /\ Download("kernel")

UpdateCommand == Download("command")

OpenInPlace(u) ==                           \* faulty: the list itself is overwritten
    /\ Goes(u, "open", "half")
    /\ dest' = <<Blank, Blank>>
    /\ written' = [written EXCEPT ![u] = "dest"]
    /\ UNCHANGED <<part, got, due, sweeps, fetches, mixed>>

\* open(dest + ".part", "wb") truncates what a crash, or another updater, left there.
Open(u) ==
    /\ Goes(u, "open", "half")
    /\ part' = <<Blank, Blank>>
    /\ written' = [written EXCEPT ![u] = "part"]
    /\ UNCHANGED <<dest, got, due, sweeps, fetches, mixed>>

\* The handle writes its own half wherever the file has been moved to.
Puts(u, i, lines) ==
    /\ part' = IF written[u] = "part" THEN [part EXCEPT ![i] = lines] ELSE part
    /\ dest' = IF written[u] = "dest" THEN [dest EXCEPT ![i] = lines] ELSE dest
    /\ UNCHANGED <<written, got, due, sweeps, fetches, mixed>>

Write(u) ==
    \/ Goes(u, "half", "rest") /\ Puts(u, 1, FirstHalf(got[u]))
    \/ Goes(u, "rest", "replace") /\ Puts(u, 2, Rest(got[u]))

\* os.replace moves whatever is at the path of the part file, and raises when nothing is.
Replace(u) ==
    /\ part # Blank /\ dest' = part /\ part' = Blank
    /\ Goes(u, "replace", IF u = "kernel" THEN "stamp" ELSE "idle")
    /\ written' = [v \in Updaters |-> IF v # u /\ written[v] = "part" THEN "dest" ELSE "gone"]
    /\ UNCHANGED <<got, due, sweeps, fetches, mixed>>

Stamp ==
    /\ Goes("kernel", "stamp", "idle")
    /\ due' = FALSE
    /\ UNCHANGED <<got, files, sweeps, fetches, mixed>>

\* The process ends, the disk is full or the part file is gone, between any two steps.
UpdaterCrash(u) ==
    /\ updater[u] # "idle" /\ Goes(u, updater[u], "idle")
    /\ written' = [written EXCEPT ![u] = "gone"]
    /\ UNCHANGED <<got, part, dest, due, sweeps, fetches, mixed>>

Period ==
    /\ ~due /\ due' = TRUE
    /\ UNCHANGED <<updater, got, files, sweeps, fetches, mixed>>

-----------------------------------------------------------------------------
(* The filter.                                                             *)

\* load_ipfilter_file: the ranges with their line numbers; a reversed one is skipped.
Load(lines) == {<<lines[i], i>> : i \in {j \in DOMAIN lines : lines[j].start <= lines[j].end}}

InRange(r, ip) == r[1].start <= ip /\ ip <= r[1].end

\* The order of IpFilter: by (start, end), and as in the file where these are the same.
Before(r, q) ==
    \/ r[1].start < q[1].start
    \/ r[1].start = q[1].start /\ r[1].end < q[1].end
    \/ r[1].start = q[1].start /\ r[1].end = q[1].end /\ r[2] < q[2]

\* The first range that contains the address decides, whatever the others say.
IsFiltered(ranges, ip) ==
    \E r \in ranges :
        /\ InRange(r, ip) /\ \A q \in ranges \ {r} : InRange(q, ip) => Before(r, q)
        /\ r[1].level >= Threshold

Evaluate(ranges, ip) == ~IsFiltered(ranges, ip)

\* _load_global_servers: without a file every server is admitted.
Sweep ==
    /\ judged' = (dest # Blank)
    /\ admitted' = {s \in Servers : dest = Blank \/ Evaluate(Load(dest[1] \o dest[2]), s)}
    /\ UNCHANGED <<updater, got, files, due, fetches, mixed>>

FilterNext ==
    \/ \E u \in Updaters : Open(u) \/ Write(u) \/ Replace(u) \/ UpdaterCrash(u)
    \/ AutoUpdate \/ UpdateCommand \/ Stamp \/ Period \/ Sweep

FilterSpec == FilterInit /\ [][FilterNext]_filterVars

-----------------------------------------------------------------------------
\* However updates were cut short, a sweep goes by one list in full: its servers are those
\* that this list, with every line of it, lets through (update_ipfilter_from_url:
\* "atomically replace *dest_path*").  Two updaters at once write the same part file, which
\* is exempt.
SweptByOneList ==
    judged /\ ~mixed => \E l \in Lists : admitted = {s \in Servers : Evaluate(Load(l), s)}
=============================================================================
