--------------------------- MODULE MCDownloadRun ---------------------------
(* DownloadRun for TLC: which downloads.                                   *)
EXTENDS DownloadRun

\* Two parts, new or with a block in the middle, or one part with an AICH
\* master, and a user.
Attended ==
    [partLen : {2}, master : {FALSE}, throttled : {FALSE}, sources : {Peers},
     missing : {Units, Units \ {1}}, attended : {TRUE}, mortal : {FALSE}, steady : {FALSE}]
    \cup
    [partLen : {3}, master : BOOLEAN, throttled : {FALSE}, sources : {{1}, Peers},
     missing : {Units}, attended : {TRUE}, mortal : {FALSE}, steady : {FALSE}]

\* A single part, which is fetched in stripes, in a process that may be killed.
Striped ==
    [partLen : {3}, master : {FALSE}, throttled : {FALSE}, sources : {Peers},
     missing : {Units}, attended : {FALSE}, mortal : {TRUE}, steady : {FALSE}]

\* Behind the throttle in such a process: two parts begun with two peers, or one
\* part, new with one peer, whose file is verified before it is written.
Throttled ==
    {[partLen |-> S[3], master |-> FALSE, throttled |-> TRUE, sources |-> S[1],
      missing |-> S[2], attended |-> FALSE, mortal |-> TRUE, steady |-> FALSE] :
        S \in {<<Peers, Units \ {0}, 2>>, <<{2}, Units, 3>>}}

\* Nobody pauses it, nothing slows it down.
Undisturbed ==
    [partLen : {2, 3}, master : {TRUE}, throttled : {FALSE}, sources : {Peers},
     missing : {Units, Units \ {1}}, attended : {FALSE}, mortal : {FALSE}, steady : {TRUE}]

Various == Attended \cup Striped \cup Throttled \cup Undisturbed

\* Two parts, and a restart at any moment.
Mortal ==
    [partLen : {2}, master : {TRUE}, throttled : {FALSE}, sources : {Peers},
     missing : {Units}, attended : {FALSE}, mortal : {TRUE}, steady : {TRUE}]
=============================================================================
