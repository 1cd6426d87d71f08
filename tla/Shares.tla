------------------------------- MODULE Shares -------------------------------
(* The result of _regions_from_gaps (core/download/runner.py) in closed    *)
(* form.                                                                   *)
EXTENDS Integers, FiniteSets, FiniteSetsExt

(* The offset of S below which k offsets of S lie.                         *)
Nth(S, k) == CHOOSE o \in S : Cardinality({q \in S : q < o}) = k

(* The number of offsets in each of n equal shares of c.                   *)
ShareSize(c, n) == (c + n - 1) \div n

(* The offsets of the i-th of n regions: the missing offsets S in shares   *)
(* of equal size, each share extended to the start of the next.            *)
Share(S, n, i) ==
    LET size == ShareSize(Cardinality(S), n)
    IN  IF (i - 1) * size >= Cardinality(S) THEN {}
        ELSE Nth(S, (i - 1) * size) ..
             (IF i * size < Cardinality(S) THEN Nth(S, i * size) - 1 ELSE Max(S))
=============================================================================
