------------------------------ MODULE MCUpload ------------------------------
(***************************************************************************)
(* Upload with two clients that ask again, leave, end or fail; with three  *)
(* that neither leave the queue nor ask twice, strangers or two sessions   *)
(* of one user; and with three of which the first two may leave it.        *)
(***************************************************************************)
EXTENDS Upload, TLC

CONSTANTS s1, s2, s3, u1, u2, u3, f1, f2

PriorityDef == [f \in Files |-> IF f = f1 THEN 0 ELSE 1]

Strangers == s1 :> u1 @@ s2 :> u2 @@ s3 :> u3
Twins == s1 :> u1 @@ s2 :> u1 @@ s3 :> u2

Busy == [login |-> Strangers, present |-> {s1, s2}, patient |-> {},
         rerequests |-> TRUE, errors |-> TRUE]
Held(login) == [login |-> login, present |-> Sessions, patient |-> Sessions,
                rerequests |-> FALSE, errors |-> FALSE]
Leaving == [Held(Strangers) EXCEPT !.patient = {s3}]

Behind == {Leaving}
Various == {Busy, Held(Strangers), Held(Twins), Leaving}
=============================================================================
