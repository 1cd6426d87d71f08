---------------------------- MODULE PartFileAbs ----------------------------
(***************************************************************************)
(* What a part file promises, with no gap lists: a set of byte offsets     *)
(* that still have to be downloaded, the copy of that set that was made    *)
(* durable last, and the offsets whose bytes are in the data file.         *)
(* PartFile is shown to implement this specification.                      *)
(***************************************************************************)
EXTENDS Integers

CONSTANT TotalSize      \* size of the file in bytes

VARIABLES
    missing,            \* offsets not downloaded, as the open part file knows them
    durable,            \* the same set as a restart would read it back
    held                \* offsets that hold received bytes

vars == <<missing, durable, held>>

Offsets == 0 .. TotalSize - 1

TypeOK == missing \subseteq Offsets /\ durable \subseteq Offsets /\ held \subseteq Offsets

Init == missing = Offsets /\ durable = Offsets /\ held = {}

(* A received range is in the data file before it stops being missing.     *)
Fill(from, to) ==
    /\ missing' = missing \ (from .. to - 1)
    /\ held' = held \cup (from .. to - 1)
    /\ UNCHANGED durable

(* A corrupt range becomes missing again.                                  *)
Reopen(from, to) ==
    /\ missing' = missing \cup (from .. to - 1)
    /\ UNCHANGED <<durable, held>>

Checkpoint == durable' = missing /\ UNCHANGED <<missing, held>>

(* A restart goes back exactly to the durable set.                         *)
Restart == missing' = durable /\ UNCHANGED <<durable, held>>

(* A new part file for the same path forgets all earlier progress, and may *)
(* throw the data away.                                                    *)
Recreate == missing' = Offsets /\ durable' = Offsets /\ held' \in {held, {}}

Next ==
    \/ \E from \in Offsets : \E to \in from + 1 .. TotalSize :
            Fill(from, to) \/ Reopen(from, to)
    \/ Checkpoint \/ Restart \/ Recreate

Spec == Init /\ [][Next]_vars

(* Nothing counts as downloaded, now or after a restart, that is not in    *)
(* the data file.                                                          *)
NoPhantomBytes == Offsets \ (missing \cap durable) \subseteq held
=============================================================================
