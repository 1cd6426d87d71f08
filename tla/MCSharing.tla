----------------------------- MODULE MCSharing ------------------------------
(***************************************************************************)
(* What is shared and who is served: the tables of shared files and the    *)
(* upload queue, which share no state.  A behaviour is about one of them.  *)
(***************************************************************************)
EXTENDS UploadQueue, SharedFiles, TLC

VARIABLE part           \* "files" or "queue"

SharingInit == part \in {"files", "queue"} /\ FilesInit /\ Init

SharingNext ==
    \/ part = "files" /\ FilesNext /\ UNCHANGED <<part, queueVars>>
    \/ part = "queue" /\ Next /\ UNCHANGED <<part, fileVars>>

SharingSpec == SharingInit /\ [][SharingNext]_<<part, fileVars, queueVars>>

\* Names of files, and contents, are as good as one another.
Symmetry == Permutations(Names) \cup Permutations(Contents)
=============================================================================
