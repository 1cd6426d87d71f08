------------------------------- MODULE MCNatt -------------------------------
(* The source writes two chunks, the downloader only closes.               *)
EXTENDS Natt

MCChunks == [e \in Sides |-> IF e = "src" THEN 2 ELSE 0]

ASSUME Unwrapped == NumbersSuffice
=============================================================================
