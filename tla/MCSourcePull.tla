---------------------------- MODULE MCSourcePull ----------------------------
(* The instances of SourcePull that TLC explores: what the first books say.   *)
EXTENDS SourcePull

\* Document 2 is one normalize_invoice refuses, and so is read by every run.
MCOneRefused == [d \in 1..Docs |-> IF d = 2 THEN {} ELSE {1}]

MCAllSold == [d \in 1..Docs |-> {1}]
=============================================================================
