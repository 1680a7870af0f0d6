----------------------------- MODULE MCSyncJobs -----------------------------
(* The instances of SyncJobs that TLC explores: starters spread over processes. *)
EXTENDS SyncJobs

CONSTANTS p1, p2, s1, s2

MCHomeOf == [s \in Starter |-> IF s = s2 THEN p2 ELSE p1]
=============================================================================
