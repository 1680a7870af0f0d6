--------------------------- MODULE MCSyncScheduler ---------------------------
(* The instance of SyncScheduler that TLC explores: every organization on the *)
(* same cadence.                                                              *)
EXTENDS SyncScheduler

CONSTANT Cadence

MCHours == [o \in Org |-> Cadence]
=============================================================================
