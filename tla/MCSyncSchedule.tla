--------------------------- MODULE MCSyncSchedule ---------------------------
(* SyncSchedule for TLC: the bounds are small numbers in the configurations. *)
EXTENDS SyncSchedule
=============================================================================
