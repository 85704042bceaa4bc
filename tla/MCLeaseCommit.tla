---------------------------- MODULE MCLeaseCommit ----------------------------
(* Two devices whose clocks differ, for TLC. *)
EXTENDS LeaseCommit

CONSTANTS d1, d2

\* The clock of d2 is a tick ahead: it sees leases expire too early.
MCSkew == [d \in {d1, d2} |-> IF d = d2 THEN 1 ELSE 0]
==============================================================================
