-------------------------- MODULE MCSchedulerLease --------------------------
(***************************************************************************)
(* Instances of SchedulerLease for TLC.  A unit of time is a third of the  *)
(* key's life, 30 s; MaxStall lets a process oversleep the key by a unit.  *)
(***************************************************************************)
EXTENDS SchedulerLease

CONSTANTS p1, p2, p3
=============================================================================
