------------------------------ MODULE MCScheduler ------------------------------
(***************************************************************************)
(* Scheduler for TLC: one user's container is down, and checking another's *)
(* raises.                                                                 *)
(***************************************************************************)
EXTENDS Scheduler

CONSTANTS alice, bob

TwoUsers == {alice, bob}
Broken == [u \in TwoUsers |-> IF u = alice THEN "raises" ELSE "down"]
=============================================================================
