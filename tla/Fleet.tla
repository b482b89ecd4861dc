-------------------------------- MODULE Fleet --------------------------------
(***************************************************************************)
(* What the operator promises of the machines it pays for, without a word  *)
(* about passes, rules, snapshots and calls.  A machine has credentials    *)
(* before it runs and as long as it runs, and the machines that run at     *)
(* the same time stay under a maximum.  Controller implements it.          *)
(***************************************************************************)
EXTENDS Integers, FiniteSets

CONSTANTS Machines,     \* names a machine may have
          Max           \* how many may run at once, 0 for any number

VARIABLES held,         \* machines whose credentials the hub holds
          running       \* machines that exist in a cloud, and cost money

fleet == <<held, running>>

FleetInit == held = {} /\ running = {}

Reserve(n) ==
  /\ n \notin held \cup running
  /\ held' = held \cup {n}
  /\ UNCHANGED running

RentMachine(n) ==
  /\ n \in held \ running
  /\ Max > 0 => Cardinality(running) < Max
  /\ running' = running \cup {n}
  /\ UNCHANGED held

\* The operator releases it, or it is lost.
Leave(n) ==
  /\ n \in running
  /\ running' = running \ {n}
  /\ UNCHANGED held

Forget(n) ==
  /\ n \in held \ running
  /\ held' = held \ {n}
  /\ UNCHANGED running

FleetNext == \E n \in Machines : Reserve(n) \/ RentMachine(n) \/ Leave(n) \/ Forget(n)

FleetSpec == FleetInit /\ [][FleetNext]_fleet
=============================================================================
