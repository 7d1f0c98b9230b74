------------------------------- MODULE Clock --------------------------------
(***************************************************************************)
(* Date.now() of the risk engine, shared by the components that read it.    *)
(* Time is counted in the unit in which an instance gives its limits.       *)
(***************************************************************************)
EXTENDS Integers

CONSTANT MaxTime     \* the clock of an instance stops here (a bound)

ASSUME ClockAssumption == MaxTime \in Nat

VARIABLE now

Pass == now < MaxTime /\ now' = now + 1
=============================================================================
