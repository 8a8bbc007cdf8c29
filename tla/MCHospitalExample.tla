-------------------------- MODULE MCHospitalExample --------------------------
(***************************************************************************)
(* The two sides of the hospital example's mission: the adapter with the   *)
(* lifecycle it starts, and the mission controller inside that lifecycle.  *)
(* Each takes the other as its surroundings, so a behaviour is one of one  *)
(* of them while the other stays in its initial state.                     *)
(***************************************************************************)
EXTENDS HospitalLifecycle, MissionController

VARIABLE side

example == <<side, vars, missionVars>>

ExampleInit == side \in {"adapter", "node"} /\ Init /\ MissionInit

\* The bound of the adapter's behaviours: one caller meets with errors.
Unhappy == {c \in Callers : \E w \in Workers : receipt[w][c] = "error"}
OneUnhappy == Cardinality(Unhappy) <= 1

ExampleNext == \/ side = "adapter" /\ Next /\ OneUnhappy' /\ UNCHANGED <<side, missionVars>>
               \/ side = "node" /\ MissionNext /\ UNCHANGED <<side, vars>>

ExampleSpec == ExampleInit /\ [][ExampleNext]_example
=============================================================================
