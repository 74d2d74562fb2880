-------------------------- MODULE MCPlannerSystem --------------------------
(***************************************************************************)
(* PlannerSystem for TLC: an empty plan, and the way there and back, which *)
(* passes a place twice.                                                   *)
(***************************************************************************)
EXTENDS PlannerSystem

EmptyMessage == [polygons |-> {}, clusters |-> {}]

Trips == {<<>>, <<0, 1, 0>>}
============================================================================
