---------------------------- MODULE PlanFollowing ----------------------------
(***************************************************************************)
(* What the homotopy class planner promises whoever follows its plans:     *)
(* the plan being followed stays a candidate until a collision check       *)
(* rejects it or everything is dropped, whatever exploration does to the   *)
(* alternatives; while it is a candidate it is given up only at the end of *)
(* a planning cycle, and only after the blocking period since that was     *)
(* done last.                                                              *)
(***************************************************************************)
EXTENDS Integers

CONSTANTS
  Tebs,         \* identities of plans
  None,         \* no plan
  BlockPeriod   \* cycles that must pass before the plan is given up again

VARIABLES
  cands,        \* the candidate plans
  chosen,       \* the plan being followed, which may be a candidate no more
  wait,         \* cycles since a candidate was given up, saturating
  phase         \* "rest", "plan" during a planning cycle, "check" during a check

vars == <<cands, chosen, wait, phase>>

Init == cands = {} /\ chosen = None /\ wait = BlockPeriod + 1 /\ phase = "rest"

(* A planning cycle begins, perhaps from nothing (a new goal). *)
NewCycle ==
  /\ phase = "rest" /\ phase' = "plan"
  /\ cands' \in {cands, {}}
  /\ wait' = IF wait > BlockPeriod THEN wait ELSE wait + 1
  /\ UNCHANGED chosen

(* Alternatives come and go, the chosen plan does not. *)
Explore ==
  /\ phase = "plan"
  /\ cands' \subseteq Tebs
  /\ chosen \in cands <=> chosen \in cands'
  /\ UNCHANGED <<chosen, wait, phase>>

Choose ==
  /\ phase = "plan" /\ phase' = "rest"
  /\ chosen' \in cands \cup {None}
  /\ IF chosen \notin cands \/ chosen' = chosen THEN UNCHANGED wait
     ELSE wait > BlockPeriod /\ wait' = 0
  /\ UNCHANGED cands

(* The collision check of the chosen plan: it ends with the plan as it is, *)
(* rejects it, or replaces one that was rejected.                          *)
BeginCheck ==
  /\ phase = "rest" /\ phase' = "check"
  /\ UNCHANGED <<cands, chosen, wait>>

Reject ==
  /\ phase = "check" /\ phase' \in {"check", "rest"}
  /\ chosen \in cands
  /\ cands' = cands \ {chosen}
  /\ UNCHANGED <<chosen, wait>>

Replace ==
  /\ phase = "check" /\ phase' \in {"check", "rest"}
  /\ chosen \notin cands
  /\ chosen' \in cands \cup {None}
  /\ UNCHANGED <<cands, wait>>

EndCheck ==
  /\ phase = "check" /\ phase' = "rest"
  /\ UNCHANGED <<cands, chosen, wait>>

Clear ==
  /\ phase = "rest"
  /\ cands' = {}
  /\ UNCHANGED <<chosen, wait, phase>>

Next ==
  \/ NewCycle \/ Explore \/ Choose
  \/ BeginCheck \/ Reject \/ Replace \/ EndCheck
  \/ Clear

Spec == Init /\ [][Next]_vars
=============================================================================
