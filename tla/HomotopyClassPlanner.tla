------------------------ MODULE HomotopyClassPlanner ------------------------
(***************************************************************************)
(* The homotopy class planner (src/homotopy_class_planner.cpp): it keeps   *)
(* one timed elastic band (a "teb") per homotopy class of trajectories,    *)
(* renews and extends that set in every control cycle, optimizes every     *)
(* band and selects the one that drives the robot.                         *)
(*                                                                         *)
(* A call of plan() is a walk of pc through "renew", "analyze", "detours", *)
(* "drop", "initial", "graph", "viapoints", "optimize" and "select"; each  *)
(* iteration of a loop of the code is a step.  The optimizer threads of    *)
(* optimizeAllTEBs() end in any order.  isTrajectoryFeasible() is the loop *)
(* "find" / "judge".  What geometry decides is chosen with \E: the         *)
(* H-signature of a trajectory, whether it detours, whether it collides,   *)
(* the outcome and the cost of an optimization.                            *)
(***************************************************************************)
EXTENDS Integers, FiniteSets, SequencesExt

CONSTANTS
  Tebs,           \* identities of TebOptimalPlanner objects
  None,           \* the null pointer
  Classes,        \* values of EquivalenceClass (H-signatures)
  Invalid,        \* those with a nan or inf component (isValid() is false)
  Equal,          \* pairs related by EquivalenceClass::isEqual()
  Costs,          \* finite trajectory costs
  Inf,            \* HUGE_VAL, the cost of a band never optimized
  MaxClasses,     \* hcp.max_number_classes
  PlansPerClass,  \* outcomes of the read of hcp.max_number_plans_in_current_class
  Hysteresis,     \* hcp.selection_cost_hysteresis, in percent
  PreferInitial,  \* hcp.selection_prefer_initial_plan, in percent
  BlockPeriod,    \* hcp.switching_blocking_period, in control cycles
  ViaAll,         \* hcp.viapoints_all_candidates
  PlanModes       \* TRUE: plan(initial_plan), FALSE: plan(start, goal)

ASSUME ConstantsOK ==
  /\ None \notin Tebs \cup Classes
  /\ Invalid \subseteq Classes
  /\ Equal \subseteq Classes \X Classes
  /\ Costs \subseteq Nat /\ Inf \notin Nat
  /\ MaxClasses \in Nat \ {0}
  /\ PlansPerClass \subseteq Int
  /\ Hysteresis \in Nat /\ PreferInitial \in Nat /\ BlockPeriod \in Nat
  /\ ViaAll \in BOOLEAN
  /\ PlanModes \subseteq BOOLEAN

VARIABLES
  tebs,           \* tebs_: the candidates, a sequence of Tebs
  eqs,            \* equivalence_classes_: their classes and lock flags
  best,           \* best_teb_
  lastBest,       \* last_best_teb_
  initTeb,        \* initial_plan_teb_
  bestEq,         \* best_teb_eq_class_
  initEq,         \* initial_plan_eq_class_
  given,          \* the class of this call's initial plan, and was there room
                  \* for a band, until via-points are assigned (a history)
  band,           \* the data of each TebOptimalPlanner
  hasPlan,        \* initial_plan_ is set
  plansPerClass,  \* hcp.max_number_plans_in_current_class
  since,          \* cycles since last_eq_class_switching_time_, saturating
  pc,             \* where the control is
  it,             \* the loop's iterator into tebs (and eqs)
  todo            \* bands whose optimizer thread has not ended

lists  == <<tebs, eqs>>
picks  == <<best, lastBest, initTeb>>
eqRefs == <<bestEq, initEq, given>>
vars   == <<tebs, eqs, best, lastBest, initTeb, bestEq, initEq, given,
            band, hasPlan, plansPerClass, since, pc, it, todo>>

(* An element of equivalence_classes_, and the part of a TebOptimalPlanner *)
(* the homotopy class planner looks at: cost_, optimized_, via_points_ (is *)
(* it set) and, as a history, the class its trajectory was given last.     *)
Entry == [cls : Classes, lock : BOOLEAN]

BandData ==
  [cost : Costs \cup {Inf}, optimized : BOOLEAN, via : BOOLEAN,
   cls : Classes \cup {None}]

NotGiven == [cls |-> None, room |-> FALSE]

NewBand == [cost |-> Inf, optimized |-> FALSE, via |-> FALSE, cls |-> None]

(* Bands some shared pointer still holds; a new band is none of them, and  *)
(* which of the others it is does not matter.                              *)
Listed == ToSet(tebs)
Held   == Listed \cup {best, lastBest, initTeb}
Fresh  == Tebs \ Held
NewTeb == CHOOSE t \in Fresh : TRUE

SizesMatch == Len(eqs) = Len(tebs)

Goto(next) == pc' = next /\ it' = 1

-----------------------------------------------------------------------------
(* Equivalence classes.                                                    *)

IsEqual(c, d) == <<c, d>> \in Equal

HasEquivalenceClass(c) == \E i \in DOMAIN eqs : IsEqual(c, eqs[i].cls)

IsInBestTebClass(c) == bestEq # None /\ IsEqual(bestEq, c)

InBestClass == {i \in DOMAIN eqs : IsInBestTebClass(eqs[i].cls)}

NumTebsInBestTebClass == Cardinality(InBestClass)

(* entries that were a class of the list already when they were added *)
Repeated ==
  {j \in DOMAIN eqs : \E i \in DOMAIN eqs : i < j /\ IsEqual(eqs[j].cls, eqs[i].cls)}

(* Faults: the class of the best band is not compared; one band too many.  *)
IsNewInAnyClass(c) ==
  c \notin Invalid /\ (HasEquivalenceClass(c) => NumTebsInBestTebClass < plansPerClass)

IsNewOneTooMany(c) ==
  /\ c \notin Invalid
  /\ HasEquivalenceClass(c) =>
       IsInBestTebClass(c) /\ NumTebsInBestTebClass <= plansPerClass

(* addEquivalenceClassIfNew(): what makes it push the class and return true *)
IsNew(c) ==
  /\ c \notin Invalid
  /\ HasEquivalenceClass(c) =>
       IsInBestTebClass(c) /\ NumTebsInBestTebClass < plansPerClass

Push(c, lock) == Append(eqs, [cls |-> c, lock |-> lock])

-----------------------------------------------------------------------------
(* plan(): updateAllTEBs().                                                *)

Init ==
  /\ tebs = <<>> /\ eqs = <<>>
  /\ best = None /\ lastBest = None /\ initTeb = None
  /\ bestEq = None /\ initEq = None /\ given = NotGiven
  /\ band = [t \in Tebs |-> NewBand]
  /\ hasPlan = FALSE
  /\ plansPerClass \in PlansPerClass
  /\ since = BlockPeriod + 1
  /\ pc = "idle" /\ it = 1 /\ todo = {}

(* Fault: a new call forgets the class of the last initial plan. *)
PlanForgetsInitialClass(withPlan, reinit) ==
  /\ pc = "idle"
  /\ hasPlan' = withPlan
  /\ IF reinit THEN tebs' = <<>> /\ eqs' = <<>> ELSE UNCHANGED lists
  /\ initEq' = None
  /\ Goto("renew")
  /\ UNCHANGED <<picks, bestEq, given, band, plansPerClass, since, todo>>

(* A goal too far from the old one drops every band.  Objects no pointer   *)
(* holds are destroyed here, which leaves their identity for a new band.   *)
Plan(withPlan, reinit) ==
  /\ pc = "idle"
  /\ hasPlan' = withPlan
  /\ IF reinit THEN tebs' = <<>> /\ eqs' = <<>> ELSE UNCHANGED lists
  /\ band' = [t \in Tebs |->
       IF t \in Held THEN [band[t] EXCEPT !.cls = None] ELSE NewBand]
  /\ since' = IF since > BlockPeriod THEN since ELSE since + 1
  /\ Goto("renew")
  /\ UNCHANGED <<picks, eqRefs, plansPerClass, todo>>

-----------------------------------------------------------------------------
(* exploreEquivalenceClassesAndInitTebs(): renewAndAnalyzeOldTebs().       *)

(* Fault: the old signatures are cleared only when there is a best band. *)
RenewBestKeepsClasses(c) ==
  /\ pc = "renew"
  /\ pc' = "analyze"
  /\ IF best \in Listed
       THEN /\ \E k \in DOMAIN tebs :
                 /\ tebs[k] = best
                 /\ tebs' = [tebs EXCEPT ![1] = tebs[k], ![k] = tebs[1]]
            /\ bestEq' = c
            /\ eqs' = IF c \in Invalid THEN <<>> ELSE <<[cls |-> c, lock |-> FALSE]>>
            /\ it' = 2
       ELSE it' = 1 /\ UNCHANGED <<lists, bestEq>>
  /\ UNCHANGED <<picks, initEq, given, band, hasPlan, plansPerClass, since, todo>>

(* The old signatures go; the best band comes first, and it stays whatever *)
(* addEquivalenceClassIfNew() returns for it.                              *)
RenewBest(c) ==
  /\ pc = "renew"
  /\ pc' = "analyze"
  /\ IF best \in Listed
       THEN /\ \E k \in DOMAIN tebs :
                 /\ tebs[k] = best
                 /\ tebs' = [tebs EXCEPT ![1] = tebs[k], ![k] = tebs[1]]
            /\ bestEq' = c
            /\ eqs' = IF c \in Invalid THEN <<>> ELSE <<[cls |-> c, lock |-> FALSE]>>
            /\ band' = [band EXCEPT ![best].cls = c]
            /\ it' = 2
       ELSE /\ eqs' = <<>> /\ it' = 1
            /\ UNCHANGED <<tebs, bestEq, band>>
  /\ UNCHANGED <<picks, initEq, given, hasPlan, plansPerClass, since, todo>>

AnalyzeTeb(c) ==
  /\ pc = "analyze"
  /\ it <= Len(tebs)
  /\ band' = [band EXCEPT ![tebs[it]].cls = c]
  /\ IF IsNew(c)
       THEN eqs' = Push(c, FALSE) /\ it' = it + 1 /\ UNCHANGED tebs
       ELSE tebs' = RemoveAt(tebs, it) /\ UNCHANGED <<eqs, it>>
  /\ UNCHANGED <<picks, eqRefs, hasPlan, plansPerClass, since, pc, todo>>

(* delete_detours_backwards may be off, or no direction chosen yet *)
AnalyzeDone ==
  /\ pc = "analyze"
  /\ it > Len(tebs)
  /\ \/ Goto("drop")
     \/ Len(tebs) >= 2 /\ best \in Listed /\ Goto("detours")
  /\ UNCHANGED <<lists, picks, eqRefs, band, hasPlan, plansPerClass, since, todo>>

-----------------------------------------------------------------------------
(* removeTeb() and deletePlansDetouringBackwards().                        *)

(* Fault: the first class is erased, whichever band goes. *)
RemoveTebFirstClass(b) ==
  IF SizesMatch /\ b \in Listed
    THEN /\ eqs' = Tail(eqs)
         /\ \E k \in DOMAIN tebs : tebs[k] = b /\ tebs' = RemoveAt(tebs, k)
    ELSE UNCHANGED lists

(* Does nothing (and returns end()) when the two lists differ in size. *)
RemoveTeb(b) ==
  IF SizesMatch /\ b \in Listed
    THEN \E k \in DOMAIN tebs :
           /\ tebs[k] = b
           /\ tebs' = RemoveAt(tebs, k)
           /\ eqs' = RemoveAt(eqs, k)
    ELSE UNCHANGED lists

KeepPlan ==
  /\ pc = "detours" /\ it <= Len(tebs)
  /\ tebs[it] = best \/ band[tebs[it]].optimized
  /\ it' = it + 1
  /\ UNCHANGED <<lists, picks, eqRefs, band, hasPlan, plansPerClass, since, pc, todo>>

(* The band is too short, turns back, lasts too long or is not optimized. *)
DeleteDetour ==
  /\ pc = "detours" /\ it <= Len(tebs)
  /\ tebs[it] # best
  /\ RemoveTeb(tebs[it])
  /\ it' = IF SizesMatch THEN it ELSE Len(tebs) + 1
  /\ UNCHANGED <<picks, eqRefs, band, hasPlan, plansPerClass, since, pc, todo>>

DetoursDone ==
  /\ pc = "detours" /\ it > Len(tebs)
  /\ Goto("drop")
  /\ UNCHANGED <<lists, picks, eqRefs, band, hasPlan, plansPerClass, since, todo>>

-----------------------------------------------------------------------------
(* randomlyDropTebs().                                                     *)

(* Fault: the best band is not spared. *)
DropAnyTeb ==
  /\ pc = "drop" /\ it <= Len(tebs) /\ it <= Len(eqs)
  /\ \/ tebs' = RemoveAt(tebs, it) /\ eqs' = RemoveAt(eqs, it) /\ UNCHANGED it
     \/ it' = it + 1 /\ UNCHANGED lists
  /\ UNCHANGED <<picks, eqRefs, band, hasPlan, plansPerClass, since, pc, todo>>

DropTeb ==
  /\ pc = "drop" /\ it <= Len(tebs) /\ it <= Len(eqs)
  /\ \/ /\ tebs[it] # best
        /\ tebs' = RemoveAt(tebs, it)
        /\ eqs' = RemoveAt(eqs, it)
        /\ UNCHANGED it
     \/ it' = it + 1 /\ UNCHANGED lists
  /\ UNCHANGED <<picks, eqRefs, band, hasPlan, plansPerClass, since, pc, todo>>

(* at the end of either list, or at once: the probability may be 0 *)
DropDone ==
  /\ pc = "drop"
  /\ it = 1 \/ it > Len(tebs) \/ it > Len(eqs)
  /\ Goto("initial")
  /\ UNCHANGED <<lists, picks, eqRefs, band, hasPlan, plansPerClass, since, todo>>

-----------------------------------------------------------------------------
(* The initial plan: addAndInitNewTeb(plan) or getInitialPlanTEB().        *)

(* addAndInitNewTeb(): the tail its three overloads share. *)
AddBand(c, lock) ==
  /\ Fresh # {}
  /\ tebs' = Append(tebs, NewTeb)
  /\ eqs' = Push(c, lock)
  /\ band' = [band EXCEPT ![NewTeb] = [NewBand EXCEPT !.cls = c]]

AddInitialPlan(c) ==
  /\ pc = "initial" /\ hasPlan
  /\ Goto("graph")
  /\ given' = [cls |-> c, room |-> Len(tebs) < MaxClasses]
  /\ IF Len(tebs) >= MaxClasses
       THEN initTeb' = None /\ UNCHANGED <<lists, band, initEq>>
       ELSE /\ initEq' = c
            /\ IF IsNew(c)
                 THEN initTeb' = NewTeb /\ AddBand(c, TRUE)
                 ELSE initTeb' = None /\ UNCHANGED <<lists, band>>
  /\ UNCHANGED <<best, lastBest, bestEq, hasPlan, plansPerClass, since, todo>>

(* getInitialPlanTEB(): the bands whose class is the cached initial class, *)
(* and the lock flags it leaves when the pointer itself is of no use.      *)
InitialMatches ==
  IF initEq = None \/ initEq \in Invalid \/ ~SizesMatch THEN {}
  ELSE {i \in DOMAIN eqs : IsEqual(eqs[i].cls, initEq)}

MatchedBand == IF InitialMatches = {} THEN None ELSE tebs[Min(InitialMatches)]

Relocked ==
  [i \in DOMAIN eqs |->
    [cls |-> eqs[i].cls,
     lock |-> InitialMatches # {} /\ i = Min(InitialMatches)]]

FindInitialBand ==
  /\ pc = "initial" /\ ~hasPlan
  /\ Goto("graph")
  /\ initTeb' = MatchedBand /\ eqs' = Relocked
  /\ UNCHANGED <<tebs, best, lastBest, eqRefs, band, hasPlan, plansPerClass, since, todo>>

-----------------------------------------------------------------------------
(* createGraph() and DepthFirst(): new bands from paths of the graph.      *)

(* Fault: the limit is tested with > instead of >=. *)
AddGraphPathOverLimit(c) ==
  /\ pc = "graph" /\ Len(tebs) <= MaxClasses /\ IsNew(c)
  /\ AddBand(c, FALSE)
  /\ UNCHANGED <<picks, eqRefs, hasPlan, plansPerClass, since, pc, it, todo>>

(* DepthFirst() checks the limit before each path. *)
AddGraphPath(c) ==
  /\ pc = "graph"
  /\ Len(tebs) < MaxClasses
  /\ IsNew(c)
  /\ AddBand(c, FALSE)
  /\ UNCHANGED <<picks, eqRefs, hasPlan, plansPerClass, since, pc, it, todo>>

(* Start and goal closer than xy_goal_tolerance: one straight band. *)
AddStraightLine(c) ==
  /\ pc = "graph"
  /\ tebs = <<>>
  /\ IsNew(c)
  /\ AddBand(c, FALSE)
  /\ Goto("viapoints")
  /\ UNCHANGED <<picks, eqRefs, hasPlan, plansPerClass, since, todo>>

GraphDone ==
  /\ pc = "graph"
  /\ Goto("viapoints")
  /\ UNCHANGED <<lists, picks, eqRefs, band, hasPlan, plansPerClass, since, todo>>

-----------------------------------------------------------------------------
(* updateReferenceTrajectoryViaPoints() and optimizeAllTEBs().             *)

(* Without via-points nothing happens; the call after AddStraightLine and  *)
(* GraphDone continues with the optimizer threads.                         *)
SkipViaPoints ==
  /\ pc = "viapoints"
  /\ Goto("optimize")
  /\ todo' = Listed /\ given' = NotGiven
  /\ UNCHANGED <<lists, picks, bestEq, initEq, band, hasPlan, plansPerClass, since>>

(* Fault: the class of the best band is used for that of the plan. *)
SetViaPointsOfBest ==
  /\ pc = "viapoints" /\ (ViaAll \/ hasPlan) /\ Len(eqs) >= Len(tebs)
  /\ band' = [t \in Tebs |->
       IF t \notin Listed THEN band[t]
       ELSE [band[t] EXCEPT !.via = \E i \in DOMAIN tebs :
                              tebs[i] = t /\ IsInBestTebClass(eqs[i].cls)]]
  /\ Goto("optimize") /\ todo' = Listed /\ given' = NotGiven
  /\ UNCHANGED <<lists, picks, bestEq, initEq, hasPlan, plansPerClass, since>>

SetViaPoints ==
  /\ pc = "viapoints"
  /\ ViaAll \/ hasPlan
  /\ Len(eqs) >= Len(tebs)
  /\ band' = [t \in Tebs |->
       IF t \notin Listed THEN band[t]
       ELSE [band[t] EXCEPT !.via = ViaAll \/ \E i \in DOMAIN tebs :
                              tebs[i] = t /\ IsEqual(initEq, eqs[i].cls)]]
  /\ Goto("optimize")
  /\ todo' = Listed /\ given' = NotGiven
  /\ UNCHANGED <<lists, picks, bestEq, initEq, hasPlan, plansPerClass, since>>

(* optimizeTEB() of one band.  It succeeds; it fails in the first or in a  *)
(* later outer iteration and leaves an old cost, in the latter case as an  *)
(* optimized band; or it is switched off and changes nothing.              *)
OptimizeTeb(t) ==
  /\ pc = "optimize" /\ t \in todo
  /\ todo' = todo \ {t}
  /\ \/ \E c \in Costs : band' = [band EXCEPT ![t].cost = c, ![t].optimized = TRUE]
     \/ \E o \in BOOLEAN : band' = [band EXCEPT ![t].optimized = o]
     \/ UNCHANGED band
  /\ UNCHANGED <<lists, picks, eqRefs, hasPlan, plansPerClass, since, pc, it>>

(* every thread is joined *)
OptimizeDone ==
  /\ pc = "optimize" /\ todo = {}
  /\ Goto("select")
  /\ UNCHANGED <<lists, picks, eqRefs, band, hasPlan, plansPerClass, since, todo>>

-----------------------------------------------------------------------------
(* selectBestTeb().                                                        *)

Weighted(t, last, init) ==
  band[t].cost * (IF t = last THEN Hysteresis
                  ELSE IF t = init THEN PreferInitial ELSE 100)

(* b is the first of the cheapest candidates with a finite cost, if any *)
IsCheapest(b, last, init) ==
  LET finite == {i \in DOMAIN tebs : band[tebs[i]].cost # Inf}
      W(i)   == Weighted(tebs[i], last, init)
  IN IF finite = {} THEN b = None
     ELSE \E i \in finite :
            /\ b = tebs[i]
            /\ \A j \in finite : W(i) < W(j) \/ (W(i) = W(j) /\ i <= j)

SelectBestTeb ==
  LET last == IF best \in Listed THEN best ELSE None
      init == IF initTeb \in Listed THEN initTeb ELSE MatchedBand
  IN /\ initTeb' = IF initTeb \in Listed THEN initTeb ELSE None
     /\ eqs' = IF initTeb \in Listed THEN eqs ELSE Relocked
     /\ lastBest' = last
     /\ \E b \in Listed \cup {None} :
          /\ IsCheapest(b, last, init)
          /\ IF last = None \/ b = last THEN best' = b /\ UNCHANGED since
             ELSE IF since > BlockPeriod THEN best' = b /\ since' = 0
             ELSE best' = last /\ UNCHANGED since

(* The last step of plan(), which drops the initial plan and returns true. *)
Select ==
  /\ pc = "select"
  /\ SelectBestTeb
  /\ hasPlan' = FALSE
  /\ Goto("planned")
  /\ UNCHANGED <<tebs, eqRefs, band, plansPerClass, todo>>

-----------------------------------------------------------------------------
(* What callers do with the plan.                                          *)

(* bestTeb(): the band whose velocity getVelocityCommand() returns *)
BestTeb == IF tebs = <<>> THEN None ELSE IF Len(tebs) = 1 THEN tebs[1] ELSE best

(* isTrajectoryFeasible(): findBestTeb(), then the check of that band. *)
CheckFeasible ==
  /\ pc = "planned"
  /\ Goto("find")
  /\ UNCHANGED <<lists, picks, eqRefs, band, hasPlan, plansPerClass, since, todo>>

(* Fault: best_teb_ is trusted although it may have left the list. *)
FindBestTebUnchecked ==
  /\ pc = "find"
  /\ IF best = None THEN SelectBestTeb ELSE UNCHANGED <<eqs, picks, since>>
  /\ Goto(IF best' # None THEN "judge" ELSE "rejected")
  /\ UNCHANGED <<tebs, eqRefs, band, hasPlan, plansPerClass, todo>>

FindBestTeb ==
  /\ pc = "find"
  /\ IF tebs = <<>> \/ best \in Listed
       THEN UNCHANGED <<eqs, picks, since>>
       ELSE SelectBestTeb
  /\ Goto(IF best' \in Listed THEN "judge" ELSE "rejected")
  /\ UNCHANGED <<tebs, eqRefs, band, hasPlan, plansPerClass, todo>>

JudgeFeasible ==
  /\ pc = "judge"
  /\ Goto("accepted")
  /\ UNCHANGED <<lists, picks, eqRefs, band, hasPlan, plansPerClass, since, todo>>

(* Fault: the colliding band stays. *)
JudgeInfeasibleKeeps ==
  /\ pc = "judge"
  /\ Goto(IF lastBest = best THEN "rejected" ELSE "find")
  /\ UNCHANGED <<lists, picks, eqRefs, band, hasPlan, plansPerClass, since, todo>>

JudgeInfeasible ==
  /\ pc = "judge"
  /\ RemoveTeb(best)
  /\ Goto(IF lastBest = best THEN "rejected" ELSE "find")
  /\ UNCHANGED <<picks, eqRefs, band, hasPlan, plansPerClass, since, todo>>

(* getVelocityCommand() of the plugin, getVelocityCommandMyj() of the      *)
(* standalone node, which does not check feasibility.                      *)
GetVelocityCommand ==
  /\ pc \in {"planned", "accepted"}
  /\ Goto("idle")
  /\ UNCHANGED <<lists, picks, eqRefs, band, hasPlan, plansPerClass, since, todo>>

(* clearPlanner(), called between any two calls: it empties the lists and  *)
(* nothing else.                                                           *)
ClearPlanner ==
  /\ pc \in {"idle", "planned", "accepted", "rejected"}
  /\ tebs' = <<>> /\ eqs' = <<>>
  /\ hasPlan' = FALSE
  /\ Goto("idle")
  /\ UNCHANGED <<picks, eqRefs, band, plansPerClass, since, todo>>

-----------------------------------------------------------------------------
(* The steps of a call that has been made, and the calls.                  *)

Running ==
  \/ \E c \in Classes :
       \/ RenewBest(c) \/ AnalyzeTeb(c)
       \/ AddInitialPlan(c) \/ AddGraphPath(c) \/ AddStraightLine(c)
  \/ AnalyzeDone \/ KeepPlan \/ DeleteDetour \/ DetoursDone
  \/ DropTeb \/ DropDone
  \/ FindInitialBand \/ GraphDone \/ SkipViaPoints \/ SetViaPoints
  \/ \E t \in Tebs : OptimizeTeb(t)
  \/ OptimizeDone \/ Select
  \/ FindBestTeb \/ JudgeFeasible \/ JudgeInfeasible

Calls ==
  \/ \E p \in PlanModes, r \in BOOLEAN : Plan(p, r /\ tebs # <<>>)
  \/ CheckFeasible \/ GetVelocityCommand \/ ClearPlanner

Next == Running \/ Calls

Spec == Init /\ [][Next]_vars

(* A call that has been made runs to its end; nobody has to make one. *)
FairSpec == Spec /\ WF_vars(Running)

-----------------------------------------------------------------------------
(* Properties.                                                             *)

(* The control points between two calls. *)
Quiet == {"idle", "planned", "accepted", "rejected"}

(* Type correctness; also: no band is listed twice and pointers other than *)
(* the list's may outlive it.                                              *)
TypeOK ==
  /\ tebs \in Seq(Tebs)
  /\ eqs \in Seq(Entry)
  /\ {best, lastBest, initTeb} \subseteq Tebs \cup {None}
  /\ {bestEq, initEq} \subseteq Classes \cup {None}
  /\ given \in [cls : Classes \cup {None}, room : BOOLEAN]
  /\ band \in [Tebs -> BandData]
  /\ hasPlan \in BOOLEAN
  /\ plansPerClass \in PlansPerClass
  /\ since \in 0 .. BlockPeriod + 1
  /\ pc \in Quiet \cup {"renew", "analyze", "detours", "drop", "initial", "graph",
                       "viapoints", "optimize", "select", "find", "judge"}
  /\ it \in Nat \ {0}
  /\ todo \subseteq Tebs

(* tebs_ and equivalence_classes_ are indexed together all over the file.  *)
(* Even when the best band's signature is not finite, so that it is kept   *)
(* without an entry, there is never an entry without a band, and at most   *)
(* one band without an entry.                                              *)
NoClassWithoutBand ==
  /\ Len(eqs) <= Len(tebs)
  /\ pc # "analyze" => Len(tebs) <= Len(eqs) + 1

(* Unless the signature of the best band was not finite, each entry of     *)
(* equivalence_classes_ is the class of the band at the same index and no  *)
(* band is without, through every erase of the loops.                      *)
ClassesDescribeBands ==
  pc # "renew" /\ bestEq \notin Invalid =>
    /\ \A i \in DOMAIN eqs : eqs[i].cls = band[tebs[i]].cls
    /\ pc # "analyze" => SizesMatch

(* hcp.max_number_classes bounds the bands, although the overload of       *)
(* addAndInitNewTeb() used for graph paths does not look at the limit.     *)
BandsBounded == Len(tebs) <= MaxClasses

(* Two bands may share a class only if it is the class of the last best    *)
(* band (addEquivalenceClassIfNew), ...                                    *)
DuplicatesOnlyInBestClass ==
  pc # "renew" =>
    \A i, j \in DOMAIN eqs :
      i < j /\ IsEqual(eqs[j].cls, eqs[i].cls) => IsInBestTebClass(eqs[j].cls)

(* ... and that many of them: bands that repeat a class of the list are    *)
(* never more than max_number_plans_in_current_class, and while the last   *)
(* best class itself is in the list, nor are the bands equal to it (one is *)
(* always there).  isEqual() need not be transitive: signatures are        *)
(* compared within a tolerance, and HSignature3d has wildcards.            *)
BestClassLimited ==
  pc # "renew" =>
    /\ Cardinality(Repeated) <= (IF plansPerClass < 0 THEN 0 ELSE plansPerClass)
    /\ (\E i \in DOMAIN eqs : eqs[i].cls = bestEq) =>
         NumTebsInBestTebClass <= (IF plansPerClass < 1 THEN 1 ELSE plansPerClass)

(* Once isTrajectoryFeasible() has returned true, the band that bestTeb()  *)
(* hands to getVelocityCommand() is the one that was checked, although     *)
(* bestTeb() does not look at best_teb_ when one band is left.             *)
AcceptedPlanDrives == pc = "accepted" => best \in Listed /\ BestTeb = best

(* initial_plan_eq_class_ is dereferenced in                               *)
(* updateReferenceTrajectoryViaPoints() without a check: it is never null  *)
(* there, even when addAndInitNewTeb() returned before computing it.       *)
InitialClassKnown == pc = "viapoints" /\ hasPlan => initEq # None

(* When the list had room for a band of this call's initial plan, via-     *)
(* points are attached to exactly the bands that are in the class of that  *)
(* plan, by their own signature, whatever the search for more bands adds.  *)
ViaPointsFollowInitialClass ==
  [][pc = "viapoints" /\ band' # band /\ given.room =>
       \A t \in Listed : band'[t].via = (ViaAll \/ IsEqual(given.cls, band[t].cls))]_vars

(* The planner keeps the promise of PlanFollowing: the random drop, the    *)
(* detour deletion, the renewal of the classes and the exploration never   *)
(* take away the band being followed, and switching_blocking_period holds  *)
(* between two switches the planner makes of its own accord.               *)
Phase == IF pc \in Quiet THEN "rest" ELSE IF pc \in {"find", "judge"} THEN "check" ELSE "plan"

Following == INSTANCE PlanFollowing
               WITH cands <- Listed, chosen <- best, wait <- since, phase <- Phase
FollowsPlans == Following!Spec

(* Every call returns: the loops over the lists end although they erase    *)
(* what they iterate over, and the loop of isTrajectoryFeasible() runs out *)
(* of bands.                                                               *)
CallsReturn == []<>(pc \in Quiet)

-----------------------------------------------------------------------------
(* What comments of the code say, and the code does not do.                *)

(* homotopy_class_planner.cpp:346: "enable via-points for teb in the same  *)
(* hommotopy class as the initial_plan and deactivate it for all other     *)
(* ones": the initial plan is that of this call, also when the list had no *)
(* room for it.                                                            *)
ViaPointsFollowThisPlan ==
  [][pc = "viapoints" /\ band' # band /\ given.cls # None =>
       \A t \in Listed : band'[t].via = (ViaAll \/ IsEqual(given.cls, band[t].cls))]_vars

(* homotopy_class_planner.h:239, of removeTeb(): "Removes the specified    *)
(* teb and the corresponding homotopy class from the list": a band found   *)
(* infeasible is no longer a candidate.                                    *)
InfeasibleBandRemoved == [][JudgeInfeasible => best \notin ToSet(tebs')]_vars
=============================================================================
