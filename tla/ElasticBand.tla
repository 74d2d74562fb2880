---------------------------- MODULE ElasticBand ----------------------------
(***************************************************************************)
(* One timed elastic band and the planner that optimizes it                *)
(* (src/timed_elastic_band.cpp, src/optimal_planner.cpp): poses joined by  *)
(* time differences, initialized from a path, hot-started in every later   *)
(* cycle by cutting off what was passed, and optimized in outer iterations *)
(* that resize the band, build the hyper-graph, solve it and clear it.     *)
(*                                                                         *)
(* Poses are what the code tells apart: the ends, fixed in the             *)
(* optimization, which are the start and goal of this cycle or of an older *)
(* one, and the free poses.  Where these are and how much time the solver  *)
(* gives each motion is chosen with \E.  A time difference is a whole      *)
(* number of units; of an odd one the halves differ, so that they add up.  *)
(***************************************************************************)
EXTENDS BandGraph, SequencesExt

CONSTANTS
  MinSamples,       \* trajectory.min_samples
  MaxSamples,       \* trajectory.max_samples
  PruneMin,         \* min_samples of updateAndPruneTEB(): the same, or 3, the
                    \* default the homotopy class planner leaves it at
  MaxPruned,        \* samples it removes at most (10)
  DtRef, DtHyst,    \* trajectory.dt_ref, trajectory.dt_hysteresis
  FastMode,         \* no dynamic obstacles
  MaxReps,          \* passes of autoResize() at most (100)
  Outer,            \* optim.no_outer_iterations
  Activate,         \* values of optim.optimization_activate
  Ordered,          \* trajectory.via_points_ordered
  ViaPoints,        \* number of via-points
  PathLens,         \* numbers of points between the ends of a path
  InitDts,          \* times at maximum velocity between points, 0 if one is repeated
  OptDts            \* time differences the solver computes

ASSUME ElasticBandOK ==
  /\ MinSamples \in Nat /\ 3 <= MinSamples
  /\ PruneMin \in {3, MinSamples}
  /\ {MaxSamples, MaxPruned, DtRef, DtHyst, MaxReps, Outer, ViaPoints} \subseteq Nat
  /\ FastMode \in BOOLEAN /\ Ordered \in BOOLEAN /\ Activate \subseteq BOOLEAN
  /\ PathLens \subseteq Nat /\ InitDts \subseteq Nat /\ OptDts \subseteq Nat

VARIABLES
  poses,       \* pose_vec_
  dts,         \* timediff_vec_: dts[i] joins poses[i] and poses[i + 1]
  graph,       \* optimizer_ holds the vertices of the band
  via,         \* the poses the via-points are attached to, 0 for none
  optimized,   \* optimized_
  returned,    \* what optimizeTEB() returned last
  outer, rep,  \* its outer iteration, the pass of autoResize()
  i, modified, \* the place in that pass, whether it has changed something
  pc           \* where the control is

band == <<poses, dts>>
vars == <<poses, dts, graph, via, optimized, returned, outer, rep, i, modified, pc>>

Pose  == [fixed : BOOLEAN, at : {"start", "goal", "old", "free"}]
Free  == [fixed |-> FALSE, at |-> "free"]
Start == [fixed |-> TRUE, at |-> "start"]
Goal  == [fixed |-> TRUE, at |-> "goal"]

Larger(a, b) == IF a < b THEN b ELSE a

Init ==
  /\ poses = <<>> /\ dts = <<>>
  /\ graph = FALSE /\ via = <<>>
  /\ optimized = FALSE /\ returned = FALSE
  /\ outer = 0 /\ rep = 0 /\ i = 1 /\ modified = FALSE
  /\ pc = "idle"

-----------------------------------------------------------------------------
(* plan(): the band is made from a path, or hot-started.                   *)

(* optimizeTEB() up to its loop *)
Optimize ==
  \/ /\ TRUE \in Activate
     /\ optimized' = FALSE /\ outer' = 0 /\ pc' = "outer"
     /\ UNCHANGED returned
  \/ /\ FALSE \in Activate
     /\ returned' = FALSE
     /\ UNCHANGED <<optimized, outer, pc>>

(* initTrajectoryToGoal(), all three overloads: the start, the points of a *)
(* path, as many more as min_samples asks for, and the goal.               *)
Samples(points) == Larger(points + 2, MinSamples)

InitBand(points) ==
  LET n == Samples(points)
  IN /\ poses' = [j \in 1 .. n |-> IF j = 1 THEN Start ELSE IF j = n THEN Goal ELSE Free]
     /\ \E f \in [1 .. n - 1 -> InitDts] : dts' = f

(* There is no band yet, or its goal is too far from the new one. *)
PlanAnew(points) ==
  /\ pc = "idle"
  /\ InitBand(points)
  /\ Optimize
  /\ UNCHANGED <<graph, via, rep, i, modified>>

(* Faults: the sample that is overwritten next is removed; one time        *)
(* difference too few is.                                                  *)
PlanHotFromZero(passed) ==
  /\ pc = "idle" /\ poses # <<>>
  /\ passed \in 0 .. Larger(0, Least(Len(poses) - PruneMin, MaxPruned))
  /\ LET kept == SubSeq(poses, passed + 1, Len(poses))
     IN poses' = [kept EXCEPT ![1].at = "start", ![Len(kept)].at = "goal"]
  /\ dts' = <<dts[1]>> \o SubSeq(dts, passed + 2, Len(dts))
  /\ Optimize
  /\ UNCHANGED <<graph, via, rep, i, modified>>

PlanHotOneLess(passed) ==
  /\ pc = "idle" /\ poses # <<>>
  /\ passed \in 0 .. Larger(0, Least(Len(poses) - PruneMin, MaxPruned))
  /\ LET kept == <<poses[1]>> \o SubSeq(poses, passed + 2, Len(poses))
     IN poses' = [kept EXCEPT ![1].at = "start", ![Len(kept)].at = "goal"]
  /\ dts' = <<dts[1]>> \o SubSeq(dts, Larger(passed + 1, 2), Len(dts))
  /\ Optimize
  /\ UNCHANGED <<graph, via, rep, i, modified>>

(* updateAndPruneTEB(): the samples passed so far go, and the new start    *)
(* and goal overwrite the ends.                                            *)
PlanHot(passed) ==
  /\ pc = "idle" /\ poses # <<>>
  /\ passed \in 0 .. Larger(0, Least(Len(poses) - PruneMin, MaxPruned))
  /\ LET kept == <<poses[1]>> \o SubSeq(poses, passed + 2, Len(poses))
     IN poses' = [kept EXCEPT ![1].at = "start", ![Len(kept)].at = "goal"]
  /\ dts' = <<dts[1]>> \o SubSeq(dts, passed + 2, Len(dts))
  /\ Optimize
  /\ UNCHANGED <<graph, via, rep, i, modified>>

(* Between two cycles the robot moves, and perhaps the goal. *)
Drive ==
  /\ pc = "idle"
  /\ poses' = [j \in DOMAIN poses |->
                IF poses[j].fixed THEN [poses[j] EXCEPT !.at = "old"] ELSE poses[j]]
  /\ UNCHANGED <<dts, graph, via, optimized, returned, outer, rep, i, modified, pc>>

Clear ==
  /\ pc = "idle"
  /\ poses' = <<>> /\ dts' = <<>> /\ graph' = FALSE /\ via' = <<>>
  /\ UNCHANGED <<optimized, returned, outer, rep, i, modified, pc>>

-----------------------------------------------------------------------------
(* optimizeTEB(): one outer iteration begins.  trajectory.teb_autosize may *)
(* be off.                                                                 *)

Return(ok) == pc' = "idle" /\ returned' = ok

BeginIteration ==
  /\ pc = "outer" /\ outer < Outer
  /\ pc' \in {"resize", "build"}
  /\ i' = 1 /\ rep' = 0 /\ modified' = FALSE
  /\ UNCHANGED <<band, graph, via, optimized, returned, outer>>

LastIterationDone ==
  /\ pc = "outer" /\ outer = Outer
  /\ Return(TRUE)
  /\ UNCHANGED <<band, graph, via, optimized, outer, rep, i, modified>>

-----------------------------------------------------------------------------
(* autoResize(): a pass over the time differences.                         *)

TooLong  == pc = "resize" /\ i <= Len(dts) /\ dts[i] > DtRef + DtHyst /\ Len(dts) < MaxSamples
TooShort == pc = "resize" /\ i <= Len(dts) /\ dts[i] < DtRef - DtHyst /\ Len(dts) > MinSamples

Next1(changed) == i' = i + 1 /\ modified' = changed

Split ==
  /\ TooLong
  /\ LET half == dts[i] \div 2
     IN dts' = InsertAt([dts EXCEPT ![i] = half], i + 1, dts[i] - half)
  /\ poses' = InsertAt(poses, i + 1, Free)
  /\ Next1(TRUE)
  /\ UNCHANGED <<graph, via, optimized, returned, outer, rep, pc>>

(* Fault: one sample less than min_samples asks for. *)
MergeToMin ==
  /\ pc = "resize" /\ i <= Len(dts) /\ dts[i] < DtRef - DtHyst /\ Len(dts) >= MinSamples - 1
  /\ i < Len(dts)
  /\ dts' = RemoveAt([dts EXCEPT ![i + 1] = @ + dts[i]], i)
  /\ poses' = RemoveAt(poses, i + 1)
  /\ Next1(TRUE)
  /\ UNCHANGED <<graph, via, optimized, returned, outer, rep, pc>>

Merge ==
  /\ TooShort /\ ~TooLong
  /\ i < Len(dts)
  /\ dts' = RemoveAt([dts EXCEPT ![i + 1] = @ + dts[i]], i)
  /\ poses' = RemoveAt(poses, i + 1)
  /\ Next1(TRUE)
  /\ UNCHANGED <<graph, via, optimized, returned, outer, rep, pc>>

(* Faults: the time of the last motion is lost; the pass forgets that it   *)
(* changed something.                                                      *)
MergeLastLosesTime ==
  /\ TooShort /\ ~TooLong
  /\ i = Len(dts)
  /\ dts' = RemoveAt(dts, i)
  /\ poses' = RemoveAt(poses, i)
  /\ Next1(TRUE)
  /\ UNCHANGED <<graph, via, optimized, returned, outer, rep, pc>>

MergeLastUnnoticed ==
  /\ TooShort /\ ~TooLong
  /\ i = Len(dts)
  /\ dts' = RemoveAt([dts EXCEPT ![i - 1] = @ + dts[i]], i)
  /\ poses' = RemoveAt(poses, i)
  /\ Next1(modified)
  /\ UNCHANGED <<graph, via, optimized, returned, outer, rep, pc>>

(* The last motion is joined to the one before it. *)
MergeLast ==
  /\ TooShort /\ ~TooLong
  /\ i = Len(dts)
  /\ dts' = RemoveAt([dts EXCEPT ![i - 1] = @ + dts[i]], i)
  /\ poses' = RemoveAt(poses, i)
  /\ Next1(TRUE)
  /\ UNCHANGED <<graph, via, optimized, returned, outer, rep, pc>>

Keep ==
  /\ pc = "resize" /\ i <= Len(dts)
  /\ ~TooLong /\ ~TooShort
  /\ Next1(modified)
  /\ UNCHANGED <<band, graph, via, optimized, returned, outer, rep, pc>>

(* Fault: the passes are not counted. *)
PassDoneUncounted ==
  /\ pc = "resize" /\ i > Len(dts)
  /\ IF FastMode \/ ~modified
       THEN pc' = "build" /\ UNCHANGED <<i, modified>>
       ELSE i' = 1 /\ modified' = FALSE /\ UNCHANGED pc
  /\ UNCHANGED <<band, graph, via, optimized, returned, outer, rep>>

PassDone ==
  /\ pc = "resize" /\ i > Len(dts)
  /\ IF FastMode \/ ~modified \/ rep + 1 >= MaxReps
       THEN pc' = "build" /\ UNCHANGED <<rep, i, modified>>
       ELSE rep' = rep + 1 /\ i' = 1 /\ modified' = FALSE /\ UNCHANGED pc
  /\ UNCHANGED <<band, graph, via, optimized, returned, outer>>

-----------------------------------------------------------------------------
(* buildGraph(), optimizeGraph(), computeCurrentCost() and clearGraph().   *)

(* findClosestTrajectoryPose() of each via-point in turn, as an index of   *)
(* the code: any pose from the first one it looks at, or -1 if that is     *)
(* behind the goal.  An ordered search goes on two poses further.          *)
Closest(near, n) ==
  \A j \in 1 .. ViaPoints :
    LET begin == IF Ordered /\ j > 1 THEN near[j - 1] + 2 ELSE 0
    IN IF begin >= n THEN near[j] = -1 ELSE near[j] \in begin .. n - 1

(* AddEdgesViaPoints(): the pose it is attached to, counted from 1. *)
Attached(k, n) ==
  IF k > n - 2 THEN n - 1
  ELSE IF k < 1 THEN IF Ordered THEN 2 ELSE 0
  ELSE k + 1

(* It refuses to add to a graph that is not empty. *)
BuildGraph ==
  /\ pc = "build"
  /\ IF graph
       THEN graph' = FALSE /\ via' = <<>> /\ Return(FALSE)
       ELSE /\ graph' = TRUE
            /\ LET n == Len(poses)
               IN IF n < 3 THEN via' = <<>>
                  ELSE \E near \in [1 .. ViaPoints -> -1 .. n - 1] :
                         /\ Closest(near, n)
                         /\ via' = [j \in 1 .. ViaPoints |-> Attached(near[j], n)]
            /\ pc' = "solve" /\ UNCHANGED returned
  /\ UNCHANGED <<band, optimized, outer, rep, i, modified>>

(* The free poses move, every time difference may change. *)
Solve ==
  /\ pc = "solve" /\ Len(poses) >= MinSamples
  /\ \E f \in [1 .. Len(dts) -> OptDts] : dts' = f
  /\ poses' = [j \in 1 .. Len(poses) |-> IF poses[j].fixed THEN poses[j] ELSE Free]
  /\ optimized' = TRUE
  /\ pc' = "solved"
  /\ UNCHANGED <<graph, via, returned, outer, rep, i, modified>>

(* Fault: the graph is not cleared when the solver fails. *)
SolveFailsUncleared ==
  /\ pc = "solve"
  /\ Return(FALSE)
  /\ UNCHANGED <<band, graph, via, optimized, outer, rep, i, modified>>

(* The band is too short, the maximum velocity too small, or the solver    *)
(* makes no iteration.                                                     *)
SolveFails ==
  /\ pc = "solve"
  /\ graph' = FALSE /\ via' = <<>>
  /\ Return(FALSE)
  /\ UNCHANGED <<band, optimized, outer, rep, i, modified>>

(* computeCurrentCost() reads the graph, then it is cleared. *)
EndIteration ==
  /\ pc = "solved"
  /\ graph' = FALSE /\ via' = <<>>
  /\ outer' = outer + 1
  /\ pc' = "outer"
  /\ UNCHANGED <<band, optimized, returned, rep, i, modified>>

-----------------------------------------------------------------------------
Running ==
  \/ BeginIteration \/ LastIterationDone
  \/ Split \/ Merge \/ MergeLast \/ Keep \/ PassDone
  \/ BuildGraph \/ Solve \/ SolveFails \/ EndIteration

Calls ==
  \/ \E points \in PathLens : PlanAnew(points)
  \/ \E passed \in 0 .. MaxPruned : PlanHot(passed)
  \/ Drive \/ Clear

Next == Running \/ Calls

Spec == Init /\ [][Next]_vars

(* A call that has been made runs to its end; nobody has to make one. *)
FairSpec == Spec /\ WF_vars(Running)

-----------------------------------------------------------------------------
(* Properties.                                                             *)

TypeOK ==
  /\ poses \in Seq(Pose) /\ dts \in Seq(Nat) /\ via \in Seq(Nat)
  /\ {graph, optimized, returned, modified} \subseteq BOOLEAN
  /\ outer \in 0 .. Outer /\ rep \in Nat /\ i \in Nat \ {0}
  /\ pc \in {"idle", "outer", "resize", "build", "solve", "solved"}

(* There is one time difference between any two consecutive poses, as      *)
(* autoResize() asserts, through pruning, splitting and joining.           *)
BandShape ==
  \/ poses = <<>> /\ dts = <<>>
  \/ dts # <<>> /\ Len(poses) = Len(dts) + 1

(* The optimization keeps the start and the goal of this cycle where they  *)
(* are, and nothing else: no index arithmetic of pruning and resizing      *)
(* removes an end, or leaves one between.                                  *)
EndsHeld ==
  pc # "idle" =>
    \A j \in DOMAIN poses :
      poses[j] = IF j = 1 THEN Start ELSE IF j = Len(poses) THEN Goal ELSE Free

(* Pruning leaves a band the samples its own limit asks for, and what a    *)
(* call optimized has min_samples until it returns, although each later    *)
(* iteration joins again.  (Pruning may take it below min_samples, for the *)
(* two limits differ: optimizeGraph() then refuses it.)                    *)
EnoughSamples ==
  /\ poses # <<>> => Len(poses) >= PruneMin
  /\ optimized /\ pc # "idle" => Len(poses) >= MinSamples

(* g2o holds pointers to the vertices of the band: none is deleted, and    *)
(* none is inserted, as long as it does, on every path of failure.         *)
BandStableInGraph ==
  [][graph => Len(poses') = Len(poses) /\ Len(dts') = Len(dts)]_vars

(* A via-point pulls a pose that can move. *)
ViaPointsMovable ==
  \A j \in DOMAIN via : via[j] # 0 => ~poses[via[j]].fixed

(* Every edge joins vertices of the band. *)
EdgesInBand ==
  graph => \A e \in Edges(Len(poses)) :
             e.poses \subseteq 0 .. Len(poses) - 1 /\ e.dts \subseteq 0 .. Len(dts) - 1

(* Every pose that can move and every time difference has an edge, without *)
(* which the solver's system of equations is singular: of the kinds that   *)
(* join consecutive poses each one alone reaches all of them.              *)
VerticesConstrained ==
  graph =>
    LET n == Len(poses)
    IN /\ \A j \in DOMAIN poses :
            ~poses[j].fixed =>
              \A kind \in {Velocity(n), Shortest(n), Kinematics(n)} : \E e \in kind : j - 1 \in e.poses
       /\ \A j \in DOMAIN dts :
            \A kind \in {Velocity(n), TimeOptimal(n)} : \E e \in kind : j - 1 \in e.dts

(* The solver gets a problem it can solve: its edges join vertices of the  *)
(* band, leave out none, and pull only what can move.                      *)
GraphSound == EdgesInBand /\ VerticesConstrained /\ ViaPointsMovable

(* Resizing changes neither how long the trajectory takes ...              *)
TimeKept ==
  [][pc = "resize" => FoldSeq(+, 0, dts') = FoldSeq(+, 0, dts)]_vars

(* ... nor does it end before every time difference is within the          *)
(* hysteresis, as far as the limits on samples allow, unless it runs out   *)
(* of passes (test/teb_basics.cpp).                                        *)
ResizeSettles ==
  pc = "build" /\ i > 1 /\ ~modified =>
    \A j \in DOMAIN dts :
      /\ dts[j] > DtRef + DtHyst => Len(dts) >= MaxSamples
      /\ dts[j] < DtRef - DtHyst => Len(dts) <= MinSamples

(* Every call of plan() returns, although a pass may lengthen what it      *)
(* iterates over.                                                          *)
PlanReturns == []<>(pc = "idle")
=============================================================================
