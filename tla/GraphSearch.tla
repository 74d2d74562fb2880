----------------------------- MODULE GraphSearch -----------------------------
(***************************************************************************)
(* The graph searches of the homotopy class planner (graph_search.cpp):    *)
(* each cycle builds a graph from the robot's to the goal's position and   *)
(* offers every simple path through it as a new candidate, depth first,    *)
(* until there are max_number_classes bands.                               *)
(*                                                                         *)
(* The recursion of DepthFirst() is a stack: visited is the vector of that *)
(* name, and at[k] the vertex the loop of the call at depth k has come to. *)
(* Geometry decides which vertices are joined: any graph whose goal has no *)
(* edge out of it.  Whether a path is of a new class is not modelled.      *)
(***************************************************************************)
EXTENDS Integers, SequencesExt

CONSTANTS
  Sizes,      \* numbers of vertices, start and goal included
  Circular,   \* those for which edges lead back as well as forth, as they
              \* do with a negative obstacle_heading_threshold
  MaxClasses  \* hcp.max_number_classes

ASSUME GraphSearchOK ==
  /\ Sizes \subseteq Nat \ {0, 1} /\ Circular \subseteq Sizes
  /\ MaxClasses \in Nat

VARIABLES
  size,     \* the vertices are 1 .. size: the start, in between, the goal
  edges,    \* graph_
  bands,    \* the size of tebs_
  visited,  \* the path from the start to where the search is
  at,       \* per call that has entered its second loop, the vertex there
  offered,  \* the paths given to addAndInitNewTeb() (a history variable)
  pc        \* "idle", "enter" or "loop" of DepthFirst(), "done"

graph == <<size, edges>>
vars == <<graph, bands, visited, at, offered, pc>>

Goal == size

Init ==
  /\ size \in Sizes /\ edges = {}
  /\ bands = 0
  /\ visited = <<>> /\ at = <<>> /\ offered = <<>>
  /\ pc = "idle"

(* The edges createGraph() may insert: it ignores the goal's. *)
Joins(n) ==
  {e \in (1 .. n - 1) \X (1 .. n) :
     e[1] # e[2] /\ (n \in Circular \/ e[1] < e[2])}

(* addAndInitNewTeb() adds a band, or finds that its class is known. *)
Offer == bands' \in {bands, bands + 1}

-----------------------------------------------------------------------------
(* createGraph() of both graphs.  Since the last search the planner may    *)
(* have changed its list to one of b bands.                                *)

Search(n, E, b) ==
  /\ pc = "idle" /\ b < MaxClasses
  /\ size' = n /\ edges' = E /\ bands' = b
  /\ visited' = <<1>> /\ pc' = "enter"
  /\ UNCHANGED <<at, offered>>

(* The goal is within its tolerance: without any band, a straight line. *)
StraightLine ==
  /\ pc = "idle" /\ MaxClasses > 0
  /\ bands' \in {0, 1}
  /\ pc' = "done"
  /\ UNCHANGED <<graph, visited, at, offered>>

CreateGraph ==
  \/ \E n \in Sizes, b \in 0 .. MaxClasses - 1 : \E E \in SUBSET Joins(n) : Search(n, E, b)
  \/ StraightLine

(* The planner goes on; the graph is cleared by the next search. *)
Finish ==
  /\ pc = "done"
  /\ pc' = "idle" /\ edges' = {} /\ bands' = 0 /\ offered' = <<>>
  /\ UNCHANGED <<size, visited, at>>

-----------------------------------------------------------------------------
(* DepthFirst().                                                           *)

(* Back in the caller's loop, or in createGraph(). *)
Leave ==
  /\ visited' = Front(visited)
  /\ pc' = IF Len(visited) = 1 THEN "done" ELSE "loop"

(* There are bands enough. *)
LimitReached ==
  /\ pc = "enter" /\ bands >= MaxClasses
  /\ Leave
  /\ UNCHANGED <<graph, bands, at, offered>>

(* Fault: the limit is tested in createGraph() alone. *)
ReachGoalUnlimited ==
  /\ pc = "enter" /\ <<Last(visited), Goal>> \in edges
  /\ offered' = Append(offered, Append(visited, Goal))
  /\ Offer
  /\ at' = Append(at, 0) /\ pc' = "loop"
  /\ UNCHANGED <<graph, visited>>

(* Fault: the search does not go on from a vertex next to the goal. *)
ReachGoalReturns ==
  /\ pc = "enter" /\ bands < MaxClasses /\ <<Last(visited), Goal>> \in edges
  /\ offered' = Append(offered, Append(visited, Goal))
  /\ Offer
  /\ Leave
  /\ UNCHANGED <<graph, at>>

(* Examine adjacent nodes: the goal is one of them. *)
ReachGoal ==
  /\ pc = "enter" /\ bands < MaxClasses /\ <<Last(visited), Goal>> \in edges
  /\ offered' = Append(offered, Append(visited, Goal))
  /\ Offer
  /\ at' = Append(at, 0) /\ pc' = "loop"
  /\ UNCHANGED <<graph, visited>>

PassBy ==
  /\ pc = "enter" /\ bands < MaxClasses /\ <<Last(visited), Goal>> \notin edges
  /\ at' = Append(at, 0) /\ pc' = "loop"
  /\ UNCHANGED <<graph, bands, visited, offered>>

(* Fault: a vertex visited before is not recognised. *)
AheadRevisits ==
  {v \in 1 .. size - 1 : v > Last(at) /\ v # Last(visited) /\ <<Last(visited), v>> \in edges}

(* The adjacent vertices the loop still has to visit, in order. *)
Ahead ==
  {v \in 1 .. size - 1 :
     v > Last(at) /\ <<Last(visited), v>> \in edges /\ v \notin ToSet(visited)}

(* Fault: after a recursion the loop begins with the first vertex again. *)
DescendBeginsAgain ==
  /\ pc = "loop" /\ Ahead # {}
  /\ visited' = Append(visited, Min(Ahead))
  /\ at' = [at EXCEPT ![Len(at)] = 0]
  /\ pc' = "enter"
  /\ UNCHANGED <<graph, bands, offered>>

Descend ==
  /\ pc = "loop" /\ Ahead # {}
  /\ visited' = Append(visited, Min(Ahead))
  /\ at' = [at EXCEPT ![Len(at)] = Min(Ahead)]
  /\ pc' = "enter"
  /\ UNCHANGED <<graph, bands, offered>>

LoopEnds ==
  /\ pc = "loop" /\ Ahead = {}
  /\ Leave
  /\ at' = Front(at)
  /\ UNCHANGED <<graph, bands, offered>>

DepthFirst == LimitReached \/ ReachGoal \/ PassBy \/ Descend \/ LoopEnds

Next == CreateGraph \/ DepthFirst \/ Finish

Spec == Init /\ [][Next]_vars

(* A search that was begun is executed to its end. *)
FairSpec == Spec /\ WF_vars(DepthFirst \/ Finish)

-----------------------------------------------------------------------------
(* Properties.                                                             *)

TypeOK ==
  /\ size \in Sizes /\ edges \subseteq Joins(size)
  /\ bands \in Nat
  /\ visited \in Seq(1 .. size - 1) /\ at \in Seq(0 .. size - 1)
  /\ offered \in Seq(Seq(1 .. size))
  /\ pc \in {"idle", "enter", "loop", "done"}

(* A path through the graph from the start, no vertex of it twice. *)
IsSimplePath(p) ==
  /\ p # <<>> /\ p[1] = 1
  /\ \A k \in 1 .. Len(p) - 1 : <<p[k], p[k + 1]>> \in edges
  /\ \A j, k \in DOMAIN p : p[j] = p[k] => j = k

(* Every candidate follows a simple path from the start to the goal, also  *)
(* when the graph has circles.                                             *)
PathsSimple == \A k \in DOMAIN offered : IsSimplePath(offered[k]) /\ Last(offered[k]) = Goal

(* No path is offered twice; a search without an early end offers all.     *)
Paths == {p \in UNION {[1 .. m -> 1 .. size] : m \in 2 .. size} :
            IsSimplePath(p) /\ Last(p) = Goal}

EachPathOnce ==
  /\ \A j, k \in DOMAIN offered : offered[j] = offered[k] => j = k
  /\ pc = "done" /\ visited = <<>> /\ bands < MaxClasses =>
       ToSet(offered) = Paths

(* The search does not add more bands than there may be, although it tests *)
(* the limit only when it enters a vertex.                                 *)
BandsBounded == bands <= MaxClasses

(* Every search ends: no vertex is taken up again by a loop that is past   *)
(* it, and with circles the recursion does not go round them.              *)
SearchReturns == []<>(pc = "idle")
==============================================================================
