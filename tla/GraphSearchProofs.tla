-------------------------- MODULE GraphSearchProofs --------------------------
(***************************************************************************)
(* Theorems about GraphSearch for graphs of every size.                    *)
(***************************************************************************)
EXTENDS GraphSearch, ListLemmas, TLAPS

(* In the call at depth k, entered by a loop of the call above it, visited *)
(* is a simple path of k vertices.                                         *)
StackInv ==
  /\ pc = "idle" => offered = <<>>
  /\ pc \in {"idle", "done"} => visited = <<>> /\ at = <<>>
  /\ pc = "enter" => Len(visited) = Len(at) + 1
  /\ pc = "loop" => Len(visited) = Len(at) /\ at # <<>>
  /\ visited # <<>> => IsSimplePath(visited)

Inv == TypeOK /\ StackInv /\ PathsSimple /\ BandsBounded

-----------------------------------------------------------------------------
(* Simple paths are extended by a new vertex and cut off at their end.     *)

LEMMA SeqMonotone ==
  ASSUME NEW S, NEW T, S \subseteq T, NEW s \in Seq(S)
  PROVE  s \in Seq(T)
<1>1. Len(s) \in Nat /\ s = [k \in 1 .. Len(s) |-> s[k]] /\ \A k \in 1 .. Len(s) : s[k] \in T
  OBVIOUS
<1>2. QED
  BY <1>1

LEMMA FrontProperties ==
  ASSUME NEW S, NEW s \in Seq(S), s # <<>>
  PROVE  /\ Front(s) \in Seq(S) /\ Len(Front(s)) = Len(s) - 1
         /\ \A k \in 1 .. Len(s) - 1 : Front(s)[k] = s[k]
<1>1. Len(s) \in Nat \ {0}
  OBVIOUS
<1> DEFINE n == Len(s) - 1
           t == SubSeq(s, 1, n)
<1>2. n \in Nat /\ 1 \in Int /\ n \in Int /\ n - 1 + 1 = n
  BY <1>1
<1>3. \A k \in 1 .. n : s[k] \in S
  BY <1>1
<1> HIDE DEF n
<1>4. /\ t \in Seq(S) /\ Len(t) = IF 1 <= n THEN n - 1 + 1 ELSE 0
      /\ \A k \in 1 .. n - 1 + 1 : t[k] = s[1 + k - 1]
  BY <1>2, <1>3, SubSeqProperties
<1> HIDE DEF t
<1>5. t \in Seq(S) /\ Len(t) = n /\ \A k \in 1 .. n : t[k] = s[k]
  BY <1>2, <1>4
<1>6. QED
  BY <1>5 DEF Front, n, t

LEMMA PathExtended ==
  ASSUME NEW p \in Seq(Nat), IsSimplePath(p),
         NEW v \in Nat, <<Last(p), v>> \in edges, v \notin ToSet(p)
  PROVE  IsSimplePath(Append(p, v))
<1> DEFINE q == Append(p, v)
           n == Len(p)
<1>1. /\ q \in Seq(Nat) /\ DOMAIN q = 1 .. n + 1 /\ Len(q) = n + 1 /\ q[n + 1] = v
      /\ \A k \in 1 .. n : q[k] = p[k]
  OBVIOUS
<1>2. n \in Nat \ {0} /\ DOMAIN p = 1 .. n
  BY DEF IsSimplePath
<1>3. p[1] = 1 /\ \A k \in 1 .. n - 1 : <<p[k], p[k + 1]>> \in edges
  BY DEF IsSimplePath
<1>4. \A j, k \in 1 .. n : p[j] = p[k] => j = k
  BY <1>2 DEF IsSimplePath
<1>5. <<p[n], v>> \in edges
  BY DEF Last
<1>6. \A k \in 1 .. n : p[k] # v
  BY <1>2 DEF ToSet
<1> HIDE DEF q, n
<1>7. q # <<>> /\ q[1] = 1
  BY <1>1, <1>2, <1>3
<1>8. ASSUME NEW k \in 1 .. Len(q) - 1 PROVE <<q[k], q[k + 1]>> \in edges
  <2>1. CASE k = n
    <3>1. q[k] = p[n] /\ q[k + 1] = v
      BY <1>1, <1>2, <2>1
    <3>2. QED
      BY <1>5, <3>1
  <2>2. CASE k # n
    <3>1. k \in 1 .. n - 1 /\ k + 1 \in 1 .. n
      BY <1>1, <1>2, <2>2
    <3>2. q[k] = p[k] /\ q[k + 1] = p[k + 1]
      BY <1>1, <1>2, <3>1
    <3>3. QED
      BY <1>3, <3>1, <3>2
  <2>3. QED
    BY <2>1, <2>2
<1>9. ASSUME NEW j \in DOMAIN q, NEW k \in DOMAIN q, q[j] = q[k] PROVE j = k
  BY <1>1, <1>2, <1>4, <1>6, <1>9
<1>10. IsSimplePath(q)
  BY <1>7, <1>8, <1>9 DEF IsSimplePath
<1>11. QED
  BY <1>10 DEF q

LEMMA PathCut ==
  ASSUME NEW p \in Seq(Nat), IsSimplePath(p), Len(p) # 1
  PROVE  IsSimplePath(Front(p))
<1> DEFINE q == Front(p)
           n == Len(p)
<1>1. n \in Nat \ {0, 1} /\ DOMAIN p = 1 .. n /\ p # <<>>
  <2>1. p # <<>>
    BY DEF IsSimplePath
  <2>2. QED
    BY <2>1
<1>2. p[1] = 1 /\ \A k \in 1 .. n - 1 : <<p[k], p[k + 1]>> \in edges
  BY DEF IsSimplePath
<1>3. \A j, k \in 1 .. n : p[j] = p[k] => j = k
  BY <1>1 DEF IsSimplePath
<1>4. /\ q \in Seq(Nat) /\ Len(q) = n - 1
      /\ \A k \in 1 .. n - 1 : q[k] = p[k]
  BY <1>1, FrontProperties
<1>5. DOMAIN q = 1 .. n - 1
  <2> HIDE DEF q, n
  <2>1. QED
    BY <1>4
<1> HIDE DEF q, n
<1>6. q # <<>> /\ q[1] = 1
  BY <1>1, <1>2, <1>4
<1>7. ASSUME NEW k \in 1 .. Len(q) - 1 PROVE <<q[k], q[k + 1]>> \in edges
  <2>1. k \in 1 .. n - 1 /\ k + 1 \in 1 .. n - 1
    BY <1>1, <1>4
  <2>2. q[k] = p[k] /\ q[k + 1] = p[k + 1]
    BY <1>4, <2>1
  <2>3. QED
    BY <1>2, <2>1, <2>2
<1>8. ASSUME NEW j \in DOMAIN q, NEW k \in DOMAIN q, q[j] = q[k] PROVE j = k
  BY <1>1, <1>3, <1>4, <1>5, <1>8
<1>9. IsSimplePath(q)
  BY <1>6, <1>7, <1>8 DEF IsSimplePath
<1>10. QED
  BY <1>9 DEF q

-----------------------------------------------------------------------------
(* The invariant is inductive.                                             *)

LEMMA InitInv == Init => Inv
<1> SUFFICES ASSUME Init PROVE Inv
  OBVIOUS
<1>1. TypeOK
  BY GraphSearchOK DEF Init, TypeOK, Joins
<1>2. StackInv
  BY DEF Init, StackInv
<1>3. PathsSimple /\ BandsBounded
  BY GraphSearchOK DEF Init, PathsSimple, BandsBounded
<1>4. QED
  BY <1>1, <1>2, <1>3 DEF Inv

(* What the path visited is when a call returns.                           *)
LEMMA LeaveInv ==
  ASSUME TypeOK, visited # <<>>, IsSimplePath(visited), Leave, UNCHANGED graph
  PROVE  /\ visited' \in Seq(1 .. size - 1) /\ Len(visited') = Len(visited) - 1
         /\ visited' # <<>> => IsSimplePath(visited)'
         /\ pc' = IF visited' = <<>> THEN "done" ELSE "loop"
<1>1. visited \in Seq(1 .. size - 1) /\ visited \in Seq(Nat)
  <2>1. visited \in Seq(1 .. size - 1)
    BY DEF TypeOK
  <2>2. 1 .. size - 1 \subseteq Nat
    BY GraphSearchOK DEF TypeOK
  <2>3. QED
    BY <2>1, <2>2, SeqMonotone
<1>2. visited' = Front(visited) /\ pc' = IF Len(visited) = 1 THEN "done" ELSE "loop"
  BY DEF Leave
<1>3. visited' \in Seq(1 .. size - 1) /\ Len(visited') = Len(visited) - 1
  BY <1>1, <1>2, FrontProperties
<1>4. Len(visited) \in Nat \ {0}
  BY <1>1
<1>5. visited' = <<>> <=> Len(visited) = 1
  <2>1. visited' = <<>> <=> Len(visited') = 0
    BY <1>3, EmptySeq
  <2>2. QED
    BY <1>3, <1>4, <2>1
<1>6. ASSUME Len(visited) # 1 PROVE IsSimplePath(Front(visited))
  BY <1>1, <1>6, PathCut
<1>7. edges' = edges
  BY DEF graph
<1>8. visited' # <<>> => IsSimplePath(visited)'
  BY <1>2, <1>5, <1>6, <1>7 DEF IsSimplePath
<1>9. QED
  BY <1>2, <1>3, <1>5, <1>8

(* Paths are found through the same graph until the next search begins.    *)
LEMMA SameGraph ==
  ASSUME UNCHANGED graph
  PROVE  /\ size' = size /\ edges' = edges /\ Goal' = Goal
         /\ \A p : IsSimplePath(p)' = IsSimplePath(p)
  BY DEF graph, IsSimplePath, Goal

LEMMA SearchInv ==
  ASSUME Inv, NEW n \in Sizes, NEW b \in 0 .. MaxClasses - 1,
         NEW E \in SUBSET Joins(n), Search(n, E, b)
  PROVE  Inv'
<1>1. /\ offered = <<>> /\ visited = <<>> /\ at = <<>>
      /\ size' = n /\ edges' = E /\ bands' = b /\ visited' = <<1>> /\ pc' = "enter"
      /\ at' = <<>> /\ offered' = <<>>
  BY DEF Inv, StackInv, Search
<1>2. n \in Nat \ {0, 1} /\ 1 \in 1 .. n - 1
  BY GraphSearchOK
<1>3. visited' \in Seq(1 .. size' - 1) /\ at' \in Seq(0 .. size' - 1)
  BY <1>1, <1>2
<1>4. bands' \in Nat /\ bands' <= MaxClasses
  BY <1>1, GraphSearchOK
<1>5. TypeOK'
  BY <1>1, <1>3, <1>4 DEF TypeOK, Joins
<1>6. IsSimplePath(visited)'
  BY <1>1 DEF IsSimplePath
<1>7. StackInv'
  BY <1>1, <1>6 DEF StackInv
<1>8. PathsSimple'
  BY <1>1 DEF PathsSimple
<1>9. QED
  BY <1>4, <1>5, <1>7, <1>8 DEF Inv, BandsBounded

LEMMA ReachGoalInv ==
  ASSUME Inv, ReachGoal
  PROVE  Inv'
<1> DEFINE p == Append(visited, Goal)
<1>1. /\ pc = "enter" /\ bands < MaxClasses /\ <<Last(visited), Goal>> \in edges
      /\ offered' = Append(offered, p) /\ at' = Append(at, 0) /\ pc' = "loop"
      /\ UNCHANGED graph /\ visited' = visited
  BY DEF ReachGoal
<1>2. /\ size \in Nat \ {0, 1} /\ visited \in Seq(1 .. size - 1) /\ at \in Seq(0 .. size - 1)
      /\ offered \in Seq(Seq(1 .. size)) /\ bands \in Nat
  BY GraphSearchOK DEF Inv, TypeOK
<1>3. Len(visited) = Len(at) + 1 /\ visited # <<>> /\ IsSimplePath(visited)
  <2>1. Len(visited) = Len(at) + 1 /\ (visited # <<>> => IsSimplePath(visited))
    BY <1>1 DEF Inv, StackInv
  <2>2. visited # <<>>
    BY <1>2, <2>1, EmptySeq, LenProperties
  <2>3. QED
    BY <2>1, <2>2
<1>4. visited \in Seq(Nat) /\ visited \in Seq(1 .. size)
  BY <1>2, SeqMonotone
<1>5. Goal \in Nat /\ Goal \in 1 .. size /\ Goal \notin ToSet(visited)
  <2>1. \A k \in DOMAIN visited : visited[k] \in 1 .. size - 1
    BY <1>2
  <2>2. QED
    BY <1>2, <2>1 DEF Goal, ToSet
<1>6. IsSimplePath(p)
  BY <1>1, <1>3, <1>4, <1>5, PathExtended
<1>7. p \in Seq(1 .. size) /\ Last(p) = Goal
  BY <1>4, <1>5 DEF Last
<1> HIDE DEF p
<1>8. /\ size' = size /\ edges' = edges /\ Goal' = Goal
      /\ \A q : IsSimplePath(q)' = IsSimplePath(q)
  BY <1>1, SameGraph
<1>9. bands' \in Nat /\ bands' <= MaxClasses
  BY <1>1, <1>2, GraphSearchOK DEF ReachGoal, Offer
<1>10. offered' \in Seq(Seq(1 .. size)) /\ at' \in Seq(0 .. size - 1) /\ Len(at') = Len(at) + 1
  BY <1>1, <1>2, <1>7
<1>11. TypeOK'
  BY <1>1, <1>2, <1>8, <1>9, <1>10 DEF Inv, TypeOK, Joins
<1>12. StackInv'
  <2>1. at' # <<>>
    BY <1>10, <1>2, LenProperties, EmptySeq
  <2>2. IsSimplePath(visited)'
    BY <1>1, <1>3, <1>8 DEF IsSimplePath
  <2>3. QED
    BY <1>1, <1>3, <1>10, <2>1, <2>2 DEF StackInv
<1>13. PathsSimple'
  <2>1. ASSUME NEW k \in DOMAIN offered'
        PROVE  IsSimplePath(offered'[k]) /\ Last(offered'[k]) = Goal
    <3>1. CASE k = Len(offered) + 1
      BY <1>1, <1>2, <1>6, <1>7, <3>1
    <3>2. CASE k # Len(offered) + 1
      <4>1. k \in DOMAIN offered /\ offered'[k] = offered[k]
        BY <1>1, <1>2, <1>7, <2>1, <3>2
      <4>2. QED
        BY <4>1 DEF Inv, PathsSimple
    <3>3. QED
      BY <3>1, <3>2
  <2>2. QED
    BY <1>8, <2>1 DEF PathsSimple, IsSimplePath
<1>14. QED
  BY <1>9, <1>11, <1>12, <1>13 DEF Inv, BandsBounded

(* The search enters the next vertex, the first of those ahead.            *)
LEMMA DescendInv ==
  ASSUME Inv, Descend
  PROVE  Inv'
<1> DEFINE v == Min(Ahead)
<1>1. /\ pc = "loop" /\ Ahead # {} /\ visited' = Append(visited, v)
      /\ at' = [at EXCEPT ![Len(at)] = v] /\ pc' = "enter"
      /\ UNCHANGED graph /\ bands' = bands /\ offered' = offered
  BY DEF Descend
<1>2. /\ size \in Nat \ {0, 1} /\ visited \in Seq(1 .. size - 1) /\ at \in Seq(0 .. size - 1)
  BY GraphSearchOK DEF Inv, TypeOK
<1>3. Len(visited) = Len(at) /\ at # <<>> /\ Len(at) \in Nat \ {0}
  BY <1>1, <1>2, EmptySeq DEF Inv, StackInv
<1>4. visited # <<>> /\ IsSimplePath(visited)
  <2>1. visited # <<>>
    BY <1>2, <1>3, EmptySeq
  <2>2. QED
    BY <2>1 DEF Inv, StackInv
<1>5. v \in Ahead
  <2>1. Ahead \subseteq Nat
    BY <1>2 DEF Ahead
  <2>2. QED
    BY <1>1, <2>1, MinIsMember
<1>6. v \in 1 .. size - 1 /\ <<Last(visited), v>> \in edges /\ v \notin ToSet(visited)
  BY <1>5 DEF Ahead
<1> HIDE DEF v
<1>7. visited \in Seq(Nat)
  BY <1>2, SeqMonotone
<1>8. IsSimplePath(Append(visited, v))
  BY <1>2, <1>4, <1>6, <1>7, PathExtended
<1>9. visited' \in Seq(1 .. size - 1) /\ Len(visited') = Len(visited) + 1
  BY <1>1, <1>2, <1>6
<1>10. at' \in Seq(0 .. size - 1) /\ Len(at') = Len(at)
  BY <1>1, <1>2, <1>3, <1>6
<1>11. /\ size' = size /\ edges' = edges /\ Goal' = Goal
       /\ \A q : IsSimplePath(q)' = IsSimplePath(q)
  BY <1>1, SameGraph
<1>12. TypeOK'
  BY <1>1, <1>9, <1>10, <1>11 DEF Inv, TypeOK, Joins
<1>13. StackInv'
  <2>1. IsSimplePath(visited)'
    BY <1>1, <1>8, <1>11 DEF IsSimplePath
  <2>2. QED
    BY <1>1, <1>3, <1>9, <1>10, <2>1 DEF StackInv
<1>14. PathsSimple'
  BY <1>1, <1>11 DEF Inv, PathsSimple, IsSimplePath
<1>15. QED
  BY <1>1, <1>12, <1>13, <1>14 DEF Inv, BandsBounded

LEMMA PassByInv ==
  ASSUME Inv, PassBy
  PROVE  Inv'
<1>1. /\ pc = "enter" /\ at' = Append(at, 0) /\ pc' = "loop"
      /\ UNCHANGED graph /\ UNCHANGED <<bands, visited, offered>>
  BY DEF PassBy
<1>2. size \in Nat \ {0, 1} /\ visited \in Seq(1 .. size - 1) /\ at \in Seq(0 .. size - 1)
  BY GraphSearchOK DEF Inv, TypeOK
<1>3. at' \in Seq(0 .. size - 1) /\ Len(at') = Len(at) + 1 /\ at' # <<>>
  BY <1>1, <1>2
<1>4. /\ size' = size /\ edges' = edges /\ Goal' = Goal
      /\ \A q : IsSimplePath(q)' = IsSimplePath(q)
  BY <1>1, SameGraph
<1>5. TypeOK'
  BY <1>1, <1>3, <1>4 DEF Inv, TypeOK, Joins
<1>6. StackInv'
  <2>1. visited # <<>> => IsSimplePath(visited)
    BY DEF Inv, StackInv
  <2>2. visited' # <<>> => IsSimplePath(visited)'
    BY <1>1, <1>4, <2>1 DEF IsSimplePath
  <2>3. QED
    BY <1>1, <1>3, <2>2 DEF Inv, StackInv
<1>7. PathsSimple'
  BY <1>1, <1>4 DEF Inv, PathsSimple, IsSimplePath
<1>8. QED
  BY <1>1, <1>5, <1>6, <1>7 DEF Inv, BandsBounded

LEMMA LimitReachedInv ==
  ASSUME Inv, LimitReached
  PROVE  Inv'
<1>1. /\ pc = "enter" /\ Leave
      /\ UNCHANGED graph /\ UNCHANGED <<bands, at, offered>>
  BY DEF LimitReached
<1>2. size \in Nat \ {0, 1} /\ visited \in Seq(1 .. size - 1) /\ at \in Seq(0 .. size - 1)
  BY GraphSearchOK DEF Inv, TypeOK
<1>3. Len(visited) = Len(at) + 1 /\ visited # <<>> /\ IsSimplePath(visited)
  <2>1. Len(visited) = Len(at) + 1
    BY <1>1 DEF Inv, StackInv
  <2>2. visited # <<>>
    BY <1>2, <2>1, EmptySeq, LenProperties
  <2>3. QED
    BY <2>1, <2>2 DEF Inv, StackInv
<1>4. /\ visited' \in Seq(1 .. size - 1) /\ Len(visited') = Len(visited) - 1
      /\ visited' # <<>> => IsSimplePath(visited)'
      /\ pc' = IF visited' = <<>> THEN "done" ELSE "loop"
  BY <1>1, <1>3, LeaveInv DEF Inv
<1>5. /\ size' = size /\ edges' = edges /\ Goal' = Goal
      /\ \A q : IsSimplePath(q)' = IsSimplePath(q)
  BY <1>1, SameGraph
<1>6. TypeOK'
  BY <1>1, <1>4, <1>5 DEF Inv, TypeOK, Joins
<1>7. Len(visited') = Len(at') /\ (visited' = <<>> <=> at' = <<>>)
  BY <1>1, <1>2, <1>3, <1>4, EmptySeq, LenProperties
<1>8. StackInv'
  BY <1>4, <1>7 DEF StackInv
<1>9. PathsSimple'
  BY <1>1, <1>5 DEF Inv, PathsSimple, IsSimplePath
<1>10. QED
  BY <1>1, <1>6, <1>8, <1>9 DEF Inv, BandsBounded

LEMMA LoopEndsInv ==
  ASSUME Inv, LoopEnds
  PROVE  Inv'
<1>1. /\ pc = "loop" /\ Leave /\ at' = Front(at)
      /\ UNCHANGED graph /\ UNCHANGED <<bands, offered>>
  BY DEF LoopEnds
<1>2. size \in Nat \ {0, 1} /\ visited \in Seq(1 .. size - 1) /\ at \in Seq(0 .. size - 1)
  BY GraphSearchOK DEF Inv, TypeOK
<1>3. Len(visited) = Len(at) /\ at # <<>> /\ visited # <<>> /\ IsSimplePath(visited)
  <2>1. Len(visited) = Len(at) /\ at # <<>>
    BY <1>1 DEF Inv, StackInv
  <2>2. visited # <<>>
    BY <1>2, <2>1, EmptySeq, LenProperties
  <2>3. QED
    BY <2>1, <2>2 DEF Inv, StackInv
<1>4. /\ visited' \in Seq(1 .. size - 1) /\ Len(visited') = Len(visited) - 1
      /\ visited' # <<>> => IsSimplePath(visited)'
      /\ pc' = IF visited' = <<>> THEN "done" ELSE "loop"
  BY <1>1, <1>3, LeaveInv DEF Inv
<1>5. at' \in Seq(0 .. size - 1) /\ Len(at') = Len(at) - 1
  BY <1>1, <1>2, <1>3, FrontProperties
<1>6. /\ size' = size /\ edges' = edges /\ Goal' = Goal
      /\ \A q : IsSimplePath(q)' = IsSimplePath(q)
  BY <1>1, SameGraph
<1>7. TypeOK'
  BY <1>1, <1>4, <1>5, <1>6 DEF Inv, TypeOK, Joins
<1>8. Len(visited') = Len(at') /\ (visited' = <<>> <=> at' = <<>>)
  BY <1>3, <1>4, <1>5, EmptySeq, LenProperties
<1>9. StackInv'
  BY <1>4, <1>8 DEF StackInv
<1>10. PathsSimple'
  BY <1>1, <1>6 DEF Inv, PathsSimple, IsSimplePath
<1>11. QED
  BY <1>1, <1>7, <1>9, <1>10 DEF Inv, BandsBounded

LEMMA StepInv == Inv /\ [Next]_vars => Inv'
<1> SUFFICES ASSUME Inv, [Next]_vars PROVE Inv'
  OBVIOUS
<1>1. ASSUME NEW n \in Sizes, NEW b \in 0 .. MaxClasses - 1, NEW E \in SUBSET Joins(n),
             Search(n, E, b)
      PROVE  Inv'
  BY <1>1, SearchInv
<1>2. ASSUME StraightLine PROVE Inv'
  <2>1. bands' \in Nat /\ bands' <= MaxClasses
    BY <1>2, GraphSearchOK DEF StraightLine
  <2>2. /\ UNCHANGED <<size, edges, visited, at, offered>>
        /\ pc = "idle" /\ pc' = "done"
    BY <1>2 DEF StraightLine, graph
  <2>3. TypeOK'
    BY <2>1, <2>2 DEF Inv, TypeOK, Joins
  <2>4. StackInv'
    BY <2>2 DEF Inv, StackInv
  <2>5. PathsSimple'
    BY <2>2 DEF Inv, StackInv, PathsSimple
  <2>6. QED
    BY <2>1, <2>3, <2>4, <2>5 DEF Inv, BandsBounded
<1>3. ASSUME Finish PROVE Inv'
  <2>1. /\ size' = size /\ edges' = {} /\ bands' = 0 /\ offered' = <<>> /\ pc' = "idle"
        /\ visited' = <<>> /\ at' = <<>>
    BY <1>3 DEF Finish, Inv, StackInv
  <2>2. TypeOK'
    BY <2>1 DEF Inv, TypeOK
  <2>3. StackInv' /\ PathsSimple' /\ BandsBounded'
    BY <2>1, GraphSearchOK DEF StackInv, PathsSimple, BandsBounded
  <2>4. QED
    BY <2>2, <2>3 DEF Inv
<1>4. ASSUME DepthFirst PROVE Inv'
  BY <1>4, LimitReachedInv, ReachGoalInv, PassByInv, DescendInv, LoopEndsInv DEF DepthFirst
<1>5. ASSUME UNCHANGED vars PROVE Inv'
  <2>1. UNCHANGED <<size, edges, bands, visited, at, offered, pc>>
    BY <1>5 DEF vars, graph
  <2>2. QED
    BY <2>1 DEF Inv, TypeOK, StackInv, PathsSimple, BandsBounded, IsSimplePath, Goal, Joins
<1>6. QED
  BY <1>1, <1>2, <1>3, <1>4, <1>5 DEF Next, CreateGraph

LEMMA InvHolds == Spec => []Inv
<1>1. QED
  BY InitInv, StepInv, PTL DEF Spec

-----------------------------------------------------------------------------
(* Every vertex the recursion of DepthFirst() holds is one of this graph's, *)
(* and none of them is the goal.                                           *)
THEOREM TypeCorrect == Spec => []TypeOK
<1>1. Inv => TypeOK
  BY DEF Inv
<1>2. QED
  BY InvHolds, <1>1, PTL

(* Every candidate DepthFirst() offers follows a simple path from the      *)
(* start to the goal, in a graph of any size, with circles or without.     *)
THEOREM PathsSimpleHolds == Spec => []PathsSimple
<1>1. Inv => PathsSimple
  BY DEF Inv
<1>2. QED
  BY InvHolds, <1>1, PTL

(* The searches never have more than max_number_classes bands, although    *)
(* DepthFirst() tests the limit only as it enters a vertex.                *)
THEOREM BandsBoundedHolds == Spec => []BandsBounded
<1>1. Inv => BandsBounded
  BY DEF Inv
<1>2. QED
  BY InvHolds, <1>1, PTL

-----------------------------------------------------------------------------
(* Where the search has been.                                              *)

(* A path the search has been on, where it has come to p with its loops at *)
(* a: it leaves p at depth k for a vertex the loop there is done with.     *)
PassedAt(q, p, a, k) ==
  /\ k <= Len(q) /\ \A j \in 1 .. k : q[j] = p[j]
  /\ Len(q) = k \/ q[k + 1] < a[k] \/ (k = Len(p) /\ q[k + 1] = a[k])

Passed(q, p, a) == \E k \in 1 .. Len(a) : PassedAt(q, p, a, k)

(* What does not change below depth n.                                     *)
LEMMA PassedBelow ==
  ASSUME NEW q, NEW p, NEW r, NEW a, NEW b, NEW n \in Nat,
         n <= Len(p), n <= Len(r), Len(p) \in Nat, Len(r) \in Nat,
         \A j \in 1 .. n : p[j] = r[j],
         NEW k \in 1 .. n, a[k] = b[k],
         k # Len(p), k # Len(r)
  PROVE  PassedAt(q, p, a, k) <=> PassedAt(q, r, b, k)
<1>1. \A j \in 1 .. k : p[j] = r[j]
  OBVIOUS
<1>2. QED
  BY <1>1 DEF PassedAt

LEMMA EnterPassed ==
  ASSUME NEW q \in Seq(Nat), NEW p \in Seq(Nat), NEW a \in Seq(Nat), NEW b \in Seq(Nat),
         Len(p) = Len(a) + 1, Len(b) = Len(a) + 1,
         \A k \in 1 .. Len(a) : b[k] = a[k], b[Len(b)] = 0
  PROVE  /\ Passed(q, p, a) => Passed(q, p, b)
         /\ (\A k \in 1 .. Len(q) : q[k] # 0) /\ Passed(q, p, b) => Passed(q, p, a) \/ q = p
<1> DEFINE n == Len(a)
<1>0. n \in Nat /\ Len(p) = n + 1 /\ Len(b) = n + 1 /\ Len(q) \in Nat
  BY LenProperties
<1>1. ASSUME NEW k \in 1 .. n PROVE PassedAt(q, p, a, k) <=> PassedAt(q, p, b, k)
  <2>1. k # Len(p) /\ a[k] = b[k] /\ n <= Len(p) /\ Len(p) \in Nat
    BY <1>0
  <2>2. QED
    BY <1>0, <2>1, PassedBelow
<1>2. ASSUME \A k \in 1 .. Len(q) : q[k] # 0, PassedAt(q, p, b, n + 1) PROVE q = p
  <2>1. n + 1 <= Len(q) /\ (\A j \in 1 .. n + 1 : q[j] = p[j]) /\ b[n + 1] = 0
    BY <1>0, <1>2 DEF PassedAt
  <2>2. Len(q) = n + 1
    <3> SUFFICES ASSUME Len(q) # n + 1 PROVE FALSE
      OBVIOUS
    <3>1. n + 2 \in 1 .. Len(q) /\ (n + 1) + 1 = n + 2
      BY <1>0, <2>1
    <3>2. q[n + 2] \in Nat /\ q[n + 2] # 0
      BY <1>2, <3>1, ElementOfSeq
    <3>3. q[n + 2] < 0 \/ q[n + 2] = 0
      BY <1>2, <2>1, <3>1 DEF PassedAt
    <3>4. QED
      BY <3>2, <3>3
  <2>3. QED
    BY <1>0, <2>1, <2>2, SeqEqual
<1> HIDE DEF n
<1>3. Passed(q, p, a) <=> \E k \in 1 .. n : PassedAt(q, p, a, k)
  BY DEF Passed, n
<1>4. Passed(q, p, b) <=> \E k \in 1 .. n + 1 : PassedAt(q, p, b, k)
  BY <1>0 DEF Passed
<1>5. \A k \in 1 .. n + 1 : k \in 1 .. n \/ k = n + 1
  BY <1>0
<1>6. \A k \in 1 .. n : k \in 1 .. n + 1
  BY <1>0
<1>7. QED
  BY <1>1, <1>2, <1>3, <1>4, <1>5, <1>6

(* The loop at the end of p goes on to v, behind the ones it is done with. *)
LEMMA DescendPassed ==
  ASSUME NEW q \in Seq(Nat), NEW p \in Seq(Nat), NEW r \in Seq(Nat),
         NEW a \in Seq(Nat), NEW b \in Seq(Nat), NEW v \in Nat,
         a # <<>>, Len(p) = Len(a), Len(b) = Len(a), Len(r) = Len(p) + 1,
         \A k \in 1 .. Len(p) : r[k] = p[k],
         \A k \in 1 .. Len(a) - 1 : b[k] = a[k],
         b[Len(a)] = v, a[Len(a)] < v
  PROVE  /\ Passed(q, p, a) => Passed(q, r, b)
         /\ Passed(q, r, b) =>
              \/ Passed(q, p, a)
              \/ /\ Len(q) > Len(p) /\ \A j \in 1 .. Len(p) : q[j] = p[j]
                 /\ a[Len(a)] < q[Len(p) + 1] /\ q[Len(p) + 1] < v
<1> DEFINE n == Len(a)
<1>0. n \in Nat \ {0} /\ Len(p) = n /\ Len(b) = n /\ Len(r) = n + 1 /\ Len(q) \in Nat
  BY LenProperties, EmptySeq
<1>1. ASSUME NEW k \in 1 .. n - 1 PROVE PassedAt(q, p, a, k) <=> PassedAt(q, r, b, k)
  <2>1. a[k] = b[k]
    OBVIOUS
  <2>2. \A j \in 1 .. n : p[j] = r[j]
    BY <1>0
  <2> HIDE DEF n
  <2>3. n \in Nat /\ k \in 1 .. n /\ k # n /\ k # n + 1
    BY <1>0, SMTT(30)
  <2>4. /\ k # Len(p) /\ k # Len(r) /\ n <= Len(p) /\ n <= Len(r)
        /\ Len(p) \in Nat /\ Len(r) \in Nat
    BY <1>0, <2>3, SMTT(30)
  <2>5. QED
    BY <2>1, <2>2, <2>3, <2>4, PassedBelow
<1>2. a[n] \in Nat
  BY <1>0, ElementOfSeq
<1>3. Len(q) > n => q[n + 1] \in Nat
  <2> SUFFICES ASSUME Len(q) > n PROVE q[n + 1] \in Nat
    OBVIOUS
  <2> HIDE DEF n
  <2>1. n + 1 \in 1 .. Len(q)
    BY <1>0, SMTT(30)
  <2>2. QED
    BY <2>1, ElementOfSeq
<1>4. (\A j \in 1 .. n : q[j] = p[j]) <=> (\A j \in 1 .. n : q[j] = r[j])
  BY <1>0
<1> DEFINE Next1 == Len(q) > n /\ \A j \in 1 .. n : q[j] = p[j]
<1>5. PassedAt(q, p, a, n) <=> /\ n <= Len(q) /\ \A j \in 1 .. n : q[j] = p[j]
                               /\ Len(q) = n \/ q[n + 1] <= a[n]
  <2>1. PassedAt(q, p, a, n) <=> /\ n <= Len(q) /\ \A j \in 1 .. n : q[j] = p[j]
                                 /\ Len(q) = n \/ q[n + 1] < a[n] \/ q[n + 1] = a[n]
    BY <1>0 DEF PassedAt
  <2> HIDE DEF n
  <2>2. ASSUME n <= Len(q) PROVE Len(q) = n \/ q[n + 1] \in Nat
    BY <1>0, <1>3, <2>2, SMTT(30)
  <2>3. \A x, y \in Nat : x <= y <=> x < y \/ x = y
    OBVIOUS
  <2>4. ASSUME q[n + 1] \in Nat PROVE q[n + 1] <= a[n] <=> q[n + 1] < a[n] \/ q[n + 1] = a[n]
    BY <1>2, <2>3, <2>4, Zenon
  <2>5. QED
    BY <2>1, <2>2, <2>4, Zenon
<1>6. PassedAt(q, r, b, n) <=> /\ n <= Len(q) /\ \A j \in 1 .. n : q[j] = p[j]
                               /\ Len(q) = n \/ q[n + 1] < v
  <2>1. n # Len(r) /\ b[n] = v
    BY <1>0
  <2>2. PassedAt(q, r, b, n) <=> /\ n <= Len(q) /\ \A j \in 1 .. n : q[j] = r[j]
                                 /\ Len(q) = n \/ q[n + 1] < v
    BY <2>1 DEF PassedAt
  <2>3. QED
    BY <1>4, <2>2
<1>7. a[n] < v /\ v \in Nat
  OBVIOUS
<1>8. PassedAt(q, p, a, n) => PassedAt(q, r, b, n)
  BY <1>0, <1>2, <1>3, <1>5, <1>6, <1>7
<1>9. PassedAt(q, r, b, n) => \/ PassedAt(q, p, a, n)
                              \/ /\ Len(q) > n /\ \A j \in 1 .. n : q[j] = p[j]
                                 /\ a[n] < q[n + 1] /\ q[n + 1] < v
  <2> SUFFICES ASSUME PassedAt(q, r, b, n), ~PassedAt(q, p, a, n)
               PROVE  /\ Len(q) > n /\ \A j \in 1 .. n : q[j] = p[j]
                      /\ a[n] < q[n + 1] /\ q[n + 1] < v
    OBVIOUS
  <2>1. /\ n <= Len(q) /\ \A j \in 1 .. n : q[j] = p[j]
        /\ Len(q) # n /\ q[n + 1] < v /\ ~(q[n + 1] <= a[n])
    BY <1>5, <1>6, Zenon
  <2> HIDE DEF n
  <2>2. Len(q) > n
    BY <1>0, <2>1, SMTT(30)
  <2>3. a[n] < q[n + 1]
    BY <1>2, <1>3, <2>1, <2>2, SMTT(30)
  <2>4. QED
    BY <2>1, <2>2, <2>3
<1> HIDE DEF n
<1>10. Passed(q, p, a) <=> \E k \in 1 .. n : PassedAt(q, p, a, k)
  BY DEF Passed, n
<1>11. Passed(q, r, b) <=> \E k \in 1 .. n : PassedAt(q, r, b, k)
  BY <1>0 DEF Passed
<1>12. \A k \in 1 .. n : k \in 1 .. n - 1 \/ k = n
  BY <1>0
<1>13. n \in 1 .. n /\ \A k \in 1 .. n - 1 : k \in 1 .. n
  BY <1>0
<1>14. Passed(q, p, a) => Passed(q, r, b)
  BY <1>1, <1>8, <1>10, <1>11, <1>12, <1>13
<1>15. Passed(q, r, b) => Passed(q, p, a) \/ (PassedAt(q, r, b, n) /\ ~PassedAt(q, p, a, n))
  BY <1>1, <1>10, <1>11, <1>12, <1>13
<1>16. QED
  BY <1>0, <1>9, <1>14, <1>15 DEF n

(* A call returns: the loop above it is done with its vertex. *)
LEMMA LeavePassed ==
  ASSUME NEW q \in Seq(Nat), NEW p \in Seq(Nat), NEW r \in Seq(Nat),
         NEW a \in Seq(Nat), NEW b \in Seq(Nat),
         Len(p) = Len(r) + 1, Len(b) = Len(r), Len(a) \in {Len(b), Len(p)}, r # <<>>,
         \A k \in 1 .. Len(r) : r[k] = p[k],
         \A k \in 1 .. Len(b) : b[k] = a[k] /\ a[k] = p[k + 1]
  PROVE  /\ Passed(q, p, a) => Passed(q, r, b)
         /\ Passed(q, r, b) =>
              \/ Passed(q, p, a)
              \/ Len(q) >= Len(p) /\ \A j \in 1 .. Len(p) : q[j] = p[j]
<1> DEFINE n == Len(r)
<1>0. n \in Nat \ {0} /\ Len(r) = n /\ Len(p) = n + 1 /\ Len(b) = n /\ Len(a) \in {n, n + 1} /\ Len(q) \in Nat
  BY LenProperties, EmptySeq
<1>1. ASSUME NEW k \in 1 .. n - 1 PROVE PassedAt(q, p, a, k) <=> PassedAt(q, r, b, k)
  <2>0. k \in 1 .. Len(b)
    BY <1>0
  <2>1. /\ k # Len(p) /\ k # Len(r) /\ a[k] = b[k] /\ n <= Len(p) /\ n <= Len(r)
        /\ Len(p) \in Nat /\ Len(r) \in Nat /\ k \in 1 .. n
    <3>1. a[k] = b[k]
      BY <2>0
    <3> HIDE DEF n
    <3>2. /\ k # Len(p) /\ k # Len(r) /\ n <= Len(p) /\ n <= Len(r)
          /\ Len(p) \in Nat /\ Len(r) \in Nat /\ k \in 1 .. n
      BY <1>0
    <3>3. QED
      BY <3>1, <3>2
  <2>2. \A j \in 1 .. n : p[j] = r[j]
    BY <1>0
  <2>3. n \in Nat
    BY <1>0
  <2> HIDE DEF n
  <2>4. QED
    BY <2>1, <2>2, <2>3, PassedBelow
<1>2. b[n] = a[n] /\ a[n] = p[n + 1] /\ p[n + 1] \in Nat
  BY <1>0, ElementOfSeq
<1>3. Len(q) > n => q[n + 1] \in Nat
  <2> SUFFICES ASSUME Len(q) > n PROVE q[n + 1] \in Nat
    OBVIOUS
  <2> HIDE DEF n
  <2>1. n + 1 \in 1 .. Len(q)
    BY <1>0, SMTT(30)
  <2>2. QED
    BY <2>1, ElementOfSeq
<1>4. (\A j \in 1 .. n : q[j] = p[j]) <=> (\A j \in 1 .. n : q[j] = r[j])
  BY <1>0
<1>5. PassedAt(q, r, b, n) <=> /\ n <= Len(q) /\ \A j \in 1 .. n : q[j] = p[j]
                               /\ Len(q) = n \/ q[n + 1] < p[n + 1] \/ q[n + 1] = p[n + 1]
  BY <1>0, <1>2, <1>4 DEF PassedAt
<1>6. PassedAt(q, p, a, n) <=> /\ n <= Len(q) /\ \A j \in 1 .. n : q[j] = p[j]
                               /\ Len(q) = n \/ q[n + 1] < p[n + 1]
  BY <1>0, <1>2 DEF PassedAt
<1>7. PassedAt(q, p, a, n + 1) => PassedAt(q, r, b, n)
  <2> SUFFICES ASSUME PassedAt(q, p, a, n + 1) PROVE PassedAt(q, r, b, n)
    OBVIOUS
  <2>1. n + 1 <= Len(q) /\ \A j \in 1 .. n + 1 : q[j] = p[j]
    BY DEF PassedAt
  <2>2. n <= Len(q) /\ (\A j \in 1 .. n : q[j] = p[j]) /\ q[n + 1] = p[n + 1]
    <3>1. n + 1 \in 1 .. n + 1 /\ \A j \in 1 .. n : j \in 1 .. n + 1
      BY <1>0
    <3>2. n <= Len(q)
      BY <1>0, <2>1
    <3>3. QED
      BY <2>1, <3>1, <3>2
  <2>3. QED
    BY <1>5, <2>2
<1>8. PassedAt(q, r, b, n) =>
        PassedAt(q, p, a, n) \/ (n + 1 <= Len(q) /\ \A j \in 1 .. n + 1 : q[j] = p[j])
  <2> SUFFICES ASSUME PassedAt(q, r, b, n), ~PassedAt(q, p, a, n)
               PROVE  n + 1 <= Len(q) /\ \A j \in 1 .. n + 1 : q[j] = p[j]
    OBVIOUS
  <2>1. /\ n <= Len(q) /\ (\A j \in 1 .. n : q[j] = p[j])
        /\ Len(q) # n /\ q[n + 1] = p[n + 1]
    BY <1>5, <1>6
  <2>2. \A j \in 1 .. n + 1 : j \in 1 .. n \/ j = n + 1
    BY <1>0
  <2>3. n + 1 <= Len(q)
    BY <1>0, <2>1
  <2>4. QED
    BY <2>1, <2>2, <2>3
<1> HIDE DEF n
<1>10. Passed(q, p, a) <=> \E k \in 1 .. Len(a) : PassedAt(q, p, a, k)
  BY DEF Passed
<1>11. Passed(q, r, b) <=> \E k \in 1 .. n : PassedAt(q, r, b, k)
  BY <1>0 DEF Passed
<1>12. /\ \A k \in 1 .. n : k \in 1 .. n - 1 \/ k = n
       /\ \A k \in 1 .. Len(a) : k \in 1 .. n - 1 \/ k = n \/ k = n + 1
  BY <1>0
<1>13. /\ n \in 1 .. n /\ n \in 1 .. Len(a)
       /\ \A k \in 1 .. n - 1 : k \in 1 .. n /\ k \in 1 .. Len(a)
  BY <1>0
<1>14. PassedAt(q, p, a, n) => PassedAt(q, r, b, n)
  BY <1>5, <1>6
<1>15. Passed(q, p, a) => Passed(q, r, b)
  BY <1>1, <1>7, <1>10, <1>11, <1>12, <1>13, <1>14
<1>16. Passed(q, r, b) => Passed(q, p, a) \/ (PassedAt(q, r, b, n) /\ ~PassedAt(q, p, a, n))
  BY <1>1, <1>10, <1>11, <1>12, <1>13
<1>17. QED
  BY <1>0, <1>8, <1>15, <1>16

-----------------------------------------------------------------------------
(* The search has been on every path it is past, and on no other.          *)
Past(q) == pc = "done" \/ Passed(q, visited, at)

AtInv == \A k \in 1 .. Len(visited) - 1 : at[k] = visited[k + 1]

LEMMA SearchTypes ==
  ASSUME Inv, pc \in {"enter", "loop"}
  PROVE  /\ size \in Nat \ {0, 1}
         /\ visited \in Seq(1 .. size - 1) /\ at \in Seq(0 .. size - 1)
         /\ visited \in Seq(Nat) /\ at \in Seq(Nat)
         /\ Len(visited) \in Nat \ {0} /\ Len(at) \in Nat
         /\ pc = "enter" => Len(visited) = Len(at) + 1
         /\ pc = "loop" => Len(visited) = Len(at) /\ at # <<>>
         /\ visited # <<>> /\ IsSimplePath(visited) /\ visited[1] = 1
<1>1. size \in Nat \ {0, 1} /\ visited \in Seq(1 .. size - 1) /\ at \in Seq(0 .. size - 1)
  BY GraphSearchOK DEF Inv, TypeOK
<1>2. visited \in Seq(Nat) /\ at \in Seq(Nat)
  BY <1>1, SeqMonotone
<1>3. /\ pc = "enter" => Len(visited) = Len(at) + 1
      /\ pc = "loop" => Len(visited) = Len(at) /\ at # <<>>
  BY DEF Inv, StackInv
<1>4. Len(visited) \in Nat \ {0} /\ Len(at) \in Nat
  BY <1>1, <1>3, EmptySeq, LenProperties
<1>5. visited # <<>>
  BY <1>4, EmptySeq
<1>6. IsSimplePath(visited) /\ visited[1] = 1
  BY <1>5 DEF Inv, StackInv, IsSimplePath
<1>7. QED
  BY <1>1, <1>2, <1>3, <1>4, <1>5, <1>6

LEMMA PathTypes ==
  ASSUME Inv, NEW q \in Seq(1 .. size - 1)
  PROVE  q \in Seq(Nat) /\ Len(q) \in Nat /\ \A k \in 1 .. Len(q) : q[k] \in 1 .. size - 1 /\ q[k] # 0
<1>1. size \in Nat
  BY GraphSearchOK DEF Inv, TypeOK
<1>2. Len(q) \in Nat /\ \A k \in 1 .. Len(q) : q[k] \in 1 .. size - 1
  BY LenProperties, ElementOfSeq
<1>3. \A k \in 1 .. Len(q) : q[k] # 0
  BY <1>1, <1>2
<1>4. 1 .. size - 1 \subseteq Nat
  BY <1>1
<1>5. QED
  BY <1>2, <1>3, <1>4, SeqMonotone

LEMMA PastEnter ==
  ASSUME Inv, AtInv, ReachGoal \/ PassBy
  PROVE  /\ AtInv'
         /\ \A q \in Seq(Nat) : Past(q) => Past(q)'
         /\ \A q \in Seq(1 .. size - 1) : Past(q)' => Past(q) \/ q = visited
<1>1. /\ pc = "enter" /\ at' = Append(at, 0) /\ pc' = "loop" /\ visited' = visited
  BY DEF ReachGoal, PassBy
<1>2. /\ visited \in Seq(Nat) /\ at \in Seq(Nat) /\ Len(visited) \in Nat \ {0} /\ Len(at) \in Nat
      /\ Len(visited) = Len(at) + 1
  BY <1>1, SearchTypes
<1>3. /\ at' \in Seq(Nat) /\ Len(at') = Len(at) + 1
      /\ \A k \in 1 .. Len(at) : at'[k] = at[k]
      /\ at'[Len(at) + 1] = 0
  BY <1>1, <1>2, AppendProperties
<1>4. AtInv'
  <2> SUFFICES ASSUME NEW k \in 1 .. Len(visited) - 1 PROVE at'[k] = visited[k + 1]
    BY <1>1 DEF AtInv
  <2>1. k \in 1 .. Len(at)
    BY <1>2
  <2>2. QED
    BY <1>3, <2>1 DEF AtInv
<1>5. ASSUME NEW q \in Seq(Nat)
      PROVE  /\ Passed(q, visited, at) => Passed(q, visited, at')
             /\ (\A k \in 1 .. Len(q) : q[k] # 0) /\ Passed(q, visited, at')
                  => Passed(q, visited, at) \/ q = visited
  BY <1>2, <1>3, EnterPassed
<1>6. \A q : Past(q)' <=> Passed(q, visited, at')
  BY <1>1 DEF Past, Passed, PassedAt
<1>7. \A q : Past(q) <=> Passed(q, visited, at)
  BY <1>1 DEF Past
<1>8. ASSUME NEW q \in Seq(1 .. size - 1), Past(q)' PROVE Past(q) \/ q = visited
  <2>1. q \in Seq(Nat) /\ \A k \in 1 .. Len(q) : q[k] # 0
    BY PathTypes
  <2>2. QED
    BY <1>5, <1>6, <1>7, <1>8, <2>1
<1>9. QED
  BY <1>4, <1>5, <1>6, <1>7, <1>8

(* A simple path that goes on from the one visited goes on ahead, or to    *)
(* where the loop has been.                                                *)
LEMMA GoesOnAhead ==
  ASSUME Inv, pc = "loop", NEW q \in Seq(1 .. size - 1), IsSimplePath(q),
         Len(q) > Len(visited), \A j \in 1 .. Len(visited) : q[j] = visited[j],
         q[Len(visited) + 1] > at[Len(at)]
  PROVE  q[Len(visited) + 1] \in Ahead
<1> DEFINE n == Len(visited)
           v == q[n + 1]
<1>1. /\ visited \in Seq(1 .. size - 1) /\ n \in Nat \ {0}
      /\ size \in Nat \ {0, 1}
  BY SearchTypes
<1>2. Len(q) \in Nat /\ \A k \in 1 .. Len(q) : q[k] \in 1 .. size - 1
  BY PathTypes
<1>3. n \in 1 .. Len(q) - 1 /\ n + 1 \in 1 .. Len(q) /\ n \in 1 .. n
  BY <1>1, <1>2
<1>4. v \in 1 .. size - 1 /\ v > Last(at)
  BY <1>2, <1>3 DEF Last
<1>5. <<q[n], v>> \in edges
  BY <1>3 DEF IsSimplePath
<1>6. q[n] = Last(visited)
  BY <1>3 DEF Last
<1>7. ASSUME v \in ToSet(visited) PROVE FALSE
  <2>1. DOMAIN visited = 1 .. n /\ DOMAIN q = 1 .. Len(q)
    BY <1>1
  <2>2. PICK j \in 1 .. n : visited[j] = v
    BY <1>7, <2>1 DEF ToSet
  <2>3. q[j] = q[n + 1] /\ j \in DOMAIN q /\ n + 1 \in DOMAIN q /\ j # n + 1
    BY <1>1, <1>2, <1>3, <2>1, <2>2
  <2>4. QED
    BY <2>3 DEF IsSimplePath
<1> HIDE DEF v, n
<1>8. v \in Ahead
  BY <1>4, <1>5, <1>6, <1>7 DEF Ahead
<1>9. QED
  BY <1>8 DEF v, n

LEMMA PastDescend ==
  ASSUME Inv, AtInv, Descend
  PROVE  /\ AtInv'
         /\ \A q \in Seq(Nat) : Past(q) => Past(q)'
         /\ \A q \in Seq(1 .. size - 1) : IsSimplePath(q) /\ Past(q)' => Past(q)
<1> DEFINE v == Min(Ahead)
           n == Len(at)
<1>1. /\ pc = "loop" /\ Ahead # {} /\ visited' = Append(visited, v)
      /\ at' = [at EXCEPT ![Len(at)] = v] /\ pc' = "enter"
  BY DEF Descend
<1>2. /\ visited \in Seq(Nat) /\ at \in Seq(Nat) /\ n \in Nat \ {0}
      /\ Len(visited) = n /\ at # <<>> /\ size \in Nat
  BY <1>1, SearchTypes
<1>3. v \in Ahead /\ \A w \in Ahead : v <= w
  <2>1. Ahead \subseteq Nat
    BY <1>2 DEF Ahead
  <2>2. QED
    BY <1>1, <2>1, MinIsMember
<1> HIDE DEF v
<1>4. v \in Nat /\ v > at[n]
  <2>1. v \in 1 .. size - 1 /\ v > at[n]
    BY <1>3 DEF Ahead, Last
  <2>2. QED
    BY <1>2, <2>1
<1>5. /\ visited' \in Seq(Nat) /\ Len(visited') = n + 1
      /\ \A k \in 1 .. n : visited'[k] = visited[k]
      /\ visited'[n + 1] = v
  BY <1>1, <1>2, <1>4, AppendProperties
<1>6. /\ at' \in Seq(Nat) /\ Len(at') = n /\ at'[n] = v
      /\ \A k \in 1 .. n - 1 : at'[k] = at[k]
  <2>1. n \in 1 .. Len(at)
    BY <1>2
  <2>2. /\ at' \in Seq(Nat) /\ Len(at') = n
        /\ \A k \in 1 .. n : at'[k] = IF k = n THEN v ELSE at[k]
    BY <1>1, <1>2, <1>4, <2>1, ExceptSeq
  <2>3. QED
    BY <1>2, <2>2
<1>7. AtInv'
  <2> SUFFICES ASSUME NEW k \in 1 .. n PROVE at'[k] = visited'[k + 1]
    BY <1>2, <1>5 DEF AtInv
  <2>1. CASE k = n
    BY <1>5, <1>6, <2>1
  <2>2. CASE k # n
    <3>1. k \in 1 .. n - 1 /\ k + 1 \in 1 .. n /\ k \in 1 .. Len(visited) - 1
      BY <1>2, <2>2
    <3>2. QED
      BY <1>5, <1>6, <3>1 DEF AtInv
  <2>3. QED
    BY <2>1, <2>2
<1>8. \A q : (Past(q)' <=> Passed(q, visited', at')) /\ (Past(q) <=> Passed(q, visited, at))
  BY <1>1 DEF Past, Passed, PassedAt
<1>9. ASSUME NEW q \in Seq(Nat)
      PROVE  /\ Passed(q, visited, at) => Passed(q, visited', at')
             /\ Passed(q, visited', at') =>
                  \/ Passed(q, visited, at)
                  \/ /\ Len(q) > Len(visited) /\ \A j \in 1 .. Len(visited) : q[j] = visited[j]
                     /\ at[Len(at)] < q[Len(visited) + 1] /\ q[Len(visited) + 1] < v
  <2>1. /\ Len(visited) = Len(at) /\ Len(at') = Len(at) /\ Len(visited') = Len(visited) + 1
        /\ \A k \in 1 .. Len(visited) : visited'[k] = visited[k]
        /\ \A k \in 1 .. Len(at) - 1 : at'[k] = at[k]
        /\ at'[Len(at)] = v /\ at[Len(at)] < v
    BY <1>2, <1>4, <1>5, <1>6
  <2> HIDE DEF n
  <2>2. /\ visited \in Seq(Nat) /\ at \in Seq(Nat) /\ visited' \in Seq(Nat) /\ at' \in Seq(Nat)
        /\ at # <<>> /\ v \in Nat
    BY <1>2, <1>4, <1>5, <1>6
  <2>3. QED
    BY <2>1, <2>2, DescendPassed
<1>10. ASSUME NEW q \in Seq(1 .. size - 1), IsSimplePath(q), Past(q)' PROVE Past(q)
  <2>1. q \in Seq(Nat) /\ Len(q) \in Nat /\ \A k \in 1 .. Len(q) : q[k] \in 1 .. size - 1
    BY PathTypes
  <2>2. SUFFICES ASSUME /\ Len(q) > Len(visited)
                        /\ \A j \in 1 .. Len(visited) : q[j] = visited[j]
                        /\ at[Len(at)] < q[Len(visited) + 1] /\ q[Len(visited) + 1] < v
                 PROVE  FALSE
    BY <1>8, <1>9, <1>10, <2>1
  <2>3. Len(visited) + 1 \in 1 .. Len(q) /\ at[Len(at)] \in Nat
    BY <1>2, <2>1, <2>2, ElementOfSeq
  <2>4. q[Len(visited) + 1] \in Nat /\ q[Len(visited) + 1] > at[Len(at)]
    BY <1>2, <2>1, <2>2, <2>3
  <2>5. q[Len(visited) + 1] \in Ahead
    BY <1>1, <1>10, <2>2, <2>4, GoesOnAhead
  <2>6. v <= q[Len(visited) + 1]
    BY <1>3, <2>5
  <2>7. QED
    BY <1>4, <2>2, <2>4, <2>6
<1>11. QED
  BY <1>7, <1>8, <1>9, <1>10

(* A call returns: what Front() does to visited and, as a loop ends, to at. *)
LEMMA PastLeave ==
  ASSUME Inv, AtInv, pc \in {"enter", "loop"}, Leave,
         pc = "enter" => at' = at, pc = "loop" => at' = Front(at)
  PROVE  /\ AtInv'
         /\ \A q \in Seq(Nat) : Past(q) => Past(q)'
         /\ \A q \in Seq(Nat) : Past(q)' /\ Len(q) > 0 /\ q[1] = 1 =>
              \/ Past(q)
              \/ Len(q) >= Len(visited) /\ \A j \in 1 .. Len(visited) : q[j] = visited[j]
<1> DEFINE n == Len(visited) - 1
<1>1. /\ visited' = Front(visited) /\ (pc' = IF n = 0 THEN "done" ELSE "loop")
      /\ visited \in Seq(Nat) /\ at \in Seq(Nat) /\ n \in Nat /\ visited # <<>>
      /\ visited[1] = 1 /\ Len(visited) = n + 1
      /\ Len(at) = IF pc = "enter" THEN n ELSE n + 1
      /\ pc = "loop" => at # <<>>
  BY SearchTypes DEF Leave
<1> HIDE DEF n
<1>2. /\ visited' \in Seq(Nat) /\ Len(visited') = n
      /\ \A k \in 1 .. n : visited'[k] = visited[k]
  <2>1. Len(visited) - 1 = n
    BY <1>1
  <2>2. QED
    BY <1>1, <2>1, FrontProperties
<1>3. at' \in Seq(Nat) /\ Len(at') = n /\ \A k \in 1 .. n : at'[k] = at[k]
  <2>1. CASE pc = "enter"
    BY <1>1, <2>1
  <2>2. CASE pc = "loop"
    <3>1. at # <<>> /\ at' = Front(at) /\ Len(at) - 1 = n
      BY <1>1, <2>2
    <3>2. QED
      BY <1>1, <3>1, FrontProperties
  <2>3. QED
    BY <2>1, <2>2
<1>4. \A k \in 1 .. n : at[k] = visited[k + 1]
  BY <1>1 DEF AtInv
<1>5. AtInv'
  <2> SUFFICES ASSUME NEW k \in 1 .. n - 1 PROVE at'[k] = visited'[k + 1]
    BY <1>2 DEF AtInv
  <2>1. k \in 1 .. n /\ k + 1 \in 1 .. n
    BY <1>1
  <2>2. QED
    BY <1>2, <1>3, <1>4, <2>1
<1>6. \A q : Past(q) <=> Passed(q, visited, at)
  BY DEF Past
<1>7. CASE n = 0
  <2>1. \A q : Past(q)'
    BY <1>1, <1>7 DEF Past
  <2>2. ASSUME NEW q \in Seq(Nat), Len(q) > 0, q[1] = 1
        PROVE  Len(q) >= Len(visited) /\ \A j \in 1 .. Len(visited) : q[j] = visited[j]
    <3>1. Len(q) \in Nat /\ Len(visited) = 1
      BY <1>1, <1>7, LenProperties
    <3>2. q[1] = visited[1] /\ \A j \in 1 .. 1 : j = 1
      BY <1>1, <2>2
    <3>3. Len(q) >= 1 /\ \A j \in 1 .. 1 : q[j] = visited[j]
      BY <2>2, <3>1, <3>2
    <3>4. QED
      BY <3>1, <3>3
  <2>3. QED
    BY <1>5, <2>1, <2>2
<1>8. CASE n # 0
  <2>1. pc' # "done"
    BY <1>1, <1>8
  <2>2. \A q : Past(q)' <=> Passed(q, visited', at')
    BY <2>1 DEF Past, Passed, PassedAt
  <2>3. visited' # <<>>
    BY <1>2, <1>8, EmptySeq
  <2>4. /\ Len(visited) = Len(visited') + 1 /\ Len(at') = Len(visited')
        /\ Len(at) \in {Len(at'), Len(visited)}
        /\ \A k \in 1 .. Len(visited') : visited'[k] = visited[k]
    BY <1>1, <1>2, <1>3
  <2>5. \A k \in 1 .. Len(at') : at'[k] = at[k] /\ at[k] = visited[k + 1]
    BY <1>3, <1>4
  <2>6. ASSUME NEW q \in Seq(Nat)
        PROVE  /\ Passed(q, visited, at) => Passed(q, visited', at')
               /\ Passed(q, visited', at') =>
                    \/ Passed(q, visited, at)
                    \/ Len(q) >= Len(visited) /\ \A j \in 1 .. Len(visited) : q[j] = visited[j]
    <3>1. visited \in Seq(Nat) /\ visited' \in Seq(Nat) /\ at \in Seq(Nat) /\ at' \in Seq(Nat)
      BY <1>1, <1>2, <1>3
    <3>2. QED
      BY <2>3, <2>4, <2>5, <3>1, LeavePassed
  <2>7. QED
    BY <1>5, <1>6, <2>2, <2>6
<1>9. QED
  BY <1>7, <1>8

LEMMA PastLoopEnds ==
  ASSUME Inv, AtInv, LoopEnds
  PROVE  /\ AtInv'
         /\ \A q \in Seq(Nat) : Past(q) => Past(q)'
         /\ \A q \in Seq(1 .. size - 1) : IsSimplePath(q) /\ Past(q)' => Past(q)
<1>1. pc = "loop" /\ Ahead = {} /\ Leave /\ at' = Front(at)
  BY DEF LoopEnds
<1>2. /\ Len(visited) \in Nat \ {0} /\ at \in Seq(Nat) /\ Len(visited) = Len(at) /\ at # <<>>
  BY <1>1, SearchTypes
<1>3. /\ AtInv'
      /\ \A q \in Seq(Nat) : Past(q) => Past(q)'
      /\ \A q \in Seq(Nat) : Past(q)' /\ Len(q) > 0 /\ q[1] = 1 =>
           \/ Past(q)
           \/ Len(q) >= Len(visited) /\ \A j \in 1 .. Len(visited) : q[j] = visited[j]
  BY <1>1, PastLeave
<1>4. ASSUME NEW q \in Seq(1 .. size - 1), IsSimplePath(q),
             Len(q) >= Len(visited), \A j \in 1 .. Len(visited) : q[j] = visited[j]
      PROVE  Past(q)
  <2> DEFINE n == Len(visited)
  <2>1. /\ n \in 1 .. Len(at) /\ at[n] \in Nat /\ Len(at) = n /\ n \in Nat
    BY <1>2, ElementOfSeq
  <2>2. Len(q) \in Nat /\ \A k \in 1 .. Len(q) : q[k] \in Nat
    <3>1. q \in Seq(Nat)
      BY PathTypes
    <3>2. QED
      BY <3>1, LenProperties, ElementOfSeq
  <2>3. ~(Len(q) > n /\ q[n + 1] > at[n])
    BY <1>1, <1>4, <2>1, GoesOnAhead
  <2>4. Len(q) > n => q[n + 1] \in Nat
    BY <2>1, <2>2
  <2>5. Len(q) = n \/ q[n + 1] < at[n] \/ q[n + 1] = at[n]
    BY <1>4, <2>1, <2>2, <2>3, <2>4
  <2>6. PassedAt(q, visited, at, n)
    BY <1>4, <2>5 DEF PassedAt
  <2> HIDE DEF n
  <2>7. QED
    BY <2>1, <2>6 DEF Past, Passed
<1>5. ASSUME NEW q \in Seq(1 .. size - 1), IsSimplePath(q), Past(q)' PROVE Past(q)
  <2>1. q \in Seq(Nat) /\ Len(q) > 0 /\ q[1] = 1
    <3>1. q \in Seq(Nat) /\ Len(q) \in Nat
      BY PathTypes
    <3>2. q # <<>> /\ q[1] = 1
      BY <1>5 DEF IsSimplePath
    <3>3. QED
      BY <3>1, <3>2, EmptySeq
  <2>2. QED
    BY <1>3, <1>4, <1>5, <2>1
<1>6. QED
  BY <1>3, <1>5

LEMMA PastLimitReached ==
  ASSUME Inv, AtInv, LimitReached
  PROVE  AtInv' /\ \A q \in Seq(Nat) : Past(q) => Past(q)'
<1>1. pc = "enter" /\ Leave /\ at' = at
  BY DEF LimitReached
<1>2. QED
  BY <1>1, PastLeave

(* The search enters a path before it is past it. *)
LEMMA NotPastYet ==
  ASSUME Inv, AtInv, pc = "enter"
  PROVE  ~Past(visited)
<1> SUFFICES ASSUME NEW k \in 1 .. Len(at), PassedAt(visited, visited, at, k) PROVE FALSE
  BY DEF Past, Passed
<1>1. /\ Len(visited) = Len(at) + 1 /\ Len(at) \in Nat
      /\ visited \in Seq(Nat)
  BY SearchTypes
<1>2. k \in 1 .. Len(visited) - 1 /\ k # Len(visited) /\ k + 1 \in 1 .. Len(visited)
  BY <1>1
<1>3. at[k] = visited[k + 1]
  BY <1>2 DEF AtInv
<1>4. visited[k + 1] < at[k]
  BY <1>2 DEF PassedAt
<1>5. visited[k + 1] \in Nat
  BY <1>1, <1>2, ElementOfSeq
<1>6. QED
  BY <1>3, <1>4, <1>5

-----------------------------------------------------------------------------
(* What has been offered are the paths the search is past, each followed   *)
(* by the goal: none twice, and all of them unless the limit ended it.     *)
OnceInv ==
  /\ AtInv
  /\ pc = "idle" => edges = {}
  /\ \A j, k \in DOMAIN offered : offered[j] = offered[k] => j = k
  /\ \A j \in DOMAIN offered : Past(Front(offered[j]))

AllInv ==
  bands < MaxClasses /\ pc # "idle" =>
    \A q \in Seq(1 .. size - 1) :
      IsSimplePath(q) /\ Past(q) /\ <<Last(q), Goal>> \in edges =>
        Append(q, Goal) \in ToSet(offered)

LEMMA FrontOfAppend ==
  ASSUME NEW S, NEW s \in Seq(S), NEW e \in S
  PROVE  Front(Append(s, e)) = s
<1> DEFINE t == Append(s, e)
<1>1. t \in Seq(S) /\ t # <<>> /\ Len(t) = Len(s) + 1 /\ \A k \in 1 .. Len(s) : t[k] = s[k]
  BY AppendProperties
<1>2. Len(s) \in Nat
  BY LenProperties
<1> HIDE DEF t
<1>3. Front(t) \in Seq(S) /\ Len(Front(t)) = Len(s) /\ \A k \in 1 .. Len(s) : Front(t)[k] = t[k]
  <2>1. /\ Front(t) \in Seq(S) /\ Len(Front(t)) = Len(t) - 1
        /\ \A k \in 1 .. Len(t) - 1 : Front(t)[k] = t[k]
    BY <1>1, FrontProperties
  <2>2. Len(t) - 1 = Len(s)
    BY <1>1, <1>2
  <2>3. QED
    BY <2>1, <2>2
<1>4. Front(t) = s
  <2>1. \A k \in 1 .. Len(Front(t)) : Front(t)[k] = s[k]
    BY <1>1, <1>3
  <2>2. QED
    BY <1>3, <2>1, SeqEqual
<1>5. QED
  BY <1>4 DEF t

LEMMA AppendOfFront ==
  ASSUME NEW S, NEW s \in Seq(S), s # <<>>
  PROVE  Append(Front(s), Last(s)) = s
<1> DEFINE f == Front(s)
           t == Append(f, Last(s))
<1>1. /\ f \in Seq(S) /\ Len(f) = Len(s) - 1
      /\ \A k \in 1 .. Len(s) - 1 : f[k] = s[k]
  BY FrontProperties
<1>2. Len(s) \in Nat \ {0}
  BY LenProperties, EmptySeq
<1>3. Last(s) \in S /\ Last(s) = s[Len(s)]
  BY <1>2, ElementOfSeq DEF Last
<1> HIDE DEF f
<1>4. /\ t \in Seq(S) /\ Len(t) = Len(f) + 1 /\ t[Len(f) + 1] = Last(s)
      /\ \A k \in 1 .. Len(f) : t[k] = f[k]
  BY <1>1, <1>3, AppendProperties
<1> HIDE DEF t
<1>5. ASSUME NEW k \in 1 .. Len(s) PROVE t[k] = s[k]
  <2>1. CASE k = Len(s)
    BY <1>1, <1>2, <1>3, <1>4, <2>1
  <2>2. CASE k # Len(s)
    BY <1>1, <1>2, <1>4, <2>2
  <2>3. QED
    BY <2>1, <2>2
<1>6. Len(t) = Len(s)
  BY <1>1, <1>2, <1>4
<1>7. t = s
  BY <1>4, <1>5, <1>6, SeqEqual
<1>8. QED
  BY <1>7 DEF t, f

LEMMA OfferedTypes ==
  ASSUME Inv
  PROVE  /\ offered \in Seq(Seq(1 .. size)) /\ Len(offered) \in Nat
         /\ DOMAIN offered = 1 .. Len(offered)
         /\ \A j \in DOMAIN offered : Front(offered[j]) \in Seq(Nat)
<1>1. /\ offered \in Seq(Seq(1 .. size)) /\ Len(offered) \in Nat
      /\ DOMAIN offered = 1 .. Len(offered) /\ size \in Nat
  BY LenProperties, GraphSearchOK DEF Inv, TypeOK
<1>2. ASSUME NEW j \in DOMAIN offered PROVE Front(offered[j]) \in Seq(Nat)
  <2>1. offered[j] \in Seq(1 .. size)
    BY <1>1, ElementOfSeq
  <2>2. offered[j] \in Seq(Nat)
    <3>1. 1 .. size \subseteq Nat
      BY <1>1
    <3>2. QED
      BY <2>1, <3>1, SeqMonotone
  <2>3. offered[j] # <<>>
    BY DEF Inv, PathsSimple, IsSimplePath
  <2>4. QED
    BY <2>2, <2>3, FrontProperties
<1>3. QED
  BY <1>1, <1>2

LEMMA OnceReachGoal ==
  ASSUME Inv, OnceInv, AllInv, ReachGoal
  PROVE  OnceInv' /\ AllInv'
<1> DEFINE p == Append(visited, Goal)
<1>1. /\ pc = "enter" /\ bands < MaxClasses
      /\ offered' = Append(offered, p) /\ at' = Append(at, 0) /\ pc' = "loop"
      /\ UNCHANGED graph /\ visited' = visited
  BY DEF ReachGoal
<1>2. /\ size \in Nat \ {0, 1} /\ visited \in Seq(1 .. size - 1)
      /\ visited \in Seq(Nat) /\ at \in Seq(Nat)
      /\ Len(visited) \in Nat \ {0} /\ Len(at) \in Nat /\ Len(visited) = Len(at) + 1
  BY <1>1, SearchTypes
<1>3. /\ AtInv'
      /\ \A q \in Seq(Nat) : Past(q) => Past(q)'
      /\ \A q \in Seq(1 .. size - 1) : Past(q)' => Past(q) \/ q = visited
  BY PastEnter DEF OnceInv
<1>4. /\ offered \in Seq(Seq(1 .. size)) /\ Len(offered) \in Nat
      /\ DOMAIN offered = 1 .. Len(offered)
      /\ \A j \in DOMAIN offered : Front(offered[j]) \in Seq(Nat)
  BY OfferedTypes
<1>5. p \in Seq(1 .. size) /\ Front(p) = visited
  <2>1. Goal \in 1 .. size /\ visited \in Seq(1 .. size)
    BY <1>2, SeqMonotone DEF Goal
  <2>2. QED
    BY <2>1, AppendProperties, FrontOfAppend
<1> HIDE DEF p
<1>6. /\ DOMAIN offered' = 1 .. Len(offered) + 1
      /\ \A j \in 1 .. Len(offered) : offered'[j] = offered[j]
      /\ offered'[Len(offered) + 1] = p
  BY <1>1, <1>4, <1>5
<1>7. \A j \in 1 .. Len(offered) : offered[j] # p
  <2>1. ~Past(visited)
    BY <1>1, NotPastYet DEF OnceInv
  <2>2. QED
    BY <1>4, <1>5, <2>1 DEF OnceInv
<1>8. \A j, k \in DOMAIN offered' : offered'[j] = offered'[k] => j = k
  <2>1. \A j, k \in 1 .. Len(offered) : offered[j] = offered[k] => j = k
    BY <1>4 DEF OnceInv
  <2>2. \A j \in DOMAIN offered' : j \in 1 .. Len(offered) \/ j = Len(offered) + 1
    BY <1>4, <1>6
  <2>3. QED
    BY <1>6, <1>7, <2>1, <2>2
<1>9. Past(visited)'
  <2>1. Len(at') = Len(visited)
    BY <1>1, <1>2
  <2>2. PassedAt(visited, visited, at', Len(at'))
    BY <1>2, <2>1 DEF PassedAt
  <2>3. Len(at') \in 1 .. Len(at')
    BY <1>2, <2>1
  <2>4. Passed(visited, visited, at')
    BY <2>2, <2>3 DEF Passed
  <2>5. QED
    BY <1>1, <2>4 DEF Past, Passed, PassedAt
<1>10. ASSUME NEW j \in DOMAIN offered' PROVE Past(Front(offered[j]))'
  <2>1. CASE j \in 1 .. Len(offered)
    <3>1. Past(Front(offered[j])) /\ Front(offered[j]) \in Seq(Nat) /\ offered'[j] = offered[j]
      BY <1>4, <1>6, <2>1 DEF OnceInv
    <3> DEFINE r == Front(offered[j])
    <3>2. Front(offered'[j]) = r
      BY <3>1
    <3>3. r \in Seq(Nat) /\ Past(r)
      BY <3>1
    <3>4. Passed(r, visited', at')
      <4>1. \A q \in Seq(Nat) : Past(q) => Passed(q, visited', at')
        BY <1>1, <1>3 DEF Past, Passed, PassedAt
      <4> HIDE DEF r
      <4>2. QED
        BY <3>3, <4>1
    <3>5. Passed(Front(offered'[j]), visited', at')
      BY <3>2, <3>4
    <3>6. QED
      BY <3>5 DEF Past, Passed, PassedAt
  <2>2. CASE j = Len(offered) + 1
    <3>1. Front(offered'[j]) = visited /\ Passed(visited, visited', at')
      BY <1>1, <1>5, <1>6, <1>9, <2>2 DEF Past, Passed, PassedAt
    <3>2. Passed(Front(offered'[j]), visited', at')
      BY <3>1
    <3>3. QED
      BY <3>2 DEF Past, Passed, PassedAt
  <2>3. QED
    BY <1>4, <1>6, <2>1, <2>2
<1>11. OnceInv'
  BY <1>1, <1>3, <1>8, <1>10 DEF OnceInv
<1>12. AllInv'
  <2>1. size' = size /\ edges' = edges /\ Goal' = Goal /\ \A q : IsSimplePath(q)' = IsSimplePath(q)
    BY <1>1, SameGraph
  <2>2. ToSet(offered') = ToSet(offered) \cup {p}
    <3>1. \A j \in 1 .. Len(offered) + 1 : j \in 1 .. Len(offered) \/ j = Len(offered) + 1
      BY <1>4
    <3>2. \A j \in 1 .. Len(offered) : j \in 1 .. Len(offered) + 1
      BY <1>4
    <3>3. Len(offered) + 1 \in 1 .. Len(offered) + 1
      BY <1>4
    <3>4. QED
      BY <1>4, <1>6, <3>1, <3>2, <3>3 DEF ToSet
  <2>3. ASSUME NEW q \in Seq(1 .. size - 1), IsSimplePath(q), Past(q)', <<Last(q), Goal>> \in edges
        PROVE  Append(q, Goal) \in ToSet(offered')
    <3>1. CASE Past(q)
      <4>1. Append(q, Goal) \in ToSet(offered)
        BY <1>1, <2>3, <3>1 DEF AllInv
      <4>2. QED
        BY <2>2, <4>1
    <3>2. CASE q = visited
      BY <2>2, <3>2 DEF p
    <3>3. QED
      BY <1>3, <2>3, <3>1, <3>2
  <2>4. QED
    BY <2>1, <2>3 DEF AllInv
<1>13. QED
  BY <1>11, <1>12

(* The steps of DepthFirst() that offer nothing. *)
LEMMA OnceKept ==
  ASSUME Inv, OnceInv, AllInv, UNCHANGED <<graph, bands, offered>>, AtInv',
         pc # "idle", pc' # "idle",
         \A q \in Seq(Nat) : Past(q) => Past(q)',
         bands < MaxClasses =>
           \A q \in Seq(1 .. size - 1) :
             IsSimplePath(q) /\ Past(q)' => Past(q) \/ <<Last(q), Goal>> \notin edges
  PROVE  OnceInv' /\ AllInv'
<1>1. \A j \in DOMAIN offered : Front(offered[j]) \in Seq(Nat)
  BY OfferedTypes
<1>2. ASSUME NEW j \in DOMAIN offered PROVE Past(Front(offered[j]))'
  <2> DEFINE r == Front(offered[j])
  <2>1. r \in Seq(Nat) /\ Past(r)
    BY <1>1 DEF OnceInv
  <2>2. \A q \in Seq(Nat) : Past(q) => pc' = "done" \/ Passed(q, visited', at')
    BY DEF Past, Passed, PassedAt
  <2> HIDE DEF r
  <2>3. pc' = "done" \/ Passed(r, visited', at')
    BY <2>1, <2>2
  <2>4. Front(offered'[j]) = r
    BY DEF r
  <2>5. pc' = "done" \/ Passed(Front(offered'[j]), visited', at')
    BY <2>3, <2>4
  <2>6. QED
    BY <2>5 DEF Past, Passed, PassedAt
<1>3. OnceInv'
  <2>1. \A j, k \in DOMAIN offered' : offered'[j] = offered'[k] => j = k
    BY DEF OnceInv
  <2>2. DOMAIN offered' = DOMAIN offered
    OBVIOUS
  <2>3. QED
    BY <1>2, <2>1, <2>2 DEF OnceInv
<1>4. AllInv'
  <2>1. size' = size /\ edges' = edges /\ Goal' = Goal /\ \A q : IsSimplePath(q)' = IsSimplePath(q)
    BY SameGraph
  <2>2. ASSUME bands < MaxClasses, NEW q \in Seq(1 .. size - 1), IsSimplePath(q), Past(q)',
               <<Last(q), Goal>> \in edges
        PROVE  Append(q, Goal) \in ToSet(offered)
    BY <2>2 DEF AllInv
  <2>3. QED
    BY <2>1, <2>2 DEF AllInv
<1>5. QED
  BY <1>3, <1>4

LEMMA OnceDepthFirst ==
  ASSUME Inv, OnceInv, AllInv, DepthFirst
  PROVE  OnceInv' /\ AllInv'
<1>0. AtInv
  BY DEF OnceInv
<1>1. CASE ReachGoal
  BY <1>1, OnceReachGoal
<1>2. CASE PassBy
  <2>1. /\ pc = "enter" /\ pc' = "loop" /\ UNCHANGED <<graph, bands, offered>>
        /\ <<Last(visited), Goal>> \notin edges
    BY <1>2 DEF PassBy
  <2>2. /\ AtInv'
        /\ \A q \in Seq(Nat) : Past(q) => Past(q)'
        /\ \A q \in Seq(1 .. size - 1) : Past(q)' => Past(q) \/ q = visited
    BY <1>0, <1>2, PastEnter
  <2>3. \A q \in Seq(1 .. size - 1) :
          IsSimplePath(q) /\ Past(q)' => Past(q) \/ <<Last(q), Goal>> \notin edges
    BY <2>1, <2>2
  <2>4. QED
    BY <2>1, <2>2, <2>3, OnceKept
<1>3. CASE Descend
  <2>1. /\ pc = "loop" /\ pc' = "enter" /\ UNCHANGED <<graph, bands, offered>>
    BY <1>3 DEF Descend
  <2>2. /\ AtInv'
        /\ \A q \in Seq(Nat) : Past(q) => Past(q)'
        /\ \A q \in Seq(1 .. size - 1) : IsSimplePath(q) /\ Past(q)' => Past(q)
    BY <1>0, <1>3, PastDescend
  <2>3. QED
    BY <2>1, <2>2, OnceKept
<1>4. CASE LoopEnds
  <2>1. /\ pc = "loop" /\ pc' # "idle" /\ UNCHANGED <<graph, bands, offered>>
    BY <1>4 DEF LoopEnds, Leave
  <2>2. /\ AtInv'
        /\ \A q \in Seq(Nat) : Past(q) => Past(q)'
        /\ \A q \in Seq(1 .. size - 1) : IsSimplePath(q) /\ Past(q)' => Past(q)
    BY <1>0, <1>4, PastLoopEnds
  <2>3. QED
    BY <2>1, <2>2, OnceKept
<1>5. CASE LimitReached
  <2>1. /\ pc = "enter" /\ pc' # "idle" /\ UNCHANGED <<graph, bands, offered>>
        /\ bands >= MaxClasses
    BY <1>5 DEF LimitReached, Leave
  <2>2. AtInv' /\ \A q \in Seq(Nat) : Past(q) => Past(q)'
    BY <1>0, <1>5, PastLimitReached
  <2>3. ~(bands < MaxClasses)
    BY <2>1, GraphSearchOK DEF Inv, TypeOK
  <2>4. QED
    BY <2>1, <2>2, <2>3, OnceKept
<1>6. QED
  BY <1>1, <1>2, <1>3, <1>4, <1>5 DEF DepthFirst

(* Nothing is offered before DepthFirst() has begun. *)
Beginning ==
  /\ offered = <<>> /\ visited \in {<<>>, <<1>>}
  /\ pc = "idle" => edges = {}
  /\ edges = {} \/ (pc = "enter" /\ at = <<>>)

LEMMA OnceBeginning == Beginning => OnceInv /\ AllInv
<1> SUFFICES ASSUME Beginning PROVE OnceInv /\ AllInv
  OBVIOUS
<1>1. DOMAIN offered = {}
  BY DEF Beginning
<1>2. AtInv
  <2>1. Len(visited) \in {0, 1}
    BY DEF Beginning
  <2>2. 1 .. Len(visited) - 1 = {}
    <3>1. 1 .. 0 - 1 = {} /\ 1 .. 1 - 1 = {}
      OBVIOUS
    <3>2. QED
      BY <2>1, <3>1
  <2>3. QED
    BY <2>2 DEF AtInv
<1>3. OnceInv
  BY <1>1, <1>2 DEF OnceInv, Beginning
<1>4. CASE edges = {}
  BY <1>3, <1>4 DEF AllInv
<1>5. CASE pc = "enter" /\ at = <<>>
  <2>1. \A q : ~Past(q)
    <3>1. 1 .. Len(at) = {}
      BY <1>5
    <3>2. QED
      BY <1>5, <3>1 DEF Past, Passed
  <2>2. QED
    BY <1>3, <2>1 DEF AllInv
<1>6. QED
  BY <1>4, <1>5 DEF Beginning

LEMMA OnceInit == Init => OnceInv /\ AllInv
<1>1. Init => Beginning
  BY DEF Init, Beginning
<1>2. QED
  BY <1>1, OnceBeginning

LEMMA OnceStep == Inv /\ OnceInv /\ AllInv /\ [Next]_vars => OnceInv' /\ AllInv'
<1> SUFFICES ASSUME Inv, OnceInv, AllInv, [Next]_vars PROVE OnceInv' /\ AllInv'
  OBVIOUS
<1>0. Beginning' => OnceInv' /\ AllInv'
  BY OnceBeginning, PTL
<1>1. ASSUME NEW n \in Sizes, NEW b \in 0 .. MaxClasses - 1, NEW E \in SUBSET Joins(n),
             Search(n, E, b)
      PROVE  Beginning'
  BY <1>1 DEF Search, Inv, StackInv, Beginning
<1>2. ASSUME StraightLine PROVE Beginning'
  BY <1>2 DEF StraightLine, graph, Inv, StackInv, OnceInv, Beginning
<1>3. ASSUME Finish PROVE Beginning'
  BY <1>3 DEF Finish, Inv, StackInv, Beginning
<1>4. ASSUME DepthFirst PROVE OnceInv' /\ AllInv'
  BY <1>4, OnceDepthFirst
<1>5. ASSUME UNCHANGED vars PROVE OnceInv' /\ AllInv'
  <2>1. UNCHANGED <<size, edges, bands, visited, at, offered, pc>>
    BY <1>5 DEF vars, graph
  <2>2. QED
    BY <2>1 DEF OnceInv, AllInv, AtInv, Past, Passed, PassedAt, IsSimplePath, Goal
<1>6. QED
  BY <1>0, <1>1, <1>2, <1>3, <1>4, <1>5 DEF Next, CreateGraph

LEMMA OnceHolds == Spec => [](OnceInv /\ AllInv)
<1>1. QED
  BY OnceInit, OnceStep, InvHolds, PTL DEF Spec

(* A simple path has no more vertices than the graph. *)
LEMMA SimplePathShort ==
  ASSUME size \in Nat, NEW p \in Seq(1 .. size), IsSimplePath(p)
  PROVE  Len(p) <= size
<1>1. Len(p) \in Nat /\ DOMAIN p = 1 .. Len(p) /\ p \in [1 .. Len(p) -> 1 .. size]
  BY LenProperties
<1>2. /\ IsFiniteSet(1 .. Len(p)) /\ IsFiniteSet(1 .. size)
      /\ Cardinality(1 .. Len(p)) = IF 1 > Len(p) THEN 0 ELSE Len(p) - 1 + 1
      /\ Cardinality(1 .. size) = IF 1 > size THEN 0 ELSE size - 1 + 1
  <2>1. 1 \in Int /\ Len(p) \in Int /\ size \in Int
    BY <1>1
  <2>2. QED
    BY <2>1, FS_Interval
<1>3. Cardinality(1 .. Len(p)) = Len(p) /\ Cardinality(1 .. size) = size
  BY <1>1, <1>2
<1> SUFFICES ASSUME ~(Len(p) <= size) PROVE FALSE
  OBVIOUS
<1>4. Cardinality(1 .. size) < Cardinality(1 .. Len(p))
  BY <1>1, <1>3
<1>5. \E x, y \in 1 .. Len(p) : x # y /\ p[x] = p[y]
  BY <1>1, <1>2, <1>4, FS_PigeonHole
<1>6. QED
  BY <1>1, <1>5 DEF IsSimplePath

(* The search is past every path when it is done. *)
LEMMA PathIsOffered ==
  ASSUME Inv, AllInv, pc = "done", bands < MaxClasses, NEW p \in Paths
  PROVE  p \in ToSet(offered)
<1>0. size \in Nat \ {0, 1}
  BY GraphSearchOK DEF Inv, TypeOK
<1>1. IsSimplePath(p) /\ Last(p) = Goal
  BY DEF Paths
<1>2. PICK m \in 2 .. size : p \in [1 .. m -> 1 .. size]
  BY DEF Paths
<1>3. p \in Seq(1 .. size) /\ Len(p) = m /\ DOMAIN p = 1 .. m
  BY <1>0, <1>2
<1> DEFINE q == Front(p)
<1>4. /\ q \in Seq(1 .. size) /\ Len(q) = m - 1 /\ \A k \in 1 .. m - 1 : q[k] = p[k]
  <2>1. p # <<>>
    BY <1>1 DEF IsSimplePath
  <2>2. QED
    BY <1>3, <2>1, FrontProperties
<1>5. Append(q, Goal) = p
  <2>1. p # <<>>
    BY <1>1 DEF IsSimplePath
  <2>2. QED
    BY <1>1, <1>3, <2>1, AppendOfFront
<1>6. IsSimplePath(q)
  <2>1. p \in Seq(Nat)
    <3>1. 1 .. size \subseteq Nat
      BY <1>0
    <3>2. QED
      BY <1>3, <3>1, SeqMonotone
  <2>2. Len(p) # 1
    BY <1>3
  <2>3. QED
    BY <1>1, <2>1, <2>2, PathCut
<1> HIDE DEF q
<1>7. p[m] = Goal
  BY <1>1, <1>3 DEF Last
<1>8. q \in Seq(1 .. size - 1)
  <2>1. ASSUME NEW k \in 1 .. m - 1 PROVE q[k] \in 1 .. size - 1
    <3>1. k \in 1 .. m /\ m \in 1 .. m /\ k # m
      BY <1>0
    <3>2. p[k] # p[m]
      BY <1>1, <1>3, <3>1 DEF IsSimplePath
    <3>3. p[k] \in 1 .. size /\ p[k] # size
      BY <1>2, <1>7, <3>1, <3>2 DEF Goal
    <3>4. QED
      BY <1>0, <1>4, <3>3
  <2>2. q = [k \in 1 .. m - 1 |-> q[k]] /\ m - 1 \in Nat
    <3>1. q \in Seq(1 .. size) /\ Len(q) = m - 1 /\ m - 1 \in Nat
      BY <1>0, <1>4
    <3>2. QED
      BY <3>1
  <2> DEFINE n == m - 1
  <2> HIDE DEF n
  <2>3. n \in Nat /\ \A k \in 1 .. n : q[k] \in 1 .. size - 1
    BY <2>1, <2>2 DEF n
  <2>4. [k \in 1 .. n |-> q[k]] \in Seq(1 .. size - 1)
    BY <2>3
  <2>5. QED
    BY <2>2, <2>4 DEF n
<1>9. <<Last(q), Goal>> \in edges
  <2>1. m - 1 \in 1 .. Len(p) - 1 /\ m - 1 \in 1 .. m - 1 /\ (m - 1) + 1 = m
    BY <1>0, <1>3
  <2>2. <<p[m - 1], p[m]>> \in edges
    <3>1. <<p[m - 1], p[(m - 1) + 1]>> \in edges
      BY <1>1, <2>1 DEF IsSimplePath
    <3>2. QED
      BY <2>1, <3>1
  <2>3. Last(q) = p[m - 1]
    BY <1>4, <2>1 DEF Last
  <2>4. QED
    BY <1>7, <2>2, <2>3
<1>10. Append(q, Goal) \in ToSet(offered)
  BY <1>6, <1>8, <1>9 DEF AllInv, Past
<1>11. QED
  BY <1>5, <1>10

LEMMA OfferedIsPath ==
  ASSUME Inv, NEW p \in ToSet(offered)
  PROVE  p \in Paths
<1>1. PICK j \in DOMAIN offered : offered[j] = p
  BY DEF ToSet
<1>2. IsSimplePath(p) /\ Last(p) = Goal
  BY <1>1 DEF Inv, PathsSimple
<1>3. size \in Nat \ {0, 1} /\ p \in Seq(1 .. size)
  <2>1. offered \in Seq(Seq(1 .. size)) /\ DOMAIN offered = 1 .. Len(offered)
    BY OfferedTypes
  <2>2. QED
    BY <1>1, <2>1, ElementOfSeq, GraphSearchOK DEF Inv, TypeOK
<1>4. Len(p) \in Nat /\ p \in [1 .. Len(p) -> 1 .. size] /\ Len(p) <= size
  BY <1>2, <1>3, SimplePathShort, LenProperties
<1>5. Len(p) >= 2
  <2>1. p # <<>> /\ p[1] = 1 /\ p[Len(p)] = size
    BY <1>2 DEF IsSimplePath, Last, Goal
  <2>2. Len(p) # 0
    BY <1>3, <2>1, EmptySeq
  <2>3. Len(p) # 1
    BY <1>3, <2>1
  <2>4. QED
    BY <1>4, <2>2, <2>3
<1>6. Len(p) \in 2 .. size
  BY <1>3, <1>4, <1>5
<1>7. QED
  BY <1>2, <1>4, <1>6 DEF Paths

(* No path is offered twice, and a search that max_number_classes does not *)
(* cut short offers every simple path from the start to the goal.          *)
THEOREM EachPathOnceHolds == Spec => []EachPathOnce
<1>1. Inv /\ OnceInv /\ AllInv => EachPathOnce
  <2> SUFFICES ASSUME Inv, OnceInv, AllInv PROVE EachPathOnce
    OBVIOUS
  <2>1. \A j, k \in DOMAIN offered : offered[j] = offered[k] => j = k
    BY DEF OnceInv
  <2>2. ASSUME pc = "done", bands < MaxClasses PROVE ToSet(offered) = Paths
    <3>1. \A p \in ToSet(offered) : p \in Paths
      BY OfferedIsPath
    <3>2. \A p \in Paths : p \in ToSet(offered)
      BY <2>2, PathIsOffered
    <3>3. QED
      BY <3>1, <3>2
  <2>3. QED
    BY <2>1, <2>2 DEF EachPathOnce
<1>2. QED
  BY <1>1, InvHolds, OnceHolds, PTL
==============================================================================
