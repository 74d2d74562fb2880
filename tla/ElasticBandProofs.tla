-------------------------- MODULE ElasticBandProofs --------------------------
(***************************************************************************)
(* Theorems about ElasticBand for every limit on samples, every number of  *)
(* passes, outer iterations and via-points, and every choice of weights.   *)
(***************************************************************************)
EXTENDS ElasticBand, ListLemmas

-----------------------------------------------------------------------------
(* The shape of a band: while plan() runs, and between two calls.          *)

FixedPose == [fixed : {TRUE}, at : {"start", "goal", "old", "free"}]

Held(p) ==
  /\ Len(p) >= 3
  /\ \A j \in 1 .. Len(p) : p[j] = IF j = 1 THEN Start ELSE IF j = Len(p) THEN Goal ELSE Free

Resting(p) ==
  /\ Len(p) >= 3
  /\ \A j \in 1 .. Len(p) : IF j = 1 \/ j = Len(p) THEN p[j] \in FixedPose ELSE p[j] = Free

LEMMA PoseFacts ==
  /\ Start \in FixedPose /\ Goal \in FixedPose /\ FixedPose \subseteq Pose
  /\ Free \in Pose /\ Free.fixed = FALSE
  /\ \A p \in FixedPose : p.fixed = TRUE
  BY DEF Start, Goal, Free, FixedPose, Pose

LEMMA FixedMoves ==
  ASSUME NEW p \in FixedPose
  PROVE  /\ [p EXCEPT !.at = "start"] = Start
         /\ [p EXCEPT !.at = "goal"] = Goal
         /\ [p EXCEPT !.at = "old"] \in FixedPose
<1>1. /\ [p EXCEPT !.at = "start"] \in [fixed : {TRUE}, at : {"start"}]
      /\ [p EXCEPT !.at = "goal"] \in [fixed : {TRUE}, at : {"goal"}]
      /\ [p EXCEPT !.at = "old"] \in [fixed : {TRUE}, at : {"old"}]
  BY DEF FixedPose
<1>2. ASSUME NEW a, NEW q \in [fixed : {TRUE}, at : {a}]
      PROVE  q = [fixed |-> TRUE, at |-> a]
  <2>1. \E b \in {TRUE}, c \in {a} : q = [fixed |-> b, at |-> c]
    OBVIOUS
  <2>2. QED
    BY <2>1
<1>3. [fixed : {TRUE}, at : {"old"}] \subseteq FixedPose
  BY DEF FixedPose
<1>4. QED
  BY <1>1, <1>2, <1>3 DEF Start, Goal

LEMMA HeldIsResting == ASSUME NEW p, Held(p) PROVE Resting(p)
  BY PoseFacts DEF Held, Resting

LEMMA HeldAfterInsert ==
  ASSUME NEW p \in Seq(Pose), Held(p), NEW k \in 2 .. Len(p)
  PROVE  Held(InsertAt(p, k, Free))
<1> DEFINE r == InsertAt(p, k, Free)
<1>0. Len(p) \in Nat /\ Free \in Pose
  BY LenProperties, PoseFacts
<1>1. /\ Len(r) = Len(p) + 1
      /\ \A j \in 1 .. Len(p) + 1 :
           r[j] = IF j < k THEN p[j] ELSE IF j = k THEN Free ELSE p[j - 1]
  BY <1>0, InsertAtProperties
<1> HIDE DEF r
<1>2. ASSUME NEW j \in 1 .. Len(r)
      PROVE  r[j] = IF j = 1 THEN Start ELSE IF j = Len(r) THEN Goal ELSE Free
  <2>0. j \in 1 .. Len(p) + 1 /\ k \in 2 .. Len(p) /\ Len(r) = Len(p) + 1
    BY <1>1
  <2>1. CASE j < k
    BY <2>0, <2>1, <1>0, <1>1 DEF Held
  <2>2. CASE j = k
    BY <2>0, <2>2, <1>0, <1>1
  <2>3. CASE j > k
    <3>1. r[j] = p[j - 1] /\ j - 1 \in 2 .. Len(p)
      BY <2>0, <2>3, <1>0, <1>1
    <3>2. p[j - 1] = IF j - 1 = Len(p) THEN Goal ELSE Free
      BY <3>1, <1>0 DEF Held
    <3>3. QED
      BY <2>0, <2>3, <3>1, <3>2, <1>0
  <2>4. QED
    BY <2>0, <2>1, <2>2, <2>3
<1>3. Len(r) >= 3
  BY <1>0, <1>1 DEF Held
<1>4. QED
  BY <1>2, <1>3 DEF Held, r

LEMMA HeldAfterRemove ==
  ASSUME NEW p \in Seq(Pose), Held(p), Len(p) >= 4, NEW k \in 2 .. Len(p) - 1
  PROVE  Held(RemoveAt(p, k))
<1> DEFINE r == RemoveAt(p, k)
<1>0. Len(p) \in Nat
  BY LenProperties
<1>1. /\ Len(r) = Len(p) - 1
      /\ \A j \in 1 .. Len(p) - 1 : r[j] = IF j < k THEN p[j] ELSE p[j + 1]
  BY <1>0, RemoveAtProperties
<1> HIDE DEF r
<1>2. Held(r)
  BY <1>0, <1>1 DEF Held
<1>3. QED
  BY <1>2 DEF r

-----------------------------------------------------------------------------
(* The inductive invariant.                                                *)

ShapeInv ==
  /\ \/ pc = "idle" /\ poses = <<>> /\ dts = <<>>
     \/ Resting(poses) /\ Len(poses) = Len(dts) + 1
  /\ pc # "idle" => Held(poses)

GraphInv ==
  /\ pc \in {"solve", "solved"} => graph
  /\ graph => pc \in {"solve", "solved"}
  /\ graph => \A j \in DOMAIN via : via[j] = 0 \/ via[j] \in 2 .. Len(poses) - 1
  /\ ~graph => via = <<>>

OuterInv == pc \in {"resize", "build", "solve", "solved"} => outer < Outer

Inv == TypeOK /\ ShapeInv /\ GraphInv /\ OuterInv

LEMMA InvTypes ==
  ASSUME TypeOK
  PROVE  /\ poses \in Seq(Pose) /\ dts \in Seq(Nat)
         /\ Len(poses) \in Nat /\ Len(dts) \in Nat /\ i \in Nat \ {0}
         /\ MinSamples \in Nat /\ MinSamples >= 3 /\ PruneMin \in Nat /\ PruneMin >= 3
         /\ {DtRef, DtHyst, ViaPoints, Outer, MaxSamples, MaxPruned, MaxReps} \subseteq Nat
         /\ PathLens \subseteq Nat /\ InitDts \subseteq Nat /\ OptDts \subseteq Nat
  BY ElasticBandOK, LenProperties DEF TypeOK

(* While plan() runs, the band has an end, a start and a pose between. *)
LEMMA Running3 ==
  ASSUME TypeOK, ShapeInv, pc # "idle"
  PROVE  /\ Held(poses) /\ Len(poses) >= 3 /\ Len(poses) = Len(dts) + 1
         /\ Len(dts) >= 2 /\ poses # <<>> /\ dts # <<>>
  BY InvTypes, EmptySeq DEF ShapeInv, Held

(* What the solver computes is a list of as many time differences. *)
LEMMA NewDts ==
  ASSUME NEW n \in Nat, NEW T, NEW f \in [1 .. n -> T], T \subseteq Nat
  PROVE  f \in Seq(Nat) /\ Len(f) = n
<1>1. f = [j \in 1 .. n |-> f[j]] /\ \A j \in 1 .. n : f[j] \in Nat
  OBVIOUS
<1>2. [j \in 1 .. n |-> f[j]] \in Seq(Nat) /\ Len([j \in 1 .. n |-> f[j]]) = n
  BY <1>1
<1>3. QED
  BY <1>1, <1>2

LEMMA InitBandShape ==
  ASSUME NEW points \in PathLens, InitBand(points)
  PROVE  /\ poses' \in Seq(Pose) /\ dts' \in Seq(Nat)
         /\ Held(poses') /\ Len(poses') = Len(dts') + 1
         /\ Len(poses') >= MinSamples
<1> DEFINE n == Samples(points)
<1>1. n \in Nat /\ n >= 3 /\ n >= MinSamples
  BY ElasticBandOK DEF Samples, Larger
<1>2. poses' = [j \in 1 .. n |-> IF j = 1 THEN Start ELSE IF j = n THEN Goal ELSE Free]
  BY DEF InitBand
<1>3. dts' \in Seq(Nat) /\ Len(dts') = n - 1
  <2>1. PICK f \in [1 .. n - 1 -> InitDts] : dts' = f
    BY DEF InitBand
  <2>2. n - 1 \in Nat /\ InitDts \subseteq Nat
    BY <1>1, ElasticBandOK
  <2>3. QED
    BY <2>1, <2>2, NewDts
<1> HIDE DEF n
<1>4. poses' \in Seq(Pose) /\ Len(poses') = n
  BY <1>1, <1>2, PoseFacts
<1>5. Held(poses')
  BY <1>1, <1>2, <1>4 DEF Held
<1>6. QED
  BY <1>1, <1>3, <1>4, <1>5

(* The new start and goal overwrite the ends. *)
LEMMA EndsOverwritten ==
  ASSUME NEW q \in Seq(Pose), Resting(q)
  PROVE  LET r == [q EXCEPT ![1].at = "start", ![Len(q)].at = "goal"]
         IN r \in Seq(Pose) /\ Len(r) = Len(q) /\ Held(r)
<1> DEFINE n == Len(q)
           a == [q[1] EXCEPT !.at = "start"]
           b == [q[n] EXCEPT !.at = "goal"]
           s == [q EXCEPT ![1] = a]
           r == [q EXCEPT ![1].at = "start", ![n].at = "goal"]
<1>1. n \in Nat /\ n >= 3
  BY LenProperties DEF Resting
<1>2. q[1] \in FixedPose /\ q[n] \in FixedPose
  BY <1>1 DEF Resting
<1>3. a = Start /\ b = Goal
  BY <1>2, FixedMoves
<1>4. s \in Seq(Pose) /\ Len(s) = n /\ \A j \in 1 .. n : s[j] = IF j = 1 THEN Start ELSE q[j]
  <2>1. Start \in Pose /\ 1 \in 1 .. Len(q)
    BY <1>1, PoseFacts
  <2>2. QED
    BY <1>3, <2>1, ExceptSeq
<1>5. r = [s EXCEPT ![n] = [s[n] EXCEPT !.at = "goal"]]
  BY <1>1
<1>6. [s[n] EXCEPT !.at = "goal"] = Goal
  BY <1>1, <1>3, <1>4
<1> HIDE DEF n, a, b, s, r
<1>7. r = [s EXCEPT ![n] = Goal]
  BY <1>5, <1>6
<1>8. /\ r \in Seq(Pose) /\ Len(r) = n
      /\ \A j \in 1 .. n : r[j] = IF j = n THEN Goal ELSE s[j]
  <2>1. Goal \in Pose /\ n \in 1 .. Len(s)
    BY <1>1, <1>4, PoseFacts
  <2>2. QED
    BY <1>4, <1>7, <2>1, ExceptSeq
<1>9. Held(r)
  BY <1>1, <1>4, <1>8 DEF Held, Resting, n
<1>10. QED
  BY <1>8, <1>9 DEF r, n

LEMMA PlanHotShape ==
  ASSUME TypeOK, ShapeInv, NEW passed, PlanHot(passed)
  PROVE  /\ poses' \in Seq(Pose) /\ dts' \in Seq(Nat)
         /\ Held(poses') /\ Len(poses') = Len(dts') + 1
         /\ Len(poses') >= PruneMin \/ Len(poses') = Len(poses)
<1> DEFINE kept == <<poses[1]>> \o SubSeq(poses, passed + 2, Len(poses))
<1>1. Resting(poses) /\ Len(poses) = Len(dts) + 1
  BY DEF ShapeInv, PlanHot
<1>t. /\ poses \in Seq(Pose) /\ dts \in Seq(Nat)
      /\ Len(poses) \in Nat /\ Len(dts) \in Nat /\ Len(poses) >= 3
      /\ PruneMin \in Nat /\ PruneMin >= 3 /\ MaxPruned \in Nat
  BY <1>1, InvTypes DEF Resting
<1>2. /\ passed \in Nat /\ passed <= Len(poses) - 3
      /\ passed = 0 \/ passed <= Len(poses) - PruneMin
  <2> DEFINE len == Len(poses)
             bound == Larger(0, Least(len - PruneMin, MaxPruned))
  <2>1. passed \in 0 .. bound
    BY DEF PlanHot
  <2>2. len \in Nat /\ len >= 3
    BY <1>t
  <2> HIDE DEF len
  <2>3. bound \in Nat /\ (bound = 0 \/ bound <= len - PruneMin)
    BY <1>t, <2>2, SMTT(30) DEF Larger, Least
  <2> HIDE DEF bound
  <2>4. passed \in Nat /\ passed <= bound
    BY <2>1, <2>3
  <2>5. passed <= len - 3 /\ (passed = 0 \/ passed <= len - PruneMin)
    BY <1>t, <2>2, <2>3, <2>4, SMTT(30)
  <2>6. QED
    BY <2>4, <2>5 DEF len
<1>3. /\ kept \in Seq(Pose) /\ Len(kept) = Len(poses) - passed
      /\ \A j \in 1 .. Len(poses) - passed :
           kept[j] = IF j = 1 THEN poses[1] ELSE poses[j + passed]
  <2>1. poses \in Seq(Pose) /\ passed \in Nat /\ passed < Len(poses)
    BY <1>t, <1>2
  <2>2. QED
    BY <2>1, CutProperties
<1>4. dts' \in Seq(Nat) /\ Len(dts') = Len(dts) - passed
  <2>1. dts' = <<dts[1]>> \o SubSeq(dts, passed + 2, Len(dts)) /\ passed < Len(dts)
    BY <1>1, <1>t, <1>2 DEF PlanHot
  <2>2. dts \in Seq(Nat) /\ passed \in Nat
    BY <1>t, <1>2
  <2>3. QED
    BY <2>1, <2>2, CutProperties
<1>5. poses' = [kept EXCEPT ![1].at = "start", ![Len(kept)].at = "goal"]
  BY DEF PlanHot
<1> HIDE DEF kept
<1>6. Resting(kept)
  <2>1. Len(kept) >= 3
    BY <1>t, <1>2, <1>3
  <2>2. ASSUME NEW j \in 1 .. Len(kept)
        PROVE  IF j = 1 \/ j = Len(kept) THEN kept[j] \in FixedPose ELSE kept[j] = Free
    <3>1. CASE j = 1
      BY <3>1, <1>1, <1>t, <1>2, <1>3 DEF Resting
    <3>2. CASE j # 1
      <4>1. kept[j] = poses[j + passed] /\ j + passed \in 2 .. Len(poses)
            /\ (j = Len(kept) <=> j + passed = Len(poses))
        BY <3>2, <1>t, <1>2, <1>3
      <4>2. IF j + passed = Len(poses) THEN poses[j + passed] \in FixedPose
            ELSE poses[j + passed] = Free
        BY <4>1, <1>1, <1>t DEF Resting
      <4>3. QED
        BY <3>2, <4>1, <4>2
    <3>3. QED
      BY <3>1, <3>2
  <2>3. QED
    BY <2>1, <2>2 DEF Resting
<1>7. poses' \in Seq(Pose) /\ Len(poses') = Len(kept) /\ Held(poses')
  BY <1>3, <1>5, <1>6, EndsOverwritten
<1>8. QED
  BY <1>1, <1>t, <1>2, <1>3, <1>4, <1>7

(* One more sample, or one less, behind the start and before the goal. *)
LEMMA SplitShape ==
  ASSUME TypeOK, ShapeInv, Split
  PROVE  /\ poses' \in Seq(Pose) /\ dts' \in Seq(Nat)
         /\ Held(poses') /\ Len(poses') = Len(dts') + 1 /\ Len(poses') > Len(poses)
<1> DEFINE half == dts[i] \div 2
           rest == dts[i] - half
           s == [dts EXCEPT ![i] = half]
<1>1. /\ Held(poses) /\ Len(poses) = Len(dts) + 1
      /\ poses \in Seq(Pose) /\ dts \in Seq(Nat)
      /\ Len(poses) \in Nat /\ Len(dts) \in Nat /\ i \in 1 .. Len(dts)
  BY Running3, InvTypes DEF Split, TooLong
<1>2. dts[i] \in Nat
  BY <1>1, ElementOfSeq
<1>3. half \in Nat /\ rest \in Nat
  BY <1>2
<1>4. dts' = InsertAt(s, i + 1, rest) /\ poses' = InsertAt(poses, i + 1, Free)
  BY DEF Split
<1> HIDE DEF half, rest
<1>5. s \in Seq(Nat) /\ Len(s) = Len(dts)
  BY <1>1, <1>3, ExceptSeq
<1> HIDE DEF s
<1>6. dts' \in Seq(Nat) /\ Len(dts') = Len(dts) + 1
  <2>1. i + 1 \in 1 .. Len(s) + 1
    BY <1>1, <1>5
  <2>2. \A S : s \in Seq(S) /\ rest \in S =>
          InsertAt(s, i + 1, rest) \in Seq(S) /\ Len(InsertAt(s, i + 1, rest)) = Len(s) + 1
    BY <2>1, InsertAtProperties
  <2>3. QED
    BY <1>3, <1>4, <1>5, <2>2
<1>7. i + 1 \in 2 .. Len(poses) /\ i + 1 \in 1 .. Len(poses) + 1 /\ Free \in Pose
  BY <1>1, PoseFacts
<1>8. poses' \in Seq(Pose) /\ Len(poses') = Len(poses) + 1
  BY <1>1, <1>4, <1>7, InsertAtProperties
<1>9. Held(poses')
  BY <1>1, <1>4, <1>7, HeldAfterInsert
<1>10. QED
  BY <1>1, <1>6, <1>8, <1>9

LEMMA MergeShape ==
  ASSUME TypeOK, ShapeInv, Merge \/ MergeLast
  PROVE  /\ poses' \in Seq(Pose) /\ dts' \in Seq(Nat)
         /\ Held(poses') /\ Len(poses') = Len(dts') + 1 /\ Len(poses') > MinSamples
<1>0. pc # "idle" /\ i <= Len(dts) /\ Len(dts) > MinSamples
  BY DEF Merge, MergeLast, TooShort
<1>1. /\ Held(poses) /\ Len(poses) = Len(dts) + 1
      /\ poses \in Seq(Pose) /\ dts \in Seq(Nat)
      /\ Len(poses) \in Nat /\ Len(dts) \in Nat /\ i \in 1 .. Len(dts)
      /\ MinSamples \in Nat /\ MinSamples >= 3 /\ Len(dts) > MinSamples
  BY <1>0, Running3, InvTypes
<1>2. PICK k \in 1 .. Len(dts), v \in Nat, m \in {i, i + 1} :
        /\ dts' = RemoveAt([dts EXCEPT ![k] = v], i)
        /\ poses' = RemoveAt(poses, m) /\ m \in 2 .. Len(poses) - 1
  <2>1. CASE Merge
    <3>1. i + 1 \in 1 .. Len(dts) /\ i + 1 \in 2 .. Len(poses) - 1
      BY <1>1, <2>1 DEF Merge
    <3>2. dts[i + 1] \in Nat /\ dts[i] \in Nat
      BY <1>1, <3>1, ElementOfSeq
    <3>3. dts' = RemoveAt([dts EXCEPT ![i + 1] = dts[i + 1] + dts[i]], i)
      BY <2>1 DEF Merge
    <3>4. poses' = RemoveAt(poses, i + 1)
      BY <2>1 DEF Merge
    <3>5. dts[i + 1] + dts[i] \in Nat
      BY <3>2
    <3>6. QED
      BY <3>1, <3>3, <3>4, <3>5
  <2>2. CASE MergeLast
    <3>1. i - 1 \in 1 .. Len(dts) /\ i \in 2 .. Len(poses) - 1
      BY <1>1, <2>2 DEF MergeLast
    <3>2. dts[i - 1] \in Nat /\ dts[i] \in Nat
      BY <1>1, <3>1, ElementOfSeq
    <3>3. dts' = RemoveAt([dts EXCEPT ![i - 1] = dts[i - 1] + dts[i]], i)
      BY <2>2 DEF MergeLast
    <3>4. poses' = RemoveAt(poses, i)
      BY <2>2 DEF MergeLast
    <3>5. dts[i - 1] + dts[i] \in Nat
      BY <3>2
    <3>6. QED
      BY <3>1, <3>3, <3>4, <3>5
  <2>3. QED
    BY <2>1, <2>2
<1> DEFINE s == [dts EXCEPT ![k] = v]
<1>3. s \in Seq(Nat) /\ Len(s) = Len(dts)
  BY <1>1, ExceptSeq
<1>4. dts' = RemoveAt(s, i)
  BY <1>2
<1> HIDE DEF s
<1>5. dts' \in Seq(Nat) /\ Len(dts') = Len(dts) - 1
  <2>1. i \in 1 .. Len(s)
    BY <1>1, <1>3
  <2>2. \A S : s \in Seq(S) => RemoveAt(s, i) \in Seq(S) /\ Len(RemoveAt(s, i)) = Len(s) - 1
    BY <2>1, RemoveAtProperties
  <2>3. QED
    BY <1>3, <1>4, <2>2
<1>6. m \in 1 .. Len(poses) /\ Len(poses) >= 4
  BY <1>1, <1>2
<1>7. poses' \in Seq(Pose) /\ Len(poses') = Len(poses) - 1
  BY <1>1, <1>2, <1>6, RemoveAtProperties
<1>8. Held(poses')
  BY <1>1, <1>2, <1>6, HeldAfterRemove
<1>9. QED
  BY <1>1, <1>5, <1>7, <1>8

(* The solver moves free poses only. *)
LEMMA SolveShape ==
  ASSUME TypeOK, ShapeInv, Solve
  PROVE  /\ poses' = poses /\ dts' \in Seq(Nat) /\ Len(dts') = Len(dts)
<1>1. /\ Held(poses) /\ poses \in Seq(Pose) /\ Len(poses) \in Nat /\ Len(dts) \in Nat
  BY Running3, InvTypes DEF Solve
<1>2. poses' = [j \in 1 .. Len(poses) |-> IF poses[j].fixed THEN poses[j] ELSE Free]
  BY DEF Solve
<1>3. \A j \in 1 .. Len(poses) : poses[j].fixed = TRUE \/ poses[j] = Free
  BY <1>1 DEF Held, Start, Goal
<1>4. poses = [j \in 1 .. Len(poses) |-> poses[j]]
  BY <1>1
<1>5. \A j \in 1 .. Len(poses) : (IF poses[j].fixed THEN poses[j] ELSE Free) = poses[j]
  BY <1>3
<1>6. poses' = poses
  BY <1>2, <1>4, <1>5
<1>7. dts' \in Seq(Nat) /\ Len(dts') = Len(dts)
  <2>1. PICK f \in [1 .. Len(dts) -> OptDts] : dts' = f
    BY DEF Solve
  <2>2. OptDts \subseteq Nat
    BY ElasticBandOK
  <2>3. QED
    BY <1>1, <2>1, <2>2, NewDts
<1>8. QED
  BY <1>6, <1>7

LEMMA DriveShape ==
  ASSUME TypeOK, ShapeInv, Drive
  PROVE  poses' \in Seq(Pose) /\ (poses' = <<>> \/ Resting(poses')) /\ Len(poses') = Len(poses)
<1> DEFINE moved(p) == IF p.fixed THEN [p EXCEPT !.at = "old"] ELSE p
<1>1. /\ poses \in Seq(Pose) /\ Len(poses) \in Nat /\ DOMAIN poses = 1 .. Len(poses)
  BY InvTypes, LenProperties
<1>2. poses' = [j \in 1 .. Len(poses) |-> moved(poses[j])]
  BY <1>1 DEF Drive
<1>3. \A p \in FixedPose : moved(p) \in FixedPose
  BY PoseFacts, FixedMoves
<1>4. moved(Free) = Free
  BY PoseFacts
<1> HIDE DEF moved
<1>5. CASE poses = <<>>
  <2>1. Len(poses) = 0
    BY <1>5
  <2>2. poses' = <<>>
    BY <1>2, <2>1
  <2>3. QED
    BY <1>5, <2>2
<1>6. CASE Resting(poses)
  <2>1. \A j \in 1 .. Len(poses) :
          IF j = 1 \/ j = Len(poses) THEN moved(poses[j]) \in FixedPose
          ELSE moved(poses[j]) = Free
    BY <1>3, <1>4, <1>6 DEF Resting
  <2>2. \A j \in 1 .. Len(poses) : moved(poses[j]) \in Pose
    BY <2>1, PoseFacts
  <2>3. poses' \in Seq(Pose) /\ Len(poses') = Len(poses)
    BY <1>1, <1>2, <2>2
  <2>4. \A j \in 1 .. Len(poses) : poses'[j] = moved(poses[j])
    BY <1>2
  <2>5. Resting(poses')
    BY <1>6, <2>1, <2>3, <2>4 DEF Resting
  <2>6. QED
    BY <2>3, <2>5
<1>7. QED
  BY <1>5, <1>6 DEF ShapeInv

-----------------------------------------------------------------------------
(* Every step keeps the invariant.                                         *)

LEMMA BandStep ==
  Inv /\ [Next]_vars => poses' \in Seq(Pose) /\ dts' \in Seq(Nat) /\ ShapeInv'
<1> DEFINE Goal2 == poses' \in Seq(Pose) /\ dts' \in Seq(Nat) /\ ShapeInv'
<1> SUFFICES ASSUME Inv, [Next]_vars PROVE Goal2
  OBVIOUS
<1>0. TypeOK /\ ShapeInv /\ poses \in Seq(Pose) /\ dts \in Seq(Nat)
  BY InvTypes DEF Inv
<1>h. ASSUME poses' \in Seq(Pose), dts' \in Seq(Nat), Held(poses'), Len(poses') = Len(dts') + 1
      PROVE  Goal2
  BY <1>h, HeldIsResting DEF ShapeInv
<1>u. ASSUME band' = band, pc # "idle"
      PROVE  Goal2
  <2>1. poses' = poses /\ dts' = dts
    BY <1>u DEF band
  <2>2. Held(poses) /\ Len(poses) = Len(dts) + 1
    BY <1>0, <1>u, Running3
  <2>3. QED
    BY <1>0, <1>h, <2>1, <2>2
<1>1. CASE BeginIteration \/ LastIterationDone
  BY <1>1, <1>u DEF BeginIteration, LastIterationDone
<1>2. CASE Split
  BY <1>0, <1>2, <1>h, SplitShape
<1>3. CASE Merge \/ MergeLast
  BY <1>0, <1>3, <1>h, MergeShape
<1>4. CASE Keep \/ PassDone
  BY <1>4, <1>u DEF Keep, PassDone
<1>5. CASE BuildGraph \/ SolveFails \/ EndIteration
  BY <1>5, <1>u DEF BuildGraph, SolveFails, EndIteration
<1>6. CASE Solve
  <2>1. poses' = poses /\ dts' \in Seq(Nat) /\ Len(dts') = Len(dts)
    BY <1>0, <1>6, SolveShape
  <2>2. Held(poses) /\ Len(poses) = Len(dts) + 1
    BY <1>0, <1>6, Running3 DEF Solve
  <2>3. QED
    BY <1>0, <1>h, <2>1, <2>2
<1>7. ASSUME NEW points \in PathLens, PlanAnew(points) PROVE Goal2
  <2>1. InitBand(points)
    BY <1>7 DEF PlanAnew
  <2>2. QED
    BY <1>h, <2>1, InitBandShape
<1>8. ASSUME NEW passed \in 0 .. MaxPruned, PlanHot(passed) PROVE Goal2
  BY <1>0, <1>8, <1>h, PlanHotShape
<1>9. CASE Drive
  <2>1. poses' \in Seq(Pose) /\ (poses' = <<>> \/ Resting(poses')) /\ Len(poses') = Len(poses)
    BY <1>0, <1>9, DriveShape
  <2>2. dts' = dts /\ pc' = "idle"
    BY <1>9 DEF Drive
  <2>3. CASE poses = <<>>
    <3>1. dts = <<>> /\ Len(poses) = 0
      BY <1>0, <2>3, EmptySeq DEF ShapeInv, Resting
    <3>2. poses' = <<>>
      BY <2>1, <3>1, EmptySeq
    <3>3. QED
      BY <1>0, <2>1, <2>2, <3>1, <3>2 DEF ShapeInv
  <2>4. CASE Resting(poses) /\ Len(poses) = Len(dts) + 1
    <3>1. Resting(poses')
      BY <2>1, <2>4, EmptySeq DEF Resting
    <3>2. QED
      BY <1>0, <2>1, <2>2, <2>4, <3>1 DEF ShapeInv
  <2>5. QED
    BY <1>0, <2>3, <2>4 DEF ShapeInv
<1>10. CASE Clear
  BY <1>10, EmptySeq DEF Clear, ShapeInv
<1>11. CASE UNCHANGED vars
  BY <1>0, <1>11 DEF vars, ShapeInv
<1>12. QED
  BY <1>1, <1>2, <1>3, <1>4, <1>5, <1>6, <1>7, <1>8, <1>9, <1>10, <1>11
     DEF Next, Running, Calls

(* findClosestTrajectoryPose() may return an end, the edge does not. *)
LEMMA AttachedRange ==
  ASSUME NEW n \in Nat, n >= 3, NEW k \in -1 .. n - 1
  PROVE  Attached(k, n) = 0 \/ Attached(k, n) \in 2 .. n - 1
  BY DEF Attached

LEMMA GraphStep == Inv /\ [Next]_vars => via' \in Seq(Nat) /\ GraphInv'
<1> DEFINE Goal2 == via' \in Seq(Nat) /\ GraphInv'
<1> SUFFICES ASSUME Inv, [Next]_vars PROVE Goal2
  OBVIOUS
<1>0. /\ TypeOK /\ ShapeInv /\ via \in Seq(Nat) /\ <<>> \in Seq(Nat)
      /\ (graph => pc \in {"solve", "solved"}) /\ (~graph => via = <<>>)
  BY EmptySeq DEF Inv, TypeOK, GraphInv
<1>n. ASSUME pc \notin {"solve", "solved"}, pc' \notin {"solve", "solved"},
             UNCHANGED <<graph, via>>
      PROVE  Goal2
  BY <1>0, <1>n DEF GraphInv
<1>c. ASSUME graph' = FALSE, via' = <<>>, pc' \notin {"solve", "solved"}
      PROVE  Goal2
  BY <1>0, <1>c DEF GraphInv
<1>1. CASE BeginIteration \/ LastIterationDone
  BY <1>1, <1>n DEF BeginIteration, LastIterationDone, Return
<1>2. CASE Split \/ Merge \/ MergeLast \/ Keep
  BY <1>2, <1>n DEF Split, Merge, MergeLast, Keep, TooLong, TooShort
<1>3. CASE PassDone
  BY <1>3, <1>n DEF PassDone
<1>4. CASE BuildGraph
  <2>1. pc = "build" /\ ~graph
    BY <1>0, <1>4 DEF BuildGraph
  <2>2. /\ Len(poses) \in Nat /\ Len(poses) >= 3 /\ ViaPoints \in Nat
        /\ poses' = poses
    BY <1>0, <1>4, <2>1, Running3, InvTypes DEF BuildGraph, band
  <2>3. graph' = TRUE /\ pc' = "solve"
    BY <1>4, <2>1 DEF BuildGraph
  <2>4. PICK near \in [1 .. ViaPoints -> -1 .. Len(poses) - 1] :
          via' = [j \in 1 .. ViaPoints |-> Attached(near[j], Len(poses))]
    BY <1>4, <2>1, <2>2 DEF BuildGraph
  <2>5. \A j \in 1 .. ViaPoints :
          \/ Attached(near[j], Len(poses)) = 0
          \/ Attached(near[j], Len(poses)) \in 2 .. Len(poses) - 1
    BY <2>2, AttachedRange
  <2>6. \A j \in 1 .. ViaPoints : Attached(near[j], Len(poses)) \in Nat
    BY <2>2, <2>5
  <2>7. via' \in Seq(Nat) /\ DOMAIN via' = 1 .. ViaPoints
    BY <2>2, <2>4, <2>6
  <2>8. \A j \in DOMAIN via' : via'[j] = 0 \/ via'[j] \in 2 .. Len(poses') - 1
    BY <2>2, <2>4, <2>5, <2>7
  <2>9. QED
    BY <2>3, <2>7, <2>8 DEF GraphInv
<1>5. CASE Solve
  <2>1. /\ pc = "solve" /\ pc' = "solved" /\ graph' = graph /\ via' = via /\ poses' = poses
    BY <1>0, <1>5, SolveShape DEF Solve
  <2>2. QED
    BY <1>0, <2>1 DEF Inv, GraphInv
<1>6. CASE SolveFails \/ EndIteration
  BY <1>6, <1>c DEF SolveFails, EndIteration, Return
<1>7. ASSUME NEW points \in PathLens, PlanAnew(points) PROVE Goal2
  BY <1>7, <1>n DEF PlanAnew, Optimize
<1>8. ASSUME NEW passed \in 0 .. MaxPruned, PlanHot(passed) PROVE Goal2
  BY <1>8, <1>n DEF PlanHot, Optimize
<1>9. CASE Drive
  BY <1>9, <1>n DEF Drive
<1>10. CASE Clear
  BY <1>10, <1>c DEF Clear
<1>11. CASE UNCHANGED vars
  BY <1>0, <1>11 DEF vars, Inv, GraphInv
<1>12. QED
  BY <1>1, <1>2, <1>3, <1>4, <1>5, <1>6, <1>7, <1>8, <1>9, <1>10, <1>11
     DEF Next, Running, Calls

LEMMA FlagStep ==
  TypeOK /\ [Next]_vars =>
    /\ graph' \in BOOLEAN /\ optimized' \in BOOLEAN
    /\ returned' \in BOOLEAN /\ modified' \in BOOLEAN
<1> DEFINE Flags == /\ graph' \in BOOLEAN /\ optimized' \in BOOLEAN
                    /\ returned' \in BOOLEAN /\ modified' \in BOOLEAN
<1> SUFFICES ASSUME TypeOK, [Next]_vars PROVE Flags
  OBVIOUS
<1>0. /\ graph \in BOOLEAN /\ optimized \in BOOLEAN
      /\ returned \in BOOLEAN /\ modified \in BOOLEAN
  BY DEF TypeOK
<1>1. CASE BeginIteration \/ LastIterationDone
  BY <1>0, <1>1 DEF BeginIteration, LastIterationDone, Return
<1>2. CASE Split \/ Merge \/ MergeLast \/ Keep
  BY <1>0, <1>2 DEF Split, Merge, MergeLast, Keep, Next1
<1>3. CASE PassDone
  BY <1>0, <1>3 DEF PassDone
<1>4. CASE BuildGraph
  BY <1>0, <1>4 DEF BuildGraph, Return
<1>5. CASE Solve \/ SolveFails \/ EndIteration
  BY <1>0, <1>5 DEF Solve, SolveFails, EndIteration, Return
<1>6. ASSUME NEW points \in PathLens, PlanAnew(points) PROVE Flags
  BY <1>0, <1>6 DEF PlanAnew, Optimize
<1>7. ASSUME NEW passed \in 0 .. MaxPruned, PlanHot(passed) PROVE Flags
  BY <1>0, <1>7 DEF PlanHot, Optimize
<1>8. CASE Drive \/ Clear
  BY <1>0, <1>8 DEF Drive, Clear
<1>9. CASE UNCHANGED vars
  BY <1>0, <1>9 DEF vars
<1>10. QED
  BY <1>1, <1>2, <1>3, <1>4, <1>5, <1>6, <1>7, <1>8, <1>9 DEF Next, Running, Calls

LEMMA ControlStep ==
  TypeOK /\ OuterInv /\ [Next]_vars =>
    /\ outer' \in 0 .. Outer /\ rep' \in Nat /\ i' \in Nat \ {0}
    /\ pc' \in {"idle", "outer", "resize", "build", "solve", "solved"}
    /\ OuterInv'
<1> DEFINE Place == /\ outer' \in 0 .. Outer /\ rep' \in Nat /\ i' \in Nat \ {0}
                    /\ pc' \in {"idle", "outer", "resize", "build", "solve", "solved"}
                    /\ OuterInv'
<1> SUFFICES ASSUME TypeOK, OuterInv, [Next]_vars PROVE Place
  OBVIOUS
<1> USE DEF OuterInv
<1>0. /\ outer \in 0 .. Outer /\ rep \in Nat /\ i \in Nat \ {0} /\ Outer \in Nat
      /\ pc \in {"idle", "outer", "resize", "build", "solve", "solved"}
  BY ElasticBandOK DEF TypeOK
<1>1. CASE BeginIteration
  BY <1>0, <1>1 DEF BeginIteration
<1>2. CASE LastIterationDone
  BY <1>0, <1>2 DEF LastIterationDone, Return
<1>3. CASE Split
  BY <1>0, <1>3 DEF Split, Next1
<1>4. CASE Merge
  BY <1>0, <1>4 DEF Merge, Next1
<1>5. CASE MergeLast
  BY <1>0, <1>5 DEF MergeLast, Next1
<1>6. CASE Keep
  BY <1>0, <1>6 DEF Keep, Next1
<1>7. CASE PassDone
  <2>1. \/ pc' = "build" /\ rep' = rep /\ i' = i
        \/ pc' = "resize" /\ rep' = rep + 1 /\ i' = 1
    BY <1>0, <1>7 DEF PassDone
  <2>2. pc = "resize" /\ outer' = outer
    BY <1>7 DEF PassDone
  <2>3. QED
    BY <1>0, <2>1, <2>2
<1>8. CASE BuildGraph
  BY <1>0, <1>8 DEF BuildGraph, Return
<1>9. CASE Solve
  BY <1>0, <1>9 DEF Solve
<1>10. CASE SolveFails
  BY <1>0, <1>10 DEF SolveFails, Return
<1>11. CASE EndIteration
  <2>1. outer' = outer + 1 /\ pc = "solved" /\ pc' = "outer" /\ rep' = rep /\ i' = i
    BY <1>11 DEF EndIteration
  <2>2. QED
    BY <1>0, <2>1
<1>12. CASE Drive \/ Clear
  BY <1>0, <1>12 DEF Drive, Clear
<1>13. CASE UNCHANGED vars
  BY <1>0, <1>13 DEF vars
<1>14. ASSUME Optimize, pc = "idle", rep' = rep, i' = i PROVE Place
  <2>1. CASE outer' = 0 /\ pc' = "outer"
    BY <1>0, <1>14, <2>1
  <2>2. CASE UNCHANGED <<outer, pc>>
    BY <1>0, <1>14, <2>2
  <2>3. QED
    BY <1>14, <2>1, <2>2 DEF Optimize
<1>15. ASSUME NEW points \in PathLens, PlanAnew(points) PROVE Place
  BY <1>14, <1>15 DEF PlanAnew
<1>16. ASSUME NEW passed \in 0 .. MaxPruned, PlanHot(passed) PROVE Place
  BY <1>14, <1>16 DEF PlanHot
<1>17. QED
  BY <1>1, <1>2, <1>3, <1>4, <1>5, <1>6, <1>7, <1>8, <1>9, <1>10, <1>11, <1>12,
     <1>13, <1>15, <1>16 DEF Next, Running, Calls

LEMMA InvInit == Init => Inv
<1> SUFFICES ASSUME Init PROVE Inv
  OBVIOUS
<1>1. /\ poses = <<>> /\ dts = <<>> /\ via = <<>> /\ outer = 0 /\ rep = 0 /\ i = 1
      /\ graph = FALSE /\ optimized = FALSE /\ returned = FALSE /\ modified = FALSE
      /\ pc = "idle"
  BY DEF Init
<1>2. <<>> \in Seq(Pose) /\ <<>> \in Seq(Nat) /\ 0 \in 0 .. Outer
  BY ElasticBandOK, EmptySeq
<1>3. TypeOK
  <2>1. {graph, optimized, returned, modified} \subseteq BOOLEAN
    BY <1>1
  <2>2. outer \in 0 .. Outer /\ rep \in Nat /\ i \in Nat \ {0}
    BY <1>1, <1>2
  <2>3. QED
    BY <1>1, <1>2, <2>1, <2>2 DEF TypeOK
<1>4. ShapeInv /\ GraphInv /\ OuterInv
  BY <1>1 DEF ShapeInv, GraphInv, OuterInv
<1>5. QED
  BY <1>3, <1>4 DEF Inv

LEMMA InvStep == Inv /\ [Next]_vars => Inv'
<1> SUFFICES ASSUME Inv, [Next]_vars PROVE Inv'
  OBVIOUS
<1>0. TypeOK /\ ShapeInv /\ OuterInv
  BY DEF Inv
<1>1. poses' \in Seq(Pose) /\ dts' \in Seq(Nat) /\ ShapeInv'
  BY BandStep
<1>2. via' \in Seq(Nat) /\ GraphInv'
  BY GraphStep
<1>3. /\ graph' \in BOOLEAN /\ optimized' \in BOOLEAN
      /\ returned' \in BOOLEAN /\ modified' \in BOOLEAN
  BY <1>0, FlagStep
<1>4. /\ outer' \in 0 .. Outer /\ rep' \in Nat /\ i' \in Nat \ {0}
      /\ pc' \in {"idle", "outer", "resize", "build", "solve", "solved"}
      /\ OuterInv'
  BY <1>0, ControlStep
<1>5. {graph, optimized, returned, modified}' \subseteq BOOLEAN
  BY <1>3
<1>6. TypeOK'
  BY <1>1, <1>2, <1>4, <1>5 DEF TypeOK
<1>7. QED
  BY <1>1, <1>2, <1>4, <1>6 DEF Inv

LEMMA InvHolds == Spec => []Inv
  BY InvInit, InvStep, PTL DEF Spec

-----------------------------------------------------------------------------
(* The theorems.                                                           *)

(* Every state is of its type. *)
THEOREM TypeCorrect == Spec => []TypeOK
<1>1. Inv => TypeOK
  BY DEF Inv
<1>2. QED
  BY <1>1, InvHolds, PTL

(* Pruning, splitting and joining keep one time difference between any two *)
(* consecutive poses.                                                      *)
THEOREM BandShapeHolds == Spec => []BandShape
<1>1. ASSUME Inv PROVE BandShape
  <2>1. CASE poses = <<>> /\ dts = <<>>
    BY <2>1 DEF BandShape
  <2>2. CASE Resting(poses) /\ Len(poses) = Len(dts) + 1
    <3>1. Len(dts) >= 2
      BY <1>1, <2>2, InvTypes DEF Inv, Resting
    <3>2. dts # <<>>
      BY <3>1, EmptySeq
    <3>3. QED
      BY <2>2, <3>2 DEF BandShape
  <2>3. QED
    BY <1>1, <2>1, <2>2 DEF Inv, ShapeInv
<1>2. QED
  BY <1>1, InvHolds, PTL

(* The optimization holds the start and the goal of this cycle, and        *)
(* nothing between them.                                                   *)
THEOREM EndsHeldHolds == Spec => []EndsHeld
<1>1. ASSUME Inv PROVE EndsHeld
  <2>1. DOMAIN poses = 1 .. Len(poses)
    BY <1>1, InvTypes DEF Inv
  <2>2. QED
    BY <1>1, <2>1 DEF Inv, ShapeInv, Held, EndsHeld
<1>2. QED
  BY <1>1, InvHolds, PTL

(* Pruning leaves PruneMin poses, and what a call optimized keeps          *)
(* min_samples until it returns: PruneMin may be less, and a step of the   *)
(* calls that prune begins without an optimized band.                      *)
THEOREM EnoughSamplesHolds == Spec => []EnoughSamples
<1>1. Init => EnoughSamples
  BY DEF Init, EnoughSamples
<1>2. ASSUME Inv, EnoughSamples, [Next]_vars PROVE EnoughSamples'
  <2>0. /\ TypeOK /\ ShapeInv
        /\ Len(poses) \in Nat /\ MinSamples \in Nat /\ PruneMin \in Nat
        /\ PruneMin <= MinSamples
    BY <1>2, InvTypes, ElasticBandOK DEF Inv
  <2>1. CASE Split
    <3>1. Len(poses') > Len(poses) /\ poses' \in Seq(Pose) /\ poses # <<>>
      BY <2>0, <2>1, SplitShape, Running3 DEF Split, TooLong
    <3>2. Len(poses') \in Nat
      BY <3>1, LenProperties
    <3>3. pc = "resize" /\ optimized' = optimized
      BY <2>1 DEF Split, TooLong
    <3>4. QED
      BY <1>2, <2>0, <3>1, <3>2, <3>3 DEF EnoughSamples
  <2>2. CASE Merge \/ MergeLast
    <3>1. Len(poses') > MinSamples /\ poses' \in Seq(Pose)
      BY <2>0, <2>2, MergeShape
    <3>2. QED
      BY <2>0, <3>1, LenProperties DEF EnoughSamples
  <2>3. ASSUME UNCHANGED poses, optimized' = optimized, pc' # "idle" => pc # "idle"
        PROVE  EnoughSamples'
    BY <1>2, <2>3 DEF EnoughSamples
  <2>4. CASE Solve
    <3>1. Len(poses') = Len(poses) /\ poses # <<>> /\ Len(poses) >= MinSamples
      BY <2>0, <2>4, SolveShape, Running3 DEF Solve
    <3>2. QED
      BY <2>0, <3>1 DEF EnoughSamples
  <2>o. ASSUME Optimize PROVE optimized' = FALSE \/ pc' = pc
    BY <2>o DEF Optimize
  <2>5. ASSUME NEW points \in PathLens, PlanAnew(points) PROVE EnoughSamples'
    <3>1. poses' \in Seq(Pose) /\ Len(poses') >= MinSamples
      BY <2>5, InitBandShape DEF PlanAnew
    <3>2. QED
      BY <2>0, <3>1, LenProperties DEF EnoughSamples
  <2>6. ASSUME NEW passed \in 0 .. MaxPruned, PlanHot(passed) PROVE EnoughSamples'
    <3>1. /\ Len(poses') >= PruneMin \/ Len(poses') = Len(poses)
          /\ poses' \in Seq(Pose) /\ poses # <<>>
      BY <2>0, <2>6, PlanHotShape DEF PlanHot
    <3>2. Len(poses') \in Nat
      BY <3>1, LenProperties
    <3>3. optimized' = FALSE \/ pc' = "idle"
      BY <2>o, <2>6 DEF PlanHot
    <3>4. QED
      BY <1>2, <2>0, <3>1, <3>2, <3>3 DEF EnoughSamples
  <2>7. CASE Drive
    <3>1. Len(poses') = Len(poses) /\ poses' \in Seq(Pose)
      BY <2>0, <2>7, DriveShape
    <3>2. poses' # <<>> => poses # <<>>
      BY <2>0, <3>1, InvTypes, EmptySeq
    <3>3. pc' = "idle"
      BY <2>7 DEF Drive
    <3>4. QED
      BY <1>2, <3>1, <3>2, <3>3 DEF EnoughSamples
  <2>8. CASE Clear
    BY <2>8 DEF Clear, EnoughSamples
  <2>9. CASE \/ BeginIteration \/ LastIterationDone \/ Keep \/ PassDone
             \/ BuildGraph \/ SolveFails \/ EndIteration \/ UNCHANGED vars
    <3>1. UNCHANGED poses /\ optimized' = optimized
      BY <2>9 DEF BeginIteration, LastIterationDone, Keep, PassDone, BuildGraph,
                  SolveFails, EndIteration, vars, band
    <3>2. pc' # "idle" => pc # "idle"
      BY <2>9 DEF BeginIteration, LastIterationDone, Keep, PassDone, BuildGraph,
                  SolveFails, EndIteration, Return, vars
    <3>3. QED
      BY <2>3, <3>1, <3>2
  <2>10. QED
    BY <1>2, <2>1, <2>2, <2>4, <2>5, <2>6, <2>7, <2>8, <2>9 DEF Next, Running, Calls
<1>3. QED
  BY <1>1, <1>2, InvHolds, PTL DEF Spec

(* While g2o holds pointers to the vertices, none is deleted or inserted.  *)
THEOREM BandStableInGraphHolds == Spec => BandStableInGraph
<1>1. ASSUME Inv, [Next]_vars
      PROVE  [graph => Len(poses') = Len(poses) /\ Len(dts') = Len(dts)]_vars
  <2>1. SUFFICES ASSUME graph PROVE Len(poses') = Len(poses) /\ Len(dts') = Len(dts)
    OBVIOUS
  <2>2. TypeOK /\ ShapeInv /\ pc \in {"solve", "solved"}
    BY <1>1, <2>1 DEF Inv, GraphInv
  <2>3. CASE Solve
    BY <2>2, <2>3, SolveShape
  <2>4. CASE SolveFails \/ EndIteration \/ UNCHANGED vars
    BY <2>4 DEF SolveFails, EndIteration, vars, band
  <2>5. Solve \/ SolveFails \/ EndIteration \/ UNCHANGED vars
    BY <1>1, <2>2 DEF Next, Running, Calls, BeginIteration, LastIterationDone, Split, Merge,
       MergeLast, Keep, PassDone, BuildGraph, PlanAnew, PlanHot, Drive, Clear, TooLong, TooShort
  <2>6. QED
    BY <2>3, <2>4, <2>5
<1>2. QED
  BY <1>1, InvHolds, PTL DEF Spec, BandStableInGraph

(* AddEdgesViaPoints() attaches no via-point to an end. *)
THEOREM ViaPointsMovableHolds == Spec => []ViaPointsMovable
<1>1. ASSUME Inv PROVE ViaPointsMovable
  <2> SUFFICES ASSUME NEW j \in DOMAIN via, via[j] # 0 PROVE ~poses[via[j]].fixed
    BY DEF ViaPointsMovable
  <2>1. graph
    BY <1>1, EmptySeq DEF Inv, GraphInv
  <2>2. via[j] \in 2 .. Len(poses) - 1 /\ pc # "idle" /\ Len(poses) \in Nat
    BY <1>1, <2>1, InvTypes DEF Inv, GraphInv
  <2>3. poses[via[j]] = Free
    BY <1>1, <2>2 DEF Inv, ShapeInv, Held
  <2>4. QED
    BY <2>3, PoseFacts
<1>2. QED
  BY <1>1, InvHolds, PTL

(* The range of an edge of each kind. *)
LEMMA EdgesInRange ==
  ASSUME NEW n \in Nat, n >= 3, NEW e \in Edges(n)
  PROVE  e.poses \subseteq 0 .. n - 1 /\ e.dts \subseteq 0 .. n - 2
<1> DEFINE In(f) == f.poses \subseteq 0 .. n - 1 /\ f.dts \subseteq 0 .. n - 2
<1> USE DEF Edge
<1>1. e \in Obstacles(n) \cup DynamicObstacles(n) => In(e)
  BY DEF Obstacles, DynamicObstacles
<1>2. e \in ObstaclesLegacy(n) => In(e)
  <2> SUFFICES ASSUME e \in ObstaclesLegacy(n) PROVE In(e)
    OBVIOUS
  <2>1. PICK closest \in SUBSET (0 .. n - 1) :
          e \in {Edge({j}, {}) : j \in UNION {Neighbours(c, n) :
                                                c \in {k \in closest : 1 < k /\ k <= n - 2}}}
    <3>1. {n \div 2} \subseteq 0 .. n - 1
      OBVIOUS
    <3>2. QED
      BY <3>1 DEF ObstaclesLegacy
  <2>2. PICK c \in 0 .. n - 1 : \E j \in Neighbours(c, n) : e = Edge({j}, {})
    BY <2>1
  <2>3. Neighbours(c, n) \subseteq 0 .. n - 1
    BY DEF Neighbours
  <2>4. QED
    BY <2>2, <2>3
<1>3. e \in Velocity(n) \cup Shortest(n) \cup Kinematics(n) => In(e)
  BY DEF Velocity, Shortest, Kinematics
<1>4. e \in Acceleration(n) => In(e)
  BY DEF Acceleration
<1>5. e \in TimeOptimal(n) => In(e)
  BY DEF TimeOptimal
<1>6. e \in PreferRotDir(n) => In(e)
  BY DEF PreferRotDir, Least
<1>7. e \in VelocityObstacleRatio(n) => In(e)
  BY DEF VelocityObstacleRatio
<1>8. \/ e \in Obstacles(n) \cup DynamicObstacles(n)
      \/ e \in ObstaclesLegacy(n)
      \/ e \in Velocity(n) \cup Shortest(n) \cup Kinematics(n)
      \/ e \in Acceleration(n)
      \/ e \in TimeOptimal(n)
      \/ e \in PreferRotDir(n)
      \/ e \in VelocityObstacleRatio(n)
  BY DEF Edges
<1>9. QED
  BY <1>1, <1>2, <1>3, <1>4, <1>5, <1>6, <1>7, <1>8

(* buildGraph() indexes no vertex the band does not have, whatever the     *)
(* weights and the association of obstacles.                               *)
THEOREM EdgesInBandHolds == Spec => []EdgesInBand
<1>1. ASSUME Inv PROVE EdgesInBand
  <2> SUFFICES ASSUME graph, NEW e \in Edges(Len(poses))
               PROVE  e.poses \subseteq 0 .. Len(poses) - 1 /\ e.dts \subseteq 0 .. Len(dts) - 1
    BY DEF EdgesInBand
  <2>1. pc # "idle" /\ TypeOK /\ ShapeInv
    BY <1>1 DEF Inv, GraphInv
  <2>2. /\ Len(poses) >= 3 /\ Len(poses) \in Nat /\ Len(dts) \in Nat
        /\ Len(dts) - 1 = Len(poses) - 2
    BY <2>1, Running3, InvTypes
  <2>3. QED
    BY <2>2, EdgesInRange
<1>2. QED
  BY <1>1, InvHolds, PTL

LEMMA PairsReachAll ==
  ASSUME NEW n \in Nat, NEW j \in 0 .. n - 2, NEW kind \in {Velocity(n), Shortest(n), Kinematics(n)}
  PROVE  \E e \in kind : j \in e.poses
<1>1. /\ Edge({j, j + 1}, {j}) \in Velocity(n)
      /\ Edge({j, j + 1}, {}) \in Shortest(n)
      /\ Edge({j, j + 1}, {}) \in Kinematics(n)
  BY DEF Velocity, Shortest, Kinematics
<1>2. \A t : j \in Edge({j, j + 1}, t).poses
  BY DEF Edge
<1>3. QED
  BY <1>1, <1>2

LEMMA TimesReachAll ==
  ASSUME NEW n \in Nat, NEW j \in 0 .. n - 2, NEW kind \in {Velocity(n), TimeOptimal(n)}
  PROVE  \E e \in kind : j \in e.dts
<1>1. Edge({j, j + 1}, {j}) \in Velocity(n) /\ Edge({}, {j}) \in TimeOptimal(n)
  BY DEF Velocity, TimeOptimal
<1>2. \A p : j \in Edge(p, {j}).dts
  BY DEF Edge
<1>3. QED
  BY <1>1, <1>2

(* Of the kinds of edges that join consecutive poses each one alone gives  *)
(* the solver's system of equations a term for every vertex it may change. *)
THEOREM VerticesConstrainedHolds == Spec => []VerticesConstrained
<1>1. ASSUME Inv PROVE VerticesConstrained
  <2> DEFINE n == Len(poses)
  <2> SUFFICES ASSUME graph
               PROVE  /\ \A j \in DOMAIN poses :
                           ~poses[j].fixed =>
                             \A kind \in {Velocity(n), Shortest(n), Kinematics(n)} :
                               \E e \in kind : j - 1 \in e.poses
                      /\ \A j \in DOMAIN dts :
                           \A kind \in {Velocity(n), TimeOptimal(n)} : \E e \in kind : j - 1 \in e.dts
    BY DEF VerticesConstrained
  <2>1. pc # "idle" /\ TypeOK /\ ShapeInv
    BY <1>1 DEF Inv, GraphInv
  <2>2. /\ Held(poses) /\ n = Len(dts) + 1 /\ n \in Nat /\ Len(dts) \in Nat
        /\ DOMAIN poses = 1 .. n /\ DOMAIN dts = 1 .. Len(dts)
    BY <2>1, Running3, InvTypes
  <2>3. ASSUME NEW j \in DOMAIN poses, ~poses[j].fixed
        PROVE  \A kind \in {Velocity(n), Shortest(n), Kinematics(n)} : \E e \in kind : j - 1 \in e.poses
    <3>1. j # n
      BY <2>2, <2>3 DEF Held, Start, Goal
    <3>2. j - 1 \in 0 .. n - 2
      BY <2>2, <3>1
    <3> HIDE DEF n
    <3>3. QED
      BY <2>2, <3>2, PairsReachAll
  <2>4. ASSUME NEW j \in DOMAIN dts
        PROVE  \A kind \in {Velocity(n), TimeOptimal(n)} : \E e \in kind : j - 1 \in e.dts
    <3>1. j - 1 \in 0 .. n - 2
      BY <2>2
    <3> HIDE DEF n
    <3>2. QED
      BY <2>2, <3>1, TimesReachAll
  <2>5. QED
    BY <2>3, <2>4
<1>2. QED
  BY <1>1, InvHolds, PTL

(* The problem the solver is given has edges only between vertices of the  *)
(* band, a term for each, and via-points only on poses that can move.      *)
THEOREM GraphSoundHolds == Spec => []GraphSound
BY EdgesInBandHolds, VerticesConstrainedHolds, ViaPointsMovableHolds, PTL DEF GraphSound

-----------------------------------------------------------------------------
(* Resizing settles.                                                       *)

Settled(j) ==
  /\ dts[j] > DtRef + DtHyst => Len(dts) >= MaxSamples
  /\ dts[j] < DtRef - DtHyst => Len(dts) <= MinSamples

(* A pass that has changed nothing leaves only settled time differences    *)
(* behind.                                                                 *)
PassInv ==
  ~modified =>
    /\ pc = "resize" => \A j \in DOMAIN dts : j < i => Settled(j)
    /\ pc = "build" /\ i > 1 => \A j \in DOMAIN dts : Settled(j)

LEMMA SettledSame ==
  ASSUME UNCHANGED dts, NEW j, Settled(j)
  PROVE  Settled(j)'
  BY DEF Settled

LEMMA PassStep == TypeOK /\ PassInv /\ [Next]_vars => PassInv'
<1> SUFFICES ASSUME TypeOK, PassInv, [Next]_vars PROVE PassInv'
  OBVIOUS
<1>0. /\ dts \in Seq(Nat) /\ DOMAIN dts = 1 .. Len(dts) /\ Len(dts) \in Nat /\ i \in Nat \ {0}
      /\ DtRef \in Nat /\ DtHyst \in Nat /\ MinSamples \in Nat /\ MaxSamples \in Nat
  BY InvTypes
<1> USE DEF vars, band
<1>1. CASE BeginIteration
  BY <1>0, <1>1 DEF BeginIteration, PassInv
<1>2. CASE Split \/ Merge \/ MergeLast
  <2>1. modified' = TRUE
    BY <1>2 DEF Split, Merge, MergeLast, Next1
  <2>2. QED
    BY <2>1 DEF PassInv
<1>3. CASE Keep
  <2>1. /\ UNCHANGED <<dts, pc, modified>> /\ i' = i + 1 /\ pc = "resize" /\ i \in 1 .. Len(dts)
    BY <1>0, <1>3 DEF Keep, Next1
  <2>2. Settled(i)
    BY <1>0, <1>3, <2>1 DEF Keep, TooLong, TooShort, Settled
  <2> SUFFICES ASSUME ~modified, NEW j \in DOMAIN dts, j < i + 1
               PROVE  Settled(j)'
    BY <2>1 DEF PassInv
  <2>3. j < i \/ j = i
    BY <1>0
  <2>4. Settled(j)
    BY <2>1, <2>2, <2>3 DEF PassInv
  <2>5. QED
    BY <2>1, <2>4, SettledSame
<1>4. CASE PassDone
  <2>1. UNCHANGED dts /\ pc = "resize" /\ i > Len(dts)
    BY <1>4 DEF PassDone
  <2>2. CASE pc' = "build"
    <3>1. UNCHANGED modified
      BY <1>4, <2>1, <2>2 DEF PassDone
    <3> SUFFICES ASSUME ~modified, NEW j \in DOMAIN dts PROVE Settled(j)'
      BY <2>1, <2>2, <3>1 DEF PassInv
    <3>2. j < i
      BY <1>0, <2>1
    <3>3. Settled(j)
      BY <2>1, <3>2 DEF PassInv
    <3>4. QED
      BY <2>1, <3>3, SettledSame
  <2>3. CASE pc' # "build"
    <3>1. i' = 1
      BY <1>4, <2>3 DEF PassDone
    <3>2. \A j \in DOMAIN dts' : ~(j < i')
      BY <1>0, <2>1, <3>1
    <3>3. QED
      BY <2>3, <3>2 DEF PassInv
  <2>4. QED
    BY <2>2, <2>3
<1>5. CASE LastIterationDone \/ BuildGraph \/ Solve \/ SolveFails \/ EndIteration
  <2>1. pc' \notin {"resize", "build"}
    BY <1>5 DEF LastIterationDone, BuildGraph, Solve, SolveFails, EndIteration, Return
  <2>2. QED
    BY <2>1 DEF PassInv
<1>6. ASSUME Calls PROVE PassInv'
  <2>1. pc' \notin {"resize", "build"}
    BY <1>6 DEF Calls, PlanAnew, PlanHot, Drive, Clear, Optimize
  <2>2. QED
    BY <2>1 DEF PassInv
<1>7. CASE UNCHANGED vars
  <2>1. UNCHANGED <<dts, pc, i, modified>>
    BY <1>7
  <2>2. QED
    BY <2>1 DEF PassInv, Settled
<1>8. QED
  BY <1>1, <1>2, <1>3, <1>4, <1>5, <1>6, <1>7 DEF Next, Running

(* autoResize() ends with every time difference within the hysteresis, as  *)
(* far as the limits on samples allow, unless it ran out of passes.        *)
THEOREM ResizeSettlesHolds == Spec => []ResizeSettles
<1>1. Init => PassInv
  BY DEF Init, PassInv
<1>2. PassInv => ResizeSettles
  BY DEF PassInv, ResizeSettles, Settled
<1>3. QED
  BY <1>1, <1>2, PassStep, TypeCorrect, PTL DEF Spec

-----------------------------------------------------------------------------
(* Resizing keeps the time.                                                *)

LEMMA SplitKeepsTime ==
  ASSUME TypeOK, Split PROVE FoldSeq(+, 0, dts') = FoldSeq(+, 0, dts)
<1> DEFINE half == dts[i] \div 2
           rest == dts[i] - half
           s == [dts EXCEPT ![i] = half]
<1>1. dts \in Seq(Nat) /\ Len(dts) \in Nat /\ i \in 1 .. Len(dts)
  BY InvTypes DEF Split, TooLong
<1>2. dts[i] \in Nat
  BY <1>1, ElementOfSeq
<1>3. half \in Nat /\ rest \in Nat /\ half + rest = dts[i]
  <2>1. \A x \in Nat : x \div 2 \in Nat /\ x - (x \div 2) \in Nat /\ (x \div 2) + (x - (x \div 2)) = x
    OBVIOUS
  <2>2. QED
    BY <1>2, <2>1, Zenon
<1>4. dts' = InsertAt(s, i + 1, rest)
  BY DEF Split
<1> HIDE DEF half, rest
<1>5. /\ s \in Seq(Nat) /\ Len(s) = Len(dts)
      /\ \A j \in 1 .. Len(dts) : s[j] = IF j = i THEN half ELSE dts[j]
  BY <1>1, <1>3, ExceptSeq
<1> HIDE DEF s
<1>6. /\ dts' \in Seq(Nat) /\ Len(dts') = Len(dts) + 1
      /\ \A j \in 1 .. Len(dts) + 1 :
           dts'[j] = IF j < i + 1 THEN s[j] ELSE IF j = i + 1 THEN rest ELSE s[j - 1]
  <2>1. i + 1 \in 1 .. Len(s) + 1
    BY <1>1, <1>5
  <2> DEFINE k == i + 1
  <2> HIDE DEF k
  <2>2. /\ InsertAt(s, k, rest) \in Seq(Nat)
        /\ Len(InsertAt(s, k, rest)) = Len(s) + 1
        /\ \A j \in 1 .. Len(s) + 1 :
             InsertAt(s, k, rest)[j] = IF j < k THEN s[j] ELSE IF j = k THEN rest ELSE s[j - 1]
    <3>1. k \in 1 .. Len(s) + 1
      BY <2>1 DEF k
    <3>2. \A S : s \in Seq(S) /\ rest \in S =>
            InsertAt(s, k, rest) \in Seq(S) /\ Len(InsertAt(s, k, rest)) = Len(s) + 1
      BY <3>1, InsertAtProperties
    <3>3. \A S : s \in Seq(S) /\ rest \in S =>
            \A j \in 1 .. Len(s) + 1 :
              InsertAt(s, k, rest)[j] = IF j < k THEN s[j] ELSE IF j = k THEN rest ELSE s[j - 1]
      BY <3>1, InsertAtProperties
    <3>4. QED
      BY <1>3, <1>5, <3>2, <3>3
  <2>3. QED
    BY <1>3, <1>4, <1>5, <2>2 DEF k
<1>7. ASSUME NEW j \in 1 .. i - 1 PROVE dts'[j] = dts[j]
  <2>1. j \in 1 .. Len(dts) + 1 /\ j < i + 1 /\ j \in 1 .. Len(dts) /\ j # i
    BY <1>1
  <2>2. dts'[j] = s[j] /\ s[j] = dts[j]
    BY <1>5, <1>6, <2>1
  <2>3. QED
    BY <2>2
<1>8. dts'[i] = half /\ dts'[i + 1] = rest
  <2>1. /\ i \in 1 .. Len(dts) + 1 /\ i < i + 1 /\ i \in 1 .. Len(dts)
        /\ i + 1 \in 1 .. Len(dts) + 1 /\ ~(i + 1 < i + 1)
    BY <1>1
  <2>2. dts'[i] = s[i]
    BY <1>6, <2>1
  <2>3. s[i] = half
    BY <1>5, <2>1
  <2>4. dts'[i + 1] = rest
    BY <1>6, <2>1
  <2>5. QED
    BY <2>2, <2>3, <2>4
<1>9. ASSUME NEW j \in i + 1 .. Len(dts) PROVE dts'[j + 1] = dts[j]
  <2>1. /\ j + 1 \in 1 .. Len(dts) + 1 /\ ~(j + 1 < i + 1) /\ j + 1 # i + 1 /\ (j + 1) - 1 = j
        /\ j \in 1 .. Len(dts) /\ j # i
    BY <1>1
  <2>2. dts'[j + 1] = s[j]
    BY <1>6, <2>1
  <2>3. QED
    BY <1>5, <2>1, <2>2
<1>10. dts'[i] + dts'[i + 1] = dts[i]
  BY <1>3, <1>8
<1>11. QED
  BY <1>1, <1>6, <1>7, <1>9, <1>10, SumOfSplit

(* Joining the time differences k and k + 1, of which one is changed and   *)
(* the other one removed.                                                  *)
LEMMA JoinKeepsTime ==
  ASSUME NEW d \in Seq(Nat), NEW k \in 1 .. Len(d) - 1, NEW m \in {k, k + 1}, NEW r \in {k, k + 1},
         m # r
  PROVE  FoldSeq(+, 0, RemoveAt([d EXCEPT ![m] = d[m] + d[r]], r)) = FoldSeq(+, 0, d)
<1> DEFINE v == d[m] + d[r]
           s == [d EXCEPT ![m] = v]
           e == RemoveAt(s, r)
<1>1. /\ Len(d) \in Nat /\ k \in Nat /\ k >= 1 /\ k + 1 \in 1 .. Len(d) /\ k \in 1 .. Len(d)
      /\ m \in 1 .. Len(d) /\ r \in 1 .. Len(d)
  BY LenProperties
<1>2. d[k] \in Nat /\ d[k + 1] \in Nat /\ d[m] \in Nat /\ d[r] \in Nat
  BY <1>1, ElementOfSeq
<1>3. v \in Nat /\ v = d[k] + d[k + 1]
  BY <1>2
<1> HIDE DEF v
<1>4. /\ s \in Seq(Nat) /\ Len(s) = Len(d)
      /\ \A j \in 1 .. Len(d) : s[j] = IF j = m THEN v ELSE d[j]
  BY <1>1, <1>3, ExceptSeq
<1> HIDE DEF s
<1>5. /\ e \in Seq(Nat) /\ Len(e) = Len(d) - 1
      /\ \A j \in 1 .. Len(d) - 1 : e[j] = IF j < r THEN s[j] ELSE s[j + 1]
  <2>1. r \in 1 .. Len(s)
    BY <1>1, <1>4
  <2>2. /\ e \in Seq(Nat) /\ Len(e) = Len(s) - 1
        /\ \A j \in 1 .. Len(s) - 1 : e[j] = IF j < r THEN s[j] ELSE s[j + 1]
    BY <1>4, <2>1, RemoveAtProperties
  <2>3. QED
    BY <1>4, <2>2
<1> HIDE DEF e
<1>r. (r = k /\ m = k + 1) \/ (r = k + 1 /\ m = k)
  OBVIOUS
<1>6. ASSUME NEW j \in 1 .. k - 1 PROVE d[j] = e[j]
  <2>1. j \in 1 .. Len(d) - 1 /\ j < r /\ j \in 1 .. Len(d) /\ j # m
    BY <1>1, <1>r
  <2>2. e[j] = s[j] /\ s[j] = d[j]
    BY <1>4, <1>5, <2>1
  <2>3. QED
    BY <2>2
<1>7. e[k] = v
  <2>1. k \in 1 .. Len(d) - 1
    OBVIOUS
  <2>2. CASE r = k
    <3>1. ~(k < r) /\ m = k + 1
      BY <1>1, <1>r, <2>2
    <3>2. e[k] = s[k + 1]
      BY <1>5, <2>1, <3>1
    <3>3. s[k + 1] = v
      BY <1>1, <1>4, <3>1
    <3>4. QED
      BY <3>2, <3>3
  <2>3. CASE r = k + 1
    <3>1. k < r /\ m = k
      BY <1>1, <1>r, <2>3
    <3>2. e[k] = s[k]
      BY <1>5, <2>1, <3>1
    <3>3. s[k] = v
      BY <1>1, <1>4, <3>1
    <3>4. QED
      BY <3>2, <3>3
  <2>4. QED
    BY <1>r, <2>2, <2>3
<1>8. ASSUME NEW j \in k + 1 .. Len(e) PROVE d[j + 1] = e[j]
  <2>1. j \in Nat /\ j >= k + 1 /\ j <= Len(d) - 1
    BY <1>1, <1>5, SMTT(30)
  <2>2. r <= k + 1 /\ m <= k + 1 /\ r \in Nat /\ m \in Nat
    BY <1>1, <1>r, SMTT(30)
  <2>3. j \in 1 .. Len(d) - 1 /\ ~(j < r) /\ j + 1 \in 1 .. Len(d) /\ j + 1 # m
    BY <1>1, <2>1, <2>2, SMTT(30)
  <2>4. e[j] = s[j + 1] /\ s[j + 1] = d[j + 1]
    BY <1>4, <1>5, <2>3
  <2>5. QED
    BY <2>4
<1>9. d[k] + d[k + 1] = e[k] /\ Len(d) = Len(e) + 1 /\ k \in 1 .. Len(e)
  BY <1>1, <1>3, <1>5, <1>7
<1>10. FoldSeq(+, 0, d) = FoldSeq(+, 0, e)
  BY <1>5, <1>6, <1>8, <1>9, SumOfSplit
<1>11. QED
  BY <1>10 DEF e, s, v

(* A pass of autoResize() splits and joins time differences, and changes   *)
(* none it does not have to: how long the trajectory takes is the same.    *)
THEOREM TimeKeptHolds == Spec => TimeKept
<1>1. ASSUME Inv, [Next]_vars
      PROVE  [pc = "resize" => FoldSeq(+, 0, dts') = FoldSeq(+, 0, dts)]_vars
  <2>1. SUFFICES ASSUME pc = "resize" PROVE FoldSeq(+, 0, dts') = FoldSeq(+, 0, dts)
    OBVIOUS
  <2>2. /\ TypeOK /\ dts \in Seq(Nat) /\ Len(dts) \in Nat /\ i \in Nat \ {0}
        /\ MinSamples \in Nat /\ MinSamples >= 3
    BY <1>1, InvTypes DEF Inv
  <2>3. CASE Split
    BY <2>2, <2>3, SplitKeepsTime
  <2>4. CASE Merge
    <3>1. i \in 1 .. Len(dts) - 1 /\ i + 1 # i
      BY <2>2, <2>4 DEF Merge
    <3>2. dts' = RemoveAt([dts EXCEPT ![i + 1] = dts[i + 1] + dts[i]], i)
      BY <2>4 DEF Merge
    <3>3. QED
      BY <2>2, <3>1, <3>2, JoinKeepsTime
  <2>5. CASE MergeLast
    <3> DEFINE k == i - 1
    <3>1. k \in 1 .. Len(dts) - 1 /\ i = k + 1 /\ k # i
      BY <2>2, <2>5 DEF MergeLast, TooShort
    <3>2. dts' = RemoveAt([dts EXCEPT ![k] = dts[k] + dts[i]], i)
      BY <2>5 DEF MergeLast
    <3> HIDE DEF k
    <3>3. QED
      BY <2>2, <3>1, <3>2, JoinKeepsTime
  <2>6. CASE Keep \/ PassDone \/ UNCHANGED vars
    <3>1. UNCHANGED dts
      BY <2>6 DEF Keep, PassDone, vars, band
    <3>2. QED
      BY <3>1
  <2>7. Split \/ Merge \/ MergeLast \/ Keep \/ PassDone \/ UNCHANGED vars
    BY <1>1, <2>1 DEF Next, Running, Calls, BeginIteration, LastIterationDone,
       BuildGraph, Solve, SolveFails, EndIteration, PlanAnew, PlanHot, Drive, Clear
  <2>8. QED
    BY <2>3, <2>4, <2>5, <2>6, <2>7
<1>2. QED
  BY <1>1, InvHolds, PTL DEF Spec, TimeKept

=============================================================================
