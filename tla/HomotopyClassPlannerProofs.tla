--------------------- MODULE HomotopyClassPlannerProofs ---------------------
(***************************************************************************)
(* Theorems about HomotopyClassPlanner for every set of bands, classes and *)
(* costs, every isEqual() relation, and every bound: types; how tebs_ and  *)
(* equivalence_classes_ stay together through the loops that erase and     *)
(* append, and what that means for whoever follows the plans; and what a   *)
(* call hands to the next one: the accepted band, the class of the initial *)
(* plan, and the classes of the bands.                                     *)
(***************************************************************************)
EXTENDS HomotopyClassPlanner, ListLemmas, FiniteSetTheorems

-----------------------------------------------------------------------------
(* Type correctness.                                                       *)

(* Writing members of a band's data. *)
LEMMA BandUpdate ==
  ASSUME TypeOK, NEW t \in Tebs
  PROVE  /\ \A c \in Classes \cup {None} :
              [band EXCEPT ![t].cls = c] \in [Tebs -> BandData]
         /\ \A o \in BOOLEAN : [band EXCEPT ![t].optimized = o] \in [Tebs -> BandData]
         /\ \A c \in Costs :
              [band EXCEPT ![t].cost = c, ![t].optimized = TRUE] \in [Tebs -> BandData]
<1>1. band \in [Tebs -> BandData] /\ band[t] \in BandData
  BY DEF TypeOK
<1>2. \A c \in Classes \cup {None} : [band[t] EXCEPT !.cls = c] \in BandData
  BY <1>1 DEF BandData
<1>3. \A o \in BOOLEAN : [band[t] EXCEPT !.optimized = o] \in BandData
  BY <1>1 DEF BandData
<1>4. \A c \in Costs : [band[t] EXCEPT !.cost = c, !.optimized = TRUE] \in BandData
  BY <1>1 DEF BandData
<1>5. QED
  BY <1>1, <1>2, <1>3, <1>4

LEMMA ListedType == ASSUME TypeOK PROVE Listed \subseteq Tebs
  BY DEF TypeOK, Listed, ToSet

LEMMA InitialMatchType ==
  ASSUME TypeOK
  PROVE  /\ MatchedBand \in Tebs \cup {None}
         /\ Relocked \in Seq(Entry)
         /\ Len(Relocked) = Len(eqs)
         /\ \A i \in 1 .. Len(eqs) : Relocked[i].cls = eqs[i].cls
<1>1. eqs \in Seq(Entry) /\ tebs \in Seq(Tebs)
  BY DEF TypeOK
<1>2. InitialMatches \subseteq 1 .. Len(eqs) /\ (InitialMatches # {} => SizesMatch)
  BY <1>1 DEF InitialMatches
<1>3. MatchedBand \in Tebs \cup {None}
  <2>1. CASE InitialMatches = {}
    BY <2>1 DEF MatchedBand
  <2>2. CASE InitialMatches # {}
    <3>1. InitialMatches \subseteq Nat /\ Len(eqs) = Len(tebs)
      BY <1>1, <1>2, <2>2 DEF SizesMatch
    <3>2. Min(InitialMatches) \in InitialMatches
      BY <2>2, <3>1, MinIsMember
    <3>3. Min(InitialMatches) \in 1 .. Len(tebs)
      BY <1>2, <3>1, <3>2
    <3>4. QED
      BY <1>1, <2>2, <3>3, ElementOfSeq DEF MatchedBand
  <2>3. QED
    BY <2>1, <2>2
<1>4. /\ Relocked \in [1 .. Len(eqs) -> Entry]
      /\ \A i \in 1 .. Len(eqs) : Relocked[i].cls = eqs[i].cls
  <2> DEFINE locked(i) == InitialMatches # {} /\ i = Min(InitialMatches)
  <2>1. Relocked = [i \in 1 .. Len(eqs) |-> [cls |-> eqs[i].cls, lock |-> locked(i)]]
    BY <1>1 DEF Relocked
  <2>2. \A i \in 1 .. Len(eqs) : locked(i) \in BOOLEAN
    OBVIOUS
  <2> HIDE DEF locked
  <2>3. \A i \in 1 .. Len(eqs) : eqs[i] \in Entry
    BY <1>1, ElementOfSeq
  <2>4. QED
    BY <2>1, <2>2, <2>3 DEF Entry
<1>5. Relocked \in Seq(Entry) /\ Len(Relocked) = Len(eqs)
  BY <1>1, <1>4, SeqDef, LenProperties
<1>6. QED
  BY <1>3, <1>4, <1>5

(* What selectBestTeb() leaves, called from plan() or findBestTeb(). *)
LEMMA SelectType ==
  ASSUME TypeOK, SelectBestTeb
  PROVE  /\ {best', lastBest', initTeb'} \subseteq Tebs \cup {None}
         /\ eqs' \in Seq(Entry) /\ Len(eqs') = Len(eqs)
         /\ \A i \in 1 .. Len(eqs) : eqs'[i].cls = eqs[i].cls
         /\ since' \in 0 .. BlockPeriod + 1
         /\ best' \in Listed \cup {None}
<1>1. eqs \in Seq(Entry)
  BY DEF TypeOK
<1>2. eqs' = eqs \/ eqs' = Relocked
  BY DEF SelectBestTeb
<1>3. /\ eqs' \in Seq(Entry) /\ Len(eqs') = Len(eqs)
      /\ \A i \in 1 .. Len(eqs) : eqs'[i].cls = eqs[i].cls
  BY <1>1, <1>2, InitialMatchType
<1>4. best' \in Listed \cup {None} /\ lastBest' \in Listed \cup {None}
  BY DEF SelectBestTeb
<1>5. initTeb' \in Listed \cup {None}
  BY DEF SelectBestTeb
<1>6. since' \in 0 .. BlockPeriod + 1
  BY ConstantsOK DEF SelectBestTeb, TypeOK
<1>7. QED
  BY <1>3, <1>4, <1>5, <1>6, ListedType

LEMMA AddBandType ==
  ASSUME TypeOK, NEW c \in Classes, NEW lock \in BOOLEAN,
         AddBand(c, lock)
  PROVE  /\ NewTeb \in Fresh
         /\ tebs' \in Seq(Tebs) /\ eqs' \in Seq(Entry)
         /\ tebs' = Append(tebs, NewTeb)
         /\ eqs' = Append(eqs, [cls |-> c, lock |-> lock])
         /\ Len(tebs') = Len(tebs) + 1 /\ Len(eqs') = Len(eqs) + 1
         /\ band' \in [Tebs -> BandData]
<1>1. NewTeb \in Fresh /\ NewTeb \in Tebs
  BY DEF AddBand, NewTeb, Fresh
<1>2. tebs \in Seq(Tebs) /\ eqs \in Seq(Entry)
  BY DEF TypeOK
<1>3. tebs' = Append(tebs, NewTeb) /\ eqs' = Append(eqs, [cls |-> c, lock |-> lock])
  BY DEF AddBand, Push
<1>4. [cls |-> c, lock |-> lock] \in Entry
  BY DEF Entry
<1>5. band' \in [Tebs -> BandData]
  BY <1>1 DEF AddBand, NewBand, TypeOK, BandData
<1>6. QED
  BY <1>1, <1>2, <1>3, <1>4, <1>5, AppendProperties

LEMMA RemoveTebType ==
  ASSUME TypeOK, NEW b, RemoveTeb(b)
  PROVE  /\ tebs' \in Seq(Tebs) /\ eqs' \in Seq(Entry)
         /\ \/ UNCHANGED lists /\ ~(SizesMatch /\ b \in Listed)
            \/ \E k \in 1 .. Len(tebs) :
                 /\ SizesMatch /\ k \in 1 .. Len(eqs) /\ tebs[k] = b
                 /\ tebs' = RemoveAt(tebs, k) /\ eqs' = RemoveAt(eqs, k)
<1>1. tebs \in Seq(Tebs) /\ eqs \in Seq(Entry)
  BY DEF TypeOK
<1>2. CASE SizesMatch /\ b \in Listed
  <2>1. PICK k \in 1 .. Len(tebs) :
          tebs[k] = b /\ tebs' = RemoveAt(tebs, k) /\ eqs' = RemoveAt(eqs, k)
    BY <1>1, <1>2 DEF RemoveTeb
  <2>2. k \in 1 .. Len(eqs)
    BY <1>2 DEF SizesMatch
  <2>3. tebs' \in Seq(Tebs) /\ eqs' \in Seq(Entry)
    BY <1>1, <2>1, <2>2, RemoveAtProperties
  <2>4. QED
    BY <1>2, <2>1, <2>2, <2>3
<1>3. CASE ~(SizesMatch /\ b \in Listed)
  BY <1>1, <1>3 DEF RemoveTeb, lists
<1>4. QED
  BY <1>2, <1>3

LEMMA TypeInit == Init => TypeOK
<1> SUFFICES ASSUME Init PROVE TypeOK
  OBVIOUS
<1>1. NewBand \in BandData
  BY DEF NewBand, BandData
<1>2. <<>> \in Seq(Tebs) /\ <<>> \in Seq(Entry)
  BY EmptySeq
<1>3. BlockPeriod + 1 \in 0 .. BlockPeriod + 1
  BY ConstantsOK
<1>4. tebs \in Seq(Tebs) /\ eqs \in Seq(Entry)
  BY <1>2 DEF Init
<1>5. band \in [Tebs -> BandData]
  BY <1>1 DEF Init
<1>6. /\ {best, lastBest, initTeb} \subseteq Tebs \cup {None}
      /\ {bestEq, initEq} \subseteq Classes \cup {None}
      /\ given \in [cls : Classes \cup {None}, room : BOOLEAN]
  BY DEF Init, NotGiven
<1>7. hasPlan \in BOOLEAN
  BY DEF Init
<1>8. /\ plansPerClass \in PlansPerClass /\ since \in 0 .. BlockPeriod + 1
      /\ pc = "idle" /\ it \in Nat \ {0} /\ todo \subseteq Tebs
  BY <1>3 DEF Init
<1>9. QED
  BY <1>4, <1>5, <1>6, <1>7, <1>8 DEF TypeOK, Quiet

LEMMA TypeStep == TypeOK /\ [Next]_vars => TypeOK'
<1> SUFFICES ASSUME TypeOK, [Next]_vars
             PROVE  TypeOK'
  OBVIOUS
<1> USE DEF lists, picks, eqRefs, Goto
<1>0. /\ tebs \in Seq(Tebs) /\ eqs \in Seq(Entry) /\ Len(tebs) \in Nat
      /\ it \in Nat \ {0} /\ Listed \subseteq Tebs
  BY ListedType, LenProperties DEF TypeOK
<1>1. ASSUME NEW c \in Classes, RenewBest(c) PROVE TypeOK'
  <2>1. CASE best \in Listed
    <3>1. PICK k \in 1 .. Len(tebs) :
            tebs[k] = best /\ tebs' = [tebs EXCEPT ![1] = tebs[k], ![k] = tebs[1]]
      BY <1>0, <1>1, <2>1 DEF RenewBest
    <3>2. tebs' \in Seq(Tebs)
      BY <1>0, <3>1, SwapProperties
    <3>3. eqs' \in Seq(Entry)
      <4>1. [cls |-> c, lock |-> FALSE] \in Entry
        BY DEF Entry
      <4>2. <<[cls |-> c, lock |-> FALSE]>> \in Seq(Entry) /\ <<>> \in Seq(Entry)
        BY <4>1
      <4>3. QED
        BY <1>1, <2>1, <4>2 DEF RenewBest
    <3>4. band' \in [Tebs -> BandData]
      <4>1. best \in Tebs /\ band' = [band EXCEPT ![best].cls = c]
        BY <1>0, <1>1, <2>1 DEF RenewBest
      <4>2. QED
        BY <4>1, BandUpdate
    <3>5. it' \in Nat \ {0} /\ pc' = "analyze" /\ bestEq' \in Classes \cup {None}
      BY <1>1, <2>1 DEF RenewBest
    <3>6. QED
      BY <1>1, <3>2, <3>3, <3>4, <3>5 DEF RenewBest, TypeOK
  <2>2. CASE best \notin Listed
    BY <1>1, <2>2, EmptySeq DEF RenewBest, TypeOK
  <2>3. QED
    BY <2>1, <2>2
<1>2. ASSUME NEW c \in Classes, AnalyzeTeb(c) PROVE TypeOK'
  <2>1. it \in 1 .. Len(tebs) /\ tebs[it] \in Tebs
    BY <1>0, <1>2 DEF AnalyzeTeb
  <2>2. band' \in [Tebs -> BandData]
    BY <1>2, <2>1, BandUpdate DEF AnalyzeTeb
  <2>3. CASE IsNew(c)
    <3>1. [cls |-> c, lock |-> FALSE] \in Entry
      BY DEF Entry
    <3>2. eqs' \in Seq(Entry)
      <4>1. eqs' = Append(eqs, [cls |-> c, lock |-> FALSE])
        BY <1>2, <2>3 DEF AnalyzeTeb, Push
      <4>2. QED
        BY <1>0, <3>1, <4>1, AppendProperties
    <3>3. it' \in Nat \ {0} /\ tebs' = tebs
      BY <1>0, <1>2, <2>3 DEF AnalyzeTeb
    <3>4. QED
      BY <1>2, <2>2, <3>2, <3>3 DEF AnalyzeTeb, TypeOK
  <2>4. CASE ~IsNew(c)
    <3>1. tebs' \in Seq(Tebs)
      BY <1>0, <1>2, <2>1, <2>4, RemoveAtProperties DEF AnalyzeTeb
    <3>2. it' = it /\ eqs' = eqs
      BY <1>2, <2>4 DEF AnalyzeTeb
    <3>3. QED
      BY <1>2, <2>2, <3>1, <3>2 DEF AnalyzeTeb, TypeOK
  <2>5. QED
    BY <2>3, <2>4
<1>3. ASSUME NEW c \in Classes, AddInitialPlan(c) PROVE TypeOK'
  <2> DEFINE listed == ~(Len(tebs) >= MaxClasses) /\ IsNew(c)
  <2>0. /\ initEq' \in Classes \cup {None}
        /\ given' \in [cls : Classes \cup {None}, room : BOOLEAN]
    <3>1. initEq' \in Classes \cup {None}
      BY <1>3 DEF AddInitialPlan, TypeOK
    <3>2. given' = [cls |-> c, room |-> Len(tebs) < MaxClasses]
      BY <1>3 DEF AddInitialPlan
    <3>3. (Len(tebs) < MaxClasses) \in BOOLEAN
      BY <1>0, ConstantsOK
    <3>4. QED
      BY <3>1, <3>2, <3>3
  <2>1. CASE ~listed
    <3>1. /\ UNCHANGED lists /\ UNCHANGED band /\ initTeb' = None
      BY <1>3, <2>1 DEF AddInitialPlan
    <3>2. QED
      BY <1>3, <2>0, <3>1 DEF AddInitialPlan, TypeOK
  <2>2. CASE listed
    <3>1. AddBand(c, TRUE) /\ initTeb' = NewTeb
      BY <1>3, <2>2 DEF AddInitialPlan, TypeOK
    <3>2. initTeb' \in Tebs /\ tebs' \in Seq(Tebs) /\ eqs' \in Seq(Entry)
          /\ band' \in [Tebs -> BandData]
      BY <3>1, AddBandType DEF Fresh
    <3>3. QED
      BY <1>3, <2>0, <3>2 DEF AddInitialPlan, TypeOK
  <2>3. QED
    BY <2>1, <2>2
<1>4. ASSUME NEW c \in Classes, AddGraphPath(c) PROVE TypeOK'
  BY <1>4, AddBandType DEF AddGraphPath, TypeOK
<1>5. ASSUME NEW c \in Classes, AddStraightLine(c) PROVE TypeOK'
  <2>1. AddBand(c, FALSE)
    BY <1>5 DEF AddStraightLine, TypeOK
  <2>2. tebs' \in Seq(Tebs) /\ eqs' \in Seq(Entry) /\ band' \in [Tebs -> BandData]
    BY <2>1, AddBandType
  <2>3. QED
    BY <1>5, <2>2 DEF AddStraightLine, TypeOK
<1>6. CASE AnalyzeDone
  BY <1>6 DEF AnalyzeDone, TypeOK
<1>7. CASE KeepPlan
  BY <1>7 DEF KeepPlan, TypeOK
<1>8. CASE DeleteDetour
  <2>1. tebs' \in Seq(Tebs) /\ eqs' \in Seq(Entry)
    BY <1>8, RemoveTebType DEF DeleteDetour
  <2>2. it' \in Nat \ {0}
    BY <1>0, <1>8 DEF DeleteDetour
  <2>3. QED
    BY <1>8, <2>1, <2>2 DEF DeleteDetour, TypeOK
<1>9. CASE DetoursDone
  BY <1>9 DEF DetoursDone, TypeOK
<1>10. CASE DropTeb
  <2>1. it \in 1 .. Len(tebs) /\ it \in 1 .. Len(eqs)
    BY <1>0, <1>10 DEF DropTeb
  <2>2. tebs' \in Seq(Tebs) /\ eqs' \in Seq(Entry)
    BY <1>0, <1>10, <2>1, RemoveAtProperties DEF DropTeb
  <2>3. it' \in Nat \ {0}
    BY <1>0, <1>10 DEF DropTeb
  <2>4. QED
    BY <1>10, <2>2, <2>3 DEF DropTeb, TypeOK
<1>11. CASE DropDone
  BY <1>11 DEF DropDone, TypeOK
<1>12. CASE FindInitialBand
  BY <1>12, InitialMatchType DEF FindInitialBand, TypeOK
<1>13. CASE GraphDone
  BY <1>13 DEF GraphDone, TypeOK
<1>14. CASE SkipViaPoints
  BY <1>0, <1>14 DEF SkipViaPoints, TypeOK, NotGiven
<1>15. CASE SetViaPoints
  <2> DEFINE via(t) == ViaAll \/ \E i \in DOMAIN tebs :
                                tebs[i] = t /\ IsEqual(initEq, eqs[i].cls)
  <2>1. \A t \in Tebs : via(t) \in BOOLEAN
    BY ConstantsOK
  <2>2. band' = [t \in Tebs |-> IF t \notin Listed THEN band[t]
                               ELSE [band[t] EXCEPT !.via = via(t)]]
    BY <1>15 DEF SetViaPoints
  <2> HIDE DEF via
  <2>3. band' \in [Tebs -> BandData]
    BY <2>1, <2>2 DEF TypeOK, BandData
  <2>4. QED
    BY <1>0, <1>15, <2>3 DEF SetViaPoints, TypeOK, NotGiven
<1>16. ASSUME NEW t \in Tebs, OptimizeTeb(t) PROVE TypeOK'
  <2>1. band' \in [Tebs -> BandData]
    <3>1. CASE \E c \in Costs : band' = [band EXCEPT ![t].cost = c, ![t].optimized = TRUE]
      BY <3>1, BandUpdate
    <3>2. CASE \E o \in BOOLEAN : band' = [band EXCEPT ![t].optimized = o]
      BY <3>2, BandUpdate
    <3>3. QED
      BY <1>16, <3>1, <3>2 DEF OptimizeTeb, TypeOK
  <2>2. QED
    BY <1>16, <2>1 DEF OptimizeTeb, TypeOK
<1>17. CASE OptimizeDone
  BY <1>17 DEF OptimizeDone, TypeOK
<1>18. CASE Select
  <2>1. SelectBestTeb
    BY <1>18 DEF Select
  <2>2. /\ {best', lastBest', initTeb'} \subseteq Tebs \cup {None}
        /\ eqs' \in Seq(Entry) /\ since' \in 0 .. BlockPeriod + 1
    BY <2>1, SelectType
  <2>3. hasPlan' \in BOOLEAN
    BY <1>18 DEF Select, TypeOK
  <2>4. QED
    BY <1>18, <2>2, <2>3 DEF Select, TypeOK, Quiet
<1>19. CASE FindBestTeb
  <2>1. CASE tebs = <<>> \/ best \in Listed
    BY <1>19, <2>1 DEF FindBestTeb, TypeOK, Quiet
  <2>2. CASE ~(tebs = <<>> \/ best \in Listed)
    BY <1>19, <2>2, SelectType DEF FindBestTeb, TypeOK, Quiet
  <2>3. QED
    BY <2>1, <2>2
<1>20. CASE JudgeFeasible
  BY <1>20 DEF JudgeFeasible, TypeOK, Quiet
<1>21. CASE JudgeInfeasible
  <2>1. tebs' \in Seq(Tebs) /\ eqs' \in Seq(Entry)
    BY <1>21, RemoveTebType DEF JudgeInfeasible
  <2>2. QED
    BY <1>21, <2>1 DEF JudgeInfeasible, TypeOK, Quiet
<1>22. ASSUME NEW p \in PlanModes, NEW r \in BOOLEAN,
              Plan(p, r /\ tebs # <<>>)
       PROVE  TypeOK'
  <2>1. p \in BOOLEAN
    BY ConstantsOK
  <2>2. tebs' \in Seq(Tebs) /\ eqs' \in Seq(Entry)
    BY <1>0, <1>22, EmptySeq DEF Plan
  <2>3. since' \in 0 .. BlockPeriod + 1
    BY <1>22, ConstantsOK DEF Plan, TypeOK
  <2>4. band' \in [Tebs -> BandData]
    <3>1. NewBand \in BandData
      BY DEF NewBand, BandData
    <3>2. \A t \in Tebs : [band[t] EXCEPT !.cls = None] \in BandData
      BY DEF TypeOK, BandData
    <3>3. QED
      BY <1>22, <3>1, <3>2 DEF Plan
  <2>5. hasPlan' \in BOOLEAN
    BY <1>22, <2>1 DEF Plan
  <2>6. /\ {best', lastBest', initTeb'} \subseteq Tebs \cup {None}
        /\ {bestEq', initEq'} \subseteq Classes \cup {None}
        /\ given' \in [cls : Classes \cup {None}, room : BOOLEAN]
    BY <1>22 DEF Plan, TypeOK
  <2>7. /\ pc' = "renew" /\ it' \in Nat \ {0}
        /\ plansPerClass' \in PlansPerClass /\ todo' \subseteq Tebs
    BY <1>22 DEF Plan, TypeOK
  <2>8. QED
    BY <2>2, <2>3, <2>4, <2>5, <2>6, <2>7 DEF TypeOK
<1>23. CASE CheckFeasible
  BY <1>23 DEF CheckFeasible, TypeOK
<1>24. CASE GetVelocityCommand
  BY <1>24 DEF GetVelocityCommand, TypeOK, Quiet
<1>25. CASE ClearPlanner
  <2>1. tebs' \in Seq(Tebs) /\ eqs' \in Seq(Entry)
    BY <1>25, EmptySeq DEF ClearPlanner
  <2>2. hasPlan' \in BOOLEAN
    BY <1>25 DEF ClearPlanner, TypeOK
  <2>3. QED
    BY <1>25, <2>1, <2>2 DEF ClearPlanner, TypeOK, Quiet
<1>26. CASE UNCHANGED vars
  BY <1>26 DEF vars, TypeOK
<1>27. QED
  BY <1>1, <1>2, <1>3, <1>4, <1>5, <1>6, <1>7, <1>8, <1>9, <1>10, <1>11, <1>12,
     <1>13, <1>14, <1>15, <1>16, <1>17, <1>18, <1>19, <1>20, <1>21, <1>22, <1>23,
     <1>24, <1>25, <1>26 DEF Next, Running, Calls

(* Every variable keeps its type: in particular no pointer and no index of *)
(* the planner ever leaves the objects and the lists it may refer to.      *)
THEOREM TypeCorrect == Spec => []TypeOK
  BY TypeInit, TypeStep, PTL DEF Spec

-----------------------------------------------------------------------------
(* The sizes of the two lists.                                             *)

(* In the loop of renewAndAnalyzeOldTebs() the iterator counts the entries *)
(* pushed so far, one less when the best band's class was not pushed.      *)
Sizes ==
  IF pc = "analyze"
    THEN it <= Len(tebs) + 1 /\ (Len(eqs) = it - 1 \/ Len(eqs) = it - 2)
    ELSE Len(eqs) <= Len(tebs) /\ Len(tebs) <= Len(eqs) + 1

SizeInv == TypeOK /\ Sizes /\ BandsBounded

LEMMA SizeTypes ==
  ASSUME TypeOK
  PROVE  /\ tebs \in Seq(Tebs) /\ eqs \in Seq(Entry)
         /\ Len(tebs) \in Nat /\ Len(eqs) \in Nat /\ it \in Nat \ {0}
         /\ MaxClasses \in Nat \ {0}
  BY ConstantsOK, LenProperties DEF TypeOK

LEMMA SizeStep == SizeInv /\ [Next]_vars => Sizes' /\ BandsBounded'
<1> SUFFICES ASSUME SizeInv, [Next]_vars
             PROVE  Sizes' /\ BandsBounded'
  OBVIOUS
<1> USE DEF lists, Goto, Sizes, BandsBounded
<1>0. TypeOK /\ Sizes /\ BandsBounded
  BY DEF SizeInv
<1>t. /\ tebs \in Seq(Tebs) /\ eqs \in Seq(Entry)
      /\ Len(tebs) \in Nat /\ Len(eqs) \in Nat /\ it \in Nat \ {0}
      /\ MaxClasses \in Nat \ {0}
  BY <1>0, SizeTypes
<1>1. ASSUME NEW c \in Classes, RenewBest(c) PROVE Sizes' /\ BandsBounded'
  <2>1. CASE best \in Listed
    <3>1. PICK k \in 1 .. Len(tebs) :
            tebs' = [tebs EXCEPT ![1] = tebs[k], ![k] = tebs[1]]
      BY <1>t, <1>1, <2>1 DEF RenewBest
    <3>2. Len(tebs') = Len(tebs) /\ Len(tebs) >= 1
      BY <1>t, <3>1, SwapProperties
    <3>3. Len(eqs') = 0 \/ Len(eqs') = 1
      BY <1>1, <2>1 DEF RenewBest
    <3>4. pc' = "analyze" /\ it' = 2
      BY <1>1, <2>1 DEF RenewBest
    <3>5. QED
      BY <1>0, <1>t, <3>2, <3>3, <3>4
  <2>2. CASE best \notin Listed
    <3>1. pc' = "analyze" /\ it' = 1 /\ Len(eqs') = 0 /\ tebs' = tebs
      BY <1>1, <2>2 DEF RenewBest
    <3>2. QED
      BY <1>0, <1>t, <3>1
  <2>3. QED
    BY <2>1, <2>2
<1>2. ASSUME NEW c \in Classes, AnalyzeTeb(c) PROVE Sizes' /\ BandsBounded'
  <2>1. pc = "analyze" /\ pc' = "analyze" /\ it \in 1 .. Len(tebs)
    BY <1>t, <1>2 DEF AnalyzeTeb
  <2>2. CASE IsNew(c)
    <3>1. Len(eqs') = Len(eqs) + 1 /\ it' = it + 1 /\ tebs' = tebs
      BY <1>t, <1>2, <2>2, AppendProperties DEF AnalyzeTeb, Push
    <3>2. QED
      BY <1>0, <1>t, <2>1, <3>1
  <2>3. CASE ~IsNew(c)
    <3>1. Len(tebs') = Len(tebs) - 1 /\ it' = it /\ eqs' = eqs
      BY <1>t, <1>2, <2>1, <2>3, RemoveAtProperties DEF AnalyzeTeb
    <3>2. QED
      BY <1>0, <1>t, <2>1, <3>1
  <2>4. QED
    BY <2>2, <2>3
<1>3. ASSUME NEW c \in Classes, AddInitialPlan(c) PROVE Sizes' /\ BandsBounded'
  <2>1. CASE ~(Len(tebs) >= MaxClasses) /\ IsNew(c)
    <3>1. AddBand(c, TRUE)
      BY <1>0, <1>3, <2>1 DEF AddInitialPlan, TypeOK
    <3>2. Len(tebs') = Len(tebs) + 1 /\ Len(eqs') = Len(eqs) + 1
      BY <1>0, <3>1, AddBandType
    <3>3. pc = "initial" /\ pc' = "graph"
      BY <1>3 DEF AddInitialPlan
    <3>4. QED
      BY <1>0, <1>t, <2>1, <3>2, <3>3
  <2>2. CASE ~(~(Len(tebs) >= MaxClasses) /\ IsNew(c))
    <3>1. tebs' = tebs /\ eqs' = eqs
      BY <1>3, <2>2 DEF AddInitialPlan
    <3>2. QED
      BY <1>0, <1>3, <3>1 DEF AddInitialPlan
  <2>3. QED
    BY <2>1, <2>2
<1>4. ASSUME NEW c \in Classes, AddGraphPath(c) PROVE Sizes' /\ BandsBounded'
  <2>1. Len(tebs') = Len(tebs) + 1 /\ Len(eqs') = Len(eqs) + 1
    BY <1>0, <1>4, AddBandType DEF AddGraphPath
  <2>2. pc = "graph" /\ pc' = "graph" /\ Len(tebs) < MaxClasses
    BY <1>4 DEF AddGraphPath
  <2>3. QED
    BY <1>0, <1>t, <2>1, <2>2
<1>5. ASSUME NEW c \in Classes, AddStraightLine(c) PROVE Sizes' /\ BandsBounded'
  <2>1. AddBand(c, FALSE)
    BY <1>0, <1>5 DEF AddStraightLine, TypeOK
  <2>2. Len(tebs') = Len(tebs) + 1 /\ Len(eqs') = Len(eqs) + 1
    BY <1>0, <2>1, AddBandType
  <2>3. pc = "graph" /\ pc' = "viapoints" /\ Len(tebs) = 0
    BY <1>5 DEF AddStraightLine
  <2>4. QED
    BY <1>0, <1>t, <2>2, <2>3
<1>6. CASE AnalyzeDone
  BY <1>0, <1>t, <1>6 DEF AnalyzeDone
<1>7. ASSUME NEW b, RemoveTeb(b), pc # "analyze", pc' # "analyze"
      PROVE  Sizes' /\ BandsBounded'
  <2>1. CASE UNCHANGED lists
    BY <1>0, <1>7, <2>1
  <2>2. CASE \E k \in 1 .. Len(tebs) :
               /\ k \in 1 .. Len(eqs)
               /\ tebs' = RemoveAt(tebs, k) /\ eqs' = RemoveAt(eqs, k)
    <3>1. Len(tebs') = Len(tebs) - 1 /\ Len(eqs') = Len(eqs) - 1
      BY <1>t, <2>2, RemoveAtProperties
    <3>2. QED
      BY <1>0, <1>t, <1>7, <3>1
  <2>3. QED
    BY <1>0, <1>7, <2>1, <2>2, RemoveTebType
<1>8. CASE DeleteDetour
  BY <1>7, <1>8 DEF DeleteDetour
<1>9. CASE JudgeInfeasible
  BY <1>7, <1>9 DEF JudgeInfeasible
<1>10. CASE DropTeb
  <2>1. it \in 1 .. Len(tebs) /\ it \in 1 .. Len(eqs) /\ pc = "drop" /\ pc' = "drop"
    BY <1>t, <1>10 DEF DropTeb
  <2>2. \/ Len(tebs') = Len(tebs) - 1 /\ Len(eqs') = Len(eqs) - 1
        \/ tebs' = tebs /\ eqs' = eqs
    BY <1>t, <1>10, <2>1, RemoveAtProperties DEF DropTeb
  <2>3. QED
    BY <1>0, <1>t, <2>1, <2>2
<1>11. CASE FindInitialBand
  <2>1. tebs' = tebs /\ Len(eqs') = Len(eqs) /\ pc = "initial" /\ pc' = "graph"
    BY <1>0, <1>11, InitialMatchType DEF FindInitialBand
  <2>2. QED
    BY <1>0, <2>1
<1>12. CASE Select
  <2>1. tebs' = tebs /\ Len(eqs') = Len(eqs) /\ pc = "select" /\ pc' = "planned"
    BY <1>0, <1>12, SelectType DEF Select
  <2>2. QED
    BY <1>0, <2>1
<1>13. CASE FindBestTeb
  <2>1. tebs' = tebs /\ Len(eqs') = Len(eqs) /\ pc = "find" /\ pc' # "analyze"
    BY <1>0, <1>13, SelectType DEF FindBestTeb
  <2>2. QED
    BY <1>0, <2>1
<1>14. ASSUME NEW p \in PlanModes, NEW r \in BOOLEAN,
              Plan(p, r /\ tebs # <<>>)
       PROVE  Sizes' /\ BandsBounded'
  <2>1. pc = "idle" /\ pc' = "renew"
    BY <1>14 DEF Plan
  <2>2. \/ Len(tebs') = 0 /\ Len(eqs') = 0
        \/ tebs' = tebs /\ eqs' = eqs
    BY <1>14 DEF Plan
  <2>3. QED
    BY <1>0, <1>t, <2>1, <2>2
<1>15. CASE ClearPlanner
  <2>1. pc' = "idle" /\ Len(tebs') = 0 /\ Len(eqs') = 0
    BY <1>15 DEF ClearPlanner
  <2>2. QED
    BY <1>t, <2>1
<1>16. CASE \/ KeepPlan \/ DetoursDone \/ DropDone \/ GraphDone \/ SkipViaPoints
            \/ SetViaPoints \/ OptimizeDone \/ JudgeFeasible
            \/ CheckFeasible \/ GetVelocityCommand
  <2>1. tebs' = tebs /\ eqs' = eqs /\ pc # "analyze" /\ pc' # "analyze"
    BY <1>16 DEF KeepPlan, DetoursDone, DropDone, GraphDone, SkipViaPoints,
      SetViaPoints, OptimizeDone, JudgeFeasible, CheckFeasible, GetVelocityCommand
  <2>2. QED
    BY <1>0, <2>1
<1>17. ASSUME NEW t \in Tebs, OptimizeTeb(t) PROVE Sizes' /\ BandsBounded'
  BY <1>0, <1>17 DEF OptimizeTeb
<1>18. CASE UNCHANGED vars
  BY <1>0, <1>18 DEF vars
<1>19. QED
  BY <1>1, <1>2, <1>3, <1>4, <1>5, <1>6, <1>8, <1>9, <1>10, <1>11, <1>12, <1>13,
     <1>14, <1>15, <1>16, <1>17, <1>18 DEF Next, Running, Calls

LEMMA SizesHold == Spec => []SizeInv
<1>1. Init => SizeInv
  <2>1. Init => Sizes /\ BandsBounded
    BY ConstantsOK DEF Init, Sizes, BandsBounded
  <2>2. QED
    BY <2>1, TypeInit DEF SizeInv
<1>2. SizeInv /\ [Next]_vars => SizeInv'
  BY TypeStep, SizeStep DEF SizeInv
<1>3. QED
  BY <1>1, <1>2, PTL DEF Spec

(* No entry of equivalence_classes_ is ever without a band, and at most    *)
(* one band is without an entry, whatever signatures are not finite.       *)
THEOREM NoClassWithoutBandHolds == Spec => []NoClassWithoutBand
<1>1. SizeInv => NoClassWithoutBand
  BY SizeTypes DEF SizeInv, Sizes, NoClassWithoutBand
<1>2. QED
  BY <1>1, SizesHold, PTL

(* hcp.max_number_classes bounds the bands for any outcome of isEqual(). *)
THEOREM BandsBoundedHolds == Spec => []BandsBounded
<1>1. SizeInv => BandsBounded
  BY DEF SizeInv
<1>2. QED
  BY <1>1, SizesHold, PTL

-----------------------------------------------------------------------------
(* Whose bands are listed.                                                 *)

Distinct == \A i, j \in 1 .. Len(tebs) : tebs[i] = tebs[j] => i = j

(* The loop of renewAndAnalyzeOldTebs() starts behind the best band. *)
BestFirst == pc = "analyze" /\ best \in Listed => tebs[1] = best /\ it >= 2

FollowInv == TypeOK /\ Distinct /\ BestFirst

(* Erasing an element takes exactly that element away. *)
LEMMA ErasedSet ==
  ASSUME NEW S, NEW s \in Seq(S), NEW k \in 1 .. Len(s),
         \A i, j \in 1 .. Len(s) : s[i] = s[j] => i = j
  PROVE  /\ ToSet(RemoveAt(s, k)) = ToSet(s) \ {s[k]}
         /\ \A i, j \in 1 .. Len(RemoveAt(s, k)) :
              RemoveAt(s, k)[i] = RemoveAt(s, k)[j] => i = j
<1> DEFINE r == RemoveAt(s, k)
<1>0. Len(s) \in Nat
  BY LenProperties
<1>1. /\ r \in Seq(S) /\ Len(r) = Len(s) - 1
      /\ \A j \in 1 .. Len(s) - 1 : r[j] = IF j < k THEN s[j] ELSE s[j + 1]
  BY RemoveAtProperties
<1> HIDE DEF r
<1>2. DOMAIN r = 1 .. Len(s) - 1 /\ DOMAIN s = 1 .. Len(s)
  BY <1>0, <1>1, LenProperties
<1>3. ToSet(r) \subseteq ToSet(s) \ {s[k]}
  <2> SUFFICES ASSUME NEW j \in 1 .. Len(s) - 1 PROVE r[j] \in ToSet(s) \ {s[k]}
    BY <1>2 DEF ToSet
  <2>1. CASE j < k
    BY <1>0, <1>1, <1>2, <2>1 DEF ToSet
  <2>2. CASE ~(j < k)
    <3>1. r[j] = s[j + 1] /\ j + 1 \in 1 .. Len(s) /\ j + 1 # k
      BY <1>0, <1>1, <2>2
    <3>2. QED
      BY <1>2, <3>1 DEF ToSet
  <2>3. QED
    BY <2>1, <2>2
<1>4. ToSet(s) \ {s[k]} \subseteq ToSet(r)
  <2> SUFFICES ASSUME NEW j \in 1 .. Len(s), j # k PROVE s[j] \in ToSet(r)
    BY <1>2 DEF ToSet
  <2>1. CASE j < k
    <3>1. j \in 1 .. Len(s) - 1 /\ r[j] = s[j]
      BY <1>0, <1>1, <2>1
    <3>2. QED
      BY <1>2, <3>1 DEF ToSet
  <2>2. CASE ~(j < k)
    <3>1. j - 1 \in 1 .. Len(s) - 1 /\ ~(j - 1 < k) /\ (j - 1) + 1 = j
      BY <1>0, <2>2
    <3>2. r[j - 1] = s[j]
      BY <1>1, <3>1
    <3>3. QED
      BY <1>2, <3>1, <3>2 DEF ToSet
  <2>3. QED
    BY <2>1, <2>2
<1>5. ASSUME NEW i \in 1 .. Len(r), NEW j \in 1 .. Len(r), r[i] = r[j]
      PROVE  i = j
  <2> DEFINE at(n) == IF n < k THEN n ELSE n + 1
  <2>1. r[i] = s[at(i)] /\ r[j] = s[at(j)]
    BY <1>0, <1>1
  <2>2. at(i) \in 1 .. Len(s) /\ at(j) \in 1 .. Len(s)
    BY <1>0, <1>1
  <2>3. at(i) = at(j)
    <3> HIDE DEF at
    <3>1. QED
      BY <1>5, <2>1, <2>2
  <2>4. QED
    BY <1>0, <1>1, <2>3
<1>6. QED
  BY <1>3, <1>4, <1>5 DEF r

(* Appending adds exactly the new element. *)
LEMMA AppendedSet ==
  ASSUME NEW S, NEW s \in Seq(S), NEW e \in S, e \notin ToSet(s),
         \A i, j \in 1 .. Len(s) : s[i] = s[j] => i = j
  PROVE  /\ ToSet(Append(s, e)) = ToSet(s) \cup {e}
         /\ \A i, j \in 1 .. Len(Append(s, e)) :
              Append(s, e)[i] = Append(s, e)[j] => i = j
<1> DEFINE r == Append(s, e)
<1>1. /\ r \in Seq(S) /\ Len(r) = Len(s) + 1 /\ Len(s) \in Nat
      /\ r[Len(s) + 1] = e /\ \A j \in 1 .. Len(s) : r[j] = s[j]
  BY AppendProperties, LenProperties
<1> HIDE DEF r
<1>2. DOMAIN r = 1 .. Len(s) + 1 /\ DOMAIN s = 1 .. Len(s)
  BY <1>1, LenProperties
<1>3. 1 .. Len(s) + 1 = (1 .. Len(s)) \cup {Len(s) + 1}
  BY <1>1
<1>4. ToSet(r) = ToSet(s) \cup {e}
  BY <1>1, <1>2, <1>3 DEF ToSet
<1>5. \A j \in 1 .. Len(s) : r[j] \in ToSet(s)
  BY <1>1, <1>2 DEF ToSet
<1>6. ASSUME NEW i \in 1 .. Len(r), NEW j \in 1 .. Len(r), r[i] = r[j] PROVE i = j
  BY <1>1, <1>3, <1>5, <1>6
<1>7. QED
  BY <1>4, <1>6 DEF r

(* Swapping changes no element of the set. *)
LEMMA SwappedSet ==
  ASSUME NEW S, NEW s \in Seq(S), NEW k \in 1 .. Len(s),
         \A i, j \in 1 .. Len(s) : s[i] = s[j] => i = j
  PROVE  LET r == [s EXCEPT ![1] = s[k], ![k] = s[1]]
         IN /\ ToSet(r) = ToSet(s)
            /\ \A i, j \in 1 .. Len(r) : r[i] = r[j] => i = j
<1> DEFINE r == [s EXCEPT ![1] = s[k], ![k] = s[1]]
<1>1. /\ r \in Seq(S) /\ Len(r) = Len(s) /\ Len(s) \in Nat
      /\ r[1] = s[k] /\ r[k] = s[1]
      /\ \A j \in 1 .. Len(s) : j # 1 /\ j # k => r[j] = s[j]
  BY SwapProperties, LenProperties
<1> HIDE DEF r
<1>2. DOMAIN r = 1 .. Len(s) /\ DOMAIN s = 1 .. Len(s) /\ 1 \in 1 .. Len(s)
  BY <1>1, LenProperties
<1>3. \A j \in 1 .. Len(s) : r[j] \in ToSet(s)
  BY <1>1, <1>2 DEF ToSet
<1>4. ASSUME NEW j \in 1 .. Len(s) PROVE s[j] \in ToSet(r)
  <2>1. \E i \in 1 .. Len(s) : s[j] = r[i]
    BY <1>1, <1>2
  <2>2. QED
    BY <1>2, <2>1 DEF ToSet
<1>5. ToSet(r) = ToSet(s)
  <2>1. ToSet(r) = {r[i] : i \in 1 .. Len(s)} /\ ToSet(s) = {s[i] : i \in 1 .. Len(s)}
    BY <1>2 DEF ToSet
  <2>2. ToSet(r) \subseteq ToSet(s)
    BY <1>3, <2>1, SMTT(30)
  <2>3. ToSet(s) \subseteq ToSet(r)
    BY <1>4, <2>1, SMTT(30)
  <2>4. QED
    BY <2>2, <2>3
<1>6. ASSUME NEW i \in 1 .. Len(s), NEW j \in 1 .. Len(s), r[i] = r[j] PROVE i = j
  <2> DEFINE at(n) == IF n = 1 THEN k ELSE IF n = k THEN 1 ELSE n
  <2>1. ASSUME NEW n \in 1 .. Len(s) PROVE r[n] = s[at(n)]
    <3>1. CASE n = 1
      BY <1>1, <3>1
    <3>2. CASE n # 1 /\ n = k
      BY <1>1, <3>2
    <3>3. CASE n # 1 /\ n # k
      BY <1>1, <3>3
    <3>4. QED
      BY <3>1, <3>2, <3>3
  <2>2. at(i) \in 1 .. Len(s) /\ at(j) \in 1 .. Len(s)
    BY <1>2
  <2>3. at(i) = at(j)
    <3> HIDE DEF at
    <3>1. r[i] = s[at(i)] /\ r[j] = s[at(j)]
      BY <2>1
    <3>2. QED
      BY <1>6, <2>2, <3>1
  <2>4. QED
    BY <2>3
<1>7. QED
  BY <1>1, <1>5, <1>6 DEF r

LEMMA AddBandSet ==
  ASSUME FollowInv, NEW c \in Classes, NEW lock \in BOOLEAN,
         AddBand(c, lock)
  PROVE  /\ Listed' = Listed \cup {NewTeb} /\ NewTeb \in Tebs
         /\ NewTeb # best /\ NewTeb \notin Listed /\ Distinct'
<1>1. tebs \in Seq(Tebs) /\ tebs' = Append(tebs, NewTeb) /\ NewTeb \in Fresh
  BY AddBandType DEF FollowInv, TypeOK
<1>2. NewTeb \in Tebs /\ NewTeb \notin Listed /\ NewTeb # best
  BY <1>1 DEF Fresh, Held
<1>3. \A i, j \in 1 .. Len(tebs) : tebs[i] = tebs[j] => i = j
  BY DEF FollowInv, Distinct
<1>4. NewTeb \notin ToSet(tebs)
  BY <1>2 DEF Listed
<1>5. /\ ToSet(tebs') = ToSet(tebs) \cup {NewTeb}
      /\ \A i, j \in 1 .. Len(tebs') : tebs'[i] = tebs'[j] => i = j
  BY <1>1, <1>2, <1>3, <1>4, AppendedSet
<1>6. QED
  BY <1>2, <1>5 DEF Listed, Distinct

LEMMA RemoveAtSet ==
  ASSUME FollowInv, NEW k \in 1 .. Len(tebs), tebs' = RemoveAt(tebs, k)
  PROVE  Listed' = Listed \ {tebs[k]} /\ Distinct'
<1>1. tebs \in Seq(Tebs) /\ \A i, j \in 1 .. Len(tebs) : tebs[i] = tebs[j] => i = j
  BY DEF FollowInv, TypeOK, Distinct
<1>2. /\ ToSet(tebs') = ToSet(tebs) \ {tebs[k]}
      /\ \A i, j \in 1 .. Len(tebs') : tebs'[i] = tebs'[j] => i = j
  BY <1>1, ErasedSet
<1>3. QED
  BY <1>2 DEF Listed, Distinct

-----------------------------------------------------------------------------
(* The planner implements PlanFollowing.                                   *)

(* What a step does to the candidates and the plan being followed; every   *)
(* other fact about the lists is kept on the way.                          *)
LEMMA FollowStep ==
  FollowInv /\ [Next]_vars => Distinct' /\ BestFirst' /\ [Following!Next]_(Following!vars)
<1> SUFFICES ASSUME FollowInv, [Next]_vars
             PROVE  Distinct' /\ BestFirst' /\ [Following!Next]_(Following!vars)
  OBVIOUS
<1> DEFINE Goal == Distinct' /\ BestFirst' /\ [Following!Next]_(Following!vars)
<1> USE DEF lists, picks, eqRefs, Goto
<1>0. TypeOK /\ Distinct /\ BestFirst
  BY DEF FollowInv
<1>t. /\ tebs \in Seq(Tebs) /\ Len(tebs) \in Nat /\ it \in Nat \ {0}
      /\ Listed \subseteq Tebs /\ Listed = {tebs[i] : i \in 1 .. Len(tebs)}
      /\ BlockPeriod \in Nat /\ since \in Nat /\ None \notin Tebs
  BY <1>0, SizeTypes, ListedType, ConstantsOK DEF TypeOK, Listed, ToSet
(* Steps of the exploration, and steps the abstract planner does not see. *)
<1>e. ASSUME Listed' \subseteq Tebs, best \in Listed <=> best \in Listed',
             best' = best, since' = since, Phase = "plan", Phase' = "plan"
      PROVE  [Following!Next]_(Following!vars)
  BY <1>e DEF Following!Next, Following!Explore
<1>s. ASSUME tebs' = tebs, best' = best, since' = since, pc' # "analyze",
             \/ Phase' = Phase
             \/ Phase = "rest" /\ Phase' = "check"
             \/ Phase = "check" /\ Phase' = "rest"
      PROVE  Goal
  <2>1. Listed' = Listed
    BY <1>s DEF Listed
  <2>2. [Following!Next]_(Following!vars)
    <3>1. CASE Phase' = Phase
      BY <1>s, <2>1, <3>1 DEF Following!vars
    <3>2. CASE Phase = "rest" /\ Phase' = "check"
      BY <1>s, <2>1, <3>2 DEF Following!Next, Following!BeginCheck
    <3>3. CASE Phase = "check" /\ Phase' = "rest"
      BY <1>s, <2>1, <3>3 DEF Following!Next, Following!EndCheck
    <3>4. QED
      BY <1>s, <3>1, <3>2, <3>3
  <2>3. QED
    BY <1>0, <1>s, <2>2 DEF Distinct, BestFirst
<1>1. ASSUME NEW c \in Classes, RenewBest(c) PROVE Goal
  <2>1. /\ pc' = "analyze" /\ best' = best /\ since' = since
        /\ Phase = "plan" /\ Phase' = "plan"
    BY <1>1 DEF RenewBest, Phase, Quiet
  <2>2. CASE best \in Listed
    <3>1. PICK k \in 1 .. Len(tebs) :
            tebs[k] = best /\ tebs' = [tebs EXCEPT ![1] = tebs[k], ![k] = tebs[1]]
      BY <1>t, <1>1, <2>2 DEF RenewBest
    <3>2. \A i, j \in 1 .. Len(tebs) : tebs[i] = tebs[j] => i = j
      BY <1>0 DEF Distinct
    <3>3. /\ ToSet(tebs') = ToSet(tebs)
          /\ \A i, j \in 1 .. Len(tebs') : tebs'[i] = tebs'[j] => i = j
      <4> DEFINE r == [tebs EXCEPT ![1] = tebs[k], ![k] = tebs[1]]
      <4>1. ToSet(r) = ToSet(tebs) /\ \A i, j \in 1 .. Len(r) : r[i] = r[j] => i = j
        BY ONLY <1>t, <3>2, SwappedSet, k \in 1 .. Len(tebs)
      <4>2. tebs' = r
        BY <3>1
      <4> HIDE DEF r
      <4>3. QED
        BY <4>1, <4>2
    <3>4. tebs'[1] = best /\ it' = 2
      BY <1>t, <1>1, <2>2, <3>1, SwapProperties DEF RenewBest
    <3>5. Listed' = Listed
      BY <3>3 DEF Listed
    <3>6. QED
      BY <1>e, <1>t, <2>1, <3>3, <3>4, <3>5 DEF Distinct, BestFirst
  <2>3. CASE best \notin Listed
    <3>1. tebs' = tebs
      BY <1>1, <2>3 DEF RenewBest
    <3>2. Listed' = Listed
      BY <3>1 DEF Listed
    <3>3. QED
      BY <1>0, <1>e, <1>t, <2>1, <2>3, <3>1, <3>2 DEF Distinct, BestFirst
  <2>4. QED
    BY <2>2, <2>3
<1>2. ASSUME NEW c \in Classes, AnalyzeTeb(c) PROVE Goal
  <2>1. /\ pc = "analyze" /\ pc' = "analyze" /\ best' = best /\ since' = since
        /\ it \in 1 .. Len(tebs) /\ Phase = "plan" /\ Phase' = "plan"
    BY <1>t, <1>2 DEF AnalyzeTeb, Phase, Quiet
  <2>2. CASE IsNew(c)
    <3>1. tebs' = tebs /\ it' = it + 1
      BY <1>2, <2>2 DEF AnalyzeTeb
    <3>2. Listed' = Listed
      BY <3>1 DEF Listed
    <3>3. QED
      BY <1>0, <1>e, <1>t, <2>1, <3>1, <3>2 DEF Distinct, BestFirst
  <2>3. CASE ~IsNew(c)
    <3>1. tebs' = RemoveAt(tebs, it) /\ it' = it
      BY <1>2, <2>3 DEF AnalyzeTeb
    <3>2. Listed' = Listed \ {tebs[it]} /\ Distinct'
      BY <2>1, <3>1, RemoveAtSet
    <3>3. best \in Listed => tebs[1] = best /\ it >= 2 /\ tebs[it] # best
      BY <1>0, <1>t, <2>1 DEF Distinct, BestFirst
    <3>4. best \in Listed' => tebs'[1] = best
      <4>1. \A j \in 1 .. Len(tebs) - 1 : j < it => tebs'[j] = tebs[j]
        BY <1>t, <2>1, <3>1, RemoveAtProperties
      <4>2. best \in Listed => 1 \in 1 .. Len(tebs) - 1 /\ 1 < it
        BY <1>t, <2>1, <3>3
      <4>3. QED
        BY <3>2, <3>3, <4>1, <4>2
    <3>5. QED
      BY <1>e, <1>t, <2>1, <3>1, <3>2, <3>3, <3>4 DEF BestFirst
  <2>4. QED
    BY <2>2, <2>3
<1>3. ASSUME NEW c \in Classes, NEW lock \in BOOLEAN,
             AddBand(c, lock), best' = best, since' = since, pc' # "analyze",
             Phase = "plan", Phase' = "plan"
      PROVE  Goal
  <2>1. /\ Listed' = Listed \cup {NewTeb} /\ NewTeb \in Tebs
        /\ NewTeb # best /\ Distinct'
    BY <1>3, AddBandSet
  <2>2. QED
    BY <1>e, <1>t, <1>3, <2>1 DEF BestFirst
<1>4. ASSUME NEW c \in Classes, AddInitialPlan(c) PROVE Goal
  <2>1. /\ best' = best /\ since' = since /\ pc' = "graph"
        /\ Phase = "plan" /\ Phase' = "plan"
    BY <1>4 DEF AddInitialPlan, Phase, Quiet
  <2>2. \/ tebs' = tebs
        \/ AddBand(c, TRUE)
    BY <1>0, <1>4 DEF AddInitialPlan, TypeOK
  <2>3. QED
    BY <1>3, <1>s, <2>1, <2>2
<1>5. ASSUME NEW c \in Classes, AddGraphPath(c) PROVE Goal
  BY <1>3, <1>5 DEF AddGraphPath, Phase, Quiet
<1>6. ASSUME NEW c \in Classes, AddStraightLine(c) PROVE Goal
  BY <1>3, <1>6 DEF AddStraightLine, Phase, Quiet
<1>7. ASSUME NEW k \in 1 .. Len(tebs), tebs' = RemoveAt(tebs, k), tebs[k] # best,
             best' = best, since' = since, pc' # "analyze",
             Phase = "plan", Phase' = "plan"
      PROVE  Goal
  <2>1. Listed' = Listed \ {tebs[k]} /\ Distinct'
    BY <1>7, RemoveAtSet
  <2>2. QED
    BY <1>e, <1>t, <1>7, <2>1 DEF BestFirst
<1>8. CASE DeleteDetour
  <2>1. RemoveTeb(tebs[it]) /\ tebs[it] # best /\ pc' = "detours"
    BY <1>8 DEF DeleteDetour
  <2>2. best' = best /\ since' = since /\ Phase = "plan" /\ Phase' = "plan"
    BY <1>8 DEF DeleteDetour, Phase, Quiet
  <2>3. \/ tebs' = tebs
        \/ \E k \in 1 .. Len(tebs) : tebs[k] = tebs[it] /\ tebs' = RemoveAt(tebs, k)
    BY <1>0, <2>1, RemoveTebType
  <2>4. QED
    BY <1>7, <1>s, <2>1, <2>2, <2>3
<1>9. CASE DropTeb
  <2>1. /\ best' = best /\ since' = since /\ pc' = "drop" /\ it \in 1 .. Len(tebs)
        /\ Phase = "plan" /\ Phase' = "plan"
    BY <1>t, <1>9 DEF DropTeb, Phase, Quiet
  <2>2. tebs' = tebs \/ (tebs[it] # best /\ tebs' = RemoveAt(tebs, it))
    BY <1>9 DEF DropTeb
  <2>3. QED
    BY <1>7, <1>s, <2>1, <2>2
<1>10. CASE JudgeInfeasible
  <2>1. /\ best' = best /\ since' = since /\ pc' # "analyze"
        /\ Phase = "check" /\ Phase' \in {"check", "rest"}
    BY <1>10 DEF JudgeInfeasible, Phase, Quiet
  <2>2. CASE tebs' = tebs
    BY <1>s, <2>1, <2>2
  <2>3. CASE \E k \in 1 .. Len(tebs) : tebs[k] = best /\ tebs' = RemoveAt(tebs, k)
    <3>1. Listed' = Listed \ {best} /\ Distinct' /\ best \in Listed
      BY <1>t, <2>3, RemoveAtSet
    <3>2. Following!Reject
      BY <2>1, <3>1 DEF Following!Reject
    <3>3. QED
      BY <2>1, <3>1, <3>2 DEF Following!Next, BestFirst
  <2>4. QED
    BY <1>0, <1>10, <2>2, <2>3, RemoveTebType DEF JudgeInfeasible
<1>11. CASE Select
  <2>1. /\ SelectBestTeb /\ tebs' = tebs /\ pc' = "planned"
        /\ Phase = "plan" /\ Phase' = "rest"
    BY <1>11 DEF Select, Phase, Quiet
  <2>2. Listed' = Listed
    BY <2>1 DEF Listed
  <2>3. /\ best' \in Listed \cup {None}
        /\ IF best \notin Listed \/ best' = best THEN since' = since
           ELSE since > BlockPeriod /\ since' = 0
    BY <1>t, <2>1 DEF SelectBestTeb
  <2>4. Following!Choose
    BY <2>1, <2>2, <2>3 DEF Following!Choose
  <2>5. QED
    BY <1>0, <2>1, <2>4 DEF Following!Next, Distinct, BestFirst
<1>12. CASE FindBestTeb
  <2>1. /\ tebs' = tebs /\ pc' # "analyze"
        /\ Phase = "check" /\ Phase' \in {"check", "rest"}
    BY <1>12 DEF FindBestTeb, Phase, Quiet
  <2>2. CASE tebs = <<>> \/ best \in Listed
    <3>1. best' = best /\ since' = since
      BY <1>12, <2>2 DEF FindBestTeb
    <3>2. QED
      BY <1>s, <2>1, <3>1
  <2>3. CASE ~(tebs = <<>> \/ best \in Listed)
    <3>1. SelectBestTeb /\ best \notin Listed
      BY <1>12, <2>3 DEF FindBestTeb
    <3>2. best' \in Listed \cup {None} /\ since' = since
      BY <1>t, <3>1 DEF SelectBestTeb
    <3>3. Listed' = Listed
      BY <2>1 DEF Listed
    <3>4. Following!Replace
      BY <2>1, <3>1, <3>2, <3>3 DEF Following!Replace
    <3>5. QED
      BY <1>0, <2>1, <3>4 DEF Following!Next, Distinct, BestFirst
  <2>4. QED
    BY <2>2, <2>3
<1>14. ASSUME NEW p \in PlanModes, NEW r \in BOOLEAN,
              Plan(p, r /\ tebs # <<>>)
       PROVE  Goal
  <2>1. /\ best' = best /\ pc' = "renew" /\ (tebs' = <<>> \/ tebs' = tebs)
        /\ Phase = "rest" /\ Phase' = "plan"
    BY <1>14 DEF Plan, Phase, Quiet
  <2>2. since' = IF since > BlockPeriod THEN since ELSE since + 1
    BY <1>14 DEF Plan
  <2>3. Listed' \in {Listed, {}}
    BY <2>1 DEF Listed, ToSet
  <2>4. Following!NewCycle
    BY <2>1, <2>2, <2>3 DEF Following!NewCycle
  <2>5. QED
    BY <1>0, <2>1, <2>4 DEF Following!Next, Distinct, BestFirst
<1>15. CASE ClearPlanner
  <2>1. /\ best' = best /\ since' = since /\ pc' = "idle" /\ tebs' = <<>>
        /\ Phase = "rest" /\ Phase' = "rest"
    BY <1>15 DEF ClearPlanner, Phase, Quiet
  <2>2. Listed' = {}
    BY <2>1 DEF Listed, ToSet
  <2>3. Following!Clear
    BY <2>1, <2>2 DEF Following!Clear
  <2>4. QED
    BY <2>1, <2>3 DEF Following!Next, Distinct, BestFirst
<1>16. CASE \/ AnalyzeDone \/ KeepPlan \/ DetoursDone \/ DropDone \/ FindInitialBand
            \/ GraphDone \/ SkipViaPoints \/ SetViaPoints \/ OptimizeDone
            \/ JudgeFeasible \/ CheckFeasible \/ GetVelocityCommand
  <2>1. /\ tebs' = tebs /\ best' = best /\ since' = since /\ pc' # "analyze"
        /\ \/ Phase' = Phase
           \/ Phase = "rest" /\ Phase' = "check"
           \/ Phase = "check" /\ Phase' = "rest"
    BY <1>16 DEF Phase, Quiet, AnalyzeDone, KeepPlan, DetoursDone, DropDone, FindInitialBand,
      GraphDone, SkipViaPoints, SetViaPoints, OptimizeDone, JudgeFeasible,
      CheckFeasible, GetVelocityCommand
  <2>2. QED
    BY <1>s, <2>1
<1>17. ASSUME NEW t \in Tebs, OptimizeTeb(t) PROVE Goal
  BY <1>s, <1>17 DEF OptimizeTeb, Phase, Quiet
<1>18. CASE UNCHANGED vars
  <2>1. tebs' = tebs /\ best' = best /\ since' = since /\ pc' = pc /\ it' = it
    BY <1>18 DEF vars
  <2>2. Listed' = Listed
    BY <2>1 DEF Listed
  <2>3. QED
    BY <1>0, <2>1, <2>2 DEF Distinct, BestFirst, Following!vars, Phase
<1>19. QED
  BY <1>1, <1>2, <1>4, <1>5, <1>6, <1>8, <1>9, <1>10, <1>11, <1>12, <1>14, <1>15,
     <1>16, <1>17, <1>18 DEF Next, Running, Calls

(* HomotopyClassPlanner implements PlanFollowing: no step of exploration   *)
(* takes the plan being followed away, and no switch comes before its      *)
(* time.                                                                   *)
THEOREM FollowsPlansHolds == Spec => FollowsPlans
<1>1. Init => FollowInv /\ Following!Init
  <2>1. Init => Distinct /\ BestFirst
    BY DEF Init, Distinct, BestFirst
  <2>2. Init => Following!Init
    BY DEF Init, Following!Init, Listed, ToSet, Phase, Quiet
  <2>3. QED
    BY <2>1, <2>2, TypeInit DEF FollowInv
<1>2. FollowInv /\ [Next]_vars => FollowInv' /\ [Following!Next]_(Following!vars)
  BY TypeStep, FollowStep DEF FollowInv
<1>3. QED
  BY <1>1, <1>2, PTL DEF Spec, FollowsPlans, Following!Spec

-----------------------------------------------------------------------------
(* The accepted band.                                                      *)

(* While a band is judged, and after it was accepted, it is listed. *)
Judged == pc \in {"judge", "accepted"} => best \in Listed

LEMMA JudgedStep == TypeOK /\ Judged /\ [Next]_vars => Judged'
<1> SUFFICES ASSUME TypeOK, Judged, [Next]_vars PROVE Judged'
  OBVIOUS
<1> USE DEF lists, picks, eqRefs, Goto, Judged
<1>1. ASSUME pc' \notin {"judge", "accepted"} PROVE Judged'
  BY <1>1
<1>2. CASE FindBestTeb
  <2>1. Listed' = Listed /\ pc' = IF best' \in Listed THEN "judge" ELSE "rejected"
    BY <1>2 DEF FindBestTeb, Listed
  <2>2. QED
    BY <2>1
<1>3. CASE JudgeFeasible
  <2>1. Listed' = Listed /\ best' = best /\ pc = "judge"
    BY <1>3 DEF JudgeFeasible, Listed
  <2>2. QED
    BY <2>1
<1>4. CASE UNCHANGED vars
  <2>1. Listed' = Listed /\ best' = best /\ pc' = pc
    BY <1>4 DEF vars, Listed
  <2>2. QED
    BY <2>1
<1>5. ASSUME NEW c \in Classes,
             \/ RenewBest(c) \/ AnalyzeTeb(c)
             \/ AddInitialPlan(c) \/ AddGraphPath(c) \/ AddStraightLine(c)
      PROVE  Judged'
  BY <1>1, <1>5
  DEF RenewBest, AnalyzeTeb, AddInitialPlan, AddGraphPath, AddStraightLine
<1>6. CASE \/ AnalyzeDone \/ KeepPlan \/ DeleteDetour \/ DetoursDone
           \/ DropTeb \/ DropDone \/ FindInitialBand \/ GraphDone
  BY <1>1, <1>6 DEF AnalyzeDone, KeepPlan, DeleteDetour, DetoursDone,
    DropTeb, DropDone, FindInitialBand, GraphDone
<1>7. CASE \/ SkipViaPoints \/ SetViaPoints \/ OptimizeDone \/ Select
           \/ JudgeInfeasible \/ CheckFeasible \/ GetVelocityCommand \/ ClearPlanner
  BY <1>1, <1>7 DEF SkipViaPoints, SetViaPoints, OptimizeDone, Select,
    JudgeInfeasible, CheckFeasible, GetVelocityCommand, ClearPlanner
<1>8. ASSUME NEW t \in Tebs, OptimizeTeb(t) PROVE Judged'
  BY <1>1, <1>8 DEF OptimizeTeb
<1>9. ASSUME NEW p \in PlanModes, NEW r \in BOOLEAN,
             Plan(p, r /\ tebs # <<>>)
      PROVE  Judged'
  BY <1>1, <1>9 DEF Plan
<1>10. QED
  BY <1>2, <1>3, <1>4, <1>5, <1>6, <1>7, <1>8, <1>9 DEF Next, Running, Calls

(* The band that drives the robot is the band isTrajectoryFeasible() has   *)
(* found feasible, also through the shortcut of bestTeb() for one band.    *)
THEOREM AcceptedPlanDrivesHolds == Spec => []AcceptedPlanDrives
<1>1. Init => Judged
  BY DEF Init, Judged
<1>2. TypeOK /\ Judged => AcceptedPlanDrives
  <2> SUFFICES ASSUME TypeOK, Judged, pc = "accepted"
               PROVE  best \in Listed /\ BestTeb = best
    BY DEF AcceptedPlanDrives
  <2>1. best \in Listed
    BY DEF Judged
  <2>2. Listed = {tebs[i] : i \in 1 .. Len(tebs)} /\ Len(tebs) \in Nat
    BY SizeTypes DEF Listed, ToSet
  <2>3. tebs # <<>>
    BY <2>1, <2>2
  <2>4. Len(tebs) = 1 => tebs[1] = best
    BY <2>1, <2>2
  <2>5. QED
    BY <2>1, <2>3, <2>4 DEF BestTeb
<1>3. QED
  BY <1>1, <1>2, TypeCorrect, JudgedStep, PTL DEF Spec

-----------------------------------------------------------------------------
(* The class of the initial plan.                                          *)

Exploring == {"renew", "analyze", "detours", "drop", "initial"}

(* There is no band before the first initial plan has been looked at. *)
PlanFirst ==
  /\ initEq = None => tebs = <<>> /\ pc \in {"idle"} \cup Exploring
  /\ pc \in Exploring => hasPlan = TRUE

LEMMA PlanFirstStep ==
  ASSUME PlanModes = {TRUE}
  PROVE  TypeOK /\ PlanFirst /\ [Next]_vars => PlanFirst'
<1> SUFFICES ASSUME TypeOK, PlanFirst, [Next]_vars PROVE PlanFirst'
  OBVIOUS
<1> USE DEF lists, picks, eqRefs, Goto, PlanFirst, Exploring
<1>t. tebs \in Seq(Tebs) /\ Len(tebs) \in Nat /\ MaxClasses \in Nat \ {0}
      /\ (tebs = <<>> => Len(tebs) = 0 /\ Listed = {}) /\ it \in Nat \ {0}
  BY SizeTypes DEF Listed, ToSet
<1>1. ASSUME NEW p \in PlanModes, NEW r \in BOOLEAN,
             Plan(p, r /\ tebs # <<>>)
      PROVE  PlanFirst'
  <2>1. pc = "idle" /\ pc' = "renew" /\ hasPlan' = TRUE /\ initEq' = initEq
        /\ (tebs' = tebs \/ tebs' = <<>>)
    BY <1>1 DEF Plan
  <2>2. QED
    BY <2>1
<1>2. ASSUME NEW c \in Classes, RenewBest(c) PROVE PlanFirst'
  BY <1>2, <1>t DEF RenewBest
<1>3. ASSUME NEW c \in Classes, AnalyzeTeb(c) PROVE PlanFirst'
  <2>1. pc = "analyze" /\ pc' = "analyze" /\ initEq' = initEq /\ tebs # <<>>
        /\ hasPlan' = hasPlan
    BY <1>3, <1>t DEF AnalyzeTeb
  <2>2. QED
    BY <2>1
<1>4. ASSUME NEW c \in Classes, AddInitialPlan(c) PROVE PlanFirst'
  <2>1. pc = "initial" /\ pc' = "graph"
    BY <1>4 DEF AddInitialPlan
  <2>2. initEq' # None
    <3>1. CASE Len(tebs) >= MaxClasses
      BY <1>4, <1>t, <3>1 DEF AddInitialPlan
    <3>2. CASE ~(Len(tebs) >= MaxClasses)
      BY <1>4, <3>2, ConstantsOK DEF AddInitialPlan
    <3>3. QED
      BY <3>1, <3>2
  <2>3. QED
    BY <2>1, <2>2
<1>5. ASSUME NEW c \in Classes, AddGraphPath(c) \/ AddStraightLine(c)
      PROVE  PlanFirst'
  <2>1. pc = "graph" /\ pc' \in {"graph", "viapoints"} /\ initEq' = initEq
    BY <1>5 DEF AddGraphPath, AddStraightLine
  <2>2. QED
    BY <2>1
<1>6. CASE AnalyzeDone \/ KeepPlan \/ DetoursDone \/ DropDone
  BY <1>6 DEF AnalyzeDone, KeepPlan, DetoursDone, DropDone
<1>7. CASE DeleteDetour
  <2>1. pc = "detours" /\ pc' = "detours" /\ initEq' = initEq /\ tebs # <<>>
        /\ hasPlan' = hasPlan
    BY <1>7, <1>t DEF DeleteDetour
  <2>2. QED
    BY <2>1
<1>8. CASE DropTeb
  <2>1. pc = "drop" /\ pc' = "drop" /\ initEq' = initEq /\ tebs # <<>>
        /\ hasPlan' = hasPlan
    BY <1>8, <1>t DEF DropTeb
  <2>2. QED
    BY <2>1
<1>9. CASE FindInitialBand
  BY <1>9 DEF FindInitialBand
<1>10. CASE GraphDone \/ SkipViaPoints \/ SetViaPoints \/ OptimizeDone \/ Select
  BY <1>10 DEF GraphDone, SkipViaPoints, SetViaPoints, OptimizeDone, Select
<1>11. ASSUME NEW t \in Tebs, OptimizeTeb(t) PROVE PlanFirst'
  BY <1>11 DEF OptimizeTeb
<1>12. CASE CheckFeasible \/ JudgeFeasible \/ GetVelocityCommand
  BY <1>12 DEF CheckFeasible, JudgeFeasible, GetVelocityCommand
<1>13. CASE FindBestTeb
  BY <1>13, <1>t DEF FindBestTeb
<1>14. CASE JudgeInfeasible
  BY <1>14, <1>t DEF JudgeInfeasible, RemoveTeb
<1>15. CASE ClearPlanner
  BY <1>15 DEF ClearPlanner
<1>16. CASE UNCHANGED vars
  BY <1>16 DEF vars
<1>17. QED
  BY <1>1, <1>2, <1>3, <1>4, <1>5, <1>6, <1>7, <1>8, <1>9, <1>10, <1>11, <1>12,
     <1>13, <1>14, <1>15, <1>16 DEF Next, Running, Calls

(* When every call carries an initial plan, as both nodes do, the class    *)
(* that updateReferenceTrajectoryViaPoints() dereferences exists, although *)
(* addAndInitNewTeb() leaves it alone when the list is full.               *)
THEOREM InitialClassKnownHolds ==
  ASSUME PlanModes = {TRUE}
  PROVE  Spec => []InitialClassKnown
<1>1. Init => PlanFirst
  BY DEF Init, PlanFirst, Exploring
<1>2. PlanFirst => InitialClassKnown
  BY DEF PlanFirst, InitialClassKnown, Exploring
<1>3. TypeOK /\ PlanFirst /\ [Next]_vars => PlanFirst'
  BY PlanFirstStep
<1>4. QED
  BY <1>1, <1>2, <1>3, TypeCorrect, PTL DEF Spec

-----------------------------------------------------------------------------
(* Bands that share a class.                                               *)

DupInv == TypeOK /\ DuplicatesOnlyInBestClass

LEMMA DupSame ==
  ASSUME DupInv, pc # "renew", bestEq' = bestEq, eqs' \in Seq(Entry),
         Len(eqs') = Len(eqs), \A i \in 1 .. Len(eqs) : eqs'[i].cls = eqs[i].cls
  PROVE  DuplicatesOnlyInBestClass'
<1>1. DOMAIN eqs = 1 .. Len(eqs) /\ DOMAIN eqs' = 1 .. Len(eqs)
  BY LenProperties DEF DupInv, TypeOK
<1>2. QED
  BY <1>1 DEF DupInv, DuplicatesOnlyInBestClass, IsInBestTebClass, IsEqual

LEMMA DupErase ==
  ASSUME DupInv, pc # "renew", bestEq' = bestEq,
         NEW k \in 1 .. Len(eqs), eqs' = RemoveAt(eqs, k)
  PROVE  DuplicatesOnlyInBestClass'
<1> DEFINE at(n) == IF n < k THEN n ELSE n + 1
<1>0. eqs \in Seq(Entry) /\ Len(eqs) \in Nat
  BY SizeTypes DEF DupInv
<1>1. /\ Len(eqs') = Len(eqs) - 1 /\ eqs' \in Seq(Entry)
      /\ \A j \in 1 .. Len(eqs) - 1 : eqs'[j] = eqs[at(j)]
  BY <1>0, RemoveAtProperties
<1>2. /\ \A j \in 1 .. Len(eqs) - 1 : at(j) \in 1 .. Len(eqs)
      /\ \A i, j \in 1 .. Len(eqs) - 1 : i < j => at(i) < at(j)
  BY <1>0
<1> HIDE DEF at
<1>3. DOMAIN eqs = 1 .. Len(eqs) /\ DOMAIN eqs' = 1 .. Len(eqs) - 1
  BY <1>0, <1>1, LenProperties
<1>4. QED
  BY <1>1, <1>2, <1>3
  DEF DupInv, DuplicatesOnlyInBestClass, IsInBestTebClass, IsEqual

LEMMA DupPush ==
  ASSUME DupInv, pc # "renew", bestEq' = bestEq,
         NEW c \in Classes, NEW lock \in BOOLEAN, IsNew(c),
         eqs' = Append(eqs, [cls |-> c, lock |-> lock])
  PROVE  DuplicatesOnlyInBestClass'
<1>0. eqs \in Seq(Entry) /\ Len(eqs) \in Nat /\ [cls |-> c, lock |-> lock] \in Entry
  BY SizeTypes DEF DupInv, Entry
<1>1. /\ Len(eqs') = Len(eqs) + 1 /\ eqs' \in Seq(Entry)
      /\ eqs'[Len(eqs) + 1].cls = c
      /\ \A j \in 1 .. Len(eqs) : eqs'[j] = eqs[j]
  BY <1>0, AppendProperties
<1>2. DOMAIN eqs = 1 .. Len(eqs) /\ DOMAIN eqs' = 1 .. Len(eqs) + 1
  BY <1>0, <1>1, LenProperties
<1>3. ASSUME NEW i \in DOMAIN eqs', NEW j \in DOMAIN eqs', i < j,
             IsEqual(eqs'[j].cls, eqs'[i].cls)
      PROVE  IsInBestTebClass(eqs'[j].cls)
  <2>1. CASE j = Len(eqs) + 1
    <3>1. i \in DOMAIN eqs /\ eqs'[i] = eqs[i] /\ eqs'[j].cls = c
      BY <1>0, <1>1, <1>2, <1>3, <2>1
    <3>2. HasEquivalenceClass(c)
      BY <1>3, <3>1 DEF HasEquivalenceClass
    <3>3. QED
      BY <3>1, <3>2 DEF IsNew
  <2>2. CASE j # Len(eqs) + 1
    <3>1. /\ i \in DOMAIN eqs /\ eqs'[i] = eqs[i]
          /\ j \in DOMAIN eqs /\ eqs'[j] = eqs[j]
      BY <1>0, <1>1, <1>2, <1>3, <2>2
    <3>2. QED
      BY <1>3, <3>1 DEF DupInv, DuplicatesOnlyInBestClass
  <2>3. QED
    BY <2>1, <2>2
<1>4. QED
  BY <1>3 DEF DuplicatesOnlyInBestClass, IsInBestTebClass

LEMMA DupStep == DupInv /\ [Next]_vars => DuplicatesOnlyInBestClass'
<1> SUFFICES ASSUME DupInv, [Next]_vars PROVE DuplicatesOnlyInBestClass'
  OBVIOUS
<1> USE DEF lists, picks, eqRefs, Goto
<1>t. TypeOK /\ eqs \in Seq(Entry) /\ Len(eqs) \in Nat /\ it \in Nat \ {0}
      /\ Len(tebs) \in Nat
  BY SizeTypes DEF DupInv
<1>s. ASSUME pc # "renew", bestEq' = bestEq, eqs' = eqs
      PROVE  DuplicatesOnlyInBestClass'
  BY <1>s, <1>t, DupSame
<1>1. ASSUME NEW c \in Classes, RenewBest(c) PROVE DuplicatesOnlyInBestClass'
  <2>1. eqs' = <<>> \/ eqs' = <<[cls |-> c, lock |-> FALSE]>>
    BY <1>1 DEF RenewBest
  <2>2. \A i, j \in DOMAIN eqs' : ~(i < j)
    BY <2>1
  <2>3. QED
    BY <2>2 DEF DuplicatesOnlyInBestClass
<1>2. ASSUME NEW c \in Classes, AnalyzeTeb(c) PROVE DuplicatesOnlyInBestClass'
  <2>1. pc = "analyze" /\ bestEq' = bestEq
    BY <1>2 DEF AnalyzeTeb
  <2>2. (IsNew(c) /\ eqs' = Append(eqs, [cls |-> c, lock |-> FALSE])) \/ eqs' = eqs
    BY <1>2 DEF AnalyzeTeb, Push
  <2>3. QED
    BY <1>s, <2>1, <2>2, DupPush
<1>3. ASSUME NEW c \in Classes, AddInitialPlan(c) PROVE DuplicatesOnlyInBestClass'
  <2>1. pc = "initial" /\ bestEq' = bestEq
    BY <1>3 DEF AddInitialPlan
  <2>2. (IsNew(c) /\ eqs' = Append(eqs, [cls |-> c, lock |-> TRUE])) \/ eqs' = eqs
    BY <1>3 DEF AddInitialPlan, AddBand, Push
  <2>3. QED
    BY <1>s, <2>1, <2>2, DupPush
<1>4. ASSUME NEW c \in Classes, AddGraphPath(c) \/ AddStraightLine(c)
      PROVE  DuplicatesOnlyInBestClass'
  <2>1. /\ pc = "graph" /\ bestEq' = bestEq /\ IsNew(c)
        /\ eqs' = Append(eqs, [cls |-> c, lock |-> FALSE])
    BY <1>4 DEF AddGraphPath, AddStraightLine, AddBand, Push
  <2>2. QED
    BY <2>1, DupPush
<1>5. ASSUME NEW b, RemoveTeb(b), pc # "renew", bestEq' = bestEq
      PROVE  DuplicatesOnlyInBestClass'
  <2>1. eqs' = eqs \/ \E k \in 1 .. Len(eqs) : eqs' = RemoveAt(eqs, k)
    BY <1>5, <1>t, RemoveTebType
  <2>2. QED
    BY <1>5, <1>s, <2>1, DupErase
<1>6. CASE DeleteDetour
  BY <1>5, <1>6 DEF DeleteDetour
<1>7. CASE JudgeInfeasible
  BY <1>5, <1>7 DEF JudgeInfeasible
<1>8. CASE DropTeb
  <2>1. it \in 1 .. Len(eqs) /\ pc = "drop" /\ bestEq' = bestEq
    BY <1>t, <1>8 DEF DropTeb
  <2>2. eqs' = eqs \/ eqs' = RemoveAt(eqs, it)
    BY <1>8 DEF DropTeb
  <2>3. QED
    BY <1>s, <2>1, <2>2, DupErase
<1>9. CASE FindInitialBand
  <2>1. pc = "initial" /\ bestEq' = bestEq /\ eqs' = Relocked
    BY <1>9 DEF FindInitialBand
  <2>2. QED
    BY <1>t, <2>1, InitialMatchType, DupSame
<1>10. ASSUME SelectBestTeb, pc # "renew", bestEq' = bestEq
       PROVE  DuplicatesOnlyInBestClass'
  BY <1>10, <1>t, SelectType, DupSame
<1>11. CASE Select
  BY <1>10, <1>11 DEF Select
<1>12. CASE FindBestTeb
  <2>1. pc = "find" /\ bestEq' = bestEq /\ (SelectBestTeb \/ eqs' = eqs)
    BY <1>12 DEF FindBestTeb
  <2>2. QED
    BY <1>10, <1>s, <2>1
<1>13. ASSUME NEW p \in PlanModes, NEW r \in BOOLEAN,
              Plan(p, r /\ tebs # <<>>)
       PROVE  DuplicatesOnlyInBestClass'
  <2>1. pc' = "renew"
    BY <1>13 DEF Plan
  <2>2. QED
    BY <2>1 DEF DuplicatesOnlyInBestClass
<1>14. CASE ClearPlanner
  <2>1. eqs' = <<>>
    BY <1>14 DEF ClearPlanner
  <2>2. QED
    BY <2>1 DEF DuplicatesOnlyInBestClass
<1>15. CASE \/ AnalyzeDone \/ KeepPlan \/ DetoursDone \/ DropDone
            \/ GraphDone \/ SkipViaPoints \/ SetViaPoints \/ OptimizeDone
            \/ JudgeFeasible \/ CheckFeasible \/ GetVelocityCommand
  <2>1. eqs' = eqs /\ bestEq' = bestEq /\ pc # "renew"
    BY <1>15 DEF AnalyzeDone, KeepPlan, DetoursDone, DropDone, GraphDone,
      SkipViaPoints, SetViaPoints, OptimizeDone, JudgeFeasible, CheckFeasible,
      GetVelocityCommand
  <2>2. QED
    BY <1>s, <2>1
<1>16. ASSUME NEW t \in Tebs, OptimizeTeb(t) PROVE DuplicatesOnlyInBestClass'
  BY <1>s, <1>16 DEF OptimizeTeb
<1>17. CASE UNCHANGED vars
  <2>1. eqs' = eqs /\ bestEq' = bestEq /\ pc' = pc
    BY <1>17 DEF vars
  <2>2. QED
    BY <1>s, <2>1 DEF DuplicatesOnlyInBestClass
<1>18. QED
  BY <1>1, <1>2, <1>3, <1>4, <1>6, <1>7, <1>8, <1>9, <1>11, <1>12, <1>13, <1>14,
     <1>15, <1>16, <1>17 DEF Next, Running, Calls

(* The list is filtered to one band per class, but for the class of the    *)
(* last best band, whatever relation isEqual() is.                         *)
THEOREM DuplicatesOnlyInBestClassHolds == Spec => []DuplicatesOnlyInBestClass
<1>1. Init => DuplicatesOnlyInBestClass
  BY DEF Init, DuplicatesOnlyInBestClass
<1>2. DupInv /\ [Next]_vars => DupInv'
  BY TypeStep, DupStep DEF DupInv
<1>3. Init => DupInv
  BY <1>1, TypeInit DEF DupInv
<1>4. DupInv => DuplicatesOnlyInBestClass
  BY DEF DupInv
<1>5. QED
  BY <1>2, <1>3, <1>4, PTL DEF Spec

-----------------------------------------------------------------------------
(* The classes of the bands.                                               *)

(* No band that was given a class is without its entry. *)
Matched == Len(eqs) = IF pc = "analyze" THEN it - 1 ELSE Len(tebs)

Described ==
  pc # "renew" /\ Matched => \A i \in 1 .. Len(eqs) : eqs[i].cls = band[tebs[i]].cls

(* The lists come apart only when the best band's signature is not finite. *)
Exact == bestEq \notin Invalid => Matched

ClassInv == FollowInv /\ Sizes /\ Described /\ Exact

(* One leaf for the steps that touch neither the lists nor the classes. *)
LEMMA DescribedSame ==
  ASSUME ClassInv, tebs' = tebs, bestEq' = bestEq, Len(eqs') = Len(eqs),
         \A i \in 1 .. Len(eqs) : eqs'[i].cls = eqs[i].cls,
         \A t \in Tebs : band'[t].cls = band[t].cls,
         pc \notin {"renew", "analyze"}, pc' # "analyze"
  PROVE  Described' /\ Exact'
<1>1. /\ tebs \in Seq(Tebs) /\ Len(tebs) \in Nat /\ Matched' = Matched
      /\ (Matched <=> Len(eqs) = Len(tebs))
      /\ (Matched => \A i \in 1 .. Len(eqs) : eqs[i].cls = band[tebs[i]].cls)
  BY SizeTypes DEF ClassInv, FollowInv, Matched, Described
<1>2. \A i \in 1 .. Len(tebs) : tebs[i] \in Tebs
  BY <1>1, ElementOfSeq
<1>3. QED
  BY <1>1, <1>2 DEF ClassInv, Exact, Described

LEMMA DescribedErase ==
  ASSUME ClassInv, NEW k \in 1 .. Len(tebs), k \in 1 .. Len(eqs),
         band' = band, bestEq' = bestEq,
         tebs' = RemoveAt(tebs, k), eqs' = RemoveAt(eqs, k),
         pc \notin {"renew", "analyze"}, pc' # "analyze"
  PROVE  Described' /\ Exact'
<1>1. /\ tebs \in Seq(Tebs) /\ Len(tebs) \in Nat
      /\ eqs \in Seq(Entry) /\ Len(eqs) \in Nat
  BY SizeTypes DEF ClassInv, FollowInv
<1>2. /\ Len(tebs') = Len(tebs) - 1
      /\ \A j \in 1 .. Len(tebs) - 1 : tebs'[j] = IF j < k THEN tebs[j] ELSE tebs[j + 1]
  BY <1>1, RemoveAtProperties
<1>3. /\ Len(eqs') = Len(eqs) - 1
      /\ \A j \in 1 .. Len(eqs) - 1 : eqs'[j] = IF j < k THEN eqs[j] ELSE eqs[j + 1]
  BY <1>1, RemoveAtProperties
<1>m. Matched' = Matched /\ (Matched => Len(eqs) = Len(tebs))
  BY <1>1, <1>2, <1>3 DEF Matched
<1>d. Matched => \A i \in 1 .. Len(eqs) : eqs[i].cls = band[tebs[i]].cls
  BY DEF ClassInv, Described
<1>4. ASSUME Matched, NEW j \in 1 .. Len(tebs) - 1
      PROVE  eqs'[j].cls = band'[tebs'[j]].cls
  <2>1. CASE j < k
    <3>1. eqs'[j] = eqs[j] /\ tebs'[j] = tebs[j] /\ j \in 1 .. Len(tebs)
      BY <1>1, <1>2, <1>3, <1>m, <1>4, <2>1
    <3>2. QED
      BY <1>d, <1>m, <1>4, <3>1
  <2>2. CASE ~(j < k)
    <3>1. eqs'[j] = eqs[j + 1] /\ tebs'[j] = tebs[j + 1] /\ j + 1 \in 1 .. Len(tebs)
      BY <1>1, <1>2, <1>3, <1>m, <1>4, <2>2
    <3>2. QED
      BY <1>d, <1>m, <1>4, <3>1
  <2>3. QED
    BY <2>1, <2>2
<1>5. QED
  BY <1>3, <1>m, <1>4 DEF ClassInv, Exact, Described

LEMMA DescribedAdd ==
  ASSUME ClassInv, NEW c \in Classes, NEW lock \in BOOLEAN,
         AddBand(c, lock), bestEq' = bestEq,
         pc \notin {"renew", "analyze"}, pc' # "analyze"
  PROVE  Described' /\ Exact'
<1>1. /\ tebs \in Seq(Tebs) /\ Len(tebs) \in Nat
      /\ eqs \in Seq(Entry) /\ Len(eqs) \in Nat /\ band \in [Tebs -> BandData]
  BY SizeTypes DEF ClassInv, FollowInv, TypeOK
<1>2. /\ NewTeb \in Tebs /\ NewTeb \notin Listed
      /\ tebs' = Append(tebs, NewTeb) /\ eqs' = Append(eqs, [cls |-> c, lock |-> lock])
  BY AddBandSet, AddBandType DEF ClassInv, FollowInv
<1>3. [cls |-> c, lock |-> lock] \in Entry
  BY DEF Entry
<1>4. /\ Len(tebs') = Len(tebs) + 1 /\ Len(eqs') = Len(eqs) + 1
      /\ tebs'[Len(tebs) + 1] = NewTeb /\ eqs'[Len(eqs) + 1].cls = c
      /\ \A i \in 1 .. Len(tebs) : tebs'[i] = tebs[i]
      /\ \A i \in 1 .. Len(eqs) : eqs'[i] = eqs[i]
  BY <1>1, <1>2, <1>3, AppendProperties
<1>m. Matched' = Matched /\ (Matched => Len(eqs) = Len(tebs))
  BY <1>1, <1>4 DEF Matched
<1>d. Matched => \A i \in 1 .. Len(eqs) : eqs[i].cls = band[tebs[i]].cls
  BY DEF ClassInv, Described
<1>5. band'[NewTeb].cls = c /\ \A t \in Tebs : t # NewTeb => band'[t] = band[t]
  BY <1>1, <1>2 DEF AddBand, NewBand
<1>6. \A i \in 1 .. Len(tebs) : tebs[i] \in Tebs /\ tebs[i] # NewTeb
  BY <1>1, <1>2, ElementOfSeq DEF Listed, ToSet
<1>7. ASSUME Matched, NEW i \in 1 .. Len(tebs) + 1 PROVE eqs'[i].cls = band'[tebs'[i]].cls
  <2>1. CASE i \in 1 .. Len(tebs)
    BY <1>4, <1>5, <1>6, <1>7, <1>d, <1>m, <2>1
  <2>2. CASE i = Len(tebs) + 1
    BY <1>4, <1>5, <1>7, <1>m, <2>2
  <2>3. QED
    BY <1>1, <2>1, <2>2
<1>8. QED
  BY <1>4, <1>7, <1>m DEF ClassInv, Exact, Described

LEMMA ClassStep == ClassInv /\ [Next]_vars => Described' /\ Exact'
<1> SUFFICES ASSUME ClassInv, [Next]_vars PROVE Described' /\ Exact'
  OBVIOUS
<1> USE DEF lists, picks, eqRefs, Goto
<1>t. /\ tebs \in Seq(Tebs) /\ eqs \in Seq(Entry) /\ band \in [Tebs -> BandData]
      /\ Len(tebs) \in Nat /\ Len(eqs) \in Nat /\ it \in Nat \ {0}
      /\ TypeOK /\ Listed \subseteq Tebs
  BY SizeTypes, ListedType DEF ClassInv, FollowInv, TypeOK
<1>i. Distinct /\ BestFirst /\ Described /\ Exact /\ Sizes
  BY DEF ClassInv, FollowInv
<1>s. ASSUME tebs' = tebs, eqs' = eqs, bestEq' = bestEq, \A t \in Tebs : band'[t].cls = band[t].cls,
             pc \notin {"renew", "analyze"}, pc' # "analyze"
      PROVE  Described' /\ Exact'
  BY <1>s, DescribedSame
<1>1. ASSUME NEW c \in Classes, RenewBest(c) PROVE Described' /\ Exact'
  <2>1. CASE best \in Listed
    <3>1. PICK k \in 1 .. Len(tebs) :
            tebs[k] = best /\ tebs' = [tebs EXCEPT ![1] = tebs[k], ![k] = tebs[1]]
      <4>1. DOMAIN tebs = 1 .. Len(tebs)
        BY <1>t, LenProperties
      <4>2. QED
        BY <1>1, <2>1, <4>1 DEF RenewBest
    <3>2. tebs'[1] = best
      BY <1>t, <3>1, SwapProperties
    <3>3. /\ it' = 2 /\ pc' = "analyze" /\ bestEq' = c
          /\ eqs' = IF c \in Invalid THEN <<>> ELSE <<[cls |-> c, lock |-> FALSE]>>
          /\ band' = [band EXCEPT ![best].cls = c]
      BY <1>1, <2>1 DEF RenewBest
    <3>4. band'[best].cls = c
      BY <1>t, <2>1, <3>3 DEF BandData
    <3>5. CASE c \in Invalid
      <4>1. Len(eqs') = 0
        BY <3>3, <3>5
      <4>2. QED
        BY <3>3, <3>5, <4>1 DEF Described, Exact, Matched
    <3>6. CASE c \notin Invalid
      <4>1. Len(eqs') = 1 /\ eqs'[1].cls = c
        BY <3>3, <3>6
      <4>2. QED
        BY <3>2, <3>3, <3>4, <4>1 DEF Described, Exact, Matched
    <3>7. QED
      BY <3>5, <3>6
  <2>2. CASE best \notin Listed
    <3>1. Len(eqs') = 0 /\ it' = 1 /\ pc' = "analyze"
      BY <1>1, <2>2 DEF RenewBest
    <3>2. QED
      BY <3>1 DEF Described, Exact, Matched
  <2>3. QED
    BY <2>1, <2>2
<1>2. ASSUME NEW c \in Classes, AnalyzeTeb(c) PROVE Described' /\ Exact'
  <2>1. /\ pc = "analyze" /\ pc' = "analyze" /\ it \in 1 .. Len(tebs)
        /\ tebs[it] \in Tebs /\ bestEq' = bestEq
        /\ (Len(eqs) = it - 1 \/ Len(eqs) = it - 2)
        /\ (Matched <=> Len(eqs) = it - 1)
    BY <1>t, <1>i, <1>2, ElementOfSeq DEF AnalyzeTeb, Matched, Sizes
  <2>2. \A i \in 1 .. Len(eqs) : i < it /\ i \in 1 .. Len(tebs)
    BY <1>t, <2>1
  <2>3. \A i \in 1 .. Len(eqs) : tebs[i] # tebs[it] /\ tebs[i] \in Tebs
    BY <1>t, <1>i, <2>1, <2>2, ElementOfSeq DEF Distinct
  <2>4. /\ band'[tebs[it]].cls = c
        /\ \A t \in Tebs : t # tebs[it] => band'[t] = band[t]
    BY <1>t, <1>2, <2>1 DEF AnalyzeTeb, BandData
  <2>5. Matched => \A i \in 1 .. Len(eqs) : eqs[i].cls = band'[tebs[i]].cls
    BY <1>i, <2>1, <2>3, <2>4 DEF Described
  <2>6. CASE IsNew(c)
    <3>1. /\ eqs' = Append(eqs, [cls |-> c, lock |-> FALSE])
          /\ tebs' = tebs /\ it' = it + 1
      BY <1>2, <2>6 DEF AnalyzeTeb, Push
    <3>2. /\ Matched' = Matched
          /\ (Matched => /\ Len(eqs') = it /\ eqs'[it].cls = c
                         /\ \A i \in 1 .. it - 1 : eqs'[i] = eqs[i])
      <4>1. [cls |-> c, lock |-> FALSE] \in Entry
        BY DEF Entry
      <4>2. Matched => Len(eqs) + 1 = it
        BY <1>t, <2>1
      <4>3. /\ Len(eqs') = Len(eqs) + 1
            /\ eqs'[Len(eqs) + 1] = [cls |-> c, lock |-> FALSE]
            /\ \A i \in 1 .. Len(eqs) : eqs'[i] = eqs[i]
        BY <1>t, <3>1, <4>1, AppendProperties
      <4>4. Matched' = Matched
        BY <1>t, <2>1, <3>1, <4>3 DEF Matched
      <4>5. QED
        BY <1>t, <2>1, <4>2, <4>3, <4>4
    <3>3. ASSUME Matched, NEW i \in 1 .. it PROVE eqs'[i].cls = band'[tebs'[i]].cls
      <4>1. CASE i = it
        BY <2>4, <3>1, <3>2, <3>3, <4>1
      <4>2. CASE i # it
        <5>1. i \in 1 .. it - 1
          BY <1>t, <4>2
        <5>2. QED
          BY <2>1, <2>5, <3>1, <3>2, <3>3, <5>1
      <4>3. QED
        BY <4>1, <4>2
    <3>4. QED
      BY <1>i, <2>1, <3>1, <3>2, <3>3 DEF Described, Exact
  <2>7. CASE ~IsNew(c)
    <3>1. tebs' = RemoveAt(tebs, it) /\ eqs' = eqs /\ it' = it
      BY <1>2, <2>7 DEF AnalyzeTeb
    <3>2. \A i \in 1 .. Len(eqs) : i \in 1 .. Len(tebs) - 1
      BY <1>t, <2>1
    <3>3. \A i \in 1 .. Len(eqs) : tebs'[i] = tebs[i]
      BY <1>t, <2>1, <2>2, <3>1, <3>2, RemoveAtProperties
    <3>4. Matched' = Matched
      BY <2>1, <3>1 DEF Matched
    <3>5. QED
      BY <1>i, <2>1, <2>5, <3>1, <3>3, <3>4 DEF Described, Exact
  <2>8. QED
    BY <2>6, <2>7
<1>3. ASSUME NEW c \in Classes, AddInitialPlan(c) PROVE Described' /\ Exact'
  <2>1. pc = "initial" /\ pc' = "graph" /\ bestEq' = bestEq
    BY <1>t, <1>3 DEF AddInitialPlan, TypeOK
  <2>2. \/ AddBand(c, TRUE)
        \/ tebs' = tebs /\ eqs' = eqs /\ band' = band
    BY <1>3 DEF AddInitialPlan
  <2>3. QED
    BY <1>s, <2>1, <2>2, DescribedAdd
<1>4. ASSUME NEW c \in Classes, AddGraphPath(c) \/ AddStraightLine(c)
      PROVE  Described' /\ Exact'
  <2>1. pc = "graph" /\ pc' # "analyze" /\ bestEq' = bestEq
    BY <1>t, <1>4 DEF AddGraphPath, AddStraightLine, TypeOK
  <2>2. AddBand(c, FALSE) \/ AddBand(c, FALSE)
    BY <1>4 DEF AddGraphPath, AddStraightLine
  <2>3. QED
    BY <2>1, <2>2, DescribedAdd
<1>5. CASE AnalyzeDone
  <2>1. /\ pc = "analyze" /\ pc' \in {"drop", "detours"} /\ it > Len(tebs)
        /\ tebs' = tebs /\ eqs' = eqs /\ band' = band /\ bestEq' = bestEq
    BY <1>5 DEF AnalyzeDone
  <2>2. Matched' = Matched
    BY <1>t, <1>i, <2>1 DEF Matched, Sizes
  <2>3. QED
    BY <1>i, <2>1, <2>2 DEF Described, Exact
<1>6. ASSUME NEW b, RemoveTeb(b), band' = band, bestEq' = bestEq,
             pc \notin {"renew", "analyze"}, pc' # "analyze"
      PROVE  Described' /\ Exact'
  <2>1. \/ tebs' = tebs /\ eqs' = eqs
        \/ \E k \in 1 .. Len(tebs) :
             k \in 1 .. Len(eqs) /\ tebs' = RemoveAt(tebs, k) /\ eqs' = RemoveAt(eqs, k)
    BY <1>6, <1>t, RemoveTebType
  <2>2. QED
    BY <1>6, <1>s, <2>1, DescribedErase
<1>7. CASE DeleteDetour
  BY <1>6, <1>7 DEF DeleteDetour
<1>8. CASE JudgeInfeasible
  BY <1>6, <1>8 DEF JudgeInfeasible
<1>9. CASE DropTeb
  <2>1. /\ it \in 1 .. Len(tebs) /\ it \in 1 .. Len(eqs)
        /\ pc = "drop" /\ pc' = "drop" /\ band' = band /\ bestEq' = bestEq
    BY <1>t, <1>9 DEF DropTeb
  <2>2. \/ tebs' = tebs /\ eqs' = eqs
        \/ tebs' = RemoveAt(tebs, it) /\ eqs' = RemoveAt(eqs, it)
    BY <1>9 DEF DropTeb
  <2>3. QED
    BY <1>s, <2>1, <2>2, DescribedErase
<1>10. CASE FindInitialBand
  <2>1. /\ pc = "initial" /\ pc' = "graph" /\ bestEq' = bestEq
        /\ tebs' = tebs /\ band' = band /\ eqs' = Relocked
    BY <1>10 DEF FindInitialBand
  <2>2. QED
    BY <1>t, <2>1, InitialMatchType, DescribedSame
<1>11. ASSUME SelectBestTeb, tebs' = tebs, band' = band, bestEq' = bestEq,
              pc \notin {"renew", "analyze"}, pc' # "analyze"
       PROVE  Described' /\ Exact'
  BY <1>11, <1>t, SelectType, DescribedSame
<1>12. CASE Select
  BY <1>11, <1>12 DEF Select
<1>13. CASE FindBestTeb
  <2>1. /\ pc = "find" /\ pc' # "analyze"
        /\ tebs' = tebs /\ band' = band /\ bestEq' = bestEq
    BY <1>13 DEF FindBestTeb
  <2>2. SelectBestTeb \/ eqs' = eqs
    BY <1>13 DEF FindBestTeb
  <2>3. QED
    BY <1>11, <1>s, <2>1, <2>2
<1>14. ASSUME NEW p \in PlanModes, NEW r \in BOOLEAN,
              Plan(p, r /\ tebs # <<>>)
       PROVE  Described' /\ Exact'
  <2>1. pc = "idle" /\ pc' = "renew" /\ bestEq' = bestEq
        /\ ((tebs' = <<>> /\ eqs' = <<>>) \/ (tebs' = tebs /\ eqs' = eqs))
    BY <1>14 DEF Plan
  <2>2. QED
    BY <1>i, <2>1 DEF Described, Exact, Matched
<1>15. CASE ClearPlanner
  <2>1. pc' = "idle" /\ Len(tebs') = 0 /\ Len(eqs') = 0
    BY <1>15 DEF ClearPlanner
  <2>2. QED
    BY <2>1 DEF Described, Exact, Matched
<1>16. CASE SetViaPoints
  <2>1. /\ pc = "viapoints" /\ pc' = "optimize"
        /\ tebs' = tebs /\ eqs' = eqs /\ bestEq' = bestEq
    BY <1>16 DEF SetViaPoints
  <2>2. \A t \in Tebs : band'[t].cls = band[t].cls
    <3> SUFFICES ASSUME NEW t \in Tebs PROVE band'[t].cls = band[t].cls
      OBVIOUS
    <3>1. \A v : [band[t] EXCEPT !.via = v].cls = band[t].cls
      BY <1>t DEF BandData
    <3>2. QED
      BY <1>16, <3>1 DEF SetViaPoints
  <2>3. QED
    BY <1>s, <2>1, <2>2
<1>17. ASSUME NEW t \in Tebs, OptimizeTeb(t) PROVE Described' /\ Exact'
  <2>1. /\ pc = "optimize" /\ pc' = "optimize"
        /\ tebs' = tebs /\ eqs' = eqs /\ bestEq' = bestEq
    BY <1>17 DEF OptimizeTeb
  <2>2. \A u \in Tebs : band'[u].cls = band[u].cls
    <3>1. \A c : [band EXCEPT ![t].cost = c, ![t].optimized = TRUE][t].cls = band[t].cls
      BY <1>t DEF BandData
    <3>2. \A o : [band EXCEPT ![t].optimized = o][t].cls = band[t].cls
      BY <1>t DEF BandData
    <3>3. band'[t].cls = band[t].cls /\ \A u \in Tebs : u # t => band'[u] = band[u]
      BY <1>t, <1>17, <3>1, <3>2 DEF OptimizeTeb
    <3>4. QED
      BY <3>3
  <2>3. QED
    BY <1>s, <2>1, <2>2
<1>18. CASE \/ KeepPlan \/ DetoursDone \/ DropDone \/ GraphDone \/ SkipViaPoints
            \/ OptimizeDone \/ JudgeFeasible \/ CheckFeasible \/ GetVelocityCommand
  <2>1. /\ tebs' = tebs /\ eqs' = eqs /\ band' = band /\ bestEq' = bestEq
        /\ pc \notin {"renew", "analyze"} /\ pc' # "analyze"
    BY <1>18 DEF KeepPlan, DetoursDone, DropDone, GraphDone, SkipViaPoints,
      OptimizeDone, JudgeFeasible, CheckFeasible, GetVelocityCommand
  <2>2. QED
    BY <1>s, <2>1
<1>19. CASE UNCHANGED vars
  BY <1>i, <1>19 DEF vars, Described, Exact, Matched
<1>20. QED
  BY <1>1, <1>2, <1>3, <1>4, <1>5, <1>7, <1>8, <1>9, <1>10, <1>12, <1>13, <1>14,
     <1>15, <1>16, <1>17, <1>18, <1>19 DEF Next, Running, Calls

LEMMA ClassInvHolds == Spec => []ClassInv
<1>1. Init => Described /\ Exact /\ Distinct /\ BestFirst
  BY DEF Init, Described, Exact, Matched, Distinct, BestFirst
<1>2. Init => FollowInv
  BY <1>1, TypeInit DEF FollowInv
<1>3. FollowInv /\ [Next]_vars => FollowInv'
  BY TypeStep, FollowStep DEF FollowInv
<1>4. FollowInv /\ Sizes /\ Described /\ Exact /\ [Next]_vars => Described' /\ Exact'
  BY ClassStep DEF ClassInv
<1>5. SizeInv => Sizes
  BY DEF SizeInv
<1>6. FollowInv /\ Sizes /\ Described /\ Exact => ClassInv
  BY DEF ClassInv
<1>7. QED
  BY <1>1, <1>2, <1>3, <1>4, <1>5, <1>6, SizesHold, PTL DEF Spec

(* The entry at an index of equivalence_classes_ is the class of the band  *)
(* at that index of tebs_, and no band is without, unless the signature of *)
(* the best band was not finite when the classes were renewed.             *)
THEOREM ClassesDescribeBandsHold == Spec => []ClassesDescribeBands
<1>1. ClassInv => ClassesDescribeBands
  <2> SUFFICES ASSUME ClassInv, pc # "renew", bestEq \notin Invalid
               PROVE  /\ \A i \in DOMAIN eqs : eqs[i].cls = band[tebs[i]].cls
                      /\ pc # "analyze" => SizesMatch
    BY DEF ClassesDescribeBands
  <2>1. DOMAIN eqs = 1 .. Len(eqs)
    BY SizeTypes, LenProperties DEF ClassInv, FollowInv
  <2>2. QED
    BY <2>1 DEF ClassInv, Described, Exact, Matched, SizesMatch
<1>2. QED
  BY <1>1, ClassInvHolds, PTL

(* Until via-points are assigned, the class of an initial plan the list    *)
(* had room for is the cached one.                                         *)
GivenKept == given.room => given.cls = initEq

LEMMA GivenKeptStep == TypeOK /\ GivenKept /\ [Next]_vars => GivenKept'
<1> SUFFICES ASSUME TypeOK, GivenKept, [Next]_vars PROVE GivenKept'
  OBVIOUS
<1> USE DEF GivenKept
<1>1. ASSUME NEW c \in Classes, AddInitialPlan(c) PROVE GivenKept'
  <2>1. given' = [cls |-> c, room |-> Len(tebs) < MaxClasses]
    BY <1>1 DEF AddInitialPlan
  <2>2. CASE Len(tebs) >= MaxClasses
    <3>1. given'.room = (Len(tebs) < MaxClasses)
      BY <2>1
    <3>2. ~(Len(tebs) < MaxClasses)
      BY <2>2, SizeTypes
    <3>3. QED
      BY <3>1, <3>2
  <2>3. CASE ~(Len(tebs) >= MaxClasses)
    BY <1>1, <2>1, <2>3 DEF AddInitialPlan
  <2>4. QED
    BY <2>2, <2>3
<1>2. CASE SkipViaPoints \/ SetViaPoints
  <2>1. given' = NotGiven
    BY <1>2 DEF SkipViaPoints, SetViaPoints
  <2>2. QED
    BY <2>1 DEF NotGiven
<1>3. ASSUME given' = given, initEq' = initEq PROVE GivenKept'
  BY <1>3
<1>4. ASSUME NEW c \in Classes,
             RenewBest(c) \/ AnalyzeTeb(c) \/ AddGraphPath(c) \/ AddStraightLine(c)
      PROVE  GivenKept'
  BY <1>3, <1>4 DEF RenewBest, AnalyzeTeb, AddGraphPath, AddStraightLine, eqRefs
<1>5. CASE \/ AnalyzeDone \/ KeepPlan \/ DeleteDetour \/ DetoursDone
           \/ DropTeb \/ DropDone \/ FindInitialBand \/ GraphDone
  BY <1>3, <1>5 DEF AnalyzeDone, KeepPlan, DeleteDetour, DetoursDone, DropTeb,
    DropDone, FindInitialBand, GraphDone, eqRefs
<1>6. CASE \/ OptimizeDone \/ Select \/ FindBestTeb \/ JudgeFeasible
           \/ JudgeInfeasible \/ CheckFeasible \/ GetVelocityCommand \/ ClearPlanner
           \/ \E t \in Tebs : OptimizeTeb(t)
  BY <1>3, <1>6 DEF OptimizeDone, Select, FindBestTeb, JudgeFeasible,
    JudgeInfeasible, CheckFeasible, GetVelocityCommand, ClearPlanner, OptimizeTeb, eqRefs
<1>7. ASSUME NEW p, NEW r, Plan(p, r) PROVE GivenKept'
  BY <1>3, <1>7 DEF Plan, eqRefs
<1>8. CASE UNCHANGED vars
  BY <1>3, <1>8 DEF vars
<1>9. QED
  BY <1>1, <1>2, <1>4, <1>5, <1>6, <1>7, <1>8 DEF Next, Running, Calls

(* When the list had room for a band of this call's initial plan, via-     *)
(* points go to the bands whose own trajectory is in the class of that     *)
(* plan, and to no other, whatever signatures there are.  With a full list *)
(* the class is an older plan's, and nothing is claimed.                   *)
THEOREM ViaPointsFollowInitialClassHolds == Spec => ViaPointsFollowInitialClass
<1> DEFINE Follow ==
      pc = "viapoints" /\ band' # band /\ given.room =>
        \A t \in Listed : band'[t].via = (ViaAll \/ IsEqual(given.cls, band[t].cls))
<1>1. ASSUME ClassInv, GivenKept, [Next]_vars
      PROVE  Follow
  <2> SUFFICES ASSUME pc = "viapoints", band' # band, given.room, NEW t \in Listed
               PROVE  band'[t].via = (ViaAll \/ IsEqual(given.cls, band[t].cls))
    OBVIOUS
  <2>1. SetViaPoints
    BY <1>1 DEF Next, Running, Calls, vars, lists, picks, eqRefs, Plan, RenewBest,
      AnalyzeTeb, AnalyzeDone, KeepPlan, DeleteDetour, DetoursDone, DropTeb, DropDone,
      AddInitialPlan, FindInitialBand, AddGraphPath, AddStraightLine, GraphDone,
      SkipViaPoints, OptimizeTeb, OptimizeDone, Select, CheckFeasible, FindBestTeb,
      JudgeFeasible, JudgeInfeasible, GetVelocityCommand, ClearPlanner
  <2>2. given.cls = initEq
    BY <1>1 DEF GivenKept
  <2>3. Len(eqs) = Len(tebs)
    <3>1. Len(eqs) <= Len(tebs) /\ Len(eqs) >= Len(tebs)
      BY <1>1, <2>1 DEF ClassInv, Sizes, SetViaPoints
    <3>2. QED
      BY <1>1, <3>1, SizeTypes DEF ClassInv, FollowInv
  <2>4. /\ t \in Tebs /\ band \in [Tebs -> BandData]
        /\ \E i \in DOMAIN tebs : tebs[i] = t
        /\ DOMAIN tebs = 1 .. Len(eqs)
    BY <1>1, <2>3, ListedType, SizeTypes, LenProperties
    DEF ClassInv, FollowInv, TypeOK, Listed, ToSet
  <2>5. \A i \in DOMAIN tebs : tebs[i] = t => eqs[i].cls = band[t].cls
    BY <1>1, <2>3, <2>4 DEF ClassInv, Described, Matched
  <2> DEFINE v == ViaAll \/ \E i \in DOMAIN tebs : tebs[i] = t /\ IsEqual(initEq, eqs[i].cls)
  <2>6. band'[t] = [band[t] EXCEPT !.via = v]
    BY <2>1, <2>4 DEF SetViaPoints
  <2>7. v = (ViaAll \/ IsEqual(given.cls, band[t].cls))
    BY <2>2, <2>4, <2>5, Zenon
  <2> HIDE DEF v
  <2>8. band'[t].via = v
    BY <2>4, <2>6 DEF BandData
  <2>9. QED
    BY <2>7, <2>8
<1>2. Init => GivenKept
  BY DEF Init, GivenKept, NotGiven
<1>3. ClassInv /\ GivenKept /\ [Next]_vars => [Follow]_vars
  BY <1>1
<1>4. QED
  BY <1>2, <1>3, ClassInvHolds, GivenKeptStep, TypeCorrect, PTL
  DEF Spec, ViaPointsFollowInitialClass

-----------------------------------------------------------------------------
(* How many bands share the class of the best one.                         *)

(* How many bands may repeat a class, how many may be in the last best     *)
(* class, and is that class itself in the list.                            *)
RepeatLimit == IF plansPerClass < 0 THEN 0 ELSE plansPerClass
Limit       == IF plansPerClass < 1 THEN 1 ELSE plansPerClass
BestListed  == \E i \in DOMAIN eqs : eqs[i].cls = bestEq

LimitInv == DupInv /\ BestClassLimited

(* All EquivalenceClass classes compare symmetrically: HSignature within a *)
(* tolerance, HSignature3d per obstacle, and only where both are above a   *)
(* threshold.                                                              *)
EqualIsSymmetric == \A c, d \in Classes : IsEqual(c, d) => IsEqual(d, c)

LEMMA CountFinite ==
  ASSUME TypeOK
  PROVE  /\ IsFiniteSet(InBestClass) /\ NumTebsInBestTebClass \in Nat
         /\ InBestClass = {i \in 1 .. Len(eqs) : IsInBestTebClass(eqs[i].cls)}
         /\ IsFiniteSet(Repeated) /\ Cardinality(Repeated) \in Nat
<1>1. DOMAIN eqs = 1 .. Len(eqs) /\ Len(eqs) \in Nat
  BY SizeTypes, LenProperties
<1>2. InBestClass \in SUBSET (1 .. Len(eqs)) /\ Repeated \in SUBSET (1 .. Len(eqs))
  BY <1>1 DEF InBestClass, Repeated
<1>3. IsFiniteSet(InBestClass) /\ IsFiniteSet(Repeated)
  <2>1. IsFiniteSet(1 .. Len(eqs))
    BY <1>1, FS_Interval
  <2>2. QED
    BY <1>2, <2>1, FS_Subset
<1>4. QED
  BY <1>1, <1>3, FS_CardinalityType DEF InBestClass, NumTebsInBestTebClass

(* A band that repeats a class is in the last best one. *)
LEMMA RepeatedInBest ==
  ASSUME DupInv, pc # "renew"
  PROVE  Cardinality(Repeated) <= NumTebsInBestTebClass
<1>1. Repeated \in SUBSET InBestClass
  BY DEF DupInv, DuplicatesOnlyInBestClass, Repeated, InBestClass
<1>2. QED
  BY <1>1, CountFinite, FS_Subset DEF DupInv, NumTebsInBestTebClass

(* Erasing an entry adds to neither count. *)
LEMMA CountErase ==
  ASSUME TypeOK, bestEq' = bestEq, NEW k \in 1 .. Len(eqs), eqs' = RemoveAt(eqs, k)
  PROVE  /\ NumTebsInBestTebClass' \in Nat
         /\ NumTebsInBestTebClass' <= NumTebsInBestTebClass
         /\ Cardinality(Repeated') \in Nat
         /\ Cardinality(Repeated') <= Cardinality(Repeated)
         /\ BestListed' => BestListed
<1> DEFINE at(n) == IF n < k THEN n ELSE n + 1
           f == [i \in InBestClass' |-> at(i)]
           g == [i \in Repeated' |-> at(i)]
<1>0. eqs \in Seq(Entry) /\ Len(eqs) \in Nat
  BY SizeTypes
<1>1. /\ Len(eqs') = Len(eqs) - 1 /\ eqs' \in Seq(Entry)
      /\ \A j \in 1 .. Len(eqs) - 1 : eqs'[j] = eqs[at(j)]
  BY <1>0, RemoveAtProperties
<1>d. DOMAIN eqs' = 1 .. Len(eqs) - 1 /\ DOMAIN eqs = 1 .. Len(eqs)
  BY <1>0, <1>1, LenProperties
<1>2. InBestClass' = {i \in 1 .. Len(eqs) - 1 : IsInBestTebClass(eqs[at(i)].cls)}
  <2>1. InBestClass' = {i \in DOMAIN eqs' : IsInBestTebClass(eqs'[i].cls)}
    BY DEF InBestClass, IsInBestTebClass
  <2> HIDE DEF at
  <2>2. QED
    BY <1>1, <1>d, <2>1
<1>3. \A i \in 1 .. Len(eqs) - 1 : at(i) \in 1 .. Len(eqs)
  BY <1>0
<1>4. \A i, j \in 1 .. Len(eqs) - 1 :
        (at(i) = at(j) => i = j) /\ (i < j => at(i) < at(j))
  BY <1>0
<1> HIDE DEF at
<1>5. \A i \in InBestClass' : at(i) \in InBestClass
  BY <1>2, <1>3, CountFinite
<1>6. f \in Injection(InBestClass', InBestClass)
  BY <1>2, <1>4, <1>5 DEF Injection, IsInjective
<1>7. /\ IsFiniteSet(InBestClass')
      /\ Cardinality(InBestClass') <= Cardinality(InBestClass)
  BY <1>6, CountFinite, FS_Injection
<1>8. Repeated' \subseteq 1 .. Len(eqs) - 1
  BY <1>d DEF Repeated
<1>9. ASSUME NEW j \in Repeated' PROVE at(j) \in Repeated
  <2>1. PICK i \in 1 .. Len(eqs) - 1 : i < j /\ IsEqual(eqs'[j].cls, eqs'[i].cls)
    BY <1>d, <1>9 DEF Repeated
  <2>2. /\ at(i) \in DOMAIN eqs /\ at(j) \in DOMAIN eqs /\ at(i) < at(j)
        /\ IsEqual(eqs[at(j)].cls, eqs[at(i)].cls)
    BY <1>1, <1>3, <1>4, <1>8, <1>d, <2>1
  <2>3. QED
    BY <2>2 DEF Repeated
<1>10. g \in Injection(Repeated', Repeated)
  BY <1>4, <1>8, <1>9 DEF Injection, IsInjective
<1>11. /\ IsFiniteSet(Repeated')
       /\ Cardinality(Repeated') <= Cardinality(Repeated)
  BY <1>10, CountFinite, FS_Injection
<1>12. BestListed' => BestListed
  BY <1>1, <1>3, <1>d DEF BestListed
<1>13. QED
  BY <1>7, <1>11, <1>12, FS_CardinalityType DEF NumTebsInBestTebClass

LEMMA CountSame ==
  ASSUME TypeOK, bestEq' = bestEq, eqs' \in Seq(Entry), Len(eqs') = Len(eqs),
         \A i \in 1 .. Len(eqs) : eqs'[i].cls = eqs[i].cls
  PROVE  /\ NumTebsInBestTebClass' = NumTebsInBestTebClass
         /\ Repeated' = Repeated
         /\ BestListed' = BestListed
<1>1. DOMAIN eqs = 1 .. Len(eqs) /\ DOMAIN eqs' = 1 .. Len(eqs)
  BY LenProperties DEF TypeOK
<1>2. InBestClass' = InBestClass
  BY <1>1 DEF InBestClass, IsInBestTebClass
<1>3. Repeated' = Repeated
  <2>1. Repeated' = {j \in DOMAIN eqs' : \E i \in DOMAIN eqs' :
                       i < j /\ IsEqual(eqs'[j].cls, eqs'[i].cls)}
    BY DEF Repeated, IsEqual
  <2>2. Repeated = {j \in DOMAIN eqs : \E i \in DOMAIN eqs :
                      i < j /\ IsEqual(eqs[j].cls, eqs[i].cls)}
    BY DEF Repeated
  <2>3. \A j \in DOMAIN eqs : eqs'[j].cls = eqs[j].cls /\ DOMAIN eqs' = DOMAIN eqs
    BY <1>1
  <2>4. \A j \in DOMAIN eqs : j \in Repeated' <=> j \in Repeated
    BY <1>1, <2>1, <2>2, <2>3, Zenon
  <2>5. Repeated' \subseteq DOMAIN eqs /\ Repeated \subseteq DOMAIN eqs
    BY <1>1, <2>1, <2>2
  <2>6. QED
    BY <2>4, <2>5
<1>4. BestListed' = BestListed
  BY <1>1 DEF BestListed
<1>5. QED
  BY <1>2, <1>3, <1>4 DEF NumTebsInBestTebClass

(* What addEquivalenceClassIfNew() pushes keeps both limits. *)
LEMMA CountPush ==
  ASSUME EqualIsSymmetric, LimitInv, pc # "renew", bestEq' = bestEq,
         NEW c \in Classes, NEW lock \in BOOLEAN, IsNew(c),
         eqs' = Append(eqs, [cls |-> c, lock |-> lock])
  PROVE  /\ Cardinality(Repeated') <= RepeatLimit
         /\ BestListed' => NumTebsInBestTebClass' <= Limit
<1>0. /\ TypeOK /\ eqs \in Seq(Entry) /\ Len(eqs) \in Nat
      /\ [cls |-> c, lock |-> lock] \in Entry /\ plansPerClass \in Int
      /\ NumTebsInBestTebClass \in Nat /\ Cardinality(Repeated) \in Nat
      /\ IsFiniteSet(InBestClass) /\ IsFiniteSet(Repeated)
      /\ bestEq \in Classes \cup {None}
  BY SizeTypes, CountFinite, ConstantsOK DEF LimitInv, DupInv, Entry, TypeOK
<1>l. /\ Cardinality(Repeated) <= RepeatLimit
      /\ BestListed => NumTebsInBestTebClass <= Limit
      /\ Cardinality(Repeated) <= NumTebsInBestTebClass
  BY RepeatedInBest DEF LimitInv, BestClassLimited, RepeatLimit, Limit, BestListed
<1>1. /\ Len(eqs') = Len(eqs) + 1 /\ eqs' \in Seq(Entry)
      /\ eqs'[Len(eqs) + 1].cls = c
      /\ \A j \in 1 .. Len(eqs) : eqs'[j] = eqs[j]
  BY <1>0, AppendProperties
<1>2. DOMAIN eqs = 1 .. Len(eqs) /\ DOMAIN eqs' = 1 .. Len(eqs) + 1
  BY <1>0, <1>1, LenProperties
<1>3. Cardinality(Repeated') <= RepeatLimit
  <2>1. Repeated' \subseteq Repeated \cup {Len(eqs) + 1}
    <3> SUFFICES ASSUME NEW j \in Repeated', j # Len(eqs) + 1 PROVE j \in Repeated
      OBVIOUS
    <3>1. j \in 1 .. Len(eqs) + 1
          /\ \E i \in 1 .. Len(eqs) + 1 : i < j /\ IsEqual(eqs'[j].cls, eqs'[i].cls)
      BY <1>2 DEF Repeated, IsEqual
    <3>2. PICK i \in 1 .. Len(eqs) + 1 : i < j /\ IsEqual(eqs'[j].cls, eqs'[i].cls)
      BY <3>1
    <3>3. i \in 1 .. Len(eqs) /\ j \in 1 .. Len(eqs)
      BY <1>0, <3>1, <3>2
    <3>4. QED
      BY <1>1, <1>2, <3>2, <3>3 DEF Repeated
  <2>2. CASE HasEquivalenceClass(c)
    <3>1. NumTebsInBestTebClass < plansPerClass
      BY <2>2 DEF IsNew
    <3>2. Len(eqs) + 1 \notin Repeated
      BY <1>0, <1>2 DEF Repeated
    <3>3. /\ IsFiniteSet(Repeated \cup {Len(eqs) + 1})
          /\ Cardinality(Repeated \cup {Len(eqs) + 1}) = Cardinality(Repeated) + 1
      BY <1>0, <3>2, FS_AddElement
    <3>4. /\ IsFiniteSet(Repeated')
          /\ Cardinality(Repeated') <= Cardinality(Repeated) + 1
      BY <2>1, <3>3, FS_Subset
    <3>5. Cardinality(Repeated') \in Nat
      BY <3>4, FS_CardinalityType
    <3>6. QED
      BY <1>0, <1>l, <3>1, <3>4, <3>5 DEF RepeatLimit
  <2>3. CASE ~HasEquivalenceClass(c)
    <3>1. Len(eqs) + 1 \notin Repeated'
      <4> SUFFICES ASSUME Len(eqs) + 1 \in Repeated' PROVE FALSE
        OBVIOUS
      <4>1. PICK i \in 1 .. Len(eqs) + 1 :
              i < Len(eqs) + 1 /\ IsEqual(eqs'[Len(eqs) + 1].cls, eqs'[i].cls)
        BY <1>2 DEF Repeated, IsEqual
      <4>2. i \in 1 .. Len(eqs) /\ IsEqual(c, eqs[i].cls)
        BY <1>0, <1>1, <4>1
      <4>3. QED
        BY <1>2, <2>3, <4>2 DEF HasEquivalenceClass
    <3>2. Repeated' \in SUBSET Repeated
      BY <2>1, <3>1
    <3>3. IsFiniteSet(Repeated') /\ Cardinality(Repeated') <= Cardinality(Repeated)
      BY <1>0, <3>2, FS_Subset
    <3>4. Cardinality(Repeated') \in Nat
      BY <3>3, FS_CardinalityType
    <3>5. QED
      BY <1>0, <1>l, <3>3, <3>4 DEF RepeatLimit
  <2>4. QED
    BY <2>2, <2>3
<1>4. InBestClass' = {i \in DOMAIN eqs' : IsInBestTebClass(eqs'[i].cls)}
  BY DEF InBestClass, IsInBestTebClass
<1>5. InBestClass = {i \in 1 .. Len(eqs) : IsInBestTebClass(eqs[i].cls)}
  BY <1>0, CountFinite
<1>6. BestListed' => BestListed \/ c = bestEq
  <2> SUFFICES ASSUME BestListed', c # bestEq PROVE BestListed
    OBVIOUS
  <2>1. PICK i \in 1 .. Len(eqs) + 1 : eqs'[i].cls = bestEq
    BY <1>2 DEF BestListed
  <2>2. i \in 1 .. Len(eqs) /\ eqs[i].cls = bestEq
    BY <1>0, <1>1, <2>1
  <2>3. QED
    BY <1>2, <2>2 DEF BestListed
<1>7. ASSUME ~HasEquivalenceClass(c), c = bestEq PROVE NumTebsInBestTebClass = 0
  <2>1. \A i \in InBestClass : FALSE
    BY <1>2, <1>5, <1>7 DEF HasEquivalenceClass, IsInBestTebClass
  <2>2. InBestClass = {}
    BY <2>1
  <2>3. QED
    BY <2>2, FS_EmptySet DEF NumTebsInBestTebClass
<1>8. CASE ~IsInBestTebClass(c)
  <2>1. InBestClass' = InBestClass
    BY <1>0, <1>1, <1>2, <1>4, <1>5, <1>8
  <2>2. NumTebsInBestTebClass' = NumTebsInBestTebClass
    BY <2>1 DEF NumTebsInBestTebClass
  <2>3. ~HasEquivalenceClass(c)
    BY <1>8 DEF IsNew
  <2>4. QED
    BY <1>0, <1>3, <1>6, <1>7, <1>l, <2>2, <2>3 DEF Limit
<1>9. CASE IsInBestTebClass(c)
  <2>1. InBestClass' = InBestClass \cup {Len(eqs) + 1}
    BY <1>0, <1>1, <1>2, <1>4, <1>5, <1>9
  <2>2. Len(eqs) + 1 \notin InBestClass
    BY <1>0, <1>5
  <2>3. NumTebsInBestTebClass' = NumTebsInBestTebClass + 1
    BY <1>0, <2>1, <2>2, FS_AddElement DEF NumTebsInBestTebClass
  <2>4. CASE HasEquivalenceClass(c)
    BY <1>0, <1>3, <2>3, <2>4 DEF IsNew, Limit
  <2>5. CASE ~HasEquivalenceClass(c)
    <3>1. ~BestListed
      <4> SUFFICES ASSUME BestListed PROVE FALSE
        OBVIOUS
      <4>1. PICK i \in DOMAIN eqs : eqs[i].cls = bestEq
        BY DEF BestListed
      <4>2. bestEq \in Classes /\ IsEqual(bestEq, c)
        BY <1>0, <1>9 DEF IsInBestTebClass
      <4>3. IsEqual(c, eqs[i].cls)
        BY <4>1, <4>2 DEF EqualIsSymmetric
      <4>4. QED
        BY <2>5, <4>1, <4>3 DEF HasEquivalenceClass
    <3>2. QED
      BY <1>0, <1>3, <1>6, <1>7, <2>3, <2>5, <3>1 DEF Limit
  <2>6. QED
    BY <2>4, <2>5
<1>10. QED
  BY <1>8, <1>9

LEMMA LimitStep ==
  ASSUME EqualIsSymmetric
  PROVE  LimitInv /\ [Next]_vars => BestClassLimited'
<1> SUFFICES ASSUME LimitInv, [Next]_vars PROVE BestClassLimited'
  OBVIOUS
<1> USE DEF lists, picks, eqRefs, Goto
<1>t. /\ TypeOK /\ eqs \in Seq(Entry) /\ Len(eqs) \in Nat /\ it \in Nat \ {0}
      /\ Len(tebs) \in Nat /\ plansPerClass \in Int
      /\ NumTebsInBestTebClass \in Nat /\ Limit \in Nat /\ Limit >= 1
      /\ Cardinality(Repeated) \in Nat /\ RepeatLimit \in Nat
  BY SizeTypes, CountFinite, ConstantsOK DEF LimitInv, DupInv, TypeOK, Limit, RepeatLimit
<1>p. plansPerClass' = plansPerClass
  <2>1. ASSUME NEW c \in Classes,
               \/ RenewBest(c) \/ AnalyzeTeb(c)
               \/ AddInitialPlan(c) \/ AddGraphPath(c) \/ AddStraightLine(c)
        PROVE  plansPerClass' = plansPerClass
    BY <2>1 DEF RenewBest, AnalyzeTeb, AddInitialPlan, AddGraphPath, AddStraightLine
  <2>2. ASSUME \/ AnalyzeDone \/ KeepPlan \/ DeleteDetour \/ DetoursDone
               \/ DropTeb \/ DropDone \/ FindInitialBand \/ GraphDone
               \/ SkipViaPoints \/ SetViaPoints \/ OptimizeDone \/ Select
               \/ FindBestTeb \/ JudgeFeasible \/ JudgeInfeasible
               \/ CheckFeasible \/ GetVelocityCommand \/ ClearPlanner
               \/ \E t \in Tebs : OptimizeTeb(t)
        PROVE  plansPerClass' = plansPerClass
    BY <2>2 DEF AnalyzeDone, KeepPlan, DeleteDetour, DetoursDone, DropTeb, DropDone,
      FindInitialBand, GraphDone, SkipViaPoints, SetViaPoints, OptimizeDone, Select,
      FindBestTeb, JudgeFeasible, JudgeInfeasible, CheckFeasible, GetVelocityCommand,
      ClearPlanner, OptimizeTeb
  <2>3. ASSUME NEW p, NEW f, NEW r, Plan(p, r) PROVE plansPerClass' = plansPerClass
    BY <2>3 DEF Plan
  <2>4. QED
    BY <2>1, <2>2, <2>3 DEF Next, Running, Calls, vars
<1>l. ASSUME Cardinality(Repeated') <= RepeatLimit,
             BestListed' => NumTebsInBestTebClass' <= Limit
      PROVE  BestClassLimited'
  BY <1>l, <1>p DEF BestClassLimited, Limit, RepeatLimit, BestListed
<1>b. pc # "renew" => /\ Cardinality(Repeated) <= RepeatLimit
                      /\ BestListed => NumTebsInBestTebClass <= Limit
  BY DEF LimitInv, BestClassLimited, Limit, RepeatLimit, BestListed
<1>c. ASSUME pc # "renew", bestEq' = bestEq, eqs' \in Seq(Entry), Len(eqs') = Len(eqs),
             \A i \in 1 .. Len(eqs) : eqs'[i].cls = eqs[i].cls
      PROVE  BestClassLimited'
  <2>1. /\ NumTebsInBestTebClass' = NumTebsInBestTebClass
        /\ Repeated' = Repeated /\ BestListed' = BestListed
    BY <1>c, <1>t, CountSame
  <2>2. QED
    BY <1>b, <1>c, <1>l, <2>1
<1>s. ASSUME pc # "renew", bestEq' = bestEq, eqs' = eqs PROVE BestClassLimited'
  BY <1>c, <1>s, <1>t
<1>e. ASSUME pc # "renew", bestEq' = bestEq, NEW k \in 1 .. Len(eqs),
             eqs' = RemoveAt(eqs, k)
      PROVE  BestClassLimited'
  <2>1. /\ NumTebsInBestTebClass' \in Nat
        /\ NumTebsInBestTebClass' <= NumTebsInBestTebClass
        /\ Cardinality(Repeated') \in Nat
        /\ Cardinality(Repeated') <= Cardinality(Repeated)
        /\ BestListed' => BestListed
    BY <1>e, <1>t, CountErase
  <2>2. Cardinality(Repeated') <= RepeatLimit
    BY <1>b, <1>e, <1>t, <2>1
  <2>3. BestListed' => NumTebsInBestTebClass' <= Limit
    BY <1>b, <1>e, <1>t, <2>1
  <2>4. QED
    BY <1>l, <2>2, <2>3
<1>z. ASSUME \A i \in DOMAIN eqs' : i = 1 PROVE BestClassLimited'
  <2>1. Repeated' = {} /\ InBestClass' \in SUBSET {1}
    BY <1>z DEF Repeated, InBestClass
  <2>2. IsFiniteSet({1}) /\ Cardinality({1}) = 1
    BY FS_Singleton
  <2>3. IsFiniteSet(InBestClass') /\ Cardinality(InBestClass') <= 1
    BY <2>1, <2>2, FS_Subset
  <2>4. Cardinality(InBestClass') \in Nat /\ Cardinality({}) = 0
    BY <2>3, FS_CardinalityType, FS_EmptySet
  <2>5. Cardinality(Repeated') <= RepeatLimit
    BY <1>t, <2>1, <2>4
  <2>6. NumTebsInBestTebClass' <= Limit
    BY <1>t, <2>3, <2>4 DEF NumTebsInBestTebClass
  <2>7. QED
    BY <1>l, <2>5, <2>6
<1>1. ASSUME NEW c \in Classes, RenewBest(c) PROVE BestClassLimited'
  <2>1. eqs' = <<>> \/ eqs' = <<[cls |-> c, lock |-> FALSE]>>
    BY <1>1 DEF RenewBest
  <2>2. \A i \in DOMAIN eqs' : i = 1
    BY <2>1
  <2>3. QED
    BY <1>z, <2>2
<1>2. ASSUME NEW c \in Classes, AnalyzeTeb(c) PROVE BestClassLimited'
  <2>1. pc = "analyze" /\ bestEq' = bestEq
    BY <1>2 DEF AnalyzeTeb
  <2>2. (IsNew(c) /\ eqs' = Append(eqs, [cls |-> c, lock |-> FALSE])) \/ eqs' = eqs
    BY <1>2 DEF AnalyzeTeb, Push
  <2>3. QED
    BY <1>l, <1>s, <2>1, <2>2, CountPush
<1>3. ASSUME NEW c \in Classes, AddInitialPlan(c) PROVE BestClassLimited'
  <2>1. pc = "initial" /\ bestEq' = bestEq
    BY <1>3 DEF AddInitialPlan
  <2>2. (IsNew(c) /\ eqs' = Append(eqs, [cls |-> c, lock |-> TRUE])) \/ eqs' = eqs
    BY <1>3 DEF AddInitialPlan, AddBand, Push
  <2>3. QED
    BY <1>l, <1>s, <2>1, <2>2, CountPush
<1>4. ASSUME NEW c \in Classes, AddGraphPath(c) \/ AddStraightLine(c)
      PROVE  BestClassLimited'
  <2>1. /\ pc = "graph" /\ bestEq' = bestEq /\ IsNew(c)
        /\ eqs' = Append(eqs, [cls |-> c, lock |-> FALSE])
    BY <1>4 DEF AddGraphPath, AddStraightLine, AddBand, Push
  <2>2. QED
    BY <1>l, <2>1, CountPush
<1>5. ASSUME NEW b, RemoveTeb(b), pc # "renew", bestEq' = bestEq
      PROVE  BestClassLimited'
  <2>1. eqs' = eqs \/ \E k \in 1 .. Len(eqs) : eqs' = RemoveAt(eqs, k)
    BY <1>5, <1>t, RemoveTebType
  <2>2. QED
    BY <1>5, <1>s, <2>1, <1>e
<1>6. CASE DeleteDetour
  BY <1>5, <1>6 DEF DeleteDetour
<1>7. CASE JudgeInfeasible
  BY <1>5, <1>7 DEF JudgeInfeasible
<1>8. CASE DropTeb
  <2>1. it \in 1 .. Len(eqs) /\ pc = "drop" /\ bestEq' = bestEq
    BY <1>t, <1>8 DEF DropTeb
  <2>2. eqs' = eqs \/ eqs' = RemoveAt(eqs, it)
    BY <1>8 DEF DropTeb
  <2>3. QED
    BY <1>s, <2>1, <2>2, <1>e
<1>9. CASE FindInitialBand
  <2>1. pc = "initial" /\ bestEq' = bestEq /\ eqs' = Relocked
    BY <1>9 DEF FindInitialBand
  <2>2. QED
    BY <1>c, <1>t, <2>1, InitialMatchType
<1>10. ASSUME SelectBestTeb, pc # "renew", bestEq' = bestEq
       PROVE  BestClassLimited'
  BY <1>c, <1>10, <1>t, SelectType
<1>11. CASE Select
  BY <1>10, <1>11 DEF Select
<1>12. CASE FindBestTeb
  <2>1. pc = "find" /\ bestEq' = bestEq /\ (SelectBestTeb \/ eqs' = eqs)
    BY <1>12 DEF FindBestTeb
  <2>2. QED
    BY <1>10, <1>s, <2>1
<1>13. ASSUME NEW p \in PlanModes, NEW r \in BOOLEAN,
              Plan(p, r /\ tebs # <<>>)
       PROVE  BestClassLimited'
  <2>1. pc' = "renew"
    BY <1>13 DEF Plan
  <2>2. QED
    BY <2>1 DEF BestClassLimited
<1>14. CASE ClearPlanner
  <2>1. \A i \in DOMAIN eqs' : i = 1
    BY <1>14 DEF ClearPlanner
  <2>2. QED
    BY <1>z, <2>1
<1>15. CASE \/ AnalyzeDone \/ KeepPlan \/ DetoursDone \/ DropDone
            \/ GraphDone \/ SkipViaPoints \/ SetViaPoints \/ OptimizeDone
            \/ JudgeFeasible \/ CheckFeasible \/ GetVelocityCommand
  <2>1. eqs' = eqs /\ bestEq' = bestEq /\ pc # "renew"
    BY <1>15 DEF AnalyzeDone, KeepPlan, DetoursDone, DropDone, GraphDone,
      SkipViaPoints, SetViaPoints, OptimizeDone, JudgeFeasible, CheckFeasible,
      GetVelocityCommand
  <2>2. QED
    BY <1>s, <2>1
<1>16. ASSUME NEW t \in Tebs, OptimizeTeb(t) PROVE BestClassLimited'
  BY <1>s, <1>16 DEF OptimizeTeb
<1>17. CASE UNCHANGED vars
  <2>1. eqs' = eqs /\ bestEq' = bestEq /\ pc' = pc
    BY <1>17 DEF vars
  <2>2. QED
    BY <1>s, <2>1 DEF BestClassLimited
<1>18. QED
  BY <1>1, <1>2, <1>3, <1>4, <1>6, <1>7, <1>8, <1>9, <1>11, <1>12, <1>13, <1>14,
     <1>15, <1>16, <1>17 DEF Next, Running, Calls

(* At most max_number_plans_in_current_class bands repeat a class of the   *)
(* list, and while the class of the last best band is in the list no more  *)
(* than that many bands are equal to it, but one always may: tolerances    *)
(* and wildcards do not matter, since isEqual() need only be symmetric.    *)
THEOREM BestClassLimitedHolds ==
  ASSUME EqualIsSymmetric
  PROVE  Spec => []BestClassLimited
<1>1. Init => BestClassLimited
  <2> SUFFICES ASSUME Init PROVE BestClassLimited
    OBVIOUS
  <2>1. InBestClass = {} /\ Repeated = {}
    BY DEF Init, InBestClass, Repeated
  <2>2. /\ NumTebsInBestTebClass = 0 /\ Cardinality(Repeated) = 0
        /\ plansPerClass \in Int
    BY <2>1, FS_EmptySet, ConstantsOK DEF NumTebsInBestTebClass, Init
  <2>3. QED
    BY <2>2 DEF BestClassLimited
<1>2. LimitInv /\ [Next]_vars => LimitInv'
  BY TypeStep, DupStep, LimitStep DEF LimitInv, DupInv
<1>3. Init => DuplicatesOnlyInBestClass
  BY DEF Init, DuplicatesOnlyInBestClass
<1>4. Init => LimitInv
  BY <1>1, <1>3, TypeInit DEF LimitInv, DupInv
<1>5. LimitInv => BestClassLimited
  BY DEF LimitInv
<1>6. QED
  BY <1>2, <1>4, <1>5, PTL DEF Spec
=============================================================================
