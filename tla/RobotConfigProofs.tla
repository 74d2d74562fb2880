-------------------------- MODULE RobotConfigProofs --------------------------
(***************************************************************************)
(* Proofs about RobotConfig: its types, that speed limits do not compound, *)
(* and that the command obeys limits in force since planning.              *)
(***************************************************************************)
EXTENDS RobotConfig, TLAPS

LEMMA LimitedIsInt ==
  ASSUME NEW r \in Args, NEW b \in Int
  PROVE  Limited(r, b) \in Int
<1>1. r.limit \in Int
  BY DEF Args
<1>2. b * r.limit \in Int
  BY <1>1
<1>3. QED
  BY <1>1, <1>2 DEF Limited, Lesser

(* Of two speeds in m/s the greater leads to a limit at least as great, and *)
(* no limit is above the speed.                                            *)
LEMMA LimitedBySpeed ==
  ASSUME NEW r \in Args, NEW t \in Args, NEW b \in Int,
         ~r.percentage, ~t.percentage, r.limit <= t.limit
  PROVE  Limited(r, b) <= Limited(t, b) /\ Limited(r, b) <= r.limit
<1>1. r.limit \in Int /\ t.limit \in Int
  BY DEF Args
<1>2. Limited(r, b) = Lesser(b, r.limit) /\ Limited(t, b) = Lesser(b, t.limit)
  BY DEF Limited
<1>3. QED
  BY <1>1, <1>2 DEF Lesser

(* What a request still has to write is limited by a number that is not    *)
(* negative, and there is none before the parameters are loaded.           *)
RequestInv ==
  /\ request.left # <<>> => request.args.limit >= 0 /\ pc # "unconfigured"
  /\ pc = "unconfigured" => \A a \in Axes : asked[a] = None

(* Every outcome is the request applied to the limit without one; the      *)
(* latest is in force.                                                     *)
OutcomeInv ==
  \A a \in Axes :
    /\ \A o \in outcomes[a] : o.max = Limited(o.args, base[a])
    /\ asked[a] # None => Outcome(asked[a], max[a]) \in outcomes[a]
    /\ pc # "unconfigured" /\ asked[a] = None => max[a] = params[a]

(* Every limit read has been in force, and so is the latest. *)
SeenInv ==
  pc = "command" =>
    /\ \A a \in Axes : max[a] \in seen[a]
    /\ \A a \in DOMAIN read : read[a] \in seen[a]

IInv == TypeOK /\ RequestInv /\ OutcomeInv /\ SeenInv

LEMMA InitIInv == Init => IInv
<1> SUFFICES ASSUME Init PROVE IInv
  OBVIOUS
<1> USE RobotConfigOK
<1>1. None \in Args /\ NoRequest \in [args : Args, left : Left]
  BY DEF None, NoRequest, Args, Left
<1>2. {max, base} \subseteq [Axes -> Int] /\ params \in [Axes -> Nat]
  <2>1. max \in [Axes -> Nat] /\ params \in [Axes -> Nat]
    BY DEF Init, Axes
  <2>2. "x" \in Axes /\ Defaults["x"] \in Int
    BY DEF Axes
  <2>3. base \in [Axes -> Int]
    BY <2>2 DEF Init
  <2>4. max \in [Axes -> Int]
    BY <2>1
  <2>5. QED
    BY <2>1, <2>3, <2>4
<1>3. asked \in [Axes -> Args] /\ outcomes \in [Axes -> SUBSET [args : Args, max : Int]]
  BY <1>1 DEF Init
<1>4. TypeOK
  BY <1>1, <1>2, <1>3 DEF Init, TypeOK
<1>5. RequestInv
  BY DEF Init, RequestInv, NoRequest
<1>6. OutcomeInv /\ SeenInv
  BY DEF Init, OutcomeInv, SeenInv
<1>7. QED
  BY <1>4, <1>5, <1>6 DEF IInv

(* A request, after one limit is written. *)
LEMMA RequestShrinks ==
  ASSUME NEW r \in [args : Args, left : Left], r.left # <<>>
  PROVE  LET s == IF Len(r.left) = 1 THEN NoRequest ELSE [r EXCEPT !.left = Tail(r.left)]
         IN /\ s \in [args : Args, left : Left]
            /\ s.left # <<>> => s.args = r.args
            /\ Head(r.left) \in Axes
<1>1. NoRequest \in [args : Args, left : Left] /\ NoRequest.left = <<>>
  BY DEF None, NoRequest, Args, Left
<1>2. r.left \in Left \ {<<>>}
  OBVIOUS
<1>3. Head(r.left) \in Axes
  BY <1>2 DEF Left, Axes
<1>4. Len(r.left) # 1 => Tail(r.left) \in Left
  <2>1. CASE r.left = <<"x", "backwards", "theta">>
    <3>1. Tail(r.left) = <<"backwards", "theta">>
      BY <2>1
    <3>2. QED
      BY <3>1 DEF Left
  <2>2. CASE r.left = <<"backwards", "theta">>
    <3>1. Tail(r.left) = <<"theta">>
      BY <2>2
    <3>2. QED
      BY <3>1 DEF Left
  <2>3. CASE r.left = <<"theta">>
    <3>1. Len(r.left) = 1
      BY <2>3
    <3>2. QED
      BY <3>1
  <2>4. QED
    BY <1>2, <2>1, <2>2, <2>3 DEF Left
<1>5. QED
  BY <1>1, <1>3, <1>4

LEMMA NextIInv == IInv /\ [Next]_vars => IInv'
<1> SUFFICES ASSUME IInv, [Next]_vars PROVE IInv'
  OBVIOUS
<1> USE RobotConfigOK
<1>t. /\ max \in [Axes -> Int] /\ base \in [Axes -> Int] /\ params \in [Axes -> Nat]
      /\ asked \in [Axes -> Args] /\ outcomes \in [Axes -> SUBSET [args : Args, max : Int]]
      /\ request \in [args : Args, left : Left]
      /\ None \in Args
  BY DEF IInv, TypeOK, None, Args
<1>1. CASE Load
  <2>1. pc = "unconfigured" /\ pc' = "idle" /\ max' = params
        /\ UNCHANGED <<base, params, asked, outcomes, request, read, seen>>
    BY <1>1 DEF Load
  <2>2. TypeOK'
    <3>1. max' \in [Axes -> Int]
      BY <2>1, <1>t
    <3>2. QED
      BY <2>1, <3>1, <1>t DEF IInv, TypeOK
  <2>3. \A a \in Axes : asked[a] = None
    BY <2>1 DEF IInv, RequestInv
  <2>4. OutcomeInv'
    BY <2>1, <2>3 DEF IInv, OutcomeInv, Limited, Lesser
  <2>5. QED
    BY <2>1, <2>2, <2>4 DEF IInv, RequestInv, SeenInv
<1>2. ASSUME NEW a \in Axes, NEW v \in Speeds, SetParameter(a, v) PROVE IInv'
  <2>1. /\ pc = "idle" /\ pc' = "idle" /\ UNCHANGED <<request, read, seen>>
        /\ params' = [params EXCEPT ![a] = v] /\ max' = [max EXCEPT ![a] = v]
        /\ base' = [base EXCEPT ![a] = v] /\ asked' = [asked EXCEPT ![a] = None]
        /\ outcomes' = [outcomes EXCEPT ![a] = {}]
    BY <1>2 DEF SetParameter, cycleVars
  <2>2. v \in Nat
    OBVIOUS
  <2>3. /\ max' \in [Axes -> Int] /\ base' \in [Axes -> Int] /\ params' \in [Axes -> Nat]
        /\ asked' \in [Axes -> Args]
        /\ outcomes' \in [Axes -> SUBSET [args : Args, max : Int]]
    BY <2>1, <2>2, <1>t
  <2>4. TypeOK'
    BY <2>1, <2>3, <1>t DEF IInv, TypeOK
  <2>5. OutcomeInv'
    <3> SUFFICES ASSUME NEW b \in Axes
                 PROVE  /\ \A o \in outcomes'[b] : o.max = Limited(o.args, base'[b])
                        /\ asked'[b] # None => Outcome(asked'[b], max'[b]) \in outcomes'[b]
                        /\ asked'[b] = None => max'[b] = params'[b]
      BY DEF OutcomeInv, Limited, Lesser, Outcome, None
    <3>1. CASE b = a
      BY <3>1, <2>1, <1>t
    <3>2. CASE b # a
      <4>1. /\ outcomes'[b] = outcomes[b] /\ base'[b] = base[b] /\ asked'[b] = asked[b]
            /\ max'[b] = max[b] /\ params'[b] = params[b]
        BY <3>2, <2>1, <1>t
      <4>2. QED
        BY <2>1, <4>1 DEF IInv, OutcomeInv
    <3>3. QED
      BY <3>1, <3>2
  <2>6. QED
    BY <2>1, <2>4, <2>5 DEF IInv, RequestInv, SeenInv
<1>3. ASSUME NEW limit \in Int, NEW p \in BOOLEAN, SetSpeedLimit(limit, p) PROVE IInv'
  <2>1. /\ pc # "unconfigured" /\ limit >= 0
        /\ request' = [args |-> [limit |-> limit, percentage |-> p],
                       left |-> <<"x", "backwards", "theta">>]
        /\ UNCHANGED <<max, base, params, asked, outcomes, pc, read, seen>>
    BY <1>3 DEF SetSpeedLimit, cycleVars
  <2>2. request' \in [args : Args, left : Left] /\ request'.args.limit >= 0
    BY <2>1 DEF Args, Left
  <2>3. TypeOK'
    BY <2>1, <2>2, <1>t DEF IInv, TypeOK
  <2>4. OutcomeInv'
    BY <2>1 DEF IInv, OutcomeInv, Limited, Lesser
  <2>5. QED
    BY <2>1, <2>2, <2>3, <2>4 DEF IInv, RequestInv, SeenInv
<1>4. ASSUME NEW a \in Axes, WriteLimit(a) PROVE IInv'
  <2> DEFINE v == Limited(request.args, base[a])
  <2>1. /\ request.left # <<>>
        /\ max' = [max EXCEPT ![a] = v] /\ asked' = [asked EXCEPT ![a] = request.args]
        /\ outcomes' = [outcomes EXCEPT ![a] = @ \cup {Outcome(request.args, max'[a])}]
        /\ seen' = [b \in DOMAIN seen |-> seen[b] \cup {max'[b]}]
        /\ UNCHANGED <<base, params, pc, read>>
    BY <1>4 DEF WriteLimit
  <2>2. /\ request' \in [args : Args, left : Left]
        /\ request'.left # <<>> => request'.args = request.args
    BY <1>4, <1>t, RequestShrinks DEF WriteLimit
  <2>3. request.args \in Args /\ request.args.limit >= 0 /\ pc # "unconfigured"
    BY <2>1, <1>t DEF IInv, RequestInv
  <2>4. v \in Int /\ request.args # None
    BY <2>3, <1>t, LimitedIsInt DEF None
  <2>5. max' \in [Axes -> Int] /\ asked' \in [Axes -> Args] /\ max'[a] = v
    <3> HIDE DEF v
    <3>1. QED
      BY <2>1, <2>3, <2>4, <1>t
  <2>6. Outcome(request.args, max'[a]) \in [args : Args, max : Int]
    BY <2>3, <2>4, <2>5 DEF Outcome
  <2>7. outcomes' \in [Axes -> SUBSET [args : Args, max : Int]]
    BY <2>1, <2>6, <1>t
  <2>8. pc = "command" => seen' \in [Axes -> SUBSET Int]
    BY <2>1, <2>5 DEF IInv, TypeOK
  <2>9. pc # "command" => seen' = Nothing
    BY <2>1 DEF IInv, TypeOK, Nothing
  <2>10. TypeOK'
    BY <2>1, <2>2, <2>5, <2>7, <2>8, <2>9, <1>t DEF IInv, TypeOK
  <2>11. OutcomeInv'
    <3> SUFFICES ASSUME NEW b \in Axes
                 PROVE  /\ \A o \in outcomes'[b] : o.max = Limited(o.args, base[b])
                        /\ asked'[b] # None => Outcome(asked'[b], max'[b]) \in outcomes'[b]
                        /\ asked'[b] = None => max'[b] = params[b]
      BY <2>1 DEF OutcomeInv, Limited, Lesser, Outcome, None
    <3>1. CASE b = a
      <4>1. /\ outcomes'[a] = outcomes[a] \cup {Outcome(request.args, max'[a])}
            /\ asked'[a] = request.args
        BY <2>1, <1>t
      <4>2. ASSUME NEW o \in outcomes'[a] PROVE o.max = Limited(o.args, base[a])
        <5>1. CASE o \in outcomes[a]
          BY <5>1 DEF IInv, OutcomeInv
        <5>2. CASE o = Outcome(request.args, max'[a])
          <6>1. o.max = max'[a] /\ o.args = request.args
            BY <5>2 DEF Outcome
          <6>2. QED
            BY <2>5, <6>1
        <5>3. QED
          BY <4>1, <5>1, <5>2
      <4>3. QED
        BY <2>4, <3>1, <4>1, <4>2
    <3>2. CASE b # a
      <4>1. outcomes'[b] = outcomes[b] /\ asked'[b] = asked[b] /\ max'[b] = max[b]
        <5> HIDE DEF v
        <5>1. QED
          BY <2>1, <3>2, <1>t
      <4>2. QED
        BY <2>3, <4>1 DEF IInv, OutcomeInv
    <3>3. QED
      BY <3>1, <3>2
  <2>12. SeenInv'
    <3> SUFFICES ASSUME pc = "command"
                 PROVE  /\ \A b \in Axes : max'[b] \in seen'[b]
                        /\ \A b \in DOMAIN read : read[b] \in seen'[b]
      BY <2>1 DEF SeenInv
    <3>1. DOMAIN seen = Axes /\ DOMAIN read \subseteq Axes
      BY DEF IInv, TypeOK
    <3>2. QED
      BY <2>1, <3>1 DEF IInv, SeenInv
  <2>13. RequestInv'
    BY <2>1, <2>2, <2>3 DEF RequestInv
  <2>14. QED
    BY <2>10, <2>11, <2>12, <2>13 DEF IInv
<1>5. CASE Plan \/ Fail
  BY <1>5 DEF Plan, Fail, limits, IInv, TypeOK, RequestInv, OutcomeInv, SeenInv, Limited, Lesser, Outcome, None
<1>6. CASE BeginCommand
  <2>1. /\ pc = "planning" /\ pc' = "command" /\ seen' = [a \in Axes |-> {max[a]}]
        /\ UNCHANGED <<max, base, params, asked, outcomes, request, read>>
    BY <1>6 DEF BeginCommand, limits
  <2>2. read = Nothing /\ Nothing \in [{} -> Int] /\ DOMAIN Nothing = {}
    BY <2>1 DEF IInv, TypeOK, Nothing
  <2>3. \E s \in SUBSET Axes : read' \in [s -> Int]
    BY <2>1, <2>2
  <2>4. TypeOK'
    BY <2>1, <2>3, <1>t DEF IInv, TypeOK
  <2>5. SeenInv'
    BY <2>1, <2>2 DEF SeenInv
  <2>6. QED
    BY <2>1, <2>4, <2>5 DEF IInv, RequestInv, OutcomeInv, Limited, Lesser, Outcome, None
<1>7. ASSUME NEW a \in Axes, ReadLimit(a) PROVE IInv'
  <2>1. /\ pc = "command"
        /\ read' = [b \in DOMAIN read \cup {a} |-> IF b = a THEN max[a] ELSE read[b]]
        /\ UNCHANGED <<max, base, params, asked, outcomes, request, pc, seen>>
    BY <1>7 DEF ReadLimit, limits
  <2>2. PICK s \in SUBSET Axes : read \in [s -> Int]
    BY <2>1 DEF IInv, TypeOK
  <2>3. read' \in [s \cup {a} -> Int]
    BY <2>1, <2>2, <1>t
  <2>4. TypeOK'
    BY <2>1, <2>3, <1>t DEF IInv, TypeOK
  <2>5. SeenInv'
    BY <2>1, <2>2 DEF IInv, SeenInv
  <2>6. QED
    BY <2>1, <2>4, <2>5 DEF IInv, RequestInv, OutcomeInv, Limited, Lesser, Outcome, None
<1>8. CASE ReturnCommand
  BY <1>8 DEF ReturnCommand, limits, IInv, TypeOK, RequestInv, OutcomeInv, SeenInv, Limited, Lesser, Outcome, None
<1>9. CASE UNCHANGED vars
  BY <1>9 DEF vars, limits, cycleVars, IInv, TypeOK, RequestInv, OutcomeInv, SeenInv, Limited, Lesser, Outcome, None
<1>10. CASE Callbacks
  <2>1. SpeedLimits \subseteq Int /\ Factors \subseteq Int
    OBVIOUS
  <2>2. ASSUME NEW l \in SpeedLimits, SetSpeedLimit(l, FALSE) PROVE IInv'
    BY <2>1, <2>2, <1>3
  <2>3. ASSUME NEW l \in Factors, SetSpeedLimit(l, TRUE) PROVE IInv'
    BY <2>1, <2>3, <1>3
  <2>4. QED
    BY <1>10, <1>2, <1>4, <2>2, <2>3 DEF Callbacks
<1>11. CASE Cycle
  BY <1>11, <1>5, <1>6, <1>7, <1>8 DEF Cycle
<1>12. QED
  BY <1>1, <1>9, <1>10, <1>11 DEF Next

LEMMA IInvHolds == Spec => []IInv
BY InitIInv, NextIInv, PTL DEF Spec

(* Every variable keeps its type, whatever the limits were in memory that  *)
(* the constructor leaves as it is.                                        *)
THEOREM TypeCorrect == Spec => []TypeOK
BY IInvHolds, PTL DEF IInv

(* However they are mixed with changes of the parameters, speed limits are *)
(* taken from the limits without one, never from one another: a request    *)
(* leads to one limit at all times, whatever those are.                    *)
THEOREM LimitsDoNotCompoundHolds == Spec => []LimitsDoNotCompound
<1>1. ASSUME IInv PROVE LimitsDoNotCompound
  <2> SUFFICES ASSUME pc # "unconfigured", NEW a \in Axes
               PROVE  /\ IF asked[a] = None THEN max[a] = params[a]
                         ELSE Outcome(asked[a], max[a]) \in outcomes[a]
                      /\ \A o, p \in outcomes[a] :
                           /\ o.args = p.args => o.max = p.max
                           /\ ~o.args.percentage /\ ~p.args.percentage
                              /\ o.args.limit <= p.args.limit =>
                                o.max <= p.max /\ o.max <= o.args.limit
    BY DEF LimitsDoNotCompound
  <2>1. /\ \A o \in outcomes[a] : o.max = Limited(o.args, base[a])
        /\ IF asked[a] = None THEN max[a] = params[a]
           ELSE Outcome(asked[a], max[a]) \in outcomes[a]
    BY <1>1 DEF IInv, OutcomeInv
  <2>2. ASSUME NEW o \in outcomes[a], NEW p \in outcomes[a]
        PROVE  /\ o.args = p.args => o.max = p.max
               /\ ~o.args.percentage /\ ~p.args.percentage /\ o.args.limit <= p.args.limit =>
                    o.max <= p.max /\ o.max <= o.args.limit
    <3>1. o.max = Limited(o.args, base[a]) /\ p.max = Limited(p.args, base[a])
      BY <2>1
    <3>2. o.args \in Args /\ p.args \in Args /\ base[a] \in Int
      BY <1>1 DEF IInv, TypeOK
    <3>3. ASSUME ~o.args.percentage, ~p.args.percentage, o.args.limit <= p.args.limit
          PROVE  o.max <= p.max /\ o.max <= o.args.limit
      BY <3>1, <3>2, <3>3, LimitedBySpeed
    <3>4. QED
      BY <3>1, <3>3
  <2>3. QED
    BY <2>1, <2>2
<1>2. QED
  BY <1>1, IInvHolds, PTL

(* Every command, whatever the planner asks for, obeys limits that were in *)
(* force since planning, although they may change between being read, if   *)
(* none of them is negative.                                               *)
THEOREM CommandWithinLimitsHolds == Spec => []CommandWithinLimits
<1>1. ASSUME IInv PROVE CommandWithinLimits
  <2> SUFFICES ASSUME pc = "command", DOMAIN read = Axes, \A a \in Axes : read[a] >= 0,
                      NEW v \in Velocities, NEW w \in Velocities
               PROVE  LET c == Saturate(v, w, read)
                      IN /\ \E m \in seen["x"], b \in seen["backwards"] :
                              -Lesser(m, b) <= c.v /\ c.v <= m
                         /\ \E m \in seen["theta"] : -m <= c.w /\ c.w <= m
    BY DEF CommandWithinLimits
  <2>1. read \in [Axes -> Int]
    BY <1>1 DEF IInv, TypeOK
  <2>2. /\ read["x"] \in seen["x"] /\ read["x"] \in Nat
        /\ read["backwards"] \in seen["backwards"] /\ read["backwards"] \in Nat
        /\ read["theta"] \in seen["theta"] /\ read["theta"] \in Nat
    BY <1>1, <2>1 DEF IInv, SeenInv, Axes
  <2>3. v \in Int /\ w \in Int
    BY RobotConfigOK
  <2>4. /\ -Lesser(read["x"], read["backwards"]) <= Saturate(v, w, read).v
        /\ Saturate(v, w, read).v <= read["x"]
    BY <2>2, <2>3 DEF Saturate, Clamp, Lesser
  <2>5. -read["theta"] <= Saturate(v, w, read).w /\ Saturate(v, w, read).w <= read["theta"]
    BY <2>2, <2>3 DEF Saturate, Clamp
  <2>6. QED
    BY <2>2, <2>4, <2>5
<1>2. QED
  BY <1>1, IInvHolds, PTL
==============================================================================
