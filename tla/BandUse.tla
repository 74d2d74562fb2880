------------------------------ MODULE BandUse ------------------------------
(***************************************************************************)
(* What TebOptimalPlanner reads from its band once it is optimized         *)
(* (src/optimal_planner.cpp): velocity commands, the trajectory it         *)
(* publishes, and the poses it has checked for collisions.  A band is its  *)
(* poses and the time differences between them, indexed from 1.            *)
(***************************************************************************)
EXTENDS CostTerms

CONSTANT DtRef    \* trajectory.dt_ref

ASSUME DtRefOK == DtRef \in Nat \ {0}

Size(b) == Len(b.poses)

(* the time from the first pose to the one k further on *)
TimeTo(b, k) == Total(SubSeq(b.dts, 1, k))

Larger(a, b) == IF a < b THEN b ELSE a
FirstOf(S)   == CHOOSE k \in S : \A j \in S : k <= j

Stop == <<Q(0), Q(0), Q(0)>>

(* extractVelocity(): the translation of a robot that cannot strafe is     *)
(* the whole displacement, signed.                                         *)
ExtractVelocity(p, q, dt, holonomic) ==
  IF dt = 0 THEN Stop
  ELSE IF holonomic THEN HolonomicTwist(p, q, dt)
  ELSE <<<<Sign(Ahead(p, q)) * Length(Minus(q.at, p.at)), dt>>, Q(0), <<Turn(p, q), dt>>>>

(* getVelocityCommand(): to the pose `look' further on, or to an earlier   *)
(* one that takes as long as `look' steps should.                          *)
GetVelocityCommand(b, look, holonomic) ==
  LET n     == Larger(1, SmallerOf(look, Size(b) - 1))
      late  == {k \in 1 .. n : TimeTo(b, k) >= DtRef * n}
      k     == IF late = {} THEN n ELSE FirstOf(late)
  IN IF Size(b) < 2 \/ TimeTo(b, n) <= 0 THEN [ok |-> FALSE, twist |-> Stop]
     ELSE [ok |-> TRUE, twist |-> ExtractVelocity(b.poses[1], b.poses[k + 1], TimeTo(b, k), holonomic)]

(* getDtPose(): the point between two poses, and its time; the last pose,  *)
(* when the band is shorter.                                               *)
GetDtPose(b, target) ==
  LET reached == {i \in 1 .. Size(b) - 1 : TimeTo(b, i) >= target}
  IN IF Size(b) = 1 THEN [pose |-> b.poses[1], next |-> b.poses[1], ratio |-> Q(0), dt |-> target]
     ELSE IF reached = {}
       THEN [pose |-> b.poses[Size(b)], next |-> b.poses[Size(b)], ratio |-> Q(0),
             dt |-> TimeTo(b, Size(b) - 1)]
     ELSE LET i == FirstOf(reached)
          IN [pose |-> b.poses[i], next |-> b.poses[i + 1],
              ratio |-> <<target - TimeTo(b, i - 1), b.dts[i]>>, dt |-> target]

(* getVelocityCommandMyj(): the motion to that point in the frame of the   *)
(* first pose, whether the robot can strafe or not.                        *)
GetVelocityCommandMyj(b, target) ==
  LET d    == GetDtPose(b, target)
      home == b.poses[1]
      Mean(from, step) == AddQ(Q(from), MulQ(d.ratio, Q(step)))
      x    == Mean(Ahead(home, d.pose), Ahead(home, d.next) - Ahead(home, d.pose))
      y    == Mean(Beside(home, d.pose), Beside(home, d.next) - Beside(home, d.pose))
      turn == Mean(Turn(home, d.pose), Turn(d.pose, d.next))
      less == IF LessQ(Q(2), turn) THEN SubQ(turn, Q(4)) ELSE turn
  IN IF Size(b) = 0 THEN [ok |-> FALSE, twist |-> Stop]
     ELSE IF d.dt <= 0 THEN [ok |-> TRUE, twist |-> Stop]
     ELSE [ok |-> TRUE, twist |-> <<OverQ(x, Q(d.dt)), OverQ(y, Q(d.dt)), OverQ(less, Q(d.dt))>>]

-----------------------------------------------------------------------------
(* The trajectory as it is published, from a band with two poses or more.  *)

(* Fault: the velocity of a segment with the time of the next one. *)
GetVelocityProfileShifted(b, start, goal, holonomic) ==
  [i \in 1 .. Size(b) + 1 |->
     IF i = 1 THEN start
     ELSE IF i = Size(b) + 1 THEN goal
     ELSE ExtractVelocity(b.poses[i - 1], b.poses[i], b.dts[IF i < Size(b) THEN i ELSE i - 1], holonomic)]

(* getVelocityProfile(): one velocity for each segment, between the start  *)
(* and the goal velocity.                                                  *)
GetVelocityProfile(b, start, goal, holonomic) ==
  [i \in 1 .. Size(b) + 1 |->
     IF i = 1 THEN start
     ELSE IF i = Size(b) + 1 THEN goal
     ELSE ExtractVelocity(b.poses[i - 1], b.poses[i], b.dts[i - 1], holonomic)]

(* getFullTrajectory(): a point for each pose, with the mean of the        *)
(* velocities of the segments on both sides.                               *)
GetFullTrajectory(b, start, goal, holonomic) ==
  LET Leg(i) == ExtractVelocity(b.poses[i], b.poses[i + 1], b.dts[i], holonomic)
  IN [i \in 1 .. Size(b) |->
        [pose |-> b.poses[i],
         time |-> TimeTo(b, i - 1),
         velocity |-> IF i = 1 THEN start ELSE IF i = Size(b) THEN goal
                      ELSE [j \in 1 .. 3 |-> MulQ(<<1, 2>>, AddQ(Leg(i - 1)[j], Leg(i)[j]))]]]

-----------------------------------------------------------------------------
(* isTrajectoryFeasible(): which poses it gives to isPoseValid().          *)

(* The index, from 0, of the last one.  A pose beyond the distance sets    *)
(* it, whatever `look' is.                                                 *)
LookAheadIdx(b, look, dist) ==
  LET far == {i \in 1 .. Size(b) - 1 : SqNorm(Minus(b.poses[i + 1].at, b.poses[1].at)) > dist * dist}
  IN IF dist > 0 /\ far # {} THEN FirstOf(far) - 1
     ELSE IF look < 0 \/ look >= Size(b) THEN Size(b) - 1 ELSE look

CeilDiv(a, b) == (a + b - 1) \div b

(* Fault: not rounded up. *)
AdditionalSamplesFloor(p, q, radius, angle) ==
  LET turn == AbsQ(Q(Turn(p, q)))[1]
      d    == Length(Minus(q.at, p.at))
  IN IF turn > angle \/ d > radius THEN Larger(turn \div angle, d \div radius) - 1 ELSE 0

(* samples between two poses that are farther apart than the radius or     *)
(* turned by more than the angle *)
AdditionalSamples(p, q, radius, angle) ==
  LET turn == AbsQ(Q(Turn(p, q)))[1]
      d    == Length(Minus(q.at, p.at))
  IN IF turn > angle \/ d > radius THEN Larger(CeilDiv(turn, angle), CeilDiv(d, radius)) - 1 ELSE 0

(* the poses it looks at, in order: a share step / parts of the way from   *)
(* pose `from' to the next one *)
CheckedPoses(b, look, dist, radius, angle) ==
  LET last == LookAheadIdx(b, look, dist) + 1
      Leg(i) == IF i = last THEN <<[from |-> i, step |-> 0, parts |-> 1]>>
                ELSE LET n == AdditionalSamples(b.poses[i], b.poses[i + 1], radius, angle)
                     IN [s \in 1 .. n + 1 |-> [from |-> i, step |-> s - 1, parts |-> n + 1]]
      upTo[i \in 0 .. last] == IF i = 0 THEN <<>> ELSE upTo[i - 1] \o Leg(i)
  IN upTo[last]

(* feasible when isPoseValid() holds of every one of them *)
IsTrajectoryFeasible(b, look, dist, radius, angle, valid) ==
  LET checked == CheckedPoses(b, look, dist, radius, angle)
  IN \A i \in DOMAIN checked : checked[i] \in valid
=============================================================================
