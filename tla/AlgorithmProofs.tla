--------------------------- MODULE AlgorithmProofs ---------------------------
(***************************************************************************)
(* Four of the pure computations, for every input: the Jacobian written by *)
(* hand is the slope of its error, for every pair of headings and every    *)
(* displacement; the errors of the edges measure the velocity, the         *)
(* acceleration and the distance of the motion they are given; the         *)
(* footprint model is what the parameters say, for every sequence of       *)
(* changes; and the velocities taken from a band are no faster than its    *)
(* fastest step and lead to its goal.                                      *)
(***************************************************************************)
EXTENDS AlgorithmChecks, ListLemmas

-----------------------------------------------------------------------------
(* The Jacobian.                                                           *)

Magnitude(n) == IF n < 0 THEN -n ELSE n
Lack(n)      == IF n < 0 THEN -n ELSE 0

(* fabs() has the slope Sign() as long as the sign stays. *)
LEMMA MagnitudeGrows ==
  ASSUME NEW o \in Int, NEW x \in Int, NEW s \in Int,
         s = Sign(o), s # 0, Sign(o + x) \in {0, s}
  PROVE  Magnitude(o + x) - Magnitude(o) = x * s
<1>1. CASE o > 0
  <2>1. s = 1
    BY <1>1 DEF Sign
  <2>2. o + x >= 0
    BY <2>1 DEF Sign
  <2>3. x * s = x
    BY <2>1
  <2>4. QED
    BY <1>1, <2>2, <2>3 DEF Magnitude
<1>2. CASE o < 0
  <2>1. s = -1
    BY <1>2 DEF Sign
  <2>2. o + x <= 0
    BY <2>1 DEF Sign
  <2>3. x * s = -x
    BY <2>1
  <2>4. QED
    BY <1>2, <2>2, <2>3 DEF Magnitude
<1>3. QED
  BY <1>1, <1>2 DEF Sign

(* A lower bound of zero has the slope -1 below it and 0 above. *)
LEMMA LackGrows ==
  ASSUME NEW n \in Int, NEW x \in Int, (n < 0) = (n + x < 0) \/ n + x = 0
  PROVE  Lack(n + x) - Lack(n) = x * (IF n < 0 THEN -1 ELSE 0)
<1>1. CASE n < 0
  <2>1. n + x <= 0 /\ x * (IF n < 0 THEN -1 ELSE 0) = -x
    BY <1>1
  <2>2. QED
    BY <1>1, <2>1 DEF Lack
<1>2. CASE ~(n < 0)
  <2>1. n + x >= 0 /\ x * (IF n < 0 THEN -1 ELSE 0) = 0
    BY <1>2
  <2>2. QED
    BY <1>2, <2>1 DEF Lack
<1>3. QED
  BY <1>1, <1>2

(* The two errors, and how they change with the displacement. *)
LEMMA ErrorsAre ==
  ASSUME NEW h \in Int \X Int, NEW g \in Int \X Int, NEW d \in Int \X Int
  PROVE  /\ OffArc(h, g, d) \in Int /\ Dot(d, h) \in Int
         /\ DiffDriveError(h, g, d)[1] = Magnitude(OffArc(h, g, d))
         /\ DiffDriveError(h, g, d)[2] = Lack(Dot(d, h))
         /\ PenaltyBoundFromBelowDerivative(Q(Dot(d, h)), Q(0)) = IF Dot(d, h) < 0 THEN -1 ELSE 0
<1> DEFINE n == Dot(d, h)
<1>1. OffArc(h, g, d) \in Int /\ n \in Int
  BY DEF OffArc, Dot
<1>2. DiffDriveError(h, g, d)[1] = Magnitude(OffArc(h, g, d))
  BY DEF DiffDriveError, Magnitude
<1>3. DiffDriveError(h, g, d)[2] = PenaltyBoundFromBelow(Q(n), Q(0), Q(0))[1]
  BY DEF DiffDriveError
<1> HIDE DEF n
<1>4. PenaltyBoundFromBelow(Q(n), Q(0), Q(0))[1] = Lack(n)
  BY <1>1 DEF PenaltyBoundFromBelow, Q, LessQ, AddQ, SubQ, NegQ, Lack
<1>5. PenaltyBoundFromBelowDerivative(Q(n), Q(0)) = IF n < 0 THEN -1 ELSE 0
  BY <1>1 DEF PenaltyBoundFromBelowDerivative, Q, LessQ
<1>6. QED
  BY <1>1, <1>2, <1>3, <1>4, <1>5 DEF n

(* The two errors one unit further on, in each direction.                  *)
LEMMA ErrorsMove ==
  ASSUME NEW h \in Int \X Int, NEW g \in Int \X Int, NEW d \in Int \X Int
  PROVE  /\ OffArc(h, g, Plus(d, <<1, 0>>))  = OffArc(h, g, d) + -(h[2] + g[2])
         /\ OffArc(h, g, Plus(d, <<0, 1>>))  = OffArc(h, g, d) + (h[1] + g[1])
         /\ OffArc(h, g, Minus(d, <<1, 0>>)) = OffArc(h, g, d) + (h[2] + g[2])
         /\ OffArc(h, g, Minus(d, <<0, 1>>)) = OffArc(h, g, d) + -(h[1] + g[1])
         /\ Dot(Plus(d, <<1, 0>>), h)  = Dot(d, h) + h[1]
         /\ Dot(Plus(d, <<0, 1>>), h)  = Dot(d, h) + h[2]
         /\ Dot(Minus(d, <<1, 0>>), h) = Dot(d, h) + -h[1]
         /\ Dot(Minus(d, <<0, 1>>), h) = Dot(d, h) + -h[2]
<1>1. h[1] \in Int /\ h[2] \in Int /\ g[1] \in Int /\ g[2] \in Int /\ d[1] \in Int /\ d[2] \in Int
  OBVIOUS
<1> DEFINE a == h[1] + g[1]
           b == h[2] + g[2]
<1>2. a \in Int /\ b \in Int
  BY <1>1
<1>3. OffArc(h, g, d) = a * d[2] - b * d[1] /\ Dot(d, h) = d[1] * h[1] + d[2] * h[2]
  BY DEF OffArc, Dot
<1>4. \A m, n \in Int : /\ m * (n + 1) = m * n + m /\ m * (n - 1) = m * n - m
                        /\ (n + 1) * m = n * m + m /\ (n - 1) * m = n * m - m
                        /\ m * n \in Int
  OBVIOUS
<1>5. \A n \in Int : n + 0 = n /\ n - 0 = n
  OBVIOUS
<1> DEFINE p == a * d[2]
           q == b * d[1]
           r == d[1] * h[1]
           t == d[2] * h[2]
<1>6. p \in Int /\ q \in Int /\ r \in Int /\ t \in Int
  BY <1>1, <1>2
<1>7. /\ OffArc(h, g, Plus(d, <<1, 0>>)) = OffArc(h, g, d) + -b
      /\ Dot(Plus(d, <<1, 0>>), h) = Dot(d, h) + h[1]
  <2>1. /\ OffArc(h, g, Plus(d, <<1, 0>>)) = a * (d[2] + 0) - b * (d[1] + 1)
        /\ Dot(Plus(d, <<1, 0>>), h) = (d[1] + 1) * h[1] + (d[2] + 0) * h[2]
    BY <1>1 DEF OffArc, Plus, Dot, a, b
  <2>2. d[2] + 0 = d[2] /\ b * (d[1] + 1) = q + b /\ (d[1] + 1) * h[1] = r + h[1]
    BY <1>1, <1>2, <1>4, <1>5
  <2> HIDE DEF p, q, r, t
  <2>3. OffArc(h, g, d) = p - q /\ Dot(d, h) = r + t
    BY <1>3 DEF p, q, r, t
  <2>4. /\ OffArc(h, g, Plus(d, <<1, 0>>)) = p - (q + b)
        /\ Dot(Plus(d, <<1, 0>>), h) = (r + h[1]) + t
    BY <2>1, <2>2 DEF p, t
  <2>5. QED
    BY <2>3, <2>4, <1>1, <1>2, <1>6
<1>8. /\ OffArc(h, g, Plus(d, <<0, 1>>)) = OffArc(h, g, d) + a
      /\ Dot(Plus(d, <<0, 1>>), h) = Dot(d, h) + h[2]
  <2>1. /\ OffArc(h, g, Plus(d, <<0, 1>>)) = a * (d[2] + 1) - b * (d[1] + 0)
        /\ Dot(Plus(d, <<0, 1>>), h) = (d[1] + 0) * h[1] + (d[2] + 1) * h[2]
    BY <1>1 DEF OffArc, Plus, Dot, a, b
  <2>2. d[1] + 0 = d[1] /\ a * (d[2] + 1) = p + a /\ (d[2] + 1) * h[2] = t + h[2]
    BY <1>1, <1>2, <1>4, <1>5
  <2> HIDE DEF p, q, r, t
  <2>3. OffArc(h, g, d) = p - q /\ Dot(d, h) = r + t
    BY <1>3 DEF p, q, r, t
  <2>4. /\ OffArc(h, g, Plus(d, <<0, 1>>)) = (p + a) - q
        /\ Dot(Plus(d, <<0, 1>>), h) = r + (t + h[2])
    BY <2>1, <2>2 DEF q, r
  <2>5. QED
    BY <2>3, <2>4, <1>1, <1>2, <1>6
<1>9. /\ OffArc(h, g, Minus(d, <<1, 0>>)) = OffArc(h, g, d) + b
      /\ Dot(Minus(d, <<1, 0>>), h) = Dot(d, h) + -h[1]
  <2>1. /\ OffArc(h, g, Minus(d, <<1, 0>>)) = a * (d[2] - 0) - b * (d[1] - 1)
        /\ Dot(Minus(d, <<1, 0>>), h) = (d[1] - 1) * h[1] + (d[2] - 0) * h[2]
    BY <1>1 DEF OffArc, Minus, Dot, a, b
  <2>2. d[2] - 0 = d[2] /\ b * (d[1] - 1) = q - b /\ (d[1] - 1) * h[1] = r - h[1]
    BY <1>1, <1>2, <1>4, <1>5
  <2> HIDE DEF p, q, r, t
  <2>3. OffArc(h, g, d) = p - q /\ Dot(d, h) = r + t
    BY <1>3 DEF p, q, r, t
  <2>4. /\ OffArc(h, g, Minus(d, <<1, 0>>)) = p - (q - b)
        /\ Dot(Minus(d, <<1, 0>>), h) = (r - h[1]) + t
    BY <2>1, <2>2 DEF p, t
  <2>5. QED
    BY <2>3, <2>4, <1>1, <1>2, <1>6
<1>10. /\ OffArc(h, g, Minus(d, <<0, 1>>)) = OffArc(h, g, d) + -a
      /\ Dot(Minus(d, <<0, 1>>), h) = Dot(d, h) + -h[2]
  <2>1. /\ OffArc(h, g, Minus(d, <<0, 1>>)) = a * (d[2] - 1) - b * (d[1] - 0)
        /\ Dot(Minus(d, <<0, 1>>), h) = (d[1] - 0) * h[1] + (d[2] - 1) * h[2]
    BY <1>1 DEF OffArc, Minus, Dot, a, b
  <2>2. d[1] - 0 = d[1] /\ a * (d[2] - 1) = p - a /\ (d[2] - 1) * h[2] = t - h[2]
    BY <1>1, <1>2, <1>4, <1>5
  <2> HIDE DEF p, q, r, t
  <2>3. OffArc(h, g, d) = p - q /\ Dot(d, h) = r + t
    BY <1>3 DEF p, q, r, t
  <2>4. /\ OffArc(h, g, Minus(d, <<0, 1>>)) = (p - a) - q
        /\ Dot(Minus(d, <<0, 1>>), h) = r + (t - h[2])
    BY <2>1, <2>2 DEF q, r
  <2>5. QED
    BY <2>3, <2>4, <1>1, <1>2, <1>6
<1>11. QED
  BY <1>7, <1>8, <1>9, <1>10 DEF a, b

(* From the displacement d to e the errors grow by the entry of the        *)
(* Jacobian that belongs to the step, unless their sign changes.           *)
Smooth(h, g, d, e) ==
  Sign(OffArc(h, g, d)) # 0 /\ Sign(OffArc(h, g, e)) \in {0, Sign(OffArc(h, g, d))}
SameSide(h, d, e) == (Dot(d, h) < 0) = (Dot(e, h) < 0) \/ Dot(e, h) = 0
Grows(h, g, d, e, k) == DiffDriveError(h, g, e)[k] - DiffDriveError(h, g, d)[k]

Slopes(h, g, d, e, rows, k) ==
  /\ Smooth(h, g, d, e) => rows[1][k] = Grows(h, g, d, e, 1)
  /\ SameSide(h, d, e)  => rows[2][k] = Grows(h, g, d, e, 2)

(* What the check of the Jacobian says of one of its inputs.               *)
LEMMA SlopeOfError ==
  ASSUME NEW h \in Int \X Int, NEW g \in Int \X Int, NEW d \in Int \X Int,
         input = [kind |-> "kinematics", h |-> h, g |-> g, d |-> d]
  PROVE  JacobianIsSlope
<1> DEFINE J == DiffDriveJacobian(h, g, d)
           o == OffArc(h, g, d)
           n == Dot(d, h)
           s == Sign(o)
           m == IF n < 0 THEN -1 ELSE 0
<1>1. /\ h[1] \in Int /\ h[2] \in Int /\ g[1] \in Int /\ g[2] \in Int
      /\ d[1] \in Int /\ d[2] \in Int
  OBVIOUS
<1>2. o \in Int /\ n \in Int
  BY ErrorsAre
<1>3. s \in Int /\ m \in Int
  BY <1>2 DEF Sign
<1>4. PenaltyBoundFromBelowDerivative(Q(n), Q(0)) = m
  BY ErrorsAre
<1>5. /\ J.i = <<<<(h[2] + g[2]) * s, -(h[1] + g[1]) * s, (-h[2] * d[2] - h[1] * d[1]) * s>>,
                 <<-h[1] * m, -h[2] * m, (-h[2] * d[1] + h[1] * d[2]) * m>>>>
      /\ J.j = <<<<-(h[2] + g[2]) * s, (h[1] + g[1]) * s, (-g[2] * d[2] - g[1] * d[1]) * s>>,
                 <<h[1] * m, h[2] * m, 0>>>>
  BY <1>4 DEF DiffDriveJacobian
<1>6. ASSUME NEW e \in Int \X Int, NEW x \in Int, OffArc(h, g, e) = o + x, Smooth(h, g, d, e)
      PROVE  Grows(h, g, d, e, 1) = x * s
  <2>1. Magnitude(o + x) - Magnitude(o) = x * s
    BY <1>2, <1>3, <1>6, MagnitudeGrows DEF Smooth
  <2>2. DiffDriveError(h, g, e)[1] = Magnitude(o + x) /\ DiffDriveError(h, g, d)[1] = Magnitude(o)
    BY <1>6, ErrorsAre
  <2>3. QED
    BY <2>1, <2>2 DEF Grows
<1>7. ASSUME NEW e \in Int \X Int, NEW x \in Int, Dot(e, h) = n + x, SameSide(h, d, e)
      PROVE  Grows(h, g, d, e, 2) = x * m
  <2>1. Lack(n + x) - Lack(n) = x * m
    BY <1>2, <1>7, LackGrows DEF SameSide
  <2>2. DiffDriveError(h, g, e)[2] = Lack(n + x) /\ DiffDriveError(h, g, d)[2] = Lack(n)
    BY <1>7, ErrorsAre
  <2>3. QED
    BY <2>1, <2>2 DEF Grows
<1> HIDE DEF J, o, n, s, m
<1>8. Slopes(h, g, d, Plus(d, <<1, 0>>), J.j, 1)
  <2> DEFINE e == Plus(d, <<1, 0>>)
  <2>1. e \in Int \X Int
    BY <1>1 DEF Plus
  <2>2. OffArc(h, g, e) = o + -(h[2] + g[2]) /\ Dot(e, h) = n + h[1]
    BY ErrorsMove DEF o, n
  <2>3. -(h[2] + g[2]) \in Int /\ h[1] \in Int
    BY <1>1
  <2> HIDE DEF e
  <2>4. Smooth(h, g, d, e) => Grows(h, g, d, e, 1) = (-(h[2] + g[2])) * s
    BY <1>6, <2>1, <2>2, <2>3
  <2>5. SameSide(h, d, e) => Grows(h, g, d, e, 2) = h[1] * m
    BY <1>7, <2>1, <2>2, <2>3
  <2>6. J.j[1][1] = -(h[2] + g[2]) * s /\ J.j[2][1] = h[1] * m
    BY <1>5
  <2>7. Slopes(h, g, d, e, J.j, 1)
    BY <1>1, <1>3, <2>4, <2>5, <2>6 DEF Slopes
  <2>8. QED
    BY <2>7 DEF e
<1>9. Slopes(h, g, d, Plus(d, <<0, 1>>), J.j, 2)
  <2> DEFINE e == Plus(d, <<0, 1>>)
  <2>1. e \in Int \X Int
    BY <1>1 DEF Plus
  <2>2. OffArc(h, g, e) = o + (h[1] + g[1]) /\ Dot(e, h) = n + h[2]
    BY ErrorsMove DEF o, n
  <2>3. (h[1] + g[1]) \in Int /\ h[2] \in Int
    BY <1>1
  <2> HIDE DEF e
  <2>4. Smooth(h, g, d, e) => Grows(h, g, d, e, 1) = (h[1] + g[1]) * s
    BY <1>6, <2>1, <2>2, <2>3
  <2>5. SameSide(h, d, e) => Grows(h, g, d, e, 2) = h[2] * m
    BY <1>7, <2>1, <2>2, <2>3
  <2>6. J.j[1][2] = (h[1] + g[1]) * s /\ J.j[2][2] = h[2] * m
    BY <1>5
  <2>7. Slopes(h, g, d, e, J.j, 2)
    BY <1>1, <1>3, <2>4, <2>5, <2>6 DEF Slopes
  <2>8. QED
    BY <2>7 DEF e
<1>10. Slopes(h, g, d, Minus(d, <<1, 0>>), J.i, 1)
  <2> DEFINE e == Minus(d, <<1, 0>>)
  <2>1. e \in Int \X Int
    BY <1>1 DEF Minus
  <2>2. OffArc(h, g, e) = o + (h[2] + g[2]) /\ Dot(e, h) = n + -h[1]
    BY ErrorsMove DEF o, n
  <2>3. (h[2] + g[2]) \in Int /\ -h[1] \in Int
    BY <1>1
  <2> HIDE DEF e
  <2>4. Smooth(h, g, d, e) => Grows(h, g, d, e, 1) = (h[2] + g[2]) * s
    BY <1>6, <2>1, <2>2, <2>3
  <2>5. SameSide(h, d, e) => Grows(h, g, d, e, 2) = (-h[1]) * m
    BY <1>7, <2>1, <2>2, <2>3
  <2>6. J.i[1][1] = (h[2] + g[2]) * s /\ J.i[2][1] = -h[1] * m
    BY <1>5
  <2>7. Slopes(h, g, d, e, J.i, 1)
    BY <1>1, <1>3, <2>4, <2>5, <2>6 DEF Slopes
  <2>8. QED
    BY <2>7 DEF e
<1>11. Slopes(h, g, d, Minus(d, <<0, 1>>), J.i, 2)
  <2> DEFINE e == Minus(d, <<0, 1>>)
  <2>1. e \in Int \X Int
    BY <1>1 DEF Minus
  <2>2. OffArc(h, g, e) = o + -(h[1] + g[1]) /\ Dot(e, h) = n + -h[2]
    BY ErrorsMove DEF o, n
  <2>3. -(h[1] + g[1]) \in Int /\ -h[2] \in Int
    BY <1>1
  <2> HIDE DEF e
  <2>4. Smooth(h, g, d, e) => Grows(h, g, d, e, 1) = (-(h[1] + g[1])) * s
    BY <1>6, <2>1, <2>2, <2>3
  <2>5. SameSide(h, d, e) => Grows(h, g, d, e, 2) = (-h[2]) * m
    BY <1>7, <2>1, <2>2, <2>3
  <2>6. J.i[1][2] = -(h[1] + g[1]) * s /\ J.i[2][2] = -h[2] * m
    BY <1>5
  <2>7. Slopes(h, g, d, e, J.i, 2)
    BY <1>1, <1>3, <2>4, <2>5, <2>6 DEF Slopes
  <2>8. QED
    BY <2>7 DEF e
<1>12. /\ J.i[1][3] = s * OffArc(QuarterTurn(h), <<0, 0>>, d)
       /\ J.j[1][3] = s * OffArc(<<0, 0>>, QuarterTurn(g), d)
  <2>1. OffArc(QuarterTurn(h), <<0, 0>>, d) = -h[2] * d[2] - h[1] * d[1]
    BY <1>1 DEF OffArc, QuarterTurn
  <2>2. OffArc(<<0, 0>>, QuarterTurn(g), d) = -g[2] * d[2] - g[1] * d[1]
    BY <1>1 DEF OffArc, QuarterTurn
  <2>3. J.i[1][3] = (-h[2] * d[2] - h[1] * d[1]) * s /\ J.j[1][3] = (-g[2] * d[2] - g[1] * d[1]) * s
    BY <1>5
  <2>4. (-h[2] * d[2] - h[1] * d[1]) \in Int /\ (-g[2] * d[2] - g[1] * d[1]) \in Int
    BY <1>1
  <2>5. QED
    BY <1>3, <2>1, <2>2, <2>3, <2>4
<1>13. /\ J.i[2][3] = IF n < 0 THEN -Dot(d, QuarterTurn(h)) ELSE 0
       /\ J.j[2][3] = 0
  <2>1. Dot(d, QuarterTurn(h)) = -h[2] * d[1] + h[1] * d[2]
    BY <1>1 DEF Dot, QuarterTurn
  <2>2. J.i[2][3] = (-h[2] * d[1] + h[1] * d[2]) * m /\ J.j[2][3] = 0
    BY <1>5
  <2>3. (-h[2] * d[1] + h[1] * d[2]) \in Int
    BY <1>1
  <2>4. QED
    BY <2>1, <2>2, <2>3 DEF m
<1>14. input.h = h /\ input.g = g /\ input.d = d
  OBVIOUS
<1> DEFINE unit == <<<<1, 0>>, <<0, 1>>>>
<1>15. \A k \in 1 .. 2 : /\ Slopes(h, g, d, Plus(d, unit[k]), J.j, k)
                         /\ Slopes(h, g, d, Minus(d, unit[k]), J.i, k)
  <2>1. unit[1] = <<1, 0>> /\ unit[2] = <<0, 1>>
    OBVIOUS
  <2> HIDE DEF unit
  <2>2. QED
    BY <1>8, <1>9, <1>10, <1>11, <2>1
<1>16. \A k \in 1 .. 2 :
         /\ Smooth(h, g, d, Plus(d, unit[k]))  => J.j[1][k] = Grows(h, g, d, Plus(d, unit[k]), 1)
         /\ Smooth(h, g, d, Minus(d, unit[k])) => J.i[1][k] = Grows(h, g, d, Minus(d, unit[k]), 1)
         /\ SameSide(h, d, Plus(d, unit[k]))  => J.j[2][k] = Grows(h, g, d, Plus(d, unit[k]), 2)
         /\ SameSide(h, d, Minus(d, unit[k])) => J.i[2][k] = Grows(h, g, d, Minus(d, unit[k]), 2)
  BY <1>15, Zenon DEF Slopes
<1>17. QED
  BY <1>12, <1>13, <1>14, <1>16, Zenon
     DEF JacobianIsSlope, J, o, n, s, Smooth, SameSide, Grows

-----------------------------------------------------------------------------
(* The footprint's parameters.                                             *)

(* FoldLeft(SetFootprint, c, cs) makes the changes one by one: st[k] is    *)
(* what the first k of them lead to.                                       *)
Changes(st, c, cs, len) ==
  /\ st[0] = c
  /\ \A k \in 1 .. len : st[k] = SetFootprint(st[k - 1], cs[k])

(* There is such a sequence of configurations, and the fold is the last of *)
(* it.                                                                     *)
LEMMA ChangesOneByOne ==
  ASSUME NEW c, NEW len \in Nat, NEW cs, DOMAIN cs = 1 .. len
  PROVE  \E st : Changes(st, c, cs, len) /\ FoldLeft(SetFootprint, c, cs) = st[len]
<1> DEFINE Def(g, s) == IF s = {} THEN c ELSE SetFootprint(g[s \ {Max(s)}], cs[Max(s)])
           iter == CHOOSE g : g = [s \in SUBSET DOMAIN cs |-> Def(g, s)]
<1>1. FoldLeft(SetFootprint, c, cs) = iter[DOMAIN cs]
  BY Zenon DEF FoldLeft, MapThenFoldSet
<1>2. DOMAIN cs = 1 .. len
  OBVIOUS
<1> DEFINE Rec(g, n) == g = [s \in SUBSET (1 .. n) |-> Def(g, s)]
           N == {n \in Nat : \E g : Rec(g, n)}
<1>3. \A n \in Nat : n \in N
  <2>1. 0 \in N
    <3>1. Rec([s \in SUBSET (1 .. 0) |-> c], 0)
      OBVIOUS
    <3>2. QED
      BY <3>1
  <2>2. ASSUME NEW n \in Nat, n \in N PROVE n + 1 \in N
    <3>1. PICK g : Rec(g, n)
      BY <2>2
    <3> DEFINE h == [s \in SUBSET (1 .. n + 1) |->
                       IF n + 1 \in s THEN SetFootprint(g[s \ {n + 1}], cs[n + 1]) ELSE g[s]]
    <3>2. ASSUME NEW s \in SUBSET (1 .. n + 1) PROVE h[s] = Def(h, s)
      <4>1. CASE n + 1 \in s
        <5>1. Max(s) = n + 1
          <6>1. s \subseteq Nat /\ \A y \in s : y <= n + 1
            OBVIOUS
          <6>2. QED
            BY <4>1, <6>1, MaxIs
        <5>2. s \ {n + 1} \in SUBSET (1 .. n)
          OBVIOUS
        <5>3. h[s \ {n + 1}] = g[s \ {n + 1}]
          BY <5>2
        <5>4. h[s] = SetFootprint(g[s \ {n + 1}], cs[n + 1])
          BY <4>1
        <5> HIDE DEF h
        <5>5. QED
          BY <4>1, <5>1, <5>3, <5>4
      <4>2. CASE n + 1 \notin s
        <5>1. s \in SUBSET (1 .. n)
          BY <4>2
        <5>2. g[s] = Def(g, s)
          BY <3>1, <5>1
        <5>3. h[s] = g[s] /\ h[s \ {Max(s)}] = g[s \ {Max(s)}]
          BY <4>2, <5>1
        <5> HIDE DEF h
        <5>4. QED
          BY <5>2, <5>3
      <4>3. QED
        BY <4>1, <4>2
    <3>3. h = [s \in SUBSET (1 .. n + 1) |-> h[s]]
      OBVIOUS
    <3> HIDE DEF h, Def
    <3>4. Rec(h, n + 1)
      BY <3>2, <3>3
    <3>5. QED
      BY <3>4
  <2> HIDE DEF N
  <2>3. QED
    BY <2>1, <2>2, NatSetInduction
<1>4. Rec(iter, len)
  <2>1. \E g : g = [s \in SUBSET DOMAIN cs |-> Def(g, s)]
    BY <1>2, <1>3
  <2> HIDE DEF Def
  <2>2. QED
    BY <1>2, <2>1
<1> HIDE DEF iter
<1>5. iter[1 .. 0] = c
  BY <1>2, <1>4
<1>6. ASSUME NEW k \in 1 .. len PROVE iter[1 .. k] = SetFootprint(iter[1 .. k - 1], cs[k])
  <2>1. Max(1 .. k) = k
    <3> DEFINE r == 1 .. k
    <3>1. r \subseteq Nat /\ k \in r /\ \A y \in r : y <= k
      OBVIOUS
    <3> HIDE DEF r
    <3>2. Max(r) = k
      BY <3>1, MaxIs
    <3>3. QED
      BY <3>2 DEF r
  <2>2. (1 .. k) \ {k} = 1 .. k - 1 /\ (1 .. k) # {}
    OBVIOUS
  <2>3. 1 .. k \in SUBSET (1 .. len)
    OBVIOUS
  <2>4. QED
    BY <1>4, <2>1, <2>2, <2>3
<1> DEFINE st == [k \in 0 .. len |-> iter[1 .. k]]
<1>7. st[0] = c /\ st[len] = iter[DOMAIN cs]
  BY <1>2, <1>5
<1>8. ASSUME NEW k \in 1 .. len PROVE st[k] = SetFootprint(st[k - 1], cs[k])
  <2>1. k \in 0 .. len /\ k - 1 \in 0 .. len
    OBVIOUS
  <2>2. st[k] = iter[1 .. k] /\ st[k - 1] = iter[1 .. k - 1]
    BY <2>1
  <2>3. QED
    BY <1>6, <2>2
<1> HIDE DEF st
<1>9. QED
  BY <1>1, <1>7, <1>8 DEF Changes

(* What one change does to the configuration. *)
Footprint(type, members, model) == [type |-> type, members |-> members, model |-> model]

(* One change sets one member, and the model unless a member is malformed. *)
LEMMA OneChange ==
  ASSUME NEW type, NEW m, NEW model, NEW change
  PROVE  LET new == [m EXCEPT ![change[1]] = change[2]]
         IN SetFootprint(Footprint(type, m, model), change) =
              Footprint(type, new, IF \E f \in DOMAIN m : new[f] = Malformed THEN model ELSE new)
<1> DEFINE new == [m EXCEPT ![change[1]] = change[2]]
<1>1. DOMAIN new = DOMAIN m
  OBVIOUS
<1>2. SetFootprint(Footprint(type, m, model), change) =
        [Footprint(type, m, model) EXCEPT !.members = new,
           !.model = IF \E f \in DOMAIN new : new[f] = Malformed THEN Footprint(type, m, model).model ELSE new]
  BY Zenon DEF SetFootprint, Footprint
<1> HIDE DEF new
<1>3. QED
  BY <1>1, <1>2 DEF Footprint, new

(* After k changes a member is the last of them that set it, or was never  *)
(* set; the model is that of all the members, if there was a change and    *)
(* none is malformed, and of a line of which an end was never set it is    *)
(* the one that was loaded.                                                *)
LastOf(cs, k, f, j) ==
  j \in 1 .. k /\ cs[j][1] = f /\ \A i \in 1 .. k : i > j => cs[i][1] # f

NeverSet(cs, k, f) == \A j \in 1 .. k : cs[j][1] # f

Members(type, cs, k, m) ==
  /\ m = [f \in Fields(type) |-> m[f]]
  /\ \A f \in Fields(type) :
       /\ NeverSet(cs, k, f) => m[f] = Unset(type)
       /\ \A j \in 1 .. k : LastOf(cs, k, f, j) => m[f] = cs[j][2]

Model(type, given, cs, k, m, model) ==
  /\ k > 0 /\ (\A f \in Fields(type) : m[f] # Malformed) => model = m
  /\ type = "line" /\ (\E f \in Fields(type) : NeverSet(cs, k, f)) => model = LoadFootprint(type, given)

Reached(type, given, cs, k, c) ==
  \E m, model : /\ c = Footprint(type, m, model)
                /\ Members(type, cs, k, m)
                /\ Model(type, given, cs, k, m, model)

(* Before the first change ...                                             *)
LEMMA ReachedAtFirst ==
  ASSUME NEW type, NEW given, NEW cs
  PROVE  Reached(type, given, cs, 0, Loaded(type, given))
<1> DEFINE m == [f \in Fields(type) |-> Unset(type)]
           model == LoadFootprint(type, given)
<1>1. Loaded(type, given) = Footprint(type, m, model)
  BY DEF Loaded, Footprint
<1>2. Members(type, cs, 0, m)
  BY DEF Members
<1>3. Model(type, given, cs, 0, m, model)
  BY DEF Model
<1> HIDE DEF m, model
<1>4. QED
  BY <1>1, <1>2, <1>3 DEF Reached

(* ... and after each of them.                                             *)
LEMMA ReachedByChange ==
  ASSUME NEW type, NEW given, NEW len \in Nat, NEW cs, NEW k \in 1 .. len, NEW c,
         cs[k][1] \in Fields(type), Reached(type, given, cs, k - 1, c)
  PROVE  Reached(type, given, cs, k, SetFootprint(c, cs[k]))
<1>1. PICK m, model : /\ c = Footprint(type, m, model)
                      /\ Members(type, cs, k - 1, m)
                      /\ Model(type, given, cs, k - 1, m, model)
  BY DEF Reached
<1> DEFINE e == cs[k][1]
           new == [m EXCEPT ![cs[k][1]] = cs[k][2]]
           model2 == IF \E f \in DOMAIN m : new[f] = Malformed THEN model ELSE new
<1>2. SetFootprint(c, cs[k]) = Footprint(type, new, model2)
  BY <1>1, OneChange
<1>3. m = [f \in Fields(type) |-> m[f]] /\ DOMAIN m = Fields(type)
  BY <1>1 DEF Members
<1>4. /\ new = [f \in Fields(type) |-> new[f]]
      /\ new[e] = cs[k][2]
      /\ \A f \in Fields(type) : f # e => new[f] = m[f]
  BY <1>3
<1> HIDE DEF new
<1>5. k \in Nat /\ k - 1 \in Nat /\ k > 0 /\ 1 .. k = (1 .. k - 1) \cup {k} /\ k \notin 1 .. k - 1
  OBVIOUS
<1>6. Members(type, cs, k, new)
  <2>1. ASSUME NEW f \in Fields(type), NeverSet(cs, k, f) PROVE new[f] = Unset(type)
    <3>1. f # e /\ NeverSet(cs, k - 1, f)
      BY <1>5, <2>1 DEF NeverSet
    <3>2. QED
      BY <1>1, <1>4, <3>1 DEF Members
  <2>2. ASSUME NEW f \in Fields(type), NEW j \in 1 .. k, LastOf(cs, k, f, j) PROVE new[f] = cs[j][2]
    <3>1. CASE j = k
      <4>1. f = e
        BY <2>2, <3>1 DEF LastOf
      <4>2. QED
        BY <1>4, <3>1, <4>1
    <3>2. CASE j # k
      <4>1. j \in 1 .. k - 1 /\ k > j
        BY <3>2
      <4>2. f # e
        BY <1>5, <2>2, <4>1 DEF LastOf
      <4>3. LastOf(cs, k - 1, f, j)
        BY <1>5, <2>2, <4>1 DEF LastOf
      <4>4. QED
        BY <1>1, <1>4, <4>1, <4>2, <4>3 DEF Members
    <3>3. QED
      BY <3>1, <3>2
  <2>3. QED
    BY <1>4, <2>1, <2>2 DEF Members
<1>7. Model(type, given, cs, k, new, model2)
  <2>1. ASSUME \A f \in Fields(type) : new[f] # Malformed PROVE model2 = new
    BY <1>3, <2>1
  <2>2. ASSUME type = "line", NEW f \in Fields(type), NeverSet(cs, k, f)
        PROVE  model2 = LoadFootprint(type, given)
    <3>1. new[f] = Unset(type)
      BY <1>6, <2>2 DEF Members
    <3>2. new[f] = Malformed
      BY <2>2, <3>1 DEF Unset, Numbers
    <3>3. NeverSet(cs, k - 1, f)
      BY <1>5, <2>2 DEF NeverSet
    <3>4. model = LoadFootprint(type, given)
      BY <1>1, <2>2, <3>3 DEF Model
    <3>5. QED
      BY <1>3, <3>2, <3>4
  <2>3. QED
    BY <2>1, <2>2 DEF Model
<1> HIDE DEF model2
<1>8. QED
  BY <1>2, <1>6, <1>7 DEF Reached

(* After all changes.                                                      *)
LEMMA ReachedInTheEnd ==
  ASSUME NEW type, NEW given, NEW len \in Nat, NEW cs, DOMAIN cs = 1 .. len,
         \A k \in 1 .. len : cs[k][1] \in Fields(type)
  PROVE  Reached(type, given, cs, len, FootprintAfter(type, given, cs))
<1> DEFINE c == Loaded(type, given)
<1>1. PICK st : Changes(st, c, cs, len) /\ FoldLeft(SetFootprint, c, cs) = st[len]
  BY ChangesOneByOne
<1> DEFINE K == {k \in Nat : k <= len => Reached(type, given, cs, k, st[k])}
<1>2. 0 \in K
  BY <1>1, ReachedAtFirst DEF Changes
<1>3. ASSUME NEW k \in Nat, k \in K PROVE k + 1 \in K
  <2> SUFFICES ASSUME k + 1 <= len PROVE Reached(type, given, cs, k + 1, st[k + 1])
    OBVIOUS
  <2>1. k + 1 \in 1 .. len /\ (k + 1) - 1 = k /\ Reached(type, given, cs, k, st[k])
    BY <1>3
  <2>2. st[k + 1] = SetFootprint(st[k], cs[k + 1])
    BY <1>1, <2>1 DEF Changes
  <2>3. cs[k + 1][1] \in Fields(type)
    BY <2>1
  <2>4. QED
    BY <2>1, <2>2, <2>3, ReachedByChange
<1> HIDE DEF K
<1>4. len \in K
  BY <1>2, <1>3, NatSetInduction
<1>5. QED
  BY <1>1, <1>4 DEF K, FootprintAfter

(* What the check of the footprint says of one of its inputs.              *)
AsConfigured(type, given, cs) ==
  LET changed == {cs[k][1] : k \in DOMAIN cs}
      now == [f \in Fields(type) |->
                IF f \in changed THEN cs[Max({k \in DOMAIN cs : cs[k][1] = f})][2]
                ELSE given[f]]
      after == FootprintAfter(type, given, cs)
  IN /\ changed \in {{}, Fields(type)} /\ (\A f \in DOMAIN now : now[f] # Malformed)
          => after.model = FootprintFromServer(type, now)
     /\ type = "line" /\ changed # Fields("line")
          => after.model = LoadFootprint("line", given)

(* When every parameter was set, the model is what was set last, which is  *)
(* what the server has; a line of which a parameter was never set stays as *)
(* it was loaded.                                                          *)
LEMMA FootprintIsAsSet ==
  ASSUME NEW type, NEW given, NEW len \in Nat,
         NEW cs \in [1 .. len -> Fields(type) \X (Sizes \cup {Malformed})],
         \A f \in Fields(type) : given[f] \in Sizes \cup {Malformed},
         input = [kind |-> "footprint", type |-> type, given |-> given, changes |-> cs]
  PROVE  FootprintAsConfigured
<1> DEFINE changed == {cs[k][1] : k \in DOMAIN cs}
           At(f) == {k \in DOMAIN cs : cs[k][1] = f}
           now == [f \in Fields(type) |-> IF f \in changed THEN cs[Max(At(f))][2] ELSE given[f]]
           after == FootprintAfter(type, given, cs)
<1>1. DOMAIN cs = 1 .. len
  OBVIOUS
<1>2. \A k \in 1 .. len : cs[k][1] \in Fields(type) /\ cs[k][2] \in Sizes \cup {Malformed}
  OBVIOUS
<1>3. PICK m, model : /\ after = Footprint(type, m, model)
                      /\ Members(type, cs, len, m)
                      /\ Model(type, given, cs, len, m, model)
  <2>1. Reached(type, given, cs, len, after)
    BY <1>1, <1>2, ReachedInTheEnd
  <2> HIDE DEF after
  <2>2. QED
    BY <2>1 DEF Reached
<1>4. after.model = model
  BY <1>3 DEF Footprint
<1>5. input.changes = cs /\ input.type = type /\ input.given = given
  OBVIOUS
<1>6. ASSUME NEW f \in changed PROVE LastOf(cs, len, f, Max(At(f)))
  <2>1. At(f) \subseteq 1 .. len /\ At(f) # {}
    BY <1>1
  <2>2. Max(At(f)) \in At(f) /\ \A y \in At(f) : y <= Max(At(f))
    <3> HIDE DEF At
    <3>1. QED
      BY <2>1, MaxIsMember
  <2> DEFINE j == Max(At(f))
  <2>3. j \in 1 .. len /\ cs[j][1] = f
    BY <1>1, <2>2
  <2>4. ASSUME NEW i \in 1 .. len, i > j PROVE cs[i][1] # f
    <3>1. CASE cs[i][1] = f
      <4>1. i \in At(f)
        BY <1>1, <3>1
      <4>2. i <= j
        BY <2>2, <4>1
      <4> HIDE DEF j
      <4>3. QED
        BY <2>3, <2>4, <4>2
    <3>2. QED
      BY <3>1
  <2> HIDE DEF j
  <2>5. LastOf(cs, len, f, j)
    BY <2>3, <2>4 DEF LastOf
  <2>6. QED
    BY <2>5 DEF j
<1>7. ASSUME NEW f \in Fields(type), f \notin changed PROVE NeverSet(cs, len, f)
  BY <1>1, <1>7 DEF NeverSet
<1>8. \A f \in Fields(type) : now[f] = IF f \in changed THEN cs[Max(At(f))][2] ELSE given[f]
  OBVIOUS
<1>9. now = [f \in Fields(type) |-> now[f]]
  OBVIOUS
<1>10. changed \subseteq Fields(type)
  BY <1>1, <1>2
<1>11. len > 0 => changed # {}
  BY <1>1
<1> HIDE DEF after, changed, At, now
<1>12. ASSUME NEW f \in Fields(type) PROVE now[f] \in Sizes \cup {Malformed}
  <2>1. CASE f \in changed
    <3>1. Max(At(f)) \in 1 .. len
      BY <1>6, <2>1 DEF LastOf
    <3>2. QED
      BY <1>2, <1>8, <2>1, <3>1
  <2>2. CASE f \notin changed
    BY <1>8, <2>2
  <2>3. QED
    BY <2>1, <2>2
<1>13. ASSUME changed \in {{}, Fields(type)}, \A f \in DOMAIN now : now[f] # Malformed
       PROVE  after.model = FootprintFromServer(type, now)
  <2>1. \A f \in Fields(type) : now[f] # Malformed
    BY <1>9, <1>13
  <2>2. \A f \in Fields(type) : now[f] \notin {Malformed, Garbage}
    BY <1>12, <2>1, AlgorithmsOK
  <2>3. FootprintFromServer(type, now) = now
    BY <1>9, <2>2, Zenon DEF FootprintFromServer
  <2>4. CASE len > 0
    <3>1. changed = Fields(type)
      BY <1>11, <1>13, <2>4
    <3>2. ASSUME NEW f \in Fields(type) PROVE m[f] = now[f]
      <4>1. LastOf(cs, len, f, Max(At(f))) /\ Max(At(f)) \in 1 .. len
        BY <1>6, <3>1 DEF LastOf
      <4>2. m[f] = cs[Max(At(f))][2]
        BY <1>3, <4>1 DEF Members
      <4>3. QED
        BY <1>8, <3>1, <4>2
    <3>3. m = now
      BY <1>3, <1>9, <3>2 DEF Members
    <3>4. model = m
      BY <1>3, <2>1, <2>4, <3>2 DEF Model
    <3>5. QED
      BY <1>4, <2>3, <3>3, <3>4
  <2>5. CASE len = 0
    <3>1. after = Loaded(type, given)
      <4>1. PICK st : Changes(st, Loaded(type, given), cs, len)
                      /\ FoldLeft(SetFootprint, Loaded(type, given), cs) = st[len]
        BY <1>1, ChangesOneByOne
      <4>2. QED
        BY <2>5, <4>1 DEF Changes, after, FootprintAfter
    <3>2. changed = {}
      BY <1>1, <2>5 DEF changed
    <3>3. \A f \in Fields(type) : now[f] = given[f]
      BY <1>8, <3>2
    <3>4. ~(type = "polygon" /\ given["vertices"] = Malformed)
      BY <2>1, <3>3 DEF Fields
    <3>5. LoadFootprint(type, given) = [f \in Fields(type) |-> now[f]]
      BY <2>1, <3>3, <3>4 DEF LoadFootprint
    <3>6. after.model = LoadFootprint(type, given)
      BY <3>1 DEF Loaded
    <3>7. QED
      BY <1>9, <2>3, <3>5, <3>6
  <2>6. QED
    BY <2>4, <2>5
<1>14. ASSUME type = "line", changed # Fields("line")
       PROVE  after.model = LoadFootprint("line", given)
  <2>1. PICK f \in Fields(type) : f \notin changed
    BY <1>10, <1>14
  <2>2. model = LoadFootprint(type, given)
    BY <1>3, <1>7, <1>14, <2>1 DEF Model
  <2>3. QED
    BY <1>4, <1>14, <2>2
<1>15. AsConfigured(type, given, cs)
  BY <1>13, <1>14, Zenon DEF AsConfigured, now, changed, At, after
<1>16. AsConfigured(input.type, input.given, input.changes) => FootprintAsConfigured
  BY Zenon DEF FootprintAsConfigured, AsConfigured
<1>17. QED
  BY <1>5, <1>15, <1>16

-----------------------------------------------------------------------------
(* Costs: rationals and penalties.                                         *)

(* Rationals. *)
LEMMA RationalType ==
  ASSUME NEW q \in Rational, NEW r \in Rational
  PROVE  /\ AddQ(q, r) \in Rational /\ SubQ(q, r) \in Rational /\ MulQ(q, r) \in Rational
         /\ NegQ(q) \in Rational /\ AbsQ(q) \in Rational
         /\ r[1] # 0 => OverQ(q, r) \in Rational
  BY DEF Rational, SubQ, NegQ, AddQ, MulQ, AbsQ, OverQ

(* Whole numbers are rationals.                                            *)
LEMMA WholeIsRational == \A n \in Int : Q(n) \in Rational
  BY DEF Q, Rational

(* What costs nothing lies between the two bounds. *)
LEMMA IntervalFree ==
  ASSUME NEW v \in Rational, NEW a \in Rational, NEW b \in Rational, NEW e \in Rational
  PROVE  /\ PenaltyBoundToInterval(v, a, b, e)[1] = 0
              <=> ~LessQ(v, AddQ(a, e)) /\ ~LessQ(SubQ(b, e), v)
         /\ AddQ(NegQ(b), e) = NegQ(SubQ(b, e))
<1>1. AddQ(a, e) \in Rational /\ SubQ(b, e) \in Rational
  BY RationalType
<1>2. \A q, r \in Rational : SubQ(q, r)[1] = q[1] * r[2] - r[1] * q[2]
  BY DEF Rational, SubQ, NegQ, AddQ
<1>3. PenaltyBoundToInterval(v, a, b, e)[1] = 0
              <=> ~LessQ(v, AddQ(a, e)) /\ ~LessQ(SubQ(b, e), v)
  BY <1>1, <1>2 DEF PenaltyBoundToInterval, LessQ, Q, Rational
<1>4. AddQ(NegQ(b), e) = NegQ(SubQ(b, e))
  BY DEF Rational, SubQ, NegQ, AddQ
<1>5. QED
  BY <1>3, <1>4

(* ... and of bounds that differ in the sign only, between them.           *)
LEMMA WithinFree ==
  ASSUME NEW v \in Rational, NEW a \in Rational, NEW e \in Rational
  PROVE  PenaltyWithin(v, a, e)[1] = 0 <=> ~LessQ(v, NegQ(SubQ(a, e))) /\ ~LessQ(SubQ(a, e), v)
<1>1. NegQ(a) \in Rational
  BY RationalType
<1>2. QED
  BY <1>1, IntervalFree DEF PenaltyWithin

(* What costs nothing is not below the bound, and no cost is negative.     *)
LEMMA FromBelowFree ==
  ASSUME NEW v \in Rational, NEW a \in Rational, NEW e \in Rational
  PROVE  /\ PenaltyBoundFromBelow(v, a, e)[1] = 0 <=> ~LessQ(v, AddQ(a, e))
         /\ PenaltyBoundFromBelow(v, a, e)[1] >= 0
         /\ PenaltyBoundFromBelow(v, a, e) \in Rational
<1>1. AddQ(a, e) \in Rational
  BY RationalType
<1>2. \A q, r \in Rational : SubQ(q, r)[1] = q[1] * r[2] - r[1] * q[2] /\ SubQ(q, r) \in Rational
  BY DEF Rational, SubQ, NegQ, AddQ
<1>3. CASE LessQ(v, AddQ(a, e))
  <2> DEFINE x == AddQ(a, e)
  <2>1. PenaltyBoundFromBelow(v, a, e) = SubQ(x, v)
    BY <1>3 DEF PenaltyBoundFromBelow
  <2>2. SubQ(x, v)[1] = x[1] * v[2] - v[1] * x[2] /\ SubQ(x, v) \in Rational
    BY <1>1, <1>2
  <2>3. v[1] * x[2] < x[1] * v[2]
    BY <1>3 DEF LessQ
  <2> HIDE DEF x
  <2>4. v[1] * x[2] \in Int /\ x[1] * v[2] \in Int
    BY <1>1 DEF Rational, x
  <2>5. QED
    BY <1>3, <2>1, <2>2, <2>3, <2>4 DEF x
<1>4. CASE ~LessQ(v, AddQ(a, e))
  <2>1. PenaltyBoundFromBelow(v, a, e) = <<0, 1>>
    BY <1>4 DEF PenaltyBoundFromBelow, Q
  <2>2. QED
    BY <1>4, <2>1 DEF Rational
<1>5. QED
  BY <1>3, <1>4

-----------------------------------------------------------------------------
(* Velocities.                                                             *)

(* The length of a vector whose length is whole.                           *)
LEMMA LengthIs ==
  ASSUME NEW v \in Int \X Int, NEW n \in Nat, n * n = SqNorm(v)
  PROVE  Length(v) = n
<1>1. n \in 0 .. SqNorm(v)
  <2>1. n <= n * n
    OBVIOUS
  <2>2. QED
    BY <2>1
<1>2. \A m \in 0 .. SqNorm(v) : m * m = SqNorm(v) => m = n
  <2>1. SqNorm(v) \in Int
    BY DEF SqNorm, Dot
  <2>2. \A m \in Nat : m * m = n * n => m = n
    <3> SUFFICES ASSUME NEW m \in Nat, m * m = n * n PROVE m = n
      OBVIOUS
    <3>1. (m - n) * (m + n) = 0
      OBVIOUS
    <3>2. QED
      BY <3>1
  <2>3. QED
    BY <2>1, <2>2
<1>3. QED
  BY <1>1, <1>2 DEF Length

(* A pose, and a step of whole length from one to another *)
Whole(v) == v \in Int \X Int /\ \E n \in Nat : n * n = SqNorm(v)

(* Multiples of a direction have whole length.                             *)
LEMMA ScaledIsWhole ==
  ASSUME NEW v \in Directions, NEW k \in Int
  PROVE  Scale(k, v) \in Int \X Int /\ Whole(Scale(k, v))
<1>1. v \in Int \X Int /\ \E n \in 0 .. SqNorm(v) : n * n = SqNorm(v)
  BY AlgorithmsOK
<1>2. SqNorm(v) \in Nat
  BY <1>1 DEF SqNorm, Dot
<1>3. PICK n \in Nat : n * n = SqNorm(v)
  BY <1>1, <1>2
<1>4. Scale(k, v) \in Int \X Int
  BY <1>1 DEF Scale
<1>5. SqNorm(Scale(k, v)) = (k * n) * (k * n)
  <2>1. SqNorm(Scale(k, v)) = (k * k) * SqNorm(v)
    BY <1>1 DEF SqNorm, Dot, Scale
  <2>2. (k * n) * (k * n) = (k * k) * (n * n)
    OBVIOUS
  <2>3. QED
    BY <1>3, <2>1, <2>2
<1>6. CASE k >= 0
  <2>1. k * n \in Nat
    BY <1>6
  <2>2. QED
    BY <1>4, <1>5, <2>1 DEF Whole
<1>7. CASE k < 0
  <2>1. (-k) * n \in Nat
    BY <1>7
  <2>2. ((-k) * n) * ((-k) * n) = (k * n) * (k * n)
    OBVIOUS
  <2>3. QED
    BY <1>4, <1>5, <2>1, <2>2 DEF Whole
<1>8. QED
  BY <1>6, <1>7

AtPose(p) == p.at \in Int \X Int /\ p.quarter \in 0 .. 3

(* A heading is one of four unit vectors.                                  *)
LEMMA HeadingIsUnit ==
  ASSUME NEW p, AtPose(p)
  PROVE  Heading(p) \in {<<1, 0>>, <<0, 1>>, <<-1, 0>>, <<0, -1>>}
  BY DEF AtPose, Heading

(* The step in the frame of the pose it begins at.                         *)
LEMMA StepIs ==
  ASSUME NEW p, NEW q, AtPose(p), AtPose(q), Whole(Minus(q.at, p.at))
  PROVE  /\ Ahead(p, q) \in Int /\ Beside(p, q) \in Int /\ Turn(p, q) \in -1 .. 2
         /\ Length(Minus(q.at, p.at)) \in Nat
         /\ Length(Minus(q.at, p.at)) * Length(Minus(q.at, p.at))
              = Ahead(p, q) * Ahead(p, q) + Beside(p, q) * Beside(p, q)
<1> DEFINE v == Minus(q.at, p.at)
           h == Heading(p)
<1>1. v \in Int \X Int /\ h \in {<<1, 0>>, <<0, 1>>, <<-1, 0>>, <<0, -1>>}
  BY HeadingIsUnit DEF Whole
<1>2. Ahead(p, q) = Dot(h, v) /\ Beside(p, q) = Cross(h, v)
  BY DEF Ahead, Beside
<1>3. PICK n \in Nat : n * n = SqNorm(v)
  BY DEF Whole
<1> HIDE DEF v, h
<1>4. Length(v) = n
  BY <1>1, <1>3, LengthIs
<1>5. /\ Dot(h, v) \in Int /\ Cross(h, v) \in Int
      /\ SqNorm(v) = Dot(h, v) * Dot(h, v) + Cross(h, v) * Cross(h, v)
  BY <1>1 DEF Dot, Cross, SqNorm
<1>6. Turn(p, q) \in -1 .. 2
  BY DEF AtPose, Turn, NormalizeTheta
<1>7. QED
  BY <1>2, <1>3, <1>4, <1>5, <1>6 DEF v

Straight(p, q) ==
  DiffDriveError(Heading(p), Heading(q), Minus(q.at, p.at))[1] = 0 /\ Turn(p, q) = 0

(* A straight step goes nowhere but ahead or back.                         *)
LEMMA StraightStep ==
  ASSUME NEW p, NEW q, AtPose(p), AtPose(q), Whole(Minus(q.at, p.at)), Straight(p, q)
  PROVE  /\ Beside(p, q) = 0
         /\ Length(Minus(q.at, p.at)) = IF Ahead(p, q) < 0 THEN -Ahead(p, q) ELSE Ahead(p, q)
<1> DEFINE v == Minus(q.at, p.at)
           h == Heading(p)
<1>1. v \in Int \X Int /\ h \in Int \X Int
  BY HeadingIsUnit DEF Whole
<1>2. Heading(q) = h
  <2>1. q.quarter = p.quarter
    BY DEF Straight, Turn, NormalizeTheta, AtPose
  <2>2. QED
    BY <2>1 DEF Heading
<1>3. OffArc(h, h, v) = 0
  <2>1. DiffDriveError(h, h, v)[1] = 0
    BY <1>2 DEF Straight
  <2>2. OffArc(h, h, v) \in Int
    BY <1>1 DEF OffArc
  <2>3. QED
    BY <2>1, <2>2 DEF DiffDriveError
<1>4. OffArc(h, h, v) = 2 * Cross(h, v) /\ Cross(h, v) \in Int
  BY <1>1 DEF OffArc, Cross
<1>5. Beside(p, q) = 0
  BY <1>3, <1>4 DEF Beside
<1>6. QED
  <2> DEFINE l == Length(v)
             k == Ahead(p, q)
  <2>1. l \in Nat /\ k \in Int /\ l * l = k * k + 0
    BY <1>5, StepIs
  <2> HIDE DEF l, k
  <2>2. l = IF k < 0 THEN -k ELSE k
    <3>1. (l - k) * (l + k) = 0
      BY <2>1
    <3>2. QED
      BY <2>1, <3>1
  <2>3. QED
    BY <1>5, <2>2 DEF l, k, v

(* The smoothed sign takes less than a centimetre from a step.             *)
LEMMA Smoothed ==
  ASSUME NEW k \in Nat, NEW m \in Int, NEW d \in Nat \ {0}
  PROVE  /\ k * k * d <= m * (1 + k) => (k - 1) * d < m
         /\ k * d <= m => k * k * d <= m * (1 + k)
<1>1. ASSUME k * k * d <= m * (1 + k), m <= (k - 1) * d PROVE FALSE
  <2>1. m * (1 + k) <= ((k - 1) * d) * (1 + k)
    BY <1>1
  <2>2. ((k - 1) * d) * (1 + k) = k * k * d - d
    OBVIOUS
  <2>3. QED
    BY <1>1, <2>1, <2>2
<1>2. ASSUME k * d <= m PROVE k * k * d <= m * (1 + k)
  <2>1. (k * d) * k <= m * k /\ (k * d) * k = k * k * d
    BY <1>2
  <2>2. m >= 0
    BY <1>2
  <2>3. QED
    BY <2>1, <2>2
<1>3. (k - 1) * d \in Int
  OBVIOUS
<1>4. QED
  BY <1>1, <1>2, <1>3

SmoothedSpeed(k, dt) == LET n == IF k < 0 THEN -k ELSE k IN <<n * k, dt * (1 + n)>>

(* The same of a limit of the speed, in either direction.                  *)
LEMMA SmoothedLimit ==
  ASSUME NEW k \in Int, NEW dt \in Nat \ {0}, NEW f \in Rational
  PROVE  /\ SmoothedSpeed(k, dt) \in Rational
         /\ ~LessQ(f, SmoothedSpeed(k, dt)) /\ k >= 0 => Less(k - 1, Times2(dt, f))
         /\ NotMore(k, Times2(dt, f)) /\ NotMore(0, Times2(dt, f)) => ~LessQ(f, SmoothedSpeed(k, dt))
         /\ ~LessQ(f, SmoothedSpeed(k, dt)) /\ k < 0 => Less(k - 1, Times2(dt, f))
<1> DEFINE n == IF k < 0 THEN -k ELSE k
           d == f[2]
           m == dt * f[1]
<1>1. n \in Nat /\ d \in Nat \ {0} /\ m \in Int /\ f[1] \in Int
  BY DEF Rational
<1>2. SmoothedSpeed(k, dt) = <<n * k, dt * (1 + n)>>
  BY DEF SmoothedSpeed
<1>3. LessQ(f, SmoothedSpeed(k, dt)) <=> m * (1 + n) < n * k * d
  <2>1. LessQ(f, SmoothedSpeed(k, dt)) <=> f[1] * (dt * (1 + n)) < (n * k) * d
    BY <1>2 DEF LessQ
  <2>2. f[1] * (dt * (1 + n)) = m * (1 + n)
    BY <1>1
  <2>3. QED
    BY <2>1, <2>2
<1>4. \A j \in Int : Less(j, Times2(dt, f)) <=> j * d < m
  BY <1>1 DEF Less, Times2, MulQ, Q
<1>5. \A j \in Int : NotMore(j, Times2(dt, f)) <=> j * d <= m
  BY <1>1 DEF NotMore, Times2, MulQ, Q
<1>6. SmoothedSpeed(k, dt) \in Rational
  <2>1. n * k \in Int /\ dt * (1 + n) \in Nat \ {0}
    BY <1>1
  <2>2. QED
    BY <1>2, <2>1 DEF Rational
<1> HIDE DEF m, d
<1>7. CASE k >= 0
  <2>1. n = k
    BY <1>7
  <2>2. LessQ(f, SmoothedSpeed(k, dt)) <=> m * (1 + k) < k * k * d
    BY <1>3, <2>1
  <2>3. /\ k * k * d <= m * (1 + k) => (k - 1) * d < m
        /\ k * d <= m => k * k * d <= m * (1 + k)
    BY <1>1, <1>7, Smoothed
  <2>4. k * k * d \in Int /\ m * (1 + k) \in Int
    BY <1>1
  <2>5. QED
    BY <1>4, <1>5, <1>6, <1>7, <2>2, <2>3, <2>4
<1>8. CASE k < 0
  <2>1. n = -k
    BY <1>8
  <2>2. /\ k * k * d <= (-m) * (1 + n) => (n - 1) * d < -m
        /\ n * d <= -m => n * n * d <= (-m) * (1 + n)
    <3>1. k * k * d = n * n * d
      BY <1>1, <2>1
    <3>2. QED
      BY <1>1, <3>1, Smoothed
  <2>3. n * k * d = -(n * n * d) /\ n * n * d \in Nat
    BY <1>1, <2>1
  <2>4. ASSUME m * (1 + n) >= n * k * d PROVE (k - 1) * d < m
    <3>1. (k - 1) * d = -((n + 1) * d)
      BY <1>1, <2>1
    <3>2. CASE m <= -((n + 1) * d)
      <4>1. m * (1 + n) <= (-((n + 1) * d)) * (1 + n)
        BY <1>1, <3>2
      <4>2. (-((n + 1) * d)) * (1 + n) = -(n * n * d) - 2 * n * d - d
        BY <1>1
      <4>3. QED
        BY <1>1, <2>3, <2>4, <4>1, <4>2
    <3>3. CASE m > -((n + 1) * d)
      BY <3>1, <3>3
    <3>4. QED
      BY <1>1, <3>2, <3>3
  <2>5. ASSUME 0 <= m PROVE n * k * d <= m * (1 + n)
    <3>1. m * (1 + n) >= 0
      BY <1>1, <2>5
    <3>2. QED
      BY <1>1, <2>3, <3>1
  <2>6. m * (1 + n) \in Int /\ n * k * d \in Int
    BY <1>1
  <2>7. NotMore(0, Times2(dt, f)) <=> 0 <= m
    BY <1>1, <1>5
  <2>8. k - 1 \in Int /\ (Less(k - 1, Times2(dt, f)) <=> (k - 1) * d < m)
    BY <1>4
  <2>9. QED
    BY <1>3, <1>6, <1>8, <2>4, <2>5, <2>6, <2>7, <2>8
<1>9. QED
  BY <1>7, <1>8

(* The speed of the opposite step.                                         *)
LEMMA SmoothedOpposite ==
  ASSUME NEW k \in Int, NEW dt \in Nat \ {0}, NEW b \in Rational
  PROVE  LessQ(SmoothedSpeed(k, dt), NegQ(b)) <=> LessQ(b, SmoothedSpeed(-k, dt))
<1> DEFINE n == IF k < 0 THEN -k ELSE k
<1>1. n \in Nat /\ n = IF -k < 0 THEN -(-k) ELSE -k
  OBVIOUS
<1>2. SmoothedSpeed(k, dt) = <<n * k, dt * (1 + n)>> /\ SmoothedSpeed(-k, dt) = <<n * (-k), dt * (1 + n)>>
  BY <1>1 DEF SmoothedSpeed
<1>3. n * (-k) = -(n * k) /\ n * k \in Int /\ dt * (1 + n) \in Int
  BY <1>1
<1> DEFINE x == n * k
           y == dt * (1 + n)
<1>4. SmoothedSpeed(k, dt) = <<x, y>> /\ SmoothedSpeed(-k, dt) = <<-x, y>> /\ x \in Int /\ y \in Int
  BY <1>2, <1>3
<1> HIDE DEF x, y, n
<1>5. b[1] \in Int /\ b[2] \in Int
  BY DEF Rational
<1>6. QED
  BY <1>4, <1>5 DEF LessQ, NegQ

(* The configuration, parameter by parameter.                              *)
LEMMA ConfigType ==
  ASSUME NEW c \in Configs
  PROVE  /\ \A l \in Quantities : c[l] \in Rational
         /\ c.max_vel_x \in Rational /\ c.max_vel_x_backwards \in Rational
         /\ c.max_vel_y \in Rational /\ c.max_vel_theta \in Rational
         /\ c.acc_lim_x \in Rational /\ c.acc_lim_y \in Rational /\ c.acc_lim_theta \in Rational
         /\ c.min_turning_radius \in Rational /\ c.penalty_epsilon \in Rational
         /\ c.min_obstacle_dist \in Rational /\ c.inflation_dist \in Rational
         /\ c.dynamic_obstacle_inflation_dist \in Rational
         /\ c.obstacle_proximity_lower_bound \in Rational
         /\ c.obstacle_proximity_upper_bound \in Rational
         /\ c.obstacle_proximity_ratio_max_vel \in Rational
         /\ c.max_vel_x[1] >= 0 /\ c.max_vel_y[1] >= 0 /\ c.min_obstacle_dist[1] >= 0
         /\ c.obstacle_proximity_ratio_max_vel[1] >= 0
         /\ c.obstacle_cost_exponent \in Nat \ {0}
  BY ConfigsOK DEF Quantities

AheadLimit(dt, c)  == Times2(dt, SubQ(c.max_vel_x, c.penalty_epsilon))
BackLimit(dt, c) == Times2(dt, SubQ(c.max_vel_x_backwards, c.penalty_epsilon))
TurnLimit(dt, c)   == Times2(dt, SubQ(c.max_vel_theta, c.penalty_epsilon))

(* the parts of the check of the speed *)
StraightLimited(p, q, dt, c) ==
  Straight(p, q) /\ Free(VelocityError(p, q, dt, c)) =>
    Less(Ahead(p, q) - 1, AheadLimit(dt, c)) /\ Less(-Ahead(p, q) - 1, BackLimit(dt, c)) /\ Beside(p, q) = 0

LimitedFree(p, q, dt, c) ==
  Straight(p, q) /\ NotMore(Ahead(p, q), AheadLimit(dt, c)) /\ NotMore(-Ahead(p, q), BackLimit(dt, c))
    /\ NotMore(0, AheadLimit(dt, c)) /\ NotMore(0, BackLimit(dt, c)) /\ NotMore(0, TurnLimit(dt, c))
  => Free(VelocityError(p, q, dt, c))

(* The velocity of a straight step.                                        *)
LEMMA StraightTwist ==
  ASSUME NEW p, NEW q, AtPose(p), AtPose(q), Whole(Minus(q.at, p.at)), Straight(p, q),
         NEW dt \in Nat \ {0}
  PROVE  Twist(p, q, dt) = <<SmoothedSpeed(Ahead(p, q), dt), <<0, dt>>>>
<1>1. Ahead(p, q) \in Int
  BY StepIs
<1>2. Length(Minus(q.at, p.at)) = IF Ahead(p, q) < 0 THEN -Ahead(p, q) ELSE Ahead(p, q)
  BY StraightStep
<1>3. Turn(p, q) = 0
  BY DEF Straight
<1>4. QED
  BY <1>1, <1>2, <1>3 DEF Twist, SmoothedSpeed

(* What it is that two terms cost nothing ...                              *)
LEMMA PairFree ==
  ASSUME NEW e, NEW f PROVE Free(<<e, f>>) <=> e[1] = 0 /\ f[1] = 0
  BY DEF Free

(* ... and three.                                                          *)
LEMMA TripleFree ==
  ASSUME NEW e, NEW f, NEW g PROVE Free(<<e, f, g>>) <=> e[1] = 0 /\ f[1] = 0 /\ g[1] = 0
  BY DEF Free

(* A straight step is limited, and costs nothing within the limits.        *)
LEMMA StraightSpeed ==
  ASSUME NEW p, NEW q, AtPose(p), AtPose(q), Whole(Minus(q.at, p.at)),
         NEW dt \in Nat \ {0}, NEW c \in Configs
  PROVE  StraightLimited(p, q, dt, c) /\ LimitedFree(p, q, dt, c)
<1> SUFFICES ASSUME Straight(p, q)
             PROVE  StraightLimited(p, q, dt, c) /\ LimitedFree(p, q, dt, c)
  BY DEF StraightLimited, LimitedFree
<1> DEFINE k == Ahead(p, q)
           v == SmoothedSpeed(k, dt)
           f == SubQ(c.max_vel_x, c.penalty_epsilon)
           b == SubQ(c.max_vel_x_backwards, c.penalty_epsilon)
           t == SubQ(c.max_vel_theta, c.penalty_epsilon)
           e1 == PenaltyBoundToInterval(v, NegQ(c.max_vel_x_backwards), c.max_vel_x, c.penalty_epsilon)
           e2 == PenaltyWithin(<<0, dt>>, c.max_vel_theta, c.penalty_epsilon)
<1>0. k \in Int /\ Beside(p, q) = 0
  BY StepIs, StraightStep
<1>1. f \in Rational /\ b \in Rational /\ t \in Rational /\ v \in Rational /\ <<0, dt>> \in Rational
  <2>1. f \in Rational /\ b \in Rational /\ t \in Rational
    BY ConfigType, RationalType
  <2>2. v \in Rational
    BY <1>0, <2>1, SmoothedLimit
  <2>3. QED
    BY <2>1, <2>2 DEF Rational
<1>2. VelocityError(p, q, dt, c) = <<e1, e2>>
  BY StraightTwist DEF VelocityError
<1>3. e1[1] = 0 <=> ~LessQ(v, NegQ(b)) /\ ~LessQ(f, v)
  <2>1. NegQ(c.max_vel_x_backwards) \in Rational
    BY ConfigType, RationalType
  <2>2. e1[1] = 0 <=> ~LessQ(v, AddQ(NegQ(c.max_vel_x_backwards), c.penalty_epsilon)) /\ ~LessQ(f, v)
    BY <1>1, <2>1, ConfigType, IntervalFree
  <2>3. AddQ(NegQ(c.max_vel_x_backwards), c.penalty_epsilon) = NegQ(b)
    BY <1>1, ConfigType, IntervalFree
  <2>4. QED
    BY <2>2, <2>3
<1>4. e2[1] = 0 <=> ~LessQ(<<0, dt>>, NegQ(t)) /\ ~LessQ(t, <<0, dt>>)
  BY <1>1, ConfigType, WithinFree
<1>5. NotMore(0, Times2(dt, t)) => e2[1] = 0
  <2>1. t[1] \in Int /\ t[2] \in Nat \ {0}
    BY <1>1 DEF Rational
  <2> HIDE DEF t, e2
  <2>2. NotMore(0, Times2(dt, t)) => t[1] >= 0
    BY <2>1 DEF NotMore, Times2, MulQ, Q
  <2>3. t[1] >= 0 => t[1] * dt >= 0 /\ (-t[1]) * dt <= 0
    BY <2>1
  <2>4. t[1] >= 0 => ~LessQ(<<0, dt>>, NegQ(t)) /\ ~LessQ(t, <<0, dt>>)
    BY <2>1, <2>3 DEF LessQ, NegQ
  <2>5. QED
    BY <1>4, <2>2, <2>4
<1>6. LessQ(v, NegQ(b)) <=> LessQ(b, SmoothedSpeed(-k, dt))
  BY <1>0, <1>1, SmoothedOpposite
<1> HIDE DEF e1, e2, v, f, b, t, k
<1>7. ~LessQ(f, v) => Less(k - 1, Times2(dt, f))
  BY <1>0, <1>1, SmoothedLimit DEF k, v
<1>8. ~LessQ(b, SmoothedSpeed(-k, dt)) => Less(-k - 1, Times2(dt, b))
  <2>1. -k \in Int
    BY <1>0
  <2>2. QED
    BY <1>1, <2>1, SmoothedLimit
<1>9. NotMore(k, Times2(dt, f)) /\ NotMore(0, Times2(dt, f)) => ~LessQ(f, v)
  BY <1>0, <1>1, SmoothedLimit DEF k, v
<1>10. NotMore(-k, Times2(dt, b)) /\ NotMore(0, Times2(dt, b)) => ~LessQ(b, SmoothedSpeed(-k, dt))
  <2>1. -k \in Int
    BY <1>0
  <2>2. QED
    BY <1>1, <2>1, SmoothedLimit
<1>11. Free(VelocityError(p, q, dt, c)) <=> e1[1] = 0 /\ e2[1] = 0
  BY <1>2, PairFree
<1>12. StraightLimited(p, q, dt, c)
  BY <1>0, <1>3, <1>6, <1>7, <1>8, <1>11 DEF StraightLimited, AheadLimit, BackLimit, k, f, b
<1>13. LimitedFree(p, q, dt, c)
  BY <1>3, <1>5, <1>6, <1>9, <1>10, <1>11 DEF LimitedFree, AheadLimit, BackLimit, TurnLimit, k, f, b, t
<1>14. QED
  BY <1>12, <1>13

HolonomicLimited(p, q, dt, c) ==
  Free(HolonomicVelocityError(p, q, dt, c)) <=>
    /\ NotMore(Ahead(p, q), AheadLimit(dt, c)) /\ NotMore(-Ahead(p, q), BackLimit(dt, c))
    /\ \A s \in {-1, 1} : /\ NotMore(s * Beside(p, q), Times2(dt, c.max_vel_y))
                          /\ NotMore(s * Turn(p, q), TurnLimit(dt, c))

(* n / dt <= f, and -b <= n / dt, for a whole n *)
LEMMA SpeedWithin ==
  ASSUME NEW n \in Int, NEW dt \in Nat \ {0}, NEW f \in Rational
  PROVE  /\ <<n, dt>> \in Rational
         /\ LessQ(f, <<n, dt>>) <=> ~NotMore(n, Times2(dt, f))
         /\ LessQ(<<n, dt>>, NegQ(f)) <=> ~NotMore(-n, Times2(dt, f))
<1>1. f[1] \in Int /\ f[2] \in Int /\ <<n, dt>> \in Rational
  BY DEF Rational
<1>2. LessQ(f, <<n, dt>>) <=> ~NotMore(n, Times2(dt, f))
  BY <1>1 DEF LessQ, NotMore, Times2, MulQ, Q
<1>3. LessQ(<<n, dt>>, NegQ(f)) <=> ~NotMore(-n, Times2(dt, f))
  BY <1>1 DEF LessQ, NotMore, Times2, MulQ, Q, NegQ
<1>4. QED
  BY <1>1, <1>2, <1>3

(* The two signs.                                                          *)
LEMMA MinusIs == \A n \in Int : (-1) * n = -n /\ 1 * n = n
  OBVIOUS

(* Of a robot that can strafe each component is limited exactly.           *)
LEMMA HolonomicSpeed ==
  ASSUME NEW p, NEW q, AtPose(p), AtPose(q), Whole(Minus(q.at, p.at)),
         NEW dt \in Nat \ {0}, NEW c \in Configs
  PROVE  HolonomicLimited(p, q, dt, c)
<1> DEFINE k == Ahead(p, q)
           l == Beside(p, q)
           m == Turn(p, q)
           f == SubQ(c.max_vel_x, c.penalty_epsilon)
           b == SubQ(c.max_vel_x_backwards, c.penalty_epsilon)
           t == SubQ(c.max_vel_theta, c.penalty_epsilon)
           y == SubQ(c.max_vel_y, Q(0))
           e1 == PenaltyBoundToInterval(<<k, dt>>, NegQ(c.max_vel_x_backwards), c.max_vel_x, c.penalty_epsilon)
           e2 == PenaltyWithin(<<l, dt>>, c.max_vel_y, Q(0))
           e3 == PenaltyWithin(<<m, dt>>, c.max_vel_theta, c.penalty_epsilon)
<1>0. k \in Int /\ l \in Int /\ m \in Int
  BY StepIs
<1>1. f \in Rational /\ b \in Rational /\ t \in Rational /\ y \in Rational
  <2>1. Q(0) \in Rational
    BY WholeIsRational
  <2>2. QED
    BY <2>1, ConfigType, RationalType
<1>2. <<k, dt>> \in Rational /\ <<l, dt>> \in Rational /\ <<m, dt>> \in Rational
  BY <1>0, <1>1, SpeedWithin
<1>3. HolonomicVelocityError(p, q, dt, c) = <<e1, e2, e3>>
  BY DEF HolonomicVelocityError, HolonomicTwist
<1>4. e1[1] = 0 <=> ~LessQ(<<k, dt>>, NegQ(b)) /\ ~LessQ(f, <<k, dt>>)
  <2>1. NegQ(c.max_vel_x_backwards) \in Rational
    BY ConfigType, RationalType
  <2>2. e1[1] = 0 <=> ~LessQ(<<k, dt>>, AddQ(NegQ(c.max_vel_x_backwards), c.penalty_epsilon))
                      /\ ~LessQ(f, <<k, dt>>)
    BY <1>2, <2>1, ConfigType, IntervalFree
  <2>3. AddQ(NegQ(c.max_vel_x_backwards), c.penalty_epsilon) = NegQ(b)
    BY <1>2, ConfigType, IntervalFree
  <2>4. QED
    BY <2>2, <2>3
<1>5. e2[1] = 0 <=> ~LessQ(<<l, dt>>, NegQ(y)) /\ ~LessQ(y, <<l, dt>>)
  <2>1. Q(0) \in Rational
    BY WholeIsRational
  <2>2. QED
    BY <1>2, <2>1, ConfigType, WithinFree
<1>6. e3[1] = 0 <=> ~LessQ(<<m, dt>>, NegQ(t)) /\ ~LessQ(t, <<m, dt>>)
  BY <1>2, ConfigType, WithinFree
<1>7. y = c.max_vel_y
  <2>1. c.max_vel_y = <<c.max_vel_y[1], c.max_vel_y[2]>> /\ c.max_vel_y[1] \in Int /\ c.max_vel_y[2] \in Int
    BY ConfigType DEF Rational
  <2>2. QED
    BY <2>1 DEF SubQ, AddQ, NegQ, Q
<1>8. Free(HolonomicVelocityError(p, q, dt, c)) <=> e1[1] = 0 /\ e2[1] = 0 /\ e3[1] = 0
  BY <1>3, TripleFree
<1> HIDE DEF e1, e2, e3, f, b, t, y, k, l, m
<1>9. /\ e1[1] = 0 <=> NotMore(k, Times2(dt, f)) /\ NotMore(-k, Times2(dt, b))
      /\ e2[1] = 0 <=> NotMore(l, Times2(dt, y)) /\ NotMore(-l, Times2(dt, y))
      /\ e3[1] = 0 <=> NotMore(m, Times2(dt, t)) /\ NotMore(-m, Times2(dt, t))
  BY <1>0, <1>1, <1>4, <1>5, <1>6, SpeedWithin
<1>10. (-1) * l = -l /\ 1 * l = l /\ (-1) * m = -m /\ 1 * m = m
  BY <1>0, MinusIs
<1>11. (\A s \in {-1, 1} : NotMore(s * l, Times2(dt, y)) /\ NotMore(s * m, Times2(dt, t)))
         <=> e2[1] = 0 /\ e3[1] = 0
  <2>1. (\A s \in {-1, 1} : NotMore(s * l, Times2(dt, y)) /\ NotMore(s * m, Times2(dt, t)))
          <=> /\ NotMore((-1) * l, Times2(dt, y)) /\ NotMore((-1) * m, Times2(dt, t))
              /\ NotMore(1 * l, Times2(dt, y)) /\ NotMore(1 * m, Times2(dt, t))
    BY Zenon
  <2>2. QED
    BY <1>9, <1>10, <2>1, Zenon
<1>12. QED
  BY <1>7, <1>8, <1>9, <1>11 DEF HolonomicLimited, AheadLimit, BackLimit, TurnLimit, f, b, t, k, l, m

CarLimited(p, q, c) ==
  Free(CarlikeError(p, q, c)) =>
    ~LessQ(Q(Length(Minus(q.at, p.at))), MulQ(AbsQ(Q(Turn(p, q))), c.min_turning_radius))

(* A car turns on no smaller radius than it can.                           *)
LEMMA CarRadius ==
  ASSUME NEW p, NEW q, AtPose(p), AtPose(q), Whole(Minus(q.at, p.at)), NEW c \in Configs
  PROVE  CarLimited(p, q, c)
<1> DEFINE n == Length(Minus(q.at, p.at))
           t == Turn(p, q)
           r == c.min_turning_radius
<1>1. n \in Nat /\ t \in Int /\ r \in Rational
  BY StepIs, ConfigType
<1>2. CarlikeError(p, q, c)[2] =
        IF t = 0 THEN Q(0) ELSE PenaltyBoundFromBelow(OverQ(Q(n), AbsQ(Q(t))), r, Q(0))
  BY DEF CarlikeError
<1>3. Free(CarlikeError(p, q, c)) => CarlikeError(p, q, c)[2][1] = 0
  BY DEF CarlikeError, Free
<1> HIDE DEF n, t, r
<1>4. r[1] \in Int /\ r[2] \in Nat \ {0}
  BY <1>1 DEF Rational
<1>5. CASE t = 0
  BY <1>1, <1>4, <1>5 DEF LessQ, Q, MulQ, AbsQ, CarLimited, n, t, r
<1>6. CASE t # 0
  <2> DEFINE a == IF t < 0 THEN -t ELSE t
  <2>1. AbsQ(Q(t)) = <<a, 1>> /\ a \in Nat \ {0}
    BY <1>1, <1>6 DEF AbsQ, NegQ, Q
  <2>2. OverQ(Q(n), AbsQ(Q(t))) = <<n, a>> /\ <<n, a>> \in Rational
    BY <1>1, <2>1 DEF OverQ, Q, Rational
  <2>3. Q(0) \in Rational
    BY WholeIsRational
  <2>4. PenaltyBoundFromBelow(<<n, a>>, r, Q(0))[1] = 0 => ~LessQ(<<n, a>>, AddQ(r, Q(0)))
    BY <1>1, <2>2, <2>3, FromBelowFree
  <2>5. LessQ(Q(n), MulQ(<<a, 1>>, r)) => LessQ(<<n, a>>, AddQ(r, Q(0)))
    BY <1>1, <1>4, <2>1 DEF LessQ, MulQ, AddQ, Q
  <2>6. QED
    BY <1>2, <1>3, <1>6, <2>1, <2>2, <2>4, <2>5 DEF CarLimited, n, t, r
<1>7. QED
  BY <1>5, <1>6

(* What is charged for is a turn to the other side.                        *)
LEMMA RotationPreferred ==
  ASSUME NEW p, NEW q, AtPose(p), AtPose(q), NEW dir \in {-1, 1}
  PROVE  PreferRotDirError(p, q, dir)[1] > 0 <=> dir * Turn(p, q) < 0
<1> DEFINE t == dir * Turn(p, q)
<1>1. t \in Int
  BY DEF AtPose, Turn, NormalizeTheta
<1>2. PreferRotDirError(p, q, dir) = PenaltyBoundFromBelow(Q(t), Q(0), Q(0))
  BY DEF PreferRotDirError
<1> HIDE DEF t
<1>3. PenaltyBoundFromBelow(Q(t), Q(0), Q(0))[1] > 0 <=> t < 0
  BY <1>1 DEF PenaltyBoundFromBelow, Q, LessQ, AddQ, SubQ, NegQ
<1>4. QED
  BY <1>2, <1>3 DEF t

(* The order of rationals is transitive ...                                *)
LEMMA LessQTransitive ==
  ASSUME NEW q \in Rational, NEW r \in Rational, NEW s \in Rational, ~LessQ(r, q), ~LessQ(s, r)
  PROVE  ~LessQ(s, q)
  BY DEF LessQ, Rational

(* ... and kept by a factor that is not negative.                          *)
LEMMA TimesKeepsOrder ==
  ASSUME NEW f \in Rational, f[1] >= 0, NEW q \in Rational, NEW r \in Rational, ~LessQ(r, q)
  PROVE  ~LessQ(MulQ(f, r), MulQ(f, q)) /\ ~LessQ(MulQ(r, f), MulQ(q, f))
<1> DEFINE x == q[1] * r[2]
           y == r[1] * q[2]
           m == f[1] * f[2]
<1>1. f[1] \in Nat /\ f[2] \in Nat /\ q[1] \in Int /\ q[2] \in Int /\ r[1] \in Int /\ r[2] \in Int
  BY DEF Rational
<1>2. x <= y /\ x \in Int /\ y \in Int /\ m \in Nat
  BY <1>1 DEF LessQ
<1>3. /\ (f[1] * r[1]) * (f[2] * q[2]) = m * y /\ (f[1] * q[1]) * (f[2] * r[2]) = m * x
      /\ (r[1] * f[1]) * (q[2] * f[2]) = m * y /\ (q[1] * f[1]) * (r[2] * f[2]) = m * x
  BY <1>1
<1> HIDE DEF x, y, m
<1>4. m * x <= m * y
  BY <1>2
<1>5. m * x \in Int /\ m * y \in Int
  BY <1>2
<1>6. QED
  BY <1>3, <1>4, <1>5 DEF LessQ, MulQ

(* The same less of both does not change which is the greater. *)
LEMMA LessLeavesOrder ==
  ASSUME NEW q \in Rational, NEW r \in Rational, NEW l \in Rational, ~LessQ(r, q)
  PROVE  ~LessQ(SubQ(r, l), SubQ(q, l))
<1> DEFINE x == SubQ(q, l)
           y == SubQ(r, l)
           l1 == l[1]
           l2 == l[2]
<1>1. /\ x = <<q[1] * l2 + (-l1) * q[2], q[2] * l2>>
      /\ y = <<r[1] * l2 + (-l1) * r[2], r[2] * l2>>
  BY DEF SubQ, AddQ, NegQ
<1>2. /\ q[1] \in Int /\ q[2] \in Nat \ {0} /\ r[1] \in Int /\ r[2] \in Nat \ {0}
      /\ l1 \in Int /\ l2 \in Nat \ {0}
  BY DEF Rational
<1> DEFINE a == q[1] * r[2]
           b == r[1] * q[2]
           m == l1 * q[2] * r[2] * l2
<1>3. a <= b /\ a \in Int /\ b \in Int /\ m \in Int
  BY <1>2 DEF LessQ
<1>4. x[1] * y[2] = (l2 * l2) * a - m /\ y[1] * x[2] = (l2 * l2) * b - m
  BY <1>1, <1>2
<1>5. l2 * l2 \in Nat
  BY <1>2
<1> HIDE DEF a, b, m, x, y
<1>6. (l2 * l2) * a <= (l2 * l2) * b /\ (l2 * l2) * a \in Int /\ (l2 * l2) * b \in Int
  BY <1>3, <1>5
<1>7. ~LessQ(y, x)
  BY <1>3, <1>4, <1>6 DEF LessQ
<1>8. QED
  BY <1>7 DEF x, y

(* What is left of the speed near an obstacle. *)
Share(dist, lower, upper) ==
  IF LessQ(dist, lower) THEN Q(0)
  ELSE IF LessQ(upper, dist) THEN Q(1)
  ELSE OverQ(SubQ(dist, lower), SubQ(upper, lower))

(* It is between zero and one, unless the two distances are equal.         *)
LEMMA ShareIs ==
  ASSUME NEW dist \in Rational, NEW lower \in Rational, NEW upper \in Rational, ~SameQ(lower, upper)
  PROVE  /\ Share(dist, lower, upper) \in Rational
         /\ Share(dist, lower, upper)[1] >= 0
         /\ ~LessQ(Q(1), Share(dist, lower, upper))
<1>1. CASE LessQ(dist, lower)
  BY <1>1 DEF Share, Q, Rational, LessQ
<1>2. CASE ~LessQ(dist, lower) /\ LessQ(upper, dist)
  BY <1>2 DEF Share, Q, Rational, LessQ
<1>3. CASE ~LessQ(dist, lower) /\ ~LessQ(upper, dist)
  <2> DEFINE x == SubQ(dist, lower)
             y == SubQ(upper, lower)
  <2>1. Share(dist, lower, upper) = OverQ(x, y)
    BY <1>3 DEF Share
  <2>2. x \in Rational /\ y \in Rational
    BY RationalType
  <2>3. x[1] >= 0
    BY <1>3 DEF SubQ, AddQ, NegQ, LessQ, Rational
  <2>4. ~LessQ(upper, lower)
    BY <1>3, LessQTransitive
  <2>5. y[1] > 0
    BY <2>4 DEF SubQ, AddQ, NegQ, LessQ, SameQ, Rational
  <2>6. ~LessQ(y, x)
    BY <1>3, LessLeavesOrder
  <2> HIDE DEF x, y
  <2>7. OverQ(x, y) = <<x[1] * y[2], x[2] * y[1]>>
    BY <2>5 DEF OverQ
  <2>8. /\ x[1] \in Nat /\ x[2] \in Nat \ {0} /\ y[1] \in Nat \ {0} /\ y[2] \in Nat \ {0}
        /\ x[1] * y[2] <= y[1] * x[2]
    BY <2>2, <2>3, <2>5, <2>6 DEF Rational, LessQ
  <2>9. OverQ(x, y) \in Rational /\ OverQ(x, y)[1] >= 0
    BY <2>7, <2>8 DEF Rational
  <2>10. ~LessQ(Q(1), OverQ(x, y))
    BY <2>7, <2>8 DEF LessQ, Q
  <2>11. QED
    BY <2>1, <2>9, <2>10
<1>4. QED
  BY <1>1, <1>2, <1>3

(* So the speed that is left is at most the configured one.                *)
LEMMA RatioIs ==
  ASSUME NEW dist \in Rational, NEW c \in Configs,
         ~SameQ(c.obstacle_proximity_lower_bound, c.obstacle_proximity_upper_bound)
  PROVE  /\ ProximityRatio(dist, c) \in Rational
         /\ ProximityRatio(dist, c)[1] >= 0
         /\ ~LessQ(c.obstacle_proximity_ratio_max_vel, ProximityRatio(dist, c))
<1> DEFINE r == c.obstacle_proximity_ratio_max_vel
           s == Share(dist, c.obstacle_proximity_lower_bound, c.obstacle_proximity_upper_bound)
<1>1. s \in Rational /\ s[1] >= 0 /\ ~LessQ(Q(1), s)
  BY ConfigType, ShareIs
<1>2. r \in Rational /\ r[1] >= 0
  BY ConfigType
<1>3. ProximityRatio(dist, c) = MulQ(r, s)
  BY DEF ProximityRatio, Share
<1> HIDE DEF r, s
<1>4. MulQ(r, s) \in Rational
  BY <1>1, <1>2, RationalType
<1>5. MulQ(r, s)[1] >= 0
  BY <1>1, <1>2 DEF MulQ, Rational
<1>6. ~LessQ(MulQ(r, Q(1)), MulQ(r, s))
  <2>1. Q(1) \in Rational
    BY WholeIsRational
  <2>2. QED
    BY <1>1, <1>2, <2>1, TimesKeepsOrder
<1>7. MulQ(r, Q(1)) = r
  BY <1>2 DEF MulQ, Q, Rational
<1>8. QED
  BY <1>3, <1>4, <1>5, <1>6, <1>7 DEF r

NearLimited(p, q, dt, c, n) ==
  Straight(p, q) /\ Free(VelocityObstacleRatioError(p, q, dt, Q(n), c))
    /\ ~SameQ(c.obstacle_proximity_lower_bound, c.obstacle_proximity_upper_bound) =>
    \A s \in {-1, 1} :
      Less(s * Ahead(p, q) - 1, Times2(dt, MulQ(c.obstacle_proximity_ratio_max_vel, c.max_vel_x)))

(* Near an obstacle a straight step is within the lower limit.             *)
LEMMA NearSpeed ==
  ASSUME NEW p, NEW q, AtPose(p), AtPose(q), Whole(Minus(q.at, p.at)),
         NEW dt \in Nat \ {0}, NEW c \in Configs, NEW n \in Int
  PROVE  NearLimited(p, q, dt, c, n)
<1> SUFFICES ASSUME Straight(p, q), Free(VelocityObstacleRatioError(p, q, dt, Q(n), c)),
                    ~SameQ(c.obstacle_proximity_lower_bound, c.obstacle_proximity_upper_bound)
             PROVE  \A s \in {-1, 1} :
                      Less(s * Ahead(p, q) - 1,
                           Times2(dt, MulQ(c.obstacle_proximity_ratio_max_vel, c.max_vel_x)))
  BY DEF NearLimited
<1> DEFINE k == Ahead(p, q)
           v == SmoothedSpeed(k, dt)
           ratio == ProximityRatio(Q(n), c)
           l == MulQ(ratio, c.max_vel_x)
           m == MulQ(c.obstacle_proximity_ratio_max_vel, c.max_vel_x)
<1>0. k \in Int /\ -k \in Int
  BY StepIs
<1>1. ratio \in Rational /\ ratio[1] >= 0 /\ ~LessQ(c.obstacle_proximity_ratio_max_vel, ratio)
  BY WholeIsRational, RatioIs
<1>2. l \in Rational /\ m \in Rational
  BY <1>1, ConfigType, RationalType
<1>3. ~LessQ(m, l)
  <2> HIDE DEF ratio
  <2>1. QED
    BY <1>1, ConfigType, TimesKeepsOrder
<1>4. v \in Rational /\ SmoothedSpeed(-k, dt) \in Rational
  BY <1>0, <1>2, SmoothedLimit
<1>5. VelocityObstacleRatioError(p, q, dt, Q(n), c)[1] = PenaltyWithin(v, l, Q(0))
  <2>1. Twist(p, q, dt)[1] = v
    BY StraightTwist
  <2>2. QED
    BY <2>1 DEF VelocityObstacleRatioError
<1>6. VelocityObstacleRatioError(p, q, dt, Q(n), c)[1][1] = 0
  BY DEF Free, VelocityObstacleRatioError
<1> HIDE DEF l, m, v, ratio, k
<1>7. SubQ(l, Q(0)) = l
  BY <1>2 DEF SubQ, AddQ, NegQ, Q, Rational
<1>8. ~LessQ(v, NegQ(l)) /\ ~LessQ(l, v)
  <2>1. Q(0) \in Rational
    BY WholeIsRational
  <2>2. PenaltyWithin(v, l, Q(0))[1] = 0
    BY <1>5, <1>6
  <2>3. QED
    BY <1>2, <1>4, <1>7, <2>1, <2>2, WithinFree
<1>9. ~LessQ(m, v)
  BY <1>2, <1>3, <1>4, <1>8, LessQTransitive
<1>10. ~LessQ(m, SmoothedSpeed(-k, dt))
  <2>1. ~LessQ(l, SmoothedSpeed(-k, dt))
    BY <1>0, <1>2, <1>8, SmoothedOpposite DEF v
  <2>2. QED
    BY <1>2, <1>3, <1>4, <2>1, LessQTransitive
<1>11. Less(k - 1, Times2(dt, m))
  BY <1>0, <1>2, <1>9, SmoothedLimit DEF v
<1>12. Less(-k - 1, Times2(dt, m))
  BY <1>0, <1>2, <1>10, SmoothedLimit
<1>13. (-1) * k = -k /\ 1 * k = k
  BY <1>0, MinusIs
<1>14. QED
  BY <1>11, <1>12, <1>13 DEF k, m

(* What the check of the speed says of a step. *)
SpeedLimited(p, q, dt, c) ==
  /\ StraightLimited(p, q, dt, c) /\ LimitedFree(p, q, dt, c)
  /\ HolonomicLimited(p, q, dt, c) /\ CarLimited(p, q, c)
  /\ \A dir \in {-1, 1} : PreferRotDirError(p, q, dir)[1] > 0 <=> dir * Turn(p, q) < 0
  /\ \A n \in -1 .. 5 : NearLimited(p, q, dt, c, n)

(* All of it, of every step.                                               *)
LEMMA SpeedIsLimited ==
  ASSUME NEW p, NEW q, AtPose(p), AtPose(q), Whole(Minus(q.at, p.at)),
         NEW dt \in Nat \ {0}, NEW c \in Configs
  PROVE  SpeedLimited(p, q, dt, c)
<1>1. \A n \in -1 .. 5 : NearLimited(p, q, dt, c, n)
  BY NearSpeed
<1>2. \A dir \in {-1, 1} : PreferRotDirError(p, q, dir)[1] > 0 <=> dir * Turn(p, q) < 0
  BY RotationPreferred
<1>3. StraightLimited(p, q, dt, c) /\ LimitedFree(p, q, dt, c)
  BY StraightSpeed
<1>4. HolonomicLimited(p, q, dt, c) /\ CarLimited(p, q, c)
  BY HolonomicSpeed, CarRadius
<1>5. QED
  BY <1>1, <1>2, <1>3, <1>4, Zenon DEF SpeedLimited

(* The same, of the input.                                                 *)
LEMMA SpeedProperty ==
  SpeedLimited(input.p, input.q, input.dt, input.c) => SpeedLimitHolds
  BY Zenon DEF SpeedLimited, SpeedLimitHolds, StraightLimited, LimitedFree, HolonomicLimited, CarLimited,
     NearLimited, Straight, AheadLimit, BackLimit, TurnLimit

-----------------------------------------------------------------------------
(* Standing still.                                                         *)

(* No velocity is within bounds that do not cross.                         *)
LEMMA ZeroFree ==
  ASSUME NEW d \in Nat \ {0}, NEW a \in Rational, NEW b \in Rational, NEW e \in Rational,
         ~LessQ(a, e), ~LessQ(b, e)
  PROVE  /\ PenaltyBoundToInterval(<<0, d>>, NegQ(a), b, e)[1] = 0
         /\ PenaltyWithin(<<0, d>>, a, e)[1] = 0
<1> DEFINE x == SubQ(a, e)
           y == SubQ(b, e)
<1>1. x \in Rational /\ y \in Rational /\ NegQ(a) \in Rational /\ <<0, d>> \in Rational
  <2>1. <<0, d>> \in Rational
    BY DEF Rational
  <2>2. QED
    BY <2>1, RationalType
<1>2. x[1] >= 0 /\ y[1] >= 0
  BY DEF SubQ, AddQ, NegQ, LessQ, Rational
<1>3. AddQ(NegQ(a), e) = NegQ(x)
  BY <1>1, IntervalFree
<1>4. /\ PenaltyBoundToInterval(<<0, d>>, NegQ(a), b, e)[1] = 0
           <=> ~LessQ(<<0, d>>, NegQ(x)) /\ ~LessQ(y, <<0, d>>)
      /\ PenaltyWithin(<<0, d>>, a, e)[1] = 0
           <=> ~LessQ(<<0, d>>, NegQ(x)) /\ ~LessQ(x, <<0, d>>)
  <2>1. PenaltyBoundToInterval(<<0, d>>, NegQ(a), b, e)[1] = 0
          <=> ~LessQ(<<0, d>>, AddQ(NegQ(a), e)) /\ ~LessQ(y, <<0, d>>)
    BY <1>1, IntervalFree
  <2>2. PenaltyWithin(<<0, d>>, a, e)[1] = 0
          <=> ~LessQ(<<0, d>>, NegQ(x)) /\ ~LessQ(x, <<0, d>>)
    BY <1>1, WithinFree
  <2>3. QED
    BY <1>3, <2>1, <2>2
<1> HIDE DEF x, y
<1>5. x[1] * d >= 0 /\ y[1] * d >= 0 /\ (-x[1]) * d <= 0
  <2>1. x[1] \in Nat /\ y[1] \in Nat
    BY <1>1, <1>2 DEF Rational
  <2>2. QED
    BY <2>1
<1>6. x[2] \in Int /\ y[2] \in Int
  BY <1>1 DEF Rational
<1>7. ~LessQ(<<0, d>>, NegQ(x)) /\ ~LessQ(y, <<0, d>>) /\ ~LessQ(x, <<0, d>>)
  <2>1. /\ LessQ(<<0, d>>, NegQ(x)) <=> 0 * x[2] < (-x[1]) * d
        /\ LessQ(y, <<0, d>>) <=> y[1] * d < 0 * y[2]
        /\ LessQ(x, <<0, d>>) <=> x[1] * d < 0 * x[2]
    BY DEF LessQ, NegQ
  <2>2. 0 * x[2] = 0 /\ 0 * y[2] = 0
    BY <1>6
  <2>3. x[1] * d \in Int /\ y[1] * d \in Int /\ (-x[1]) * d \in Int
    BY <1>1 DEF Rational
  <2>4. QED
    BY <1>5, <2>1, <2>2, <2>3
<1>8. QED
  BY <1>4, <1>7

(* A step that leads nowhere has no velocity ...                           *)
LEMMA StandingStill ==
  ASSUME NEW p, AtPose(p), NEW dt \in Nat \ {0}
  PROVE  /\ Twist(p, p, dt) = <<<<0, dt>>, <<0, dt>>>>
         /\ HolonomicTwist(p, p, dt) = <<<<0, dt>>, <<0, dt>>, <<0, dt>>>>
<1>1. Minus(p.at, p.at) = <<0, 0>>
  BY DEF AtPose, Minus
<1>2. Ahead(p, p) = 0 /\ Beside(p, p) = 0
  BY <1>1, HeadingIsUnit DEF Ahead, Beside, Dot, Cross
<1>3. Turn(p, p) = 0
  BY DEF AtPose, Turn, NormalizeTheta
<1>4. Length(<<0, 0>>) = 0
  <2>1. <<0, 0>> \in Int \X Int /\ 0 * 0 = SqNorm(<<0, 0>>)
    BY DEF SqNorm, Dot
  <2>2. QED
    BY <2>1, LengthIs
<1>5. QED
  BY <1>1, <1>2, <1>3, <1>4 DEF Twist, HolonomicTwist

(* ... and two of them no acceleration.                                    *)
LEMMA NoChange ==
  ASSUME NEW dt \in Nat \ {0}
  PROVE  \E d \in Nat \ {0} :
           OverQ(SubQ(<<0, dt>>, <<0, dt>>), <<dt + dt, 2>>) = <<0, d>>
<1>1. SubQ(<<0, dt>>, <<0, dt>>) = <<0, dt * dt>>
  BY DEF SubQ, AddQ, NegQ
<1>2. OverQ(<<0, dt * dt>>, <<dt + dt, 2>>) = <<0, dt * dt * (dt + dt)>>
  BY DEF OverQ
<1>3. dt * dt * (dt + dt) \in Nat \ {0}
  OBVIOUS
<1>4. QED
  BY <1>1, <1>2, <1>3

StandsFree(p, dt, c) ==
  LET across == HolonomicAccelerationError(p, p, p, dt, dt, c)
  IN /\ Free(VelocityError(p, p, dt, c)) /\ Free(HolonomicVelocityError(p, p, dt, c))
     /\ Free(AccelerationError(p, p, p, dt, dt, c)) /\ Free(<<across[1], across[3]>>)

(* With parameters that nothing is warned of both cost nothing.            *)
LEMMA StillFree ==
  ASSUME NEW p, AtPose(p), NEW dt \in Nat \ {0}, NEW c \in Configs, CheckParameters(c) = {}
  PROVE  StandsFree(p, dt, c)
<1> DEFINE e == c.penalty_epsilon
           z == <<0, dt>>
<1>1. /\ ~LessQ(c.max_vel_x, e) /\ ~LessQ(c.max_vel_x_backwards, e) /\ ~LessQ(c.max_vel_theta, e)
      /\ ~LessQ(c.acc_lim_x, e) /\ ~LessQ(c.acc_lim_theta, e)
  <2>1. /\ LessQ(e, c.max_vel_x) /\ LessQ(e, c.max_vel_x_backwards) /\ LessQ(e, c.max_vel_theta)
        /\ LessQ(e, c.acc_lim_x) /\ LessQ(e, c.acc_lim_theta)
    BY DEF CheckParameters
  <2>2. \A q, r \in Rational : LessQ(q, r) => ~LessQ(r, q)
    BY DEF LessQ, Rational
  <2>3. QED
    BY <2>1, <2>2, ConfigType
<1>2. /\ PenaltyBoundToInterval(z, NegQ(c.max_vel_x_backwards), c.max_vel_x, e)[1] = 0
      /\ PenaltyWithin(z, c.max_vel_theta, e)[1] = 0
  BY <1>1, ConfigType, ZeroFree
<1>3. PenaltyWithin(z, c.max_vel_y, Q(0))[1] = 0
  <2>1. Q(0) \in Rational
    BY WholeIsRational
  <2>2. ~LessQ(c.max_vel_y, Q(0))
    <3>1. c.max_vel_y[1] \in Nat /\ c.max_vel_y[2] \in Nat
      BY ConfigType DEF Rational
    <3>2. QED
      BY <3>1 DEF LessQ, Q
  <2>3. QED
    BY <2>1, <2>2, ConfigType, ZeroFree
<1>4. VelocityError(p, p, dt, c) =
        <<PenaltyBoundToInterval(z, NegQ(c.max_vel_x_backwards), c.max_vel_x, e),
          PenaltyWithin(z, c.max_vel_theta, e)>>
  BY StandingStill DEF VelocityError
<1>5. HolonomicVelocityError(p, p, dt, c) =
        <<PenaltyBoundToInterval(z, NegQ(c.max_vel_x_backwards), c.max_vel_x, e),
          PenaltyWithin(z, c.max_vel_y, Q(0)), PenaltyWithin(z, c.max_vel_theta, e)>>
  BY StandingStill DEF HolonomicVelocityError
<1> DEFINE a == OverQ(SubQ(z, z), <<dt + dt, 2>>)
<1>6. PICK d \in Nat \ {0} : a = <<0, d>>
  BY NoChange
<1>7. PenaltyWithin(a, c.acc_lim_x, e)[1] = 0 /\ PenaltyWithin(a, c.acc_lim_theta, e)[1] = 0
  BY <1>1, <1>6, ConfigType, ZeroFree
<1>8. AccelerationError(p, p, p, dt, dt, c) =
        <<PenaltyWithin(a, c.acc_lim_x, e), PenaltyWithin(a, c.acc_lim_theta, e)>>
  <2>1. Change(<<z, z>>, <<z, z>>, <<dt + dt, 2>>) = <<a, a>>
    BY DEF Change
  <2> HIDE DEF a
  <2>2. AccelerationPenalty(<<a, a>>, Limits2(c), e)
          = <<PenaltyWithin(a, c.acc_lim_x, e), PenaltyWithin(a, c.acc_lim_theta, e)>>
    BY DEF AccelerationPenalty, Limits2
  <2>3. QED
    BY <2>1, <2>2, StandingStill DEF AccelerationError
<1>9. HolonomicAccelerationError(p, p, p, dt, dt, c) =
        <<PenaltyWithin(a, c.acc_lim_x, e), PenaltyWithin(a, c.acc_lim_y, e),
          PenaltyWithin(a, c.acc_lim_theta, e)>>
  <2>1. Change(<<z, z, z>>, <<z, z, z>>, <<dt + dt, 2>>) = <<a, a, a>>
    BY DEF Change
  <2> HIDE DEF a
  <2>2. AccelerationPenalty(<<a, a, a>>, Limits3(c), e)
          = <<PenaltyWithin(a, c.acc_lim_x, e), PenaltyWithin(a, c.acc_lim_y, e),
              PenaltyWithin(a, c.acc_lim_theta, e)>>
    BY DEF AccelerationPenalty, Limits3
  <2>3. QED
    BY <2>1, <2>2, StandingStill DEF HolonomicAccelerationError
<1> HIDE DEF a, z, e
<1>10. Free(VelocityError(p, p, dt, c)) /\ Free(AccelerationError(p, p, p, dt, dt, c))
  BY <1>2, <1>4, <1>7, <1>8, PairFree
<1>11. Free(HolonomicVelocityError(p, p, dt, c))
  BY <1>2, <1>3, <1>5, TripleFree
<1>12. Free(<<HolonomicAccelerationError(p, p, p, dt, dt, c)[1],
              HolonomicAccelerationError(p, p, p, dt, dt, c)[3]>>)
  BY <1>7, <1>9, PairFree
<1>13. QED
  BY <1>10, <1>11, <1>12 DEF StandsFree

(* The same, of the input.                                                 *)
LEMMA StandingProperty ==
  (CheckParameters(input.c) = {} => StandsFree(input.p, input.dt, input.c)) => BoundsDoNotCross
  BY Zenon DEF StandsFree, BoundsDoNotCross

-----------------------------------------------------------------------------
(* Distances.                                                              *)

(* Power() multiplies one by one: st[k] is the k-th power. *)
Powers(st, q, n) ==
  /\ st[0] = Q(1)
  /\ \A k \in 1 .. n : st[k] = MulQ(st[k - 1], q)

(* There is such a sequence, for every exponent.                           *)
LEMMA PowerOneByOne ==
  ASSUME NEW q, NEW n \in Nat
  PROVE  \E st : Powers(st, q, n) /\ Power(q, n) = st[n]
<1> DEFINE Def(g, i) == IF i = 0 THEN Q(1) ELSE MulQ(g[i - 1], q)
           Rec(g, m) == g = [i \in 0 .. m |-> Def(g, i)]
           N == {m \in Nat : \E g : Rec(g, m)}
<1>1. \A m \in Nat : m \in N
  <2>1. 0 \in N
    <3>1. Rec([i \in 0 .. 0 |-> Q(1)], 0)
      OBVIOUS
    <3>2. QED
      BY <3>1
  <2>2. ASSUME NEW m \in Nat, m \in N PROVE m + 1 \in N
    <3>1. PICK g : Rec(g, m)
      BY <2>2
    <3> DEFINE h == [i \in 0 .. m + 1 |-> IF i = m + 1 THEN MulQ(g[m], q) ELSE g[i]]
    <3>2. ASSUME NEW i \in 0 .. m + 1 PROVE h[i] = Def(h, i)
      <4>1. CASE i = m + 1
        <5>1. i # 0 /\ h[i - 1] = g[m] /\ h[i] = MulQ(g[m], q)
          BY <4>1
        <5> HIDE DEF h
        <5>2. QED
          BY <5>1
      <4>2. CASE i # m + 1
        <5>1. i \in 0 .. m /\ g[i] = Def(g, i)
          BY <3>1, <4>2
        <5>2. h[i] = g[i] /\ (i # 0 => h[i - 1] = g[i - 1])
          BY <4>2, <5>1
        <5> HIDE DEF h
        <5>3. QED
          BY <5>1, <5>2
      <4>3. QED
        BY <4>1, <4>2
    <3>3. h = [i \in 0 .. m + 1 |-> h[i]]
      OBVIOUS
    <3> HIDE DEF h, Def
    <3>4. Rec(h, m + 1)
      BY <3>2, <3>3
    <3>5. QED
      BY <3>4
  <2> HIDE DEF N
  <2>3. QED
    BY <2>1, <2>2, NatSetInduction
<1> DEFINE st == CHOOSE g : Rec(g, n)
<1>2. Rec(st, n)
  <2>1. \E g : Rec(g, n)
    BY <1>1
  <2> HIDE DEF Def
  <2>2. QED
    BY <2>1
<1>3. Power(q, n) = st[n]
  BY Zenon DEF Power
<1> HIDE DEF st
<1>4. Powers(st, q, n)
  BY <1>2 DEF Powers
<1>5. QED
  BY <1>3, <1>4

NotNegative(q) == q \in Rational /\ q[1] >= 0

(* Powers keep the order, are zero only of zero, and one of one. *)
LEMMA PowersOrdered ==
  ASSUME NEW q, NEW r, NotNegative(q), NotNegative(r), ~LessQ(r, q), NEW n \in Nat
  PROVE  /\ NotNegative(Power(q, n)) /\ NotNegative(Power(r, n)) /\ ~LessQ(Power(r, n), Power(q, n))
         /\ n > 0 => (Power(q, n)[1] = 0 <=> q[1] = 0)
         /\ SameQ(q, Q(1)) => SameQ(Power(q, n), Q(1))
<1>1. PICK a : Powers(a, q, n) /\ Power(q, n) = a[n]
  BY PowerOneByOne
<1>2. PICK b : Powers(b, r, n) /\ Power(r, n) = b[n]
  BY PowerOneByOne
<1> DEFINE P(k) == /\ NotNegative(a[k]) /\ NotNegative(b[k]) /\ ~LessQ(b[k], a[k])
                   /\ k > 0 => (a[k][1] = 0 <=> q[1] = 0)
                   /\ k = 0 => a[k][1] # 0
                   /\ SameQ(q, Q(1)) => SameQ(a[k], Q(1))
           K == {k \in Nat : k <= n => P(k)}
<1>3. 0 \in K
  <2>1. a[0] = <<1, 1>> /\ b[0] = <<1, 1>>
    BY <1>1, <1>2 DEF Powers, Q
  <2>2. P(0)
    BY <2>1 DEF NotNegative, Rational, LessQ, SameQ, Q
  <2>3. QED
    BY <2>2
<1>4. ASSUME NEW k \in Nat, k \in K PROVE k + 1 \in K
  <2> SUFFICES ASSUME k + 1 <= n PROVE P(k + 1)
    OBVIOUS
  <2>1. P(k)
    BY <1>4
  <2>2. k + 1 \in 1 .. n /\ (k + 1) - 1 = k
    OBVIOUS
  <2>3. a[k + 1] = MulQ(a[k], q) /\ b[k + 1] = MulQ(b[k], r)
    BY <1>1, <1>2, <2>2 DEF Powers
  <2>4. /\ a[k] \in Rational /\ a[k][1] >= 0 /\ b[k] \in Rational /\ b[k][1] >= 0
        /\ q \in Rational /\ q[1] >= 0 /\ r \in Rational /\ r[1] >= 0
    BY <2>1 DEF NotNegative
  <2>5. NotNegative(a[k + 1]) /\ NotNegative(b[k + 1])
    <3>1. \A x, y \in Rational : x[1] >= 0 /\ y[1] >= 0 => MulQ(x, y) \in Rational /\ MulQ(x, y)[1] >= 0
      BY DEF Rational, MulQ
    <3>2. QED
      BY <2>3, <2>4, <3>1 DEF NotNegative
  <2>6. ~LessQ(b[k + 1], a[k + 1])
    <3>1. ~LessQ(MulQ(b[k], q), MulQ(a[k], q))
      BY <2>1, <2>4, TimesKeepsOrder
    <3>2. ~LessQ(MulQ(b[k], r), MulQ(b[k], q))
      BY <2>4, TimesKeepsOrder
    <3>3. MulQ(a[k], q) \in Rational /\ MulQ(b[k], q) \in Rational /\ MulQ(b[k], r) \in Rational
      BY <2>4, RationalType
    <3>4. QED
      BY <2>3, <3>1, <3>2, <3>3, LessQTransitive
  <2>7. a[k + 1][1] = 0 <=> q[1] = 0
    <3>1. a[k + 1][1] = a[k][1] * q[1]
      BY <2>3 DEF MulQ
    <3>2. a[k][1] \in Int /\ q[1] \in Int
      BY <2>4 DEF Rational
    <3>3. a[k][1] = 0 => q[1] = 0
      BY <2>1
    <3>4. QED
      BY <3>1, <3>2, <3>3
  <2>8. SameQ(q, Q(1)) => SameQ(a[k + 1], Q(1))
    <3> SUFFICES ASSUME SameQ(q, Q(1)) PROVE SameQ(a[k + 1], Q(1))
      OBVIOUS
    <3>1. q[1] = q[2] /\ a[k][1] = a[k][2]
      BY <2>1, <2>4 DEF SameQ, Q, Rational
    <3>2. QED
      BY <2>3, <2>4, <3>1 DEF SameQ, Q, Rational, MulQ
  <2>9. QED
    BY <2>5, <2>6, <2>7, <2>8
<1> HIDE DEF K
<1>5. n \in K
  BY <1>3, <1>4, NatSetInduction
<1>6. P(n)
  BY <1>5 DEF K
<1>7. QED
  BY <1>1, <1>2, <1>6

(* What lies lower costs no less.                                          *)
LEMMA BelowOrdered ==
  ASSUME NEW v \in Rational, NEW w \in Rational, NEW a \in Rational, NEW e \in Rational, ~LessQ(w, v)
  PROVE  ~LessQ(PenaltyBoundFromBelow(v, a, e), PenaltyBoundFromBelow(w, a, e))
<1> DEFINE x == AddQ(a, e)
           pv == PenaltyBoundFromBelow(v, a, e)
           pw == PenaltyBoundFromBelow(w, a, e)
<1>1. x \in Rational
  BY RationalType
<1>2. pv \in Rational /\ pw \in Rational /\ pv[1] >= 0
  BY FromBelowFree
<1>3. CASE ~LessQ(w, x)
  <2>1. pw = <<0, 1>>
    BY <1>3 DEF PenaltyBoundFromBelow, Q
  <2> HIDE DEF pv, pw
  <2>2. ~LessQ(pv, pw)
    BY <1>2, <2>1 DEF LessQ, Rational
  <2>3. QED
    BY <2>2 DEF pv, pw
<1>4. CASE LessQ(w, x)
  <2>1. LessQ(v, x)
    BY <1>1, <1>4, LessQTransitive DEF LessQ, Rational
  <2>2. pv = SubQ(x, v) /\ pw = SubQ(x, w)
    BY <1>4, <2>1 DEF PenaltyBoundFromBelow
  <2> HIDE DEF x, pv, pw
  <2>3. /\ x[1] \in Int /\ x[2] \in Nat \ {0} /\ v[1] \in Int /\ v[2] \in Nat \ {0}
        /\ w[1] \in Int /\ w[2] \in Nat \ {0}
    BY <1>1 DEF Rational
  <2> DEFINE i == v[1] * w[2]
             j == w[1] * v[2]
             m == x[1] * v[2] * w[2] * x[2]
             s == x[2] * x[2]
  <2>4. i <= j /\ i \in Int /\ j \in Int /\ m \in Int /\ s \in Nat
    BY <2>3 DEF LessQ
  <2>5. pv[1] * pw[2] = m - s * i /\ pw[1] * pv[2] = m - s * j
    BY <2>2, <2>3 DEF SubQ, AddQ, NegQ
  <2> HIDE DEF i, j, m, s
  <2>6. s * i <= s * j /\ s * i \in Int /\ s * j \in Int
    BY <2>4
  <2>7. ~LessQ(pv, pw)
    BY <2>4, <2>5, <2>6 DEF LessQ
  <2>8. QED
    BY <2>7 DEF pv, pw
<1>5. QED
  BY <1>3, <1>4

(* The cost of a distance, with and without an exponent.                   *)
LEMMA ObstacleErrorIs ==
  ASSUME NEW v \in Rational, NEW c \in Configs
  PROVE  LET e == PenaltyBoundFromBelow(v, c.min_obstacle_dist, c.penalty_epsilon)
         IN ObstacleError(v, c) =
              IF c.obstacle_cost_exponent # 1 /\ c.min_obstacle_dist[1] > 0
                THEN MulQ(c.min_obstacle_dist,
                          Power(OverQ(e, c.min_obstacle_dist), c.obstacle_cost_exponent))
                ELSE e
<1>1. LessQ(Q(0), c.min_obstacle_dist) <=> c.min_obstacle_dist[1] > 0
  <2>1. c.min_obstacle_dist[1] \in Int /\ c.min_obstacle_dist[2] \in Int
    BY ConfigType DEF Rational
  <2>2. QED
    BY <2>1 DEF LessQ, Q
<1>2. QED
  BY <1>1 DEF ObstacleError

(* Division by a positive number keeps the order.                          *)
LEMMA OverOrdered ==
  ASSUME NEW q, NEW r, NotNegative(q), NotNegative(r), ~LessQ(r, q), NEW m \in Rational, m[1] > 0
  PROVE  /\ NotNegative(OverQ(q, m)) /\ NotNegative(OverQ(r, m)) /\ ~LessQ(OverQ(r, m), OverQ(q, m))
         /\ OverQ(q, m)[1] = 0 <=> q[1] = 0
         /\ SameQ(q, m) => SameQ(OverQ(q, m), Q(1))
<1>1. /\ q[1] \in Nat /\ q[2] \in Nat \ {0} /\ r[1] \in Nat /\ r[2] \in Nat \ {0}
      /\ m[1] \in Nat \ {0} /\ m[2] \in Nat \ {0}
  BY DEF NotNegative, Rational
<1>2. OverQ(q, m) = <<q[1] * m[2], q[2] * m[1]>> /\ OverQ(r, m) = <<r[1] * m[2], r[2] * m[1]>>
  BY DEF OverQ
<1>3. NotNegative(OverQ(q, m)) /\ NotNegative(OverQ(r, m))
  BY <1>1, <1>2 DEF NotNegative, Rational
<1>4. ~LessQ(OverQ(r, m), OverQ(q, m))
  <2> DEFINE i == q[1] * r[2]
             j == r[1] * q[2]
             s == m[1] * m[2]
  <2>1. i <= j /\ i \in Nat /\ j \in Nat /\ s \in Nat
    BY <1>1 DEF LessQ
  <2>2. (q[1] * m[2]) * (r[2] * m[1]) = s * i /\ (r[1] * m[2]) * (q[2] * m[1]) = s * j
    BY <1>1
  <2> HIDE DEF i, j, s
  <2>3. s * i <= s * j /\ s * i \in Int /\ s * j \in Int
    BY <2>1
  <2>4. QED
    BY <1>2, <2>2, <2>3 DEF LessQ
<1>5. OverQ(q, m)[1] = 0 <=> q[1] = 0
  BY <1>1, <1>2
<1>6. SameQ(q, m) => SameQ(OverQ(q, m), Q(1))
  BY <1>1, <1>2 DEF SameQ, Q
<1>7. QED
  BY <1>3, <1>4, <1>5, <1>6

(* Of the cost of a distance: it falls with the distance, ends at the      *)
(* minimum distance and its margin, and is the linear one at the minimum.  *)
ObstacleCost(near, far, c) ==
  /\ ~LessQ(ObstacleError(near, c), ObstacleError(far, c))
  /\ ObstacleError(near, c)[1] = 0 <=> ~LessQ(near, AddQ(c.min_obstacle_dist, c.penalty_epsilon))
  /\ SameQ(near, c.penalty_epsilon) => SameQ(ObstacleError(near, c), c.min_obstacle_dist)

(* All of it, of any two distances.                                        *)
LEMMA ObstacleCosts ==
  ASSUME NEW near \in Rational, NEW far \in Rational, ~LessQ(far, near), NEW c \in Configs
  PROVE  ObstacleCost(near, far, c)
<1> DEFINE m == c.min_obstacle_dist
           eps == c.penalty_epsilon
           n == c.obstacle_cost_exponent
           e == PenaltyBoundFromBelow(near, m, eps)
           f == PenaltyBoundFromBelow(far, m, eps)
<1>0. m \in Rational /\ m[1] >= 0 /\ eps \in Rational /\ n \in Nat \ {0}
  BY ConfigType
<1>1. NotNegative(e) /\ NotNegative(f) /\ ~LessQ(e, f)
  <2>1. e \in Rational /\ e[1] >= 0 /\ f \in Rational /\ f[1] >= 0
    BY <1>0, FromBelowFree
  <2>2. ~LessQ(e, f)
    BY <1>0, BelowOrdered
  <2>3. QED
    BY <2>1, <2>2 DEF NotNegative
<1>2. e[1] = 0 <=> ~LessQ(near, AddQ(m, eps))
  BY <1>0, FromBelowFree
<1>3. SameQ(near, eps) => SameQ(e, m)
  <2> SUFFICES ASSUME SameQ(near, eps) PROVE SameQ(e, m)
    OBVIOUS
  <2> HIDE DEF m, eps
  <2>1. CASE LessQ(near, AddQ(m, eps))
    <3>1. e = SubQ(AddQ(m, eps), near)
      BY <2>1 DEF PenaltyBoundFromBelow
    <3>2. /\ m[1] \in Int /\ m[2] \in Int /\ eps[1] \in Int /\ eps[2] \in Int
          /\ near[1] \in Int /\ near[2] \in Int
      BY <1>0 DEF Rational
    <3>3. e = <<(m[1] * eps[2] + eps[1] * m[2]) * near[2] + (-near[1]) * (m[2] * eps[2]),
                (m[2] * eps[2]) * near[2]>>
      BY <3>1 DEF SubQ, AddQ, NegQ
    <3>4. near[1] * eps[2] = eps[1] * near[2]
      BY DEF SameQ
    <3>5. (-near[1]) * (m[2] * eps[2]) = -(m[2] * (near[1] * eps[2]))
      BY <3>2
    <3>6. (m[1] * eps[2] + eps[1] * m[2]) * near[2] = m[1] * (eps[2] * near[2]) + m[2] * (eps[1] * near[2])
      BY <3>2
    <3>7. e[1] = m[1] * (eps[2] * near[2])
      BY <3>2, <3>3, <3>4, <3>5, <3>6
    <3>8. QED
      BY <3>2, <3>3, <3>7 DEF SameQ
  <2>2. CASE ~LessQ(near, AddQ(m, eps))
    <3>1. e = <<0, 1>>
      BY <2>2 DEF PenaltyBoundFromBelow, Q
    <3>2. /\ m[1] \in Nat /\ m[2] \in Nat \ {0} /\ eps[1] \in Int /\ eps[2] \in Nat \ {0}
          /\ near[1] \in Int /\ near[2] \in Nat \ {0}
      BY <1>0 DEF Rational
    <3>3. ~(near[1] * (m[2] * eps[2]) < (m[1] * eps[2] + eps[1] * m[2]) * near[2])
      BY <2>2 DEF LessQ, AddQ
    <3>4. near[1] * eps[2] = eps[1] * near[2]
      BY DEF SameQ
    <3>5. near[1] * (m[2] * eps[2]) = m[2] * (near[1] * eps[2])
      BY <3>2
    <3>6. (m[1] * eps[2] + eps[1] * m[2]) * near[2] = m[1] * (eps[2] * near[2]) + m[2] * (eps[1] * near[2])
      BY <3>2
    <3>7. m[1] * (eps[2] * near[2]) <= 0
      BY <3>2, <3>3, <3>4, <3>5, <3>6
    <3>8. m[1] = 0
      <4> DEFINE i == m[1]
                 d == eps[2] * near[2]
      <4>1. d \in Nat \ {0}
        BY <3>2
      <4>2. i \in Nat /\ i * d <= 0
        BY <3>2, <3>7
      <4> HIDE DEF i, d
      <4>3. i = 0
        BY <4>1, <4>2
      <4>4. QED
        BY <4>3 DEF i
    <3>9. QED
      BY <3>1, <3>2, <3>8 DEF SameQ
  <2>3. QED
    BY <2>1, <2>2
<1> HIDE DEF e, f, m, eps, n
<1>4. /\ ObstacleError(near, c) = IF n # 1 /\ m[1] > 0 THEN MulQ(m, Power(OverQ(e, m), n)) ELSE e
      /\ ObstacleError(far, c) = IF n # 1 /\ m[1] > 0 THEN MulQ(m, Power(OverQ(f, m), n)) ELSE f
  BY ObstacleErrorIs DEF e, f, m, eps, n
<1>5. CASE ~(n # 1 /\ m[1] > 0)
  BY <1>1, <1>2, <1>3, <1>4, <1>5 DEF ObstacleCost, m, eps
<1>6. CASE n # 1 /\ m[1] > 0
  <2> DEFINE x == OverQ(e, m)
             y == OverQ(f, m)
             px == Power(x, n)
             py == Power(y, n)
  <2>1. /\ NotNegative(x) /\ NotNegative(y) /\ ~LessQ(x, y)
        /\ x[1] = 0 <=> e[1] = 0
        /\ SameQ(e, m) => SameQ(x, Q(1))
    <3>1. ~LessQ(e, f) /\ NotNegative(e) /\ NotNegative(f) /\ m \in Rational /\ m[1] > 0
      BY <1>0, <1>1, <1>6
    <3>2. \A q, r : NotNegative(q) /\ NotNegative(r) /\ ~LessQ(r, q) =>
            /\ NotNegative(OverQ(q, m)) /\ NotNegative(OverQ(r, m)) /\ ~LessQ(OverQ(r, m), OverQ(q, m))
            /\ OverQ(q, m)[1] = 0 <=> q[1] = 0
            /\ SameQ(q, m) => SameQ(OverQ(q, m), Q(1))
      BY <3>1, OverOrdered
    <3>3. ~LessQ(e, e)
      BY <3>1 DEF LessQ, NotNegative, Rational
    <3>4. QED
      BY <3>1, <3>2, <3>3
  <2> HIDE DEF x, y
  <2>2. /\ NotNegative(px) /\ NotNegative(py) /\ ~LessQ(px, py)
        /\ px[1] = 0 <=> x[1] = 0
        /\ SameQ(x, Q(1)) => SameQ(px, Q(1))
    <3>1. ~LessQ(x, x)
      BY <2>1 DEF LessQ, NotNegative, Rational
    <3>2. n \in Nat /\ n > 0
      BY <1>0
    <3>3. NotNegative(px) /\ NotNegative(py) /\ ~LessQ(px, py)
      BY <2>1, <3>2, PowersOrdered
    <3>4. (px[1] = 0 <=> x[1] = 0) /\ (SameQ(x, Q(1)) => SameQ(px, Q(1)))
      BY <2>1, <3>1, <3>2, PowersOrdered
    <3>5. QED
      BY <3>3, <3>4
  <2>3. ObstacleError(near, c) = MulQ(m, px) /\ ObstacleError(far, c) = MulQ(m, py)
    BY <1>4, <1>6 DEF x, y
  <2> HIDE DEF px, py
  <2>4. ~LessQ(MulQ(m, px), MulQ(m, py))
    <3>1. px \in Rational /\ py \in Rational
      BY <2>2 DEF NotNegative
    <3>2. QED
      BY <1>0, <2>2, <3>1, TimesKeepsOrder
  <2>5. MulQ(m, px)[1] = 0 <=> px[1] = 0
    <3>1. m[1] \in Nat \ {0} /\ px[1] \in Int
      BY <1>0, <1>6, <2>2 DEF NotNegative, Rational
    <3>2. QED
      BY <3>1 DEF MulQ
  <2>6. SameQ(px, Q(1)) => SameQ(MulQ(m, px), m)
    <3>1. m[1] \in Int /\ m[2] \in Int /\ px[1] \in Int /\ px[2] \in Int
      BY <1>0, <2>2 DEF NotNegative, Rational
    <3>2. QED
      BY <3>1 DEF SameQ, Q, MulQ
  <2>7. QED
    BY <1>2, <1>3, <2>1, <2>2, <2>3, <2>4, <2>5, <2>6 DEF ObstacleCost, m, eps
<1>7. QED
  BY <1>5, <1>6

(* The share of the speed that is left grows with the distance. *)
LEMMA ShareGrows ==
  ASSUME NEW near \in Rational, NEW far \in Rational, ~LessQ(far, near),
         NEW lower \in Rational, NEW upper \in Rational, ~SameQ(lower, upper)
  PROVE  ~LessQ(Share(far, lower, upper), Share(near, lower, upper))
<1> DEFINE a == Share(near, lower, upper)
           b == Share(far, lower, upper)
<1>0. /\ a \in Rational /\ a[1] >= 0 /\ ~LessQ(Q(1), a)
      /\ b \in Rational /\ b[1] >= 0 /\ ~LessQ(Q(1), b)
  BY ShareIs
<1>1. CASE LessQ(near, lower)
  <2>1. a = <<0, 1>>
    BY <1>1 DEF Share, Q
  <2> HIDE DEF a, b
  <2>2. ~LessQ(b, a)
    BY <1>0, <2>1 DEF LessQ, Rational
  <2>3. QED
    BY <2>2 DEF a, b
<1>2. CASE ~LessQ(far, lower) /\ LessQ(upper, far)
  <2>1. b = Q(1)
    BY <1>2 DEF Share
  <2> HIDE DEF a, b
  <2>2. ~LessQ(b, a)
    BY <1>0, <2>1
  <2>3. QED
    BY <2>2 DEF a, b
<1>3. CASE ~LessQ(near, lower) /\ ~LessQ(upper, far)
  <2>1. ~LessQ(far, lower) /\ ~LessQ(upper, near) /\ ~LessQ(upper, lower)
    BY <1>3, LessQTransitive
  <2> DEFINE x == SubQ(near, lower)
             y == SubQ(far, lower)
             z == SubQ(upper, lower)
  <2>2. a = OverQ(x, z) /\ b = OverQ(y, z)
    BY <1>3, <2>1 DEF Share
  <2>3. x \in Rational /\ y \in Rational /\ z \in Rational
    BY RationalType
  <2>4. x[1] >= 0
    BY <1>3 DEF SubQ, AddQ, NegQ, LessQ, Rational
  <2>5. y[1] >= 0
    BY <2>1 DEF SubQ, AddQ, NegQ, LessQ, Rational
  <2>6. z[1] > 0
    BY <2>1 DEF SubQ, AddQ, NegQ, LessQ, SameQ, Rational
  <2>7. ~LessQ(y, x)
    BY LessLeavesOrder
  <2> HIDE DEF x, y, z
  <2>8. NotNegative(x) /\ NotNegative(y)
    BY <2>3, <2>4, <2>5 DEF NotNegative
  <2>9. ~LessQ(OverQ(y, z), OverQ(x, z))
    BY <2>3, <2>6, <2>7, <2>8, OverOrdered
  <2>10. QED
    BY <2>2, <2>9
<1>4. LessQ(near, lower) \/ (~LessQ(far, lower) /\ LessQ(upper, far)) \/ (~LessQ(near, lower) /\ ~LessQ(upper, far))
  <2>1. ~LessQ(near, lower) => ~LessQ(far, lower)
    BY LessQTransitive
  <2>2. QED
    BY <2>1
<1>5. QED
  BY <1>1, <1>2, <1>3, <1>4

(* Of the share of the speed that is left near an obstacle, also when the  *)
(* bounds are equal and nothing is left of it at just that distance.       *)
ProximityOrdered(near, far, c) ==
  /\ ~LessQ(ProximityRatio(far, c), ProximityRatio(near, c))
  /\ ~LessQ(ProximityRatio(near, c), Q(0))
  /\ ~LessQ(c.obstacle_proximity_ratio_max_vel, ProximityRatio(far, c))

(* Between two distances that differ the speed grows ...                   *)
LEMMA ProximityGrows ==
  ASSUME NEW near \in Rational, NEW far \in Rational, ~LessQ(far, near), NEW c \in Configs,
         ~SameQ(c.obstacle_proximity_lower_bound, c.obstacle_proximity_upper_bound)
  PROVE  ProximityOrdered(near, far, c)
<1> DEFINE r == c.obstacle_proximity_ratio_max_vel
           s == Share(near, c.obstacle_proximity_lower_bound, c.obstacle_proximity_upper_bound)
           t == Share(far, c.obstacle_proximity_lower_bound, c.obstacle_proximity_upper_bound)
<1>1. s \in Rational /\ t \in Rational /\ ~LessQ(t, s)
  BY ConfigType, ShareIs, ShareGrows
<1>2. r \in Rational /\ r[1] >= 0
  BY ConfigType
<1>3. ProximityRatio(near, c) = MulQ(r, s) /\ ProximityRatio(far, c) = MulQ(r, t)
  BY DEF ProximityRatio, Share
<1>4. /\ ProximityRatio(near, c) \in Rational /\ ProximityRatio(near, c)[1] >= 0
      /\ ~LessQ(r, ProximityRatio(far, c))
  BY RatioIs
<1> HIDE DEF r, s, t
<1>5. ~LessQ(MulQ(r, t), MulQ(r, s))
  BY <1>1, <1>2, TimesKeepsOrder
<1>6. ~LessQ(ProximityRatio(near, c), Q(0))
  <2> DEFINE x == ProximityRatio(near, c)
  <2>1. x \in Rational /\ x[1] >= 0
    BY <1>4
  <2> HIDE DEF x
  <2>2. ~LessQ(x, Q(0))
    BY <2>1 DEF LessQ, Q, Rational
  <2>3. QED
    BY <2>2 DEF x
<1>7. QED
  BY <1>3, <1>4, <1>5, <1>6 DEF ProximityOrdered, r

(* ... and at a single one 0 / 0 allows none.                              *)
LEMMA ProximityAtOneDistance ==
  ASSUME NEW near \in Rational, NEW far \in Rational, ~LessQ(far, near), NEW c \in Configs,
         SameQ(c.obstacle_proximity_lower_bound, c.obstacle_proximity_upper_bound)
  PROVE  ProximityOrdered(near, far, c)
<1> DEFINE r == c.obstacle_proximity_ratio_max_vel
           lower == c.obstacle_proximity_lower_bound
           upper == c.obstacle_proximity_upper_bound
           s(d) == IF LessQ(d, lower) THEN Q(0) ELSE IF LessQ(upper, d) THEN Q(1)
                   ELSE OverQ(SubQ(d, lower), SubQ(upper, lower))
<1>1. r[1] \in Nat /\ r[2] \in Nat \ {0} /\ lower \in Rational /\ upper \in Rational /\ SameQ(lower, upper)
  BY ConfigType DEF Rational
<1>2. \A d \in Rational : ProximityRatio(d, c) = MulQ(r, s(d))
  BY DEF ProximityRatio
<1> HIDE DEF r, lower, upper
<1>3. \A d \in Rational :
        \/ LessQ(d, lower) /\ s(d) = <<0, 1>>
        \/ LessQ(upper, d) /\ s(d) = <<1, 1>>
        \/ SameQ(d, lower) /\ s(d) = <<0, 0>>
  <2> TAKE d \in Rational
  <2>1. CASE LessQ(d, lower)
    BY <2>1 DEF Q
  <2>2. CASE ~LessQ(d, lower) /\ LessQ(upper, d)
    BY <2>2 DEF Q
  <2>3. CASE ~LessQ(d, lower) /\ ~LessQ(upper, d)
    <3>1. SameQ(d, lower)
      BY <1>1, <2>3 DEF LessQ, SameQ, Rational
    <3>2. SubQ(d, lower)[1] = 0
      BY <1>1, <3>1 DEF SubQ, AddQ, NegQ, SameQ, Rational
    <3>3. SubQ(upper, lower)[1] = 0
      BY <1>1 DEF SubQ, AddQ, NegQ, SameQ, Rational
    <3>4. SubQ(d, lower) \in Rational /\ SubQ(upper, lower) \in Rational
      BY <1>1, RationalType
    <3> DEFINE x == SubQ(d, lower)
               y == SubQ(upper, lower)
    <3>5. s(d) = OverQ(x, y)
      BY <2>3
    <3> HIDE DEF x, y
    <3>6. OverQ(x, y) = <<0, 0>>
      BY <3>2, <3>3, <3>4 DEF OverQ, Rational, x, y
    <3>7. QED
      BY <3>1, <3>5, <3>6
  <2>4. QED
    BY <2>1, <2>2, <2>3
<1> DEFINE x == ProximityRatio(near, c)
           y == ProximityRatio(far, c)
<1>4. \A d \in Rational :
        \/ LessQ(d, lower) /\ ProximityRatio(d, c) = <<0, r[2]>>
        \/ LessQ(upper, d) /\ ProximityRatio(d, c) = r
        \/ ProximityRatio(d, c) = <<0, 0>>
  <2> TAKE d \in Rational
  <2>1. ProximityRatio(d, c) = MulQ(r, s(d))
    BY <1>2
  <2>2. r = <<r[1], r[2]>>
    BY ConfigType DEF Rational, r
  <2> DEFINE w == s(d)
  <2>3. \/ LessQ(d, lower) /\ w = <<0, 1>>
        \/ LessQ(upper, d) /\ w = <<1, 1>>
        \/ w = <<0, 0>>
    BY <1>3
  <2>4. ProximityRatio(d, c) = MulQ(r, w)
    BY <2>1
  <2> HIDE DEF w, s
  <2>5. QED
    BY <1>1, <2>2, <2>3, <2>4 DEF MulQ
<1>5. x = <<0, r[2]>> \/ x = r \/ x = <<0, 0>>
  BY <1>4
<1>6. y = <<0, r[2]>> \/ y = r \/ y = <<0, 0>>
  BY <1>4
<1>7. ~(x = r /\ r[1] # 0 /\ y = <<0, r[2]>>)
  <2> SUFFICES ASSUME x = r, r[1] # 0, y = <<0, r[2]>> PROVE FALSE
    OBVIOUS
  <2>1. LessQ(upper, near)
    BY <1>1, <1>4
  <2>2. LessQ(far, lower)
    BY <1>1, <1>4
  <2>3. QED
    BY <1>1, <2>1, <2>2 DEF LessQ, SameQ, Rational
<1> HIDE DEF x, y
<1>8. /\ x[1] \in Nat /\ y[1] \in Nat /\ x[2] \in Nat /\ y[2] \in Nat
  BY <1>1, <1>5, <1>6
<1>9. ~LessQ(y, x)
  BY <1>1, <1>5, <1>6, <1>7 DEF LessQ
<1>10. ~LessQ(x, Q(0))
  BY <1>8 DEF LessQ, Q
<1>11. ~LessQ(r, y)
  BY <1>1, <1>6 DEF LessQ
<1>12. QED
  BY <1>9, <1>10, <1>11 DEF ProximityOrdered, x, y, r

(* Five terms, of three edges.                                             *)
LEMMA FiveInARow ==
  ASSUME NEW a, NEW b, NEW d, NEW e, NEW f, NEW s, s = <<a>> \o <<b, d>> \o <<e, f>>
  PROVE  DOMAIN s = 1 .. 5 /\ s[1] = a /\ s[2] = b /\ s[3] = d /\ s[4] = e /\ s[5] = f
<1> DEFINE S == {a, b, d, e, f}
           x == <<a>>
           y == <<b, d>>
           z == <<e, f>>
           w == x \o y
<1>1. /\ x \in Seq(S) /\ Len(x) = 1 /\ x[1] = a
      /\ y \in Seq(S) /\ Len(y) = 2 /\ y[1] = b /\ y[2] = d
      /\ z \in Seq(S) /\ Len(z) = 2 /\ z[1] = e /\ z[2] = f
  OBVIOUS
<1>2. s = w \o z
  OBVIOUS
<1> HIDE DEF x, y, z, S
<1>3. /\ w \in Seq(S) /\ Len(w) = 3
      /\ \A i \in 1 .. 3 : w[i] = IF i <= 1 THEN x[i] ELSE y[i - 1]
  <2>1. /\ x \o y \in Seq(S) /\ Len(x \o y) = Len(x) + Len(y)
        /\ \A i \in 1 .. Len(x) + Len(y) : (x \o y)[i] = IF i <= Len(x) THEN x[i] ELSE y[i - Len(x)]
    BY <1>1, ConcatProperties
  <2>2. Len(x) + Len(y) = 3 /\ Len(x) = 1
    BY <1>1
  <2>3. QED
    BY <2>1, <2>2
<1> HIDE DEF w
<1>4. w[1] = a /\ w[2] = b /\ w[3] = d
  BY <1>1, <1>3
<1>5. /\ s \in Seq(S) /\ Len(s) = 5
      /\ \A i \in 1 .. 5 : s[i] = IF i <= 3 THEN w[i] ELSE z[i - 3]
  <2>1. /\ w \o z \in Seq(S) /\ Len(w \o z) = Len(w) + Len(z)
        /\ \A i \in 1 .. Len(w) + Len(z) : (w \o z)[i] = IF i <= Len(w) THEN w[i] ELSE z[i - Len(w)]
    BY <1>1, <1>3, ConcatProperties
  <2>2. Len(w) + Len(z) = 5 /\ Len(w) = 3
    BY <1>1, <1>3
  <2>3. QED
    BY <1>2, <2>1, <2>2
<1>6. s[1] = a /\ s[2] = b /\ s[3] = d
  BY <1>4, <1>5
<1>7. s[4] = e /\ s[5] = f
  BY <1>1, <1>5
<1>8. DOMAIN s = 1 .. 5
  BY <1>5
<1>9. QED
  BY <1>6, <1>7, <1>8

(* the parts of the check of the distances *)
DistanceCosts(dist, c) ==
  <<ObstacleError(dist, c)>> \o InflatedObstacleError(dist, c) \o DynamicObstacleError(dist, c)

Nearness(near, far, c) ==
  /\ \A i \in DOMAIN DistanceCosts(near, c) : ~LessQ(DistanceCosts(near, c)[i], DistanceCosts(far, c)[i])
  /\ ObstacleError(near, c)[1] = 0 <=> ~LessQ(near, AddQ(c.min_obstacle_dist, c.penalty_epsilon))
  /\ SameQ(near, c.penalty_epsilon) => SameQ(ObstacleError(near, c), c.min_obstacle_dist)
  /\ ~LessQ(ProximityRatio(far, c), ProximityRatio(near, c))
  /\ ~LessQ(ProximityRatio(near, c), Q(0))
  /\ ~LessQ(c.obstacle_proximity_ratio_max_vel, ProximityRatio(far, c))

(* No term of any edge falls when the obstacle comes nearer.               *)
LEMMA NearerCostsMore ==
  ASSUME NEW near \in Rational, NEW far \in Rational, ~LessQ(far, near), NEW c \in Configs
  PROVE  Nearness(near, far, c)
<1> DEFINE o(d) == ObstacleError(d, c)
           i(d) == PenaltyBoundFromBelow(d, c.inflation_dist, Q(0))
           m(d) == PenaltyBoundFromBelow(d, c.min_obstacle_dist, c.penalty_epsilon)
           y(d) == PenaltyBoundFromBelow(d, c.dynamic_obstacle_inflation_dist, Q(0))
<1>1. \A d : /\ DOMAIN DistanceCosts(d, c) = 1 .. 5
              /\ DistanceCosts(d, c)[1] = o(d) /\ DistanceCosts(d, c)[2] = o(d)
              /\ DistanceCosts(d, c)[3] = i(d) /\ DistanceCosts(d, c)[4] = m(d)
              /\ DistanceCosts(d, c)[5] = y(d)
  <2> TAKE d
  <2>1. DistanceCosts(d, c) = <<o(d)>> \o <<o(d), i(d)>> \o <<m(d), y(d)>>
    BY DEF DistanceCosts, InflatedObstacleError, DynamicObstacleError
  <2>2. QED
    BY <2>1, FiveInARow
<1>2. ObstacleCost(near, far, c)
  BY ObstacleCosts
<1>3. ProximityOrdered(near, far, c)
  BY ProximityGrows, ProximityAtOneDistance
<1>4. ~LessQ(o(near), o(far))
  BY <1>2 DEF ObstacleCost
<1>5. ~LessQ(i(near), i(far)) /\ ~LessQ(m(near), m(far)) /\ ~LessQ(y(near), y(far))
  <2>1. Q(0) \in Rational
    BY WholeIsRational
  <2>2. QED
    BY <2>1, ConfigType, BelowOrdered
<1> HIDE DEF o, i, m, y
<1>6. \A k \in DOMAIN DistanceCosts(near, c) : ~LessQ(DistanceCosts(near, c)[k], DistanceCosts(far, c)[k])
  <2> DEFINE e == DistanceCosts(near, c)
             f == DistanceCosts(far, c)
  <2>1. DOMAIN e = 1 .. 5
    BY <1>1
  <2>2. /\ ~LessQ(e[1], f[1]) /\ ~LessQ(e[2], f[2]) /\ ~LessQ(e[3], f[3])
        /\ ~LessQ(e[4], f[4]) /\ ~LessQ(e[5], f[5])
    BY <1>1, <1>4, <1>5
  <2>3. \A k \in 1 .. 5 : ~LessQ(e[k], f[k])
    <3> TAKE k \in 1 .. 5
    <3>1. k \in {1, 2, 3, 4, 5}
      OBVIOUS
    <3>2. QED
      BY <2>2, <3>1
  <2>4. QED
    BY <2>1, <2>3
<1>7. QED
  BY <1>2, <1>3, <1>6 DEF Nearness, ObstacleCost, ProximityOrdered

(* The same, of the input.                                                 *)
LEMMA NearnessProperty ==
  Nearness(input.near, input.far, input.c) => NearnessCosts
  BY Zenon DEF Nearness, DistanceCosts, NearnessCosts

-----------------------------------------------------------------------------
(* Accelerations.                                                          *)

(* Equal accelerations cost the same. *)
LEMMA IntervalSame ==
  ASSUME NEW v \in Rational, NEW w \in Rational, SameQ(v, w),
         NEW a \in Rational, NEW b \in Rational, NEW e \in Rational
  PROVE  SameQ(PenaltyBoundToInterval(v, a, b, e), PenaltyBoundToInterval(w, a, b, e))
<1> DEFINE x == AddQ(a, e)
           y == SubQ(b, e)
<1>1. x \in Rational /\ y \in Rational
  BY RationalType
<1>2. \A r \in Rational : (LessQ(v, r) <=> LessQ(w, r)) /\ (LessQ(r, v) <=> LessQ(r, w))
  BY DEF LessQ, SameQ, Rational
<1>3. \A r \in Rational : SameQ(SubQ(r, v), SubQ(r, w)) /\ SameQ(SubQ(v, r), SubQ(w, r))
  <2> TAKE r \in Rational
  <2>1. /\ v[1] \in Int /\ v[2] \in Int /\ w[1] \in Int /\ w[2] \in Int /\ r[1] \in Int /\ r[2] \in Int
        /\ v[1] * w[2] = w[1] * v[2]
    BY DEF Rational, SameQ
  <2>2. SubQ(r, v) = <<r[1] * v[2] + (-v[1]) * r[2], r[2] * v[2]>>
    BY DEF SubQ, AddQ, NegQ
  <2>3. SubQ(r, w) = <<r[1] * w[2] + (-w[1]) * r[2], r[2] * w[2]>>
    BY DEF SubQ, AddQ, NegQ
  <2>4. SubQ(v, r) = <<v[1] * r[2] + (-r[1]) * v[2], v[2] * r[2]>>
    BY DEF SubQ, AddQ, NegQ
  <2>5. SubQ(w, r) = <<w[1] * r[2] + (-r[1]) * w[2], w[2] * r[2]>>
    BY DEF SubQ, AddQ, NegQ
  <2> DEFINE v1 == v[1] v2 == v[2] w1 == w[1] w2 == w[2] r1 == r[1] r2 == r[2]
             d == r1 * r2 * v2 * w2
             p == v1 * w2
             q == w1 * v2
  <2>6. /\ (r1 * v2 + (-v1) * r2) * (r2 * w2) = d - (r2 * r2) * p
        /\ (r1 * w2 + (-w1) * r2) * (r2 * v2) = d - (r2 * r2) * q
    BY <2>1
  <2>7. /\ (v1 * r2 + (-r1) * v2) * (w2 * r2) = (r2 * r2) * p - d
        /\ (w1 * r2 + (-r1) * w2) * (v2 * r2) = (r2 * r2) * q - d
    BY <2>1
  <2>8. p = q
    BY <2>1
  <2>9. SameQ(SubQ(r, v), SubQ(r, w))
    BY <2>2, <2>3, <2>6, <2>8 DEF SameQ
  <2>10. SameQ(SubQ(v, r), SubQ(w, r))
    BY <2>4, <2>5, <2>7, <2>8 DEF SameQ
  <2>11. QED
    BY <2>9, <2>10
<1>4. /\ PenaltyBoundToInterval(v, a, b, e) =
           IF LessQ(v, x) THEN SubQ(x, v) ELSE IF LessQ(y, v) THEN SubQ(v, y) ELSE Q(0)
      /\ PenaltyBoundToInterval(w, a, b, e) =
           IF LessQ(w, x) THEN SubQ(x, w) ELSE IF LessQ(y, w) THEN SubQ(w, y) ELSE Q(0)
  BY DEF PenaltyBoundToInterval
<1>5. SameQ(Q(0), Q(0))
  BY DEF SameQ, Q
<1> HIDE DEF x, y
<1>6. QED
  BY <1>1, <1>2, <1>3, <1>4, <1>5

(* The same of bounds that differ in the sign only.                        *)
LEMMA WithinSame ==
  ASSUME NEW v \in Rational, NEW w \in Rational, SameQ(v, w), NEW a \in Rational, NEW e \in Rational
  PROVE  SameQ(PenaltyWithin(v, a, e), PenaltyWithin(w, a, e))
<1>1. NegQ(a) \in Rational
  BY RationalType
<1>2. QED
  BY <1>1, IntervalSame DEF PenaltyWithin

(* When the bounds do not cross, both directions cost the same. *)
LEMMA WithinOpposite ==
  ASSUME NEW v \in Rational, NEW a \in Rational, NEW e \in Rational, ~LessQ(a, e)
  PROVE  PenaltyWithin(NegQ(v), a, e) = PenaltyWithin(v, a, e)
<1> DEFINE x == AddQ(NegQ(a), e)
           y == SubQ(a, e)
           w == NegQ(v)
<1>1. /\ a[1] \in Int /\ a[2] \in Nat \ {0} /\ e[1] \in Int /\ e[2] \in Nat \ {0}
      /\ v[1] \in Int /\ v[2] \in Nat \ {0}
  BY DEF Rational
<1> DEFINE n == a[1] * e[2] - e[1] * a[2]
           d == a[2] * e[2]
<1>2. x = <<-n, d>> /\ y = <<n, d>> /\ n \in Int /\ d \in Nat \ {0}
  BY <1>1 DEF AddQ, SubQ, NegQ
<1>3. n >= 0
  BY <1>1 DEF LessQ
<1>4. w = <<-v[1], v[2]>>
  BY DEF NegQ
<1>5. /\ PenaltyWithin(v, a, e) =
           IF LessQ(v, x) THEN SubQ(x, v) ELSE IF LessQ(y, v) THEN SubQ(v, y) ELSE Q(0)
      /\ PenaltyWithin(w, a, e) =
           IF LessQ(w, x) THEN SubQ(x, w) ELSE IF LessQ(y, w) THEN SubQ(w, y) ELSE Q(0)
  BY DEF PenaltyWithin, PenaltyBoundToInterval
<1> HIDE DEF x, y, w, n, d
<1> DEFINE v1 == v[1] v2 == v[2]
           p == v1 * d
           q == n * v2
<1>6. p \in Int /\ q \in Nat
  BY <1>1, <1>2, <1>3
<1>7. (LessQ(v, x) <=> p < -q) /\ (LessQ(y, v) <=> q < p)
  <2>1. (-n) * v2 = -q
    BY <1>1, <1>2
  <2>2. QED
    BY <1>2, <2>1 DEF LessQ
<1>8. (LessQ(w, x) <=> -p < -q) /\ (LessQ(y, w) <=> q < -p)
  <2>1. (-n) * v2 = -q /\ (-v1) * d = -p
    BY <1>1, <1>2
  <2>2. QED
    BY <1>2, <1>4, <2>1 DEF LessQ
<1>9. /\ SubQ(x, v) = SubQ(w, y) /\ SubQ(v, y) = SubQ(x, w)
  <2>1. SubQ(x, v) = <<(-n) * v2 + (-v1) * d, d * v2>> /\ SubQ(w, y) = <<(-v1) * d + (-n) * v2, v2 * d>>
    BY <1>2, <1>4 DEF SubQ, AddQ, NegQ
  <2>2. SubQ(v, y) = <<v1 * d + (-n) * v2, v2 * d>> /\ SubQ(x, w) = <<(-n) * v2 + (-(-v1)) * d, d * v2>>
    BY <1>2, <1>4 DEF SubQ, AddQ, NegQ
  <2>3. -(-v1) = v1
    BY <1>1
  <2>4. v1 * d \in Int /\ (-v1) * d \in Int /\ (-n) * v2 \in Int /\ d * v2 = v2 * d
    BY <1>1, <1>2
  <2>5. QED
    BY <2>1, <2>2, <2>3, <2>4
<1> HIDE DEF p, q
<1>10. PenaltyWithin(w, a, e) = PenaltyWithin(v, a, e)
  BY <1>5, <1>6, <1>7, <1>8, <1>9
<1>11. QED
  BY <1>10 DEF w

Agree(q, r) == q \in Rational /\ r \in Rational /\ SameQ(q, r)

(* The change of the speed along one direction: x is its share in the      *)
(* speed.                                                                  *)
LEMMA SteadyBetween ==
  ASSUME NEW x \in Int, NEW v \in Int, NEW half \in Int, NEW s1 \in Int, NEW s2 \in Int,
         NEW t \in Nat \ {0}, NEW u \in Nat \ {0},
         s1 = v * t + half * t * t,
         s2 = s1 + (v + 2 * half * t) * u + half * u * u
  PROVE  Agree(OverQ(SubQ(<<(s2 - s1) * x, u>>, <<(s1 - 0) * x, t>>), <<t + u, 2>>),
               MulQ(Q(1), Q((2 * half) * x)))
<1> DEFINE m == ((s2 - s1) * x) * t + (-((s1 - 0) * x)) * u
           a == OverQ(SubQ(<<(s2 - s1) * x, u>>, <<(s1 - 0) * x, t>>), <<t + u, 2>>)
           b == MulQ(Q(1), Q((2 * half) * x))
<1>1. SubQ(<<(s2 - s1) * x, u>>, <<(s1 - 0) * x, t>>) = <<m, u * t>>
  BY DEF SubQ, AddQ, NegQ
<1>2. a = <<m * 2, (u * t) * (t + u)>>
  BY <1>1 DEF OverQ
<1>3. b = <<(2 * half) * x, 1>>
  BY DEF MulQ, Q
<1>4. m = x * ((s2 - s1) * t - s1 * u)
  OBVIOUS
<1>5. (s2 - s1) * t - s1 * u = half * (u * t * (t + u))
  <2>1. s2 - s1 = (v + 2 * half * t) * u + half * u * u
    OBVIOUS
  <2>2. (s2 - s1) * t = ((v + 2 * half * t) * u + half * u * u) * t
    BY <2>1
  <2>3. s1 * u = (v * t + half * t * t) * u
    OBVIOUS
  <2>4. ((v + 2 * half * t) * u + half * u * u) * t - (v * t + half * t * t) * u = half * (u * t * (t + u))
    OBVIOUS
  <2>5. QED
    BY <2>2, <2>3, <2>4
<1>6. m * 2 = ((2 * half) * x) * ((u * t) * (t + u))
  <2> DEFINE k == half * (u * t * (t + u))
  <2>1. m = x * k
    BY <1>4, <1>5
  <2>2. (x * k) * 2 = ((2 * half) * x) * ((u * t) * (t + u))
    OBVIOUS
  <2> HIDE DEF k, m
  <2>3. QED
    BY <2>1, <2>2
<1>7. a \in Rational /\ b \in Rational
  <2>1. m \in Int /\ (u * t) * (t + u) \in Nat \ {0} /\ (2 * half) * x \in Int
    OBVIOUS
  <2> HIDE DEF m, a, b
  <2>2. QED
    BY <1>2, <1>3, <2>1 DEF Rational
<1>8. SameQ(a, b)
  <2>1. (u * t) * (t + u) \in Int /\ (2 * half) * x \in Int /\ m * 2 \in Int
    OBVIOUS
  <2> HIDE DEF m, a, b
  <2>2. QED
    BY <1>2, <1>3, <1>6, <2>1 DEF SameQ
<1>9. QED
  BY <1>7, <1>8 DEF Agree, a, b

(* From a given velocity to the first step half of it is measured ...      *)
LEMMA SteadyAtStart ==
  ASSUME NEW x \in Int, NEW v \in Int, NEW half \in Int, NEW s \in Int, NEW t \in Nat \ {0},
         s = v * t + half * t * t
  PROVE  Agree(OverQ(SubQ(<<(s - 0) * x, t>>, Q(v * x)), Q(t)),
               MulQ(<<1, 2>>, Q((2 * half) * x)))
<1> DEFINE m == ((s - 0) * x) * 1 + (-(v * x)) * t
           a == OverQ(SubQ(<<(s - 0) * x, t>>, Q(v * x)), Q(t))
           b == MulQ(<<1, 2>>, Q((2 * half) * x))
<1>1. SubQ(<<(s - 0) * x, t>>, Q(v * x)) = <<m, t * 1>>
  BY DEF SubQ, AddQ, NegQ, Q
<1>2. a = <<m * 1, (t * 1) * t>>
  BY <1>1 DEF OverQ, Q
<1>3. b = <<1 * ((2 * half) * x), 2 * 1>>
  BY DEF MulQ, Q
<1>4. m = half * t * t * x
  OBVIOUS
<1>5. (m * 1) * (2 * 1) = (1 * ((2 * half) * x)) * ((t * 1) * t)
  BY <1>4
<1>6. m \in Int /\ (t * 1) * t \in Nat \ {0} /\ (2 * half) * x \in Int
  OBVIOUS
<1> HIDE DEF m, a, b
<1>7. a \in Rational /\ b \in Rational
  BY <1>2, <1>3, <1>6 DEF Rational
<1>8. SameQ(a, b)
  BY <1>2, <1>3, <1>5, <1>6 DEF SameQ
<1>9. QED
  BY <1>7, <1>8 DEF Agree, a, b

(* ... and from the last step to a given velocity.                         *)
LEMMA SteadyAtGoal ==
  ASSUME NEW x \in Int, NEW v \in Int, NEW half \in Int, NEW s \in Int, NEW r \in Int,
         NEW t \in Nat \ {0}, r = s + v * t + half * t * t
  PROVE  Agree(OverQ(SubQ(Q((v + (2 * half) * t) * x), <<(r - s) * x, t>>), Q(t)),
               MulQ(<<1, 2>>, Q((2 * half) * x)))
<1> DEFINE w == v + (2 * half) * t
           m == (w * x) * t + (-((r - s) * x)) * 1
           a == OverQ(SubQ(Q(w * x), <<(r - s) * x, t>>), Q(t))
           b == MulQ(<<1, 2>>, Q((2 * half) * x))
<1>1. SubQ(Q(w * x), <<(r - s) * x, t>>) = <<m, 1 * t>>
  BY DEF SubQ, AddQ, NegQ, Q
<1>2. a = <<m * 1, (1 * t) * t>>
  BY <1>1 DEF OverQ, Q
<1>3. b = <<1 * ((2 * half) * x), 2 * 1>>
  BY DEF MulQ, Q
<1>4. m = half * t * t * x
  <2>1. r - s = v * t + half * t * t
    OBVIOUS
  <2>2. (r - s) * x = (v * t + half * t * t) * x
    BY <2>1
  <2>3. m = (w * x) * t - (v * t + half * t * t) * x
    BY <2>2
  <2>4. QED
    BY <2>3
<1>5. (m * 1) * (2 * 1) = (1 * ((2 * half) * x)) * ((1 * t) * t)
  BY <1>4
<1>6. m \in Int /\ (1 * t) * t \in Nat \ {0} /\ (2 * half) * x \in Int
  OBVIOUS
<1> HIDE DEF m, a, b
<1>7. a \in Rational /\ b \in Rational
  BY <1>2, <1>3, <1>6 DEF Rational
<1>8. SameQ(a, b)
  BY <1>2, <1>3, <1>5, <1>6 DEF SameQ
<1>9. QED
  BY <1>7, <1>8 DEF Agree, a, b

(* A pose at a multiple of a direction, and a velocity along it in the     *)
(* frame of the robot. *)
Along(dir, g, s, turn) == [at |-> Scale(s, dir), quarter |-> (g + turn) % 4]
Facing(g, turn) == <<<<1, 0>>, <<0, 1>>, <<-1, 0>>, <<0, -1>>>>[((g + turn) % 4) + 1]
Frame(dir, g, v) ==
  <<Q(Dot(Heading(Along(dir, g, 0, 0)), Scale(v, dir))),
    Q(Cross(Heading(Along(dir, g, 0, 0)), Scale(v, dir))), Q(0)>>

(* What the poses along a direction have in common.                        *)
LEMMA AlongIs ==
  ASSUME NEW dir \in Int \X Int, NEW g \in 0 .. 3, NEW turn \in {0, 2}, NEW s \in Int, NEW r \in Int
  PROVE  LET p == Along(dir, g, s, turn)
             q == Along(dir, g, r, turn)
             h == Facing(g, turn)
         IN /\ Heading(p) = h /\ h \in Int \X Int /\ AtPose(p)
            /\ Ahead(p, q) = (r - s) * Dot(h, dir) /\ Beside(p, q) = (r - s) * Cross(h, dir)
            /\ Turn(p, q) = 0 /\ Minus(q.at, p.at) = Scale(r - s, dir)
            /\ Dot(h, dir) \in Int /\ Cross(h, dir) \in Int
<1> DEFINE p == Along(dir, g, s, turn)
           q == Along(dir, g, r, turn)
           h == Facing(g, turn)
<1>1. Heading(p) = h
  BY DEF Heading, Along, Facing
<1>2. h \in Int \X Int
  BY DEF Facing
<1>3. AtPose(p)
  BY DEF AtPose, Along, Scale
<1>4. Minus(q.at, p.at) = Scale(r - s, dir)
  BY DEF Along, Minus, Scale
<1>5. Turn(p, q) = 0
  <2>1. p.quarter = q.quarter /\ p.quarter \in Int
    BY DEF Along
  <2>2. QED
    BY <2>1 DEF Turn, NormalizeTheta
<1>6. Ahead(p, q) = Dot(h, Scale(r - s, dir)) /\ Beside(p, q) = Cross(h, Scale(r - s, dir))
  BY <1>1, <1>4 DEF Ahead, Beside
<1> HIDE DEF p, q, h
<1>7. \A k \in Int : Dot(h, Scale(k, dir)) = k * Dot(h, dir) /\ Cross(h, Scale(k, dir)) = k * Cross(h, dir)
  BY <1>2 DEF Dot, Cross, Scale
<1>8. Dot(h, dir) \in Int /\ Cross(h, dir) \in Int
  BY <1>2 DEF Dot, Cross
<1>9. r - s \in Int
  OBVIOUS
<1>10. QED
  BY <1>1, <1>2, <1>3, <1>4, <1>5, <1>6, <1>7, <1>8, <1>9 DEF p, q, h

(* The velocity along a direction, in numbers ...                          *)
LEMMA FrameIs ==
  ASSUME NEW dir \in Int \X Int, NEW g \in 0 .. 3, NEW v \in Int
  PROVE  Frame(dir, g, v) = <<Q(v * Dot(Facing(g, 0), dir)), Q(v * Cross(Facing(g, 0), dir)), Q(0)>>
<1> DEFINE h == Facing(g, 0)
<1>1. Heading(Along(dir, g, 0, 0)) = h /\ h \in Int \X Int
  BY AlongIs
<1>2. Frame(dir, g, v) = <<Q(Dot(h, Scale(v, dir))), Q(Cross(h, Scale(v, dir))), Q(0)>>
  BY <1>1 DEF Frame
<1> HIDE DEF h
<1>3. Dot(h, Scale(v, dir)) = v * Dot(h, dir) /\ Cross(h, Scale(v, dir)) = v * Cross(h, dir)
  BY <1>1 DEF Dot, Cross, Scale
<1>4. QED
  BY <1>2, <1>3 DEF h

(* ... and that of a step.                                                 *)
LEMMA AlongHolonomic ==
  ASSUME NEW dir \in Int \X Int, NEW g \in 0 .. 3, NEW s \in Int, NEW r \in Int, NEW dt
  PROVE  HolonomicTwist(Along(dir, g, s, 0), Along(dir, g, r, 0), dt) =
           <<<<(r - s) * Dot(Facing(g, 0), dir), dt>>, <<(r - s) * Cross(Facing(g, 0), dir), dt>>, <<0, dt>>>>
  BY AlongIs DEF HolonomicTwist

(* Penalties of an acceleration of three components. *)
SameTerms(e, f) == \A i \in DOMAIN e : SameQ(e[i], f[i])

Charge(share, f, c) ==
  AccelerationPenalty([i \in 1 .. 3 |-> MulQ(share, f[i])], Limits3(c), c.penalty_epsilon)

(* Accelerations that are the same in every component cost the same.       *)
LEMMA ChangeCharged ==
  ASSUME NEW v, NEW w, NEW t, NEW share, NEW f, NEW c \in Configs, DOMAIN v = 1 .. 3,
         \A i \in 1 .. 3 : Agree(OverQ(SubQ(w[i], v[i]), t), MulQ(share, f[i]))
  PROVE  SameTerms(AccelerationPenalty(Change(v, w, t), Limits3(c), c.penalty_epsilon), Charge(share, f, c))
<1> DEFINE a == Change(v, w, t)
           b == [i \in 1 .. 3 |-> MulQ(share, f[i])]
           l == Limits3(c)
           e == c.penalty_epsilon
<1>1. DOMAIN a = 1 .. 3 /\ \A i \in 1 .. 3 : a[i] = OverQ(SubQ(w[i], v[i]), t)
  BY DEF Change
<1>2. DOMAIN b = 1 .. 3 /\ \A i \in 1 .. 3 : b[i] = MulQ(share, f[i])
  OBVIOUS
<1>3. e \in Rational /\ \A i \in 1 .. 3 : l[i] \in Rational
  <2>1. l[1] \in Rational /\ l[2] \in Rational /\ l[3] \in Rational
    BY ConfigType DEF Limits3
  <2>2. QED
    BY <2>1, ConfigType
<1>4. \A i \in 1 .. 3 : a[i] \in Rational /\ b[i] \in Rational /\ SameQ(a[i], b[i])
  BY <1>1, <1>2 DEF Agree
<1> HIDE DEF a, b, l, e
<1>5. \A i \in 1 .. 3 : SameQ(PenaltyWithin(a[i], l[i], e), PenaltyWithin(b[i], l[i], e))
  BY <1>3, <1>4, WithinSame
<1>6. SameTerms(AccelerationPenalty(a, l, e), AccelerationPenalty(b, l, e))
  BY <1>1, <1>2, <1>5 DEF SameTerms, AccelerationPenalty
<1>7. QED
  BY <1>6 DEF a, b, l, e, Charge

SteadyCharged(dir, v, half, g, dt1, dt2, c) ==
  LET a  == 2 * half
      v1 == v + a * dt1
      v2 == v1 + a * dt2
      s1 == v * dt1 + half * dt1 * dt1
      s2 == s1 + v1 * dt2 + half * dt2 * dt2
  IN /\ SameTerms(HolonomicAccelerationError(Along(dir, g, 0, 0), Along(dir, g, s1, 0),
                                             Along(dir, g, s2, 0), dt1, dt2, c),
                  Charge(Q(1), Frame(dir, g, a), c))
     /\ SameTerms(HolonomicStartAccelerationError(Frame(dir, g, v), Along(dir, g, 0, 0),
                                                  Along(dir, g, s1, 0), dt1, c),
                  Charge(<<1, 2>>, Frame(dir, g, a), c))
     /\ SameTerms(HolonomicGoalAccelerationError(Along(dir, g, s1, 0), Along(dir, g, s2, 0),
                                                 Frame(dir, g, v2), dt2, c),
                  Charge(<<1, 2>>, Frame(dir, g, a), c))

(* The three edges of a robot that can strafe measure the acceleration.    *)
LEMMA SteadyAcceleration ==
  ASSUME NEW dir \in Int \X Int, NEW v \in Int, NEW half \in Int, NEW g \in 0 .. 3,
         NEW dt1 \in Nat \ {0}, NEW dt2 \in Nat \ {0}, NEW c \in Configs
  PROVE  SteadyCharged(dir, v, half, g, dt1, dt2, c)
<1> DEFINE a  == 2 * half
           v1 == v + a * dt1
           v2 == v1 + a * dt2
           s1 == v * dt1 + half * dt1 * dt1
           s2 == s1 + v1 * dt2 + half * dt2 * dt2
           x == Dot(Facing(g, 0), dir)
           y == Cross(Facing(g, 0), dir)
           p == HolonomicTwist(Along(dir, g, 0, 0), Along(dir, g, s1, 0), dt1)
           q == HolonomicTwist(Along(dir, g, s1, 0), Along(dir, g, s2, 0), dt2)
           f == Frame(dir, g, a)
<1>1. s1 \in Int /\ s2 \in Int /\ v1 \in Int /\ v2 \in Int /\ a \in Int
  OBVIOUS
<1>2. x \in Int /\ y \in Int
  BY AlongIs
<1>3. /\ p = <<<<(s1 - 0) * x, dt1>>, <<(s1 - 0) * y, dt1>>, <<0, dt1>>>>
      /\ q = <<<<(s2 - s1) * x, dt2>>, <<(s2 - s1) * y, dt2>>, <<0, dt2>>>>
  BY <1>1, AlongHolonomic
<1>4. /\ f = <<Q(a * x), Q(a * y), Q(0)>>
      /\ Frame(dir, g, v) = <<Q(v * x), Q(v * y), Q(0)>>
      /\ Frame(dir, g, v2) = <<Q(v2 * x), Q(v2 * y), Q(0)>>
  BY <1>1, FrameIs
<1>5. /\ s1 = v * dt1 + half * dt1 * dt1
      /\ s2 = s1 + (v + 2 * half * dt1) * dt2 + half * dt2 * dt2
      /\ v1 = v + 2 * half * dt1 /\ v2 = v1 + (2 * half) * dt2 /\ a = 2 * half
      /\ s2 = s1 + v1 * dt2 + half * dt2 * dt2
  OBVIOUS
<1> HIDE DEF a, v1, v2, s1, s2, x, y, p, q, f
<1>6. \A z \in Int :
        Agree(OverQ(SubQ(<<(s2 - s1) * z, dt2>>, <<(s1 - 0) * z, dt1>>), <<dt1 + dt2, 2>>), MulQ(Q(1), Q(a * z)))
  <2> TAKE z \in Int
  <2>1. /\ s1 = v * dt1 + half * dt1 * dt1
        /\ s2 = s1 + (v + 2 * half * dt1) * dt2 + half * dt2 * dt2 /\ a = 2 * half
    BY <1>5
  <2>2. Agree(OverQ(SubQ(<<(s2 - s1) * z, dt2>>, <<(s1 - 0) * z, dt1>>), <<dt1 + dt2, 2>>),
              MulQ(Q(1), Q((2 * half) * z)))
    BY <1>1, <2>1, SteadyBetween
  <2>3. QED
    BY Zenon, <2>1, <2>2
<1>7. \A z \in Int :
        Agree(OverQ(SubQ(<<(s1 - 0) * z, dt1>>, Q(v * z)), Q(dt1)), MulQ(<<1, 2>>, Q(a * z)))
  BY <1>1, <1>5, SteadyAtStart
<1>8. \A z \in Int :
        Agree(OverQ(SubQ(Q(v2 * z), <<(s2 - s1) * z, dt2>>), Q(dt2)), MulQ(<<1, 2>>, Q(a * z)))
  BY <1>1, <1>5, SteadyAtGoal
<1>9. (s2 - s1) * 0 = 0 /\ (s1 - 0) * 0 = 0 /\ v * 0 = 0 /\ v2 * 0 = 0 /\ a * 0 = 0
  BY <1>1
<1>10. \A i \in 1 .. 3 : Agree(OverQ(SubQ(q[i], p[i]), <<dt1 + dt2, 2>>), MulQ(Q(1), f[i]))
  <2>1. Agree(OverQ(SubQ(q[1], p[1]), <<dt1 + dt2, 2>>), MulQ(Q(1), f[1]))
    BY <1>2, <1>3, <1>4, <1>6
  <2>2. Agree(OverQ(SubQ(q[2], p[2]), <<dt1 + dt2, 2>>), MulQ(Q(1), f[2]))
    BY <1>2, <1>3, <1>4, <1>6
  <2>3. Agree(OverQ(SubQ(q[3], p[3]), <<dt1 + dt2, 2>>), MulQ(Q(1), f[3]))
    <3>1. Agree(OverQ(SubQ(<<(s2 - s1) * 0, dt2>>, <<(s1 - 0) * 0, dt1>>), <<dt1 + dt2, 2>>),
                MulQ(Q(1), Q(a * 0)))
      BY <1>6
    <3>2. QED
      BY <1>3, <1>4, <1>9, <3>1
  <2>4. QED
    BY <2>1, <2>2, <2>3
<1>11. \A i \in 1 .. 3 : Agree(OverQ(SubQ(p[i], Frame(dir, g, v)[i]), Q(dt1)), MulQ(<<1, 2>>, f[i]))
  <2> DEFINE r == Frame(dir, g, v)
  <2>0. r = <<Q(v * x), Q(v * y), Q(0)>>
    BY <1>4
  <2> HIDE DEF r
  <2>1. Agree(OverQ(SubQ(p[1], r[1]), Q(dt1)), MulQ(<<1, 2>>, f[1]))
    BY <1>2, <1>3, <1>4, <1>7, <2>0
  <2>2. Agree(OverQ(SubQ(p[2], r[2]), Q(dt1)), MulQ(<<1, 2>>, f[2]))
    BY <1>2, <1>3, <1>4, <1>7, <2>0
  <2>3. Agree(OverQ(SubQ(p[3], r[3]), Q(dt1)), MulQ(<<1, 2>>, f[3]))
    <3>1. Agree(OverQ(SubQ(<<(s1 - 0) * 0, dt1>>, Q(v * 0)), Q(dt1)), MulQ(<<1, 2>>, Q(a * 0)))
      BY <1>7
    <3>2. QED
      BY <1>3, <1>4, <1>9, <2>0, <3>1
  <2>4. QED
    BY <2>1, <2>2, <2>3 DEF r
<1>12. \A i \in 1 .. 3 : Agree(OverQ(SubQ(Frame(dir, g, v2)[i], q[i]), Q(dt2)), MulQ(<<1, 2>>, f[i]))
  <2> DEFINE r == Frame(dir, g, v2)
  <2>0. r = <<Q(v2 * x), Q(v2 * y), Q(0)>>
    BY <1>4
  <2> HIDE DEF r
  <2>1. Agree(OverQ(SubQ(r[1], q[1]), Q(dt2)), MulQ(<<1, 2>>, f[1]))
    BY <1>2, <1>3, <1>4, <1>8, <2>0
  <2>2. Agree(OverQ(SubQ(r[2], q[2]), Q(dt2)), MulQ(<<1, 2>>, f[2]))
    BY <1>2, <1>3, <1>4, <1>8, <2>0
  <2>3. Agree(OverQ(SubQ(r[3], q[3]), Q(dt2)), MulQ(<<1, 2>>, f[3]))
    <3>1. Agree(OverQ(SubQ(Q(v2 * 0), <<(s2 - s1) * 0, dt2>>), Q(dt2)), MulQ(<<1, 2>>, Q(a * 0)))
      BY <1>8
    <3>2. QED
      BY <1>3, <1>4, <1>9, <2>0, <3>1
  <2>4. QED
    BY <2>1, <2>2, <2>3 DEF r
<1>13. DOMAIN p = 1 .. 3 /\ DOMAIN q = 1 .. 3 /\ DOMAIN Frame(dir, g, v) = 1 .. 3
  BY <1>3, <1>4
<1>14. SameTerms(HolonomicAccelerationError(Along(dir, g, 0, 0), Along(dir, g, s1, 0),
                                            Along(dir, g, s2, 0), dt1, dt2, c), Charge(Q(1), f, c))
  <2>1. SameTerms(AccelerationPenalty(Change(p, q, <<dt1 + dt2, 2>>), Limits3(c), c.penalty_epsilon),
                  Charge(Q(1), f, c))
    BY <1>10, <1>13, ChangeCharged
  <2>2. QED
    BY <2>1 DEF HolonomicAccelerationError, p, q
<1>15. SameTerms(HolonomicStartAccelerationError(Frame(dir, g, v), Along(dir, g, 0, 0),
                                                 Along(dir, g, s1, 0), dt1, c), Charge(<<1, 2>>, f, c))
  <2>1. SameTerms(AccelerationPenalty(Change(Frame(dir, g, v), p, Q(dt1)), Limits3(c), c.penalty_epsilon),
                  Charge(<<1, 2>>, f, c))
    BY <1>11, <1>13, ChangeCharged
  <2>2. QED
    BY <2>1 DEF HolonomicStartAccelerationError, p
<1>16. SameTerms(HolonomicGoalAccelerationError(Along(dir, g, s1, 0), Along(dir, g, s2, 0),
                                                Frame(dir, g, v2), dt2, c), Charge(<<1, 2>>, f, c))
  <2>1. SameTerms(AccelerationPenalty(Change(q, Frame(dir, g, v2), Q(dt2)), Limits3(c), c.penalty_epsilon),
                  Charge(<<1, 2>>, f, c))
    BY <1>12, <1>13, ChangeCharged
  <2>2. QED
    BY <2>1 DEF HolonomicGoalAccelerationError, q
<1>17. QED
  BY Zenon, <1>14, <1>15, <1>16 DEF SteadyCharged, a, v1, v2, s1, s2, f

(* Driven backwards, a band of the same displacements has the speeds with  *)
(* the opposite sign.                                                      *)
Opposite(f, b) ==
  /\ DOMAIN f = 1 .. 2 /\ DOMAIN b = 1 .. 2
  /\ f[1] \in Rational /\ b[1] = NegQ(f[1]) /\ f[2] = b[2]

(* Turned around, the robot has the opposite speed.                        *)
LEMMA AlongTwist ==
  ASSUME NEW dir \in Directions, NEW g \in 0 .. 3, NEW s \in Int, NEW r \in Int, NEW dt \in Nat \ {0}
  PROVE  Opposite(Twist(Along(dir, g, s, 0), Along(dir, g, r, 0), dt),
                  Twist(Along(dir, g, s, 2), Along(dir, g, r, 2), dt))
<1> DEFINE l == Length(Scale(r - s, dir))
           h == Facing(g, 0)
           k == (r - s) * Dot(h, dir)
           n == IF k < 0 THEN -k ELSE k
           p(turn) == Along(dir, g, s, turn)
           q(turn) == Along(dir, g, r, turn)
<1>1. r - s \in Int /\ dir \in Int \X Int /\ Whole(Scale(r - s, dir))
  <2>1. r - s \in Int
    OBVIOUS
  <2>2. QED
    BY <2>1, AlgorithmsOK, ScaledIsWhole
<1>2. \A turn \in {0, 2} : /\ Minus(q(turn).at, p(turn).at) = Scale(r - s, dir)
                            /\ Ahead(p(turn), q(turn)) = (r - s) * Dot(Facing(g, turn), dir)
                            /\ Turn(p(turn), q(turn)) = 0 /\ AtPose(p(turn)) /\ AtPose(q(turn))
  BY <1>1, AlongIs
<1>3. l \in Nat
  <2>1. AtPose(p(0)) /\ AtPose(q(0)) /\ Minus(q(0).at, p(0).at) = Scale(r - s, dir)
    BY <1>2
  <2> HIDE DEF p, q
  <2>2. QED
    BY <1>1, <2>1, StepIs
<1>4. k \in Int /\ (r - s) * Dot(Facing(g, 2), dir) = -k
  <2>1. h \in Int \X Int /\ Facing(g, 2) = <<-h[1], -h[2]>>
    BY DEF Facing
  <2> HIDE DEF h
  <2>2. Dot(Facing(g, 2), dir) = -Dot(h, dir) /\ Dot(h, dir) \in Int
    BY <1>1, <2>1 DEF Dot
  <2>3. QED
    BY <1>1, <2>2
<1>5. Twist(p(0), q(0), dt) = <<<<l * k, dt * (1 + n)>>, <<0, dt>>>>
  BY <1>2 DEF Twist
<1>6. Twist(p(2), q(2), dt) = <<<<l * (-k), dt * (1 + n)>>, <<0, dt>>>>
  <2>1. n = IF -k < 0 THEN -(-k) ELSE -k
    BY <1>4
  <2> HIDE DEF k, n
  <2>2. Ahead(p(2), q(2)) = -k
    BY <1>2, <1>4
  <2>3. QED
    BY <1>2, <2>1, <2>2 DEF Twist
<1>7. l * (-k) = -(l * k) /\ l * k \in Int /\ dt * (1 + n) \in Nat \ {0}
  <2> HIDE DEF l, k
  <2>1. n \in Nat
    BY <1>4
  <2> HIDE DEF n
  <2>2. QED
    BY <1>3, <1>4, <2>1
<1> DEFINE f == Twist(p(0), q(0), dt)
           b == Twist(p(2), q(2), dt)
           x == l * k
           y == dt * (1 + n)
<1>8. f = <<<<x, y>>, <<0, dt>>>> /\ b = <<<<-x, y>>, <<0, dt>>>> /\ x \in Int /\ y \in Nat \ {0}
  BY <1>5, <1>6, <1>7
<1> HIDE DEF f, b, x, y
<1>9. /\ DOMAIN f = 1 .. 2 /\ DOMAIN b = 1 .. 2
      /\ f[1] \in Rational /\ b[1] = NegQ(f[1])
      /\ f[2] = b[2]
  BY <1>8 DEF Rational, NegQ
<1>10. QED
  BY <1>9 DEF f, b, Opposite

(* Opposite velocities change by the opposite acceleration ...             *)
LEMMA ChangeReversed ==
  ASSUME NEW q \in Rational, NEW r \in Rational, NEW t \in Rational, t[1] > 0
  PROVE  /\ OverQ(SubQ(r, q), t) \in Rational
         /\ OverQ(SubQ(NegQ(r), NegQ(q)), t) = NegQ(OverQ(SubQ(r, q), t))
<1>1. /\ q[1] \in Int /\ q[2] \in Nat \ {0} /\ r[1] \in Int /\ r[2] \in Nat \ {0}
      /\ t[1] \in Nat \ {0} /\ t[2] \in Nat \ {0}
  BY DEF Rational
<1> DEFINE n == r[1] * q[2] + (-q[1]) * r[2]
           d == r[2] * q[2]
<1>2. SubQ(r, q) = <<n, d>> /\ n \in Int /\ d \in Nat \ {0}
  BY <1>1 DEF SubQ, AddQ, NegQ
<1>3. SubQ(NegQ(r), NegQ(q)) = <<-n, d>>
  <2>1. SubQ(NegQ(r), NegQ(q)) = <<(-r[1]) * q[2] + (-(-q[1])) * r[2], r[2] * q[2]>>
    BY DEF SubQ, AddQ, NegQ
  <2>2. (-r[1]) * q[2] + (-(-q[1])) * r[2] = -n
    BY <1>1
  <2>3. QED
    BY <2>1, <2>2
<1> HIDE DEF n, d
<1>4. OverQ(<<n, d>>, t) = <<n * t[2], d * t[1]>> /\ OverQ(<<-n, d>>, t) = <<(-n) * t[2], d * t[1]>>
  BY <1>1 DEF OverQ
<1>5. (-n) * t[2] = -(n * t[2]) /\ n * t[2] \in Int /\ d * t[1] \in Nat \ {0}
  BY <1>1, <1>2
<1>6. QED
  BY <1>2, <1>3, <1>4, <1>5 DEF NegQ, Rational

(* ... which costs the same.                                               *)
LEMMA PenaltyReversed ==
  ASSUME NEW v, NEW w, NEW x, NEW y, NEW t \in Rational, t[1] > 0, NEW c \in Configs,
         ~LessQ(c.acc_lim_x, c.penalty_epsilon),
         Opposite(v, x), Opposite(w, y)
  PROVE  AccelerationPenalty(Change(v, w, t), Limits2(c), c.penalty_epsilon)
           = AccelerationPenalty(Change(x, y, t), Limits2(c), c.penalty_epsilon)
<1> DEFINE a == Change(v, w, t)
           b == Change(x, y, t)
           l == Limits2(c)
           e == c.penalty_epsilon
<1>1. /\ DOMAIN a = 1 .. 2 /\ DOMAIN b = 1 .. 2
      /\ a[1] = OverQ(SubQ(w[1], v[1]), t) /\ b[1] = OverQ(SubQ(y[1], x[1]), t)
      /\ a[2] = OverQ(SubQ(w[2], v[2]), t) /\ b[2] = OverQ(SubQ(y[2], x[2]), t)
  BY DEF Change, Opposite
<1>2. a[1] \in Rational /\ b[1] = NegQ(a[1])
  <2>1. \A q, r \in Rational : /\ OverQ(SubQ(r, q), t) \in Rational
                               /\ OverQ(SubQ(NegQ(r), NegQ(q)), t) = NegQ(OverQ(SubQ(r, q), t))
    BY ChangeReversed
  <2>2. /\ v[1] \in Rational /\ w[1] \in Rational /\ x[1] = NegQ(v[1]) /\ y[1] = NegQ(w[1])
    BY DEF Opposite
  <2> HIDE DEF a, b
  <2>3. QED
    BY <1>1, <2>1, <2>2
<1>3. a[2] = b[2]
  BY <1>1 DEF Opposite
<1>4. l[1] = c.acc_lim_x /\ c.acc_lim_x \in Rational /\ e \in Rational
  BY ConfigType DEF Limits2
<1> HIDE DEF a, b, l, e
<1>5. PenaltyWithin(a[1], l[1], e) = PenaltyWithin(b[1], l[1], e)
  BY <1>2, <1>4, WithinOpposite DEF e
<1>6. \A i \in 1 .. 2 : PenaltyWithin(a[i], l[i], e) = PenaltyWithin(b[i], l[i], e)
  <2> TAKE i \in 1 .. 2
  <2>1. i = 1 \/ i = 2
    OBVIOUS
  <2>2. QED
    BY <1>3, <1>5, <2>1
<1>7. AccelerationPenalty(a, l, e) = AccelerationPenalty(b, l, e)
  BY <1>1, <1>6 DEF AccelerationPenalty
<1>8. QED
  BY <1>7 DEF a, b, l, e

Plain(v, sign) == <<Q(sign * v), Q(0)>>

ReversedSame(dir, v, half, g, dt1, dt2, c) ==
  LET a  == 2 * half
      v1 == v + a * dt1
      v2 == v1 + a * dt2
      s1 == v * dt1 + half * dt1 * dt1
      s2 == s1 + v1 * dt2 + half * dt2 * dt2
  IN ~LessQ(c.acc_lim_x, c.penalty_epsilon) =>
       /\ AccelerationError(Along(dir, g, 0, 0), Along(dir, g, s1, 0), Along(dir, g, s2, 0), dt1, dt2, c) =
            AccelerationError(Along(dir, g, 0, 2), Along(dir, g, s1, 2), Along(dir, g, s2, 2), dt1, dt2, c)
       /\ StartAccelerationError(Plain(v, 1), Along(dir, g, 0, 0), Along(dir, g, s1, 0), dt1, c) =
            StartAccelerationError(Plain(v, -1), Along(dir, g, 0, 2), Along(dir, g, s1, 2), dt1, c)
       /\ GoalAccelerationError(Along(dir, g, s1, 0), Along(dir, g, s2, 0), Plain(v2, 1), dt2, c) =
            GoalAccelerationError(Along(dir, g, s1, 2), Along(dir, g, s2, 2), Plain(v2, -1), dt2, c)

(* A given velocity and its opposite.                                      *)
LEMMA PlainIs ==
  ASSUME NEW v \in Int
  PROVE  Opposite(Plain(v, 1), Plain(v, -1))
<1>1. Plain(v, 1) = <<<<v, 1>>, Q(0)>> /\ Plain(v, -1) = <<<<-v, 1>>, Q(0)>>
  BY DEF Plain, Q
<1>2. QED
  BY <1>1 DEF Rational, NegQ, Opposite

(* The three edges of a robot that cannot strafe charge the same backwards.*)
LEMMA ReversedAcceleration ==
  ASSUME NEW dir \in Directions, NEW v \in Int, NEW half \in Int, NEW g \in 0 .. 3,
         NEW dt1 \in Nat \ {0}, NEW dt2 \in Nat \ {0}, NEW c \in Configs
  PROVE  ReversedSame(dir, v, half, g, dt1, dt2, c)
<1> DEFINE a  == 2 * half
           v1 == v + a * dt1
           v2 == v1 + a * dt2
           s1 == v * dt1 + half * dt1 * dt1
           s2 == s1 + v1 * dt2 + half * dt2 * dt2
           f1 == Twist(Along(dir, g, 0, 0), Along(dir, g, s1, 0), dt1)
           f2 == Twist(Along(dir, g, s1, 0), Along(dir, g, s2, 0), dt2)
           b1 == Twist(Along(dir, g, 0, 2), Along(dir, g, s1, 2), dt1)
           b2 == Twist(Along(dir, g, s1, 2), Along(dir, g, s2, 2), dt2)
<1>1. s1 \in Int /\ s2 \in Int /\ v2 \in Int
  OBVIOUS
<1> HIDE DEF a, v1, v2, s1, s2
<1>2. Opposite(f1, b1) /\ Opposite(f2, b2)
  BY <1>1, AlongTwist
<1>3. Opposite(Plain(v, 1), Plain(v, -1)) /\ Opposite(Plain(v2, 1), Plain(v2, -1))
  BY <1>1, PlainIs
<1> HIDE DEF f1, f2, b1, b2
<1>4. /\ <<dt1 + dt2, 2>> \in Rational /\ <<dt1 + dt2, 2>>[1] > 0
      /\ Q(dt1) \in Rational /\ Q(dt1)[1] > 0 /\ Q(dt2) \in Rational /\ Q(dt2)[1] > 0
  BY DEF Rational, Q
<1> SUFFICES ASSUME ~LessQ(c.acc_lim_x, c.penalty_epsilon)
             PROVE  ReversedSame(dir, v, half, g, dt1, dt2, c)
  BY DEF ReversedSame
<1>5. AccelerationPenalty(Change(f1, f2, <<dt1 + dt2, 2>>), Limits2(c), c.penalty_epsilon)
        = AccelerationPenalty(Change(b1, b2, <<dt1 + dt2, 2>>), Limits2(c), c.penalty_epsilon)
  BY <1>2, <1>4, PenaltyReversed
<1>6. AccelerationPenalty(Change(Plain(v, 1), f1, Q(dt1)), Limits2(c), c.penalty_epsilon)
        = AccelerationPenalty(Change(Plain(v, -1), b1, Q(dt1)), Limits2(c), c.penalty_epsilon)
  BY <1>2, <1>3, <1>4, PenaltyReversed
<1>7. AccelerationPenalty(Change(f2, Plain(v2, 1), Q(dt2)), Limits2(c), c.penalty_epsilon)
        = AccelerationPenalty(Change(b2, Plain(v2, -1), Q(dt2)), Limits2(c), c.penalty_epsilon)
  BY <1>2, <1>3, <1>4, PenaltyReversed
<1>8. AccelerationError(Along(dir, g, 0, 0), Along(dir, g, s1, 0), Along(dir, g, s2, 0), dt1, dt2, c) =
        AccelerationError(Along(dir, g, 0, 2), Along(dir, g, s1, 2), Along(dir, g, s2, 2), dt1, dt2, c)
  BY <1>5 DEF AccelerationError, f1, f2, b1, b2
<1>9. StartAccelerationError(Plain(v, 1), Along(dir, g, 0, 0), Along(dir, g, s1, 0), dt1, c) =
        StartAccelerationError(Plain(v, -1), Along(dir, g, 0, 2), Along(dir, g, s1, 2), dt1, c)
  BY <1>6 DEF StartAccelerationError, f1, b1
<1>10. GoalAccelerationError(Along(dir, g, s1, 0), Along(dir, g, s2, 0), Plain(v2, 1), dt2, c) =
         GoalAccelerationError(Along(dir, g, s1, 2), Along(dir, g, s2, 2), Plain(v2, -1), dt2, c)
  BY <1>7 DEF GoalAccelerationError, f2, b2
<1>11. QED
  BY Zenon, <1>8, <1>9, <1>10 DEF ReversedSame, a, v1, v2, s1, s2

(* The same, of the input.                                                 *)
LEMMA AccelerationProperty ==
  SteadyCharged(input.dir, input.v, input.half, input.quarter, input.dt1, input.dt2, input.c)
    /\ ReversedSame(input.dir, input.v, input.half, input.quarter, input.dt1, input.dt2, input.c)
  => AccelerationMeasured
  BY Zenon DEF SteadyCharged, ReversedSame, SameTerms, Charge, Frame, Along, Plain, AccelerationMeasured

-----------------------------------------------------------------------------
(* The velocities that are taken from a band.                              *)

(* Total() adds one by one: st[k] is the sum of the first k. *)
Sums(st, f) ==
  /\ st[0] = 0
  /\ \A k \in 1 .. Len(f) : st[k] = st[k - 1] + f[k]

(* There is such a sequence, and it has the sum of every prefix.           *)
LEMMA SumOneByOne ==
  ASSUME NEW f, Len(f) \in Nat
  PROVE  \E st : Sums(st, f) /\ Total(f) = st[Len(f)]
<1> DEFINE n == Len(f)
           Def(g, i) == IF i = 0 THEN 0 ELSE g[i - 1] + f[i]
           Rec(g, m) == g = [i \in 0 .. m |-> Def(g, i)]
           N == {m \in Nat : \E g : Rec(g, m)}
<1>1. \A m \in Nat : m \in N
  <2>1. 0 \in N
    <3>1. Rec([i \in 0 .. 0 |-> 0], 0)
      OBVIOUS
    <3>2. QED
      BY <3>1
  <2>2. ASSUME NEW m \in Nat, m \in N PROVE m + 1 \in N
    <3>1. PICK g : Rec(g, m)
      BY <2>2
    <3> DEFINE h == [i \in 0 .. m + 1 |-> IF i = m + 1 THEN g[m] + f[m + 1] ELSE g[i]]
    <3>2. ASSUME NEW i \in 0 .. m + 1 PROVE h[i] = Def(h, i)
      <4>1. CASE i = m + 1
        <5>1. i # 0 /\ h[i - 1] = g[m] /\ h[i] = g[m] + f[i]
          BY <4>1
        <5> HIDE DEF h
        <5>2. QED
          BY <5>1
      <4>2. CASE i # m + 1
        <5>1. i \in 0 .. m /\ g[i] = Def(g, i)
          BY <3>1, <4>2
        <5>2. h[i] = g[i] /\ (i # 0 => h[i - 1] = g[i - 1])
          BY <4>2, <5>1
        <5> HIDE DEF h
        <5>3. QED
          BY <5>1, <5>2
      <4>3. QED
        BY <4>1, <4>2
    <3>3. h = [i \in 0 .. m + 1 |-> h[i]]
      OBVIOUS
    <3> HIDE DEF h, Def
    <3>4. Rec(h, m + 1)
      BY <3>2, <3>3
    <3>5. QED
      BY <3>4
  <2> HIDE DEF N
  <2>3. QED
    BY <2>1, <2>2, NatSetInduction
<1> DEFINE st == CHOOSE g : Rec(g, n)
<1>2. Rec(st, n)
  <2>1. \E g : Rec(g, n)
    BY <1>1
  <2> HIDE DEF Def
  <2>2. QED
    BY <2>1
<1>3. Total(f) = st[n]
  BY Zenon DEF Total
<1> HIDE DEF st
<1>4. Sums(st, f)
  BY <1>2 DEF Sums
<1>5. QED
  BY <1>3, <1>4

(* The sum of a beginning of a sequence.                                   *)
LEMMA SumOfPrefix ==
  ASSUME NEW f \in Seq(Int), NEW st, Sums(st, f), NEW k \in 0 .. Len(f)
  PROVE  Total(SubSeq(f, 1, k)) = st[k]
<1> DEFINE p == SubSeq(f, 1, k)
<1>1. Len(p) = k /\ \A i \in 1 .. k : p[i] = f[i]
  BY SubSeqProperties
<1> HIDE DEF p
<1>2. PICK s : Sums(s, p) /\ Total(p) = s[k]
  <2>1. k \in Nat
    OBVIOUS
  <2>2. \E s : Sums(s, p) /\ Total(p) = s[Len(p)]
    BY <1>1, <2>1, SumOneByOne
  <2>3. QED
    BY <1>1, <2>2
<1> DEFINE N == {i \in Nat : i <= k => s[i] = st[i]}
<1>3. 0 \in N
  BY <1>2 DEF Sums
<1>4. ASSUME NEW i \in Nat, i \in N PROVE i + 1 \in N
  <2> SUFFICES ASSUME i + 1 <= k PROVE s[i + 1] = st[i + 1]
    OBVIOUS
  <2>1. i + 1 \in 1 .. k /\ i + 1 \in 1 .. Len(f) /\ (i + 1) - 1 = i
    OBVIOUS
  <2>2. s[i] = st[i] /\ p[i + 1] = f[i + 1]
    BY <1>1, <1>4, <2>1
  <2>3. s[i + 1] = s[i] + p[i + 1] /\ st[i + 1] = st[i] + f[i + 1]
    BY <1>1, <1>2, <2>1 DEF Sums
  <2>4. QED
    BY <2>2, <2>3
<1> HIDE DEF N
<1>5. k \in N
  BY <1>3, <1>4, NatSetInduction
<1>6. s[k] = st[k]
  BY <1>5 DEF N
<1>7. QED
  BY <1>2, <1>6 DEF p

(* The time from the first pose, step by step. *)
LEMMA TimesAdd ==
  ASSUME NEW b, b.dts \in Seq(Nat)
  PROVE  /\ TimeTo(b, 0) = 0
         /\ \A k \in 1 .. Len(b.dts) : TimeTo(b, k) = TimeTo(b, k - 1) + b.dts[k]
         /\ \A k \in 0 .. Len(b.dts) : TimeTo(b, k) \in Nat
<1> DEFINE f == b.dts
<1>0. f \in Seq(Int) /\ Len(f) \in Nat /\ \A k \in 1 .. Len(f) : f[k] \in Nat
  OBVIOUS
<1>1. PICK st : Sums(st, f)
  BY SumOneByOne
<1>2. \A k \in 0 .. Len(f) : TimeTo(b, k) = st[k]
  BY <1>0, <1>1, SumOfPrefix DEF TimeTo
<1> HIDE DEF f
<1>3. TimeTo(b, 0) = 0
  BY <1>0, <1>1, <1>2 DEF Sums
<1>4. \A k \in 1 .. Len(f) : TimeTo(b, k) = TimeTo(b, k - 1) + f[k]
  <2> SUFFICES ASSUME NEW k \in 1 .. Len(f) PROVE TimeTo(b, k) = TimeTo(b, k - 1) + f[k]
    OBVIOUS
  <2>1. k \in 0 .. Len(f) /\ k - 1 \in 0 .. Len(f)
    BY <1>0
  <2>2. TimeTo(b, k) = st[k] /\ TimeTo(b, k - 1) = st[k - 1]
    BY <1>2, <2>1
  <2>3. QED
    BY <1>1, <2>2 DEF Sums
<1> DEFINE N == {k \in Nat : k <= Len(f) => TimeTo(b, k) \in Nat}
<1>5. 0 \in N
  BY <1>3
<1>6. ASSUME NEW k \in Nat, k \in N PROVE k + 1 \in N
  <2> SUFFICES ASSUME k + 1 <= Len(f) PROVE TimeTo(b, k + 1) \in Nat
    OBVIOUS
  <2>1. k + 1 \in 1 .. Len(f) /\ (k + 1) - 1 = k
    BY <1>0
  <2>2. TimeTo(b, k) \in Nat
    BY <1>0, <1>6, <2>1
  <2>3. TimeTo(b, k + 1) = TimeTo(b, k) + f[k + 1]
    BY <1>4, <2>1
  <2>4. QED
    BY <1>0, <2>1, <2>2, <2>3
<1> HIDE DEF N
<1>7. \A k \in Nat : k \in N
  BY <1>5, <1>6, NatSetInduction
<1>8. \A k \in 0 .. Len(f) : TimeTo(b, k) \in Nat
  BY <1>7 DEF N
<1>9. QED
  BY <1>3, <1>4, <1>8 DEF f

(* A step that is slower than the mean of those before it is slower than   *)
(* any that is as fast as that mean.                                       *)
LEMMA Mediant ==
  ASSUME NEW A \in Nat, NEW T \in Nat, NEW u \in Nat, NEW v \in Nat, NEW l \in Nat, NEW t \in Nat,
         A * v <= u * T, l * T < A * t
  PROVE  l * v <= u * t
<1>0. A > 0
  <2>1. A = 0 => A * t = 0
    OBVIOUS
  <2>2. l * T >= 0
    OBVIOUS
  <2>3. QED
    BY <2>1, <2>2
<1>1. CASE T = 0
  <2>1. u * T = 0
    BY <1>1
  <2>2. A * v <= 0
    BY <2>1
  <2>3. v > 0 => A * v > 0
    BY <1>0
  <2>4. v = 0
    BY <2>2, <2>3
  <2>5. l * v = 0 /\ u * t >= 0
    BY <2>4
  <2>6. QED
    BY <2>5
<1>2. CASE T > 0
  <2> DEFINE x == l * v
             y == u * t
  <2>1. (l * T) * v <= (A * t) * v
    OBVIOUS
  <2>2. (A * v) * t <= (u * T) * t
    OBVIOUS
  <2>3. (l * T) * v = x * T /\ (u * T) * t = y * T /\ (A * t) * v = (A * v) * t
    OBVIOUS
  <2>4. x * T <= y * T
    BY <2>1, <2>2, <2>3
  <2>5. x \in Nat /\ y \in Nat
    OBVIOUS
  <2> HIDE DEF x, y
  <2>6. x <= y
    BY <1>2, <2>4, <2>5
  <2>7. QED
    BY <2>6 DEF x, y
<1>3. QED
  BY <1>1, <1>2

(* Ways A[k], each no longer than the way before and the step l[k], in     *)
(* times T[k] that add up from t[k].                                       *)
Ways(n, A, l, T, t) ==
  /\ n \in Nat
  /\ \A k \in 0 .. n : A[k] \in Nat /\ T[k] \in Nat
  /\ \A k \in 1 .. n : /\ l[k] \in Nat /\ t[k] \in Nat
                       /\ A[k] <= A[k - 1] + l[k] /\ T[k] = T[k - 1] + t[k]
  /\ A[0] = 0 /\ T[0] = 0

(* A way of which the last step is only a part is on the whole no faster than some step. *)
LEMMA MeanOfPart ==
  ASSUME NEW A \in Nat, NEW T \in Nat, NEW u \in Nat, NEW v \in Nat, NEW l \in Nat, NEW t \in Nat,
         NEW s \in 0 .. t, NEW W \in Nat, W <= t * A + s * l, A * v <= u * T
  PROVE  W * v <= u * (t * (T + s)) \/ W * t <= l * (t * (T + s))
<1>1. CASE A * t <= l * T
  <2> DEFINE r == l * (T + s)
  <2>1. r = l * T + s * l
    OBVIOUS
  <2>2. W <= r
    BY <1>1, <2>1
  <2>3. W * t <= r * t
    BY <2>2
  <2>4. r * t = l * (t * (T + s))
    OBVIOUS
  <2>5. QED
    BY <2>3, <2>4
<1>2. CASE l * T < A * t
  <2>1. l * v <= u * t
    BY <1>2, Mediant
  <2>2. W * v <= (t * A + s * l) * v
    OBVIOUS
  <2>3. (t * A + s * l) * v = t * (A * v) + s * (l * v)
    OBVIOUS
  <2>4. t * (A * v) <= t * (u * T)
    OBVIOUS
  <2>5. s * (l * v) <= s * (u * t)
    BY <2>1
  <2>6. t * (u * T) + s * (u * t) = u * (t * (T + s))
    OBVIOUS
  <2> DEFINE a == W * v
             b == (t * A + s * l) * v
             c == t * (A * v)
             d == s * (l * v)
             e == t * (u * T)
             f == s * (u * t)
             g == u * (t * (T + s))
  <2>7. a \in Int /\ b \in Int /\ c \in Int /\ d \in Int /\ e \in Int /\ f \in Int /\ g \in Int
    OBVIOUS
  <2>8. a <= b /\ b = c + d /\ c <= e /\ d <= f /\ e + f = g
    BY <2>2, <2>3, <2>4, <2>5, <2>6
  <2> HIDE DEF a, b, c, d, e, f, g
  <2>9. a <= g
    BY <2>7, <2>8
  <2>10. QED
    BY <2>9 DEF a, g
<1>3. QED
  BY <1>1, <1>2

(* No way is faster than the fastest of its steps. *)
LEMMA MeanOfSteps ==
  ASSUME NEW n \in Nat, NEW A, NEW l, NEW T, NEW t, Ways(n, A, l, T, t), NEW k \in 1 .. n
  PROVE  \E i \in 1 .. k : A[k] * t[i] <= l[i] * T[k]
<1> DEFINE N == {m \in Nat : m + 1 <= n => \E i \in 1 .. m + 1 : A[m + 1] * t[i] <= l[i] * T[m + 1]}
<1>1. 0 \in N
  <2> SUFFICES ASSUME 1 <= n PROVE A[1] * t[1] <= l[1] * T[1]
    OBVIOUS
  <2>1. A[1] \in Nat /\ l[1] \in Nat /\ t[1] \in Nat /\ A[1] <= l[1] /\ T[1] = t[1]
    <3>1. 1 \in 1 .. n /\ 1 \in 0 .. n /\ 1 - 1 = 0
      OBVIOUS
    <3>2. A[1] \in Nat /\ l[1] \in Nat /\ t[1] \in Nat /\ A[1] <= A[0] + l[1] /\ T[1] = T[0] + t[1]
          /\ A[0] = 0 /\ T[0] = 0
      BY <3>1 DEF Ways
    <3>3. QED
      BY <3>2
  <2>2. A[1] * t[1] <= l[1] * t[1]
    BY <2>1
  <2>3. QED
    BY <2>1, <2>2
<1>2. ASSUME NEW m \in Nat, m \in N PROVE m + 1 \in N
  <2> SUFFICES ASSUME m + 2 <= n PROVE \E i \in 1 .. m + 2 : A[m + 2] * t[i] <= l[i] * T[m + 2]
    OBVIOUS
  <2>1. PICK i \in 1 .. m + 1 : A[m + 1] * t[i] <= l[i] * T[m + 1]
    BY <1>2
  <2> DEFINE A1 == A[m + 1]
             A2 == A[m + 2]
             T1 == T[m + 1]
             T2 == T[m + 2]
             u == l[i]
             v == t[i]
             l2 == l[m + 2]
             t2 == t[m + 2]
  <2>2. /\ A1 \in Nat /\ A2 \in Nat /\ T1 \in Nat /\ T2 \in Nat /\ u \in Nat /\ v \in Nat
        /\ l2 \in Nat /\ t2 \in Nat /\ A2 <= A1 + l2 /\ T2 = T1 + t2
    <3>1. m + 1 \in 0 .. n /\ m + 2 \in 1 .. n /\ m + 2 \in 0 .. n /\ (m + 2) - 1 = m + 1 /\ i \in 1 .. n
      OBVIOUS
    <3>2. QED
      BY <3>1 DEF Ways
  <2>3. A1 * v <= u * T1
    BY <2>1
  <2>4. i \in 1 .. m + 2 /\ m + 2 \in 1 .. m + 2
    OBVIOUS
  <2>5. A2 * v <= u * T2 \/ A2 * t2 <= l2 * T2
    <3> HIDE DEF A1, A2, T1, T2, u, v, l2, t2
    <3>1. CASE A1 * t2 <= l2 * T1
      <4>1. A2 * t2 <= (A1 + l2) * t2
        BY <2>2
      <4>2. (A1 + l2) * t2 = A1 * t2 + l2 * t2 /\ l2 * (T1 + t2) = l2 * T1 + l2 * t2
        BY <2>2
      <4>3. (A1 + l2) * t2 <= l2 * T2
        BY <2>2, <3>1, <4>2
      <4>4. A2 * t2 \in Int /\ (A1 + l2) * t2 \in Int /\ l2 * T2 \in Int
        BY <2>2
      <4>5. QED
        BY <4>1, <4>3, <4>4
    <3>2. CASE l2 * T1 < A1 * t2
      <4>1. l2 * v <= u * t2
        BY <2>2, <2>3, <3>2, Mediant
      <4>2. A2 * v <= (A1 + l2) * v
        BY <2>2
      <4>3. (A1 + l2) * v = A1 * v + l2 * v /\ u * (T1 + t2) = u * T1 + u * t2
        BY <2>2
      <4>4. (A1 + l2) * v <= u * T2
        BY <2>2, <2>3, <4>1, <4>3
      <4>5. A2 * v \in Int /\ (A1 + l2) * v \in Int /\ u * T2 \in Int
        BY <2>2
      <4>6. QED
        BY <4>2, <4>4, <4>5
    <3>3. A1 * t2 \in Int /\ l2 * T1 \in Int
      BY <2>2
    <3>4. QED
      BY <3>1, <3>2, <3>3
  <2>6. QED
    BY <2>4, <2>5
<1> HIDE DEF N
<1>3. k - 1 \in N
  BY <1>1, <1>2, NatSetInduction
<1>4. (k - 1) + 1 = k
  OBVIOUS
<1>5. QED
  BY <1>3, <1>4 DEF N

(* Nor is one that ends within a step, which is measured in parts of that step. *)
LEMMA MeanOfLook ==
  ASSUME NEW n \in Nat, NEW A, NEW l, NEW T, NEW t, Ways(n, A, l, T, t), NEW i \in 1 .. n,
         NEW s \in 0 .. t[i], NEW W \in Nat, W <= t[i] * A[i - 1] + s * l[i]
  PROVE  \E j \in 1 .. i : W * t[j] <= l[j] * (t[i] * (T[i - 1] + s))
<1>1. l[i] \in Nat /\ t[i] \in Nat /\ A[i - 1] \in Nat /\ T[i - 1] \in Nat
  <2>1. i - 1 \in 0 .. n
    OBVIOUS
  <2>2. QED
    BY <2>1 DEF Ways
<1>2. CASE i = 1
  <2>1. A[0] = 0 /\ T[0] = 0
    BY DEF Ways
  <2> DEFINE u == t[i]
             r == l[i]
  <2>2. W <= s * r
    BY <1>1, <1>2, <2>1
  <2>3. s \in Nat /\ u \in Nat /\ r \in Nat
    BY <1>1
  <2> HIDE DEF u, r
  <2>4. W * u <= (s * r) * u
    BY <2>2, <2>3
  <2>5. (s * r) * u = r * (u * (0 + s))
    BY <2>3
  <2>6. W * t[i] <= l[i] * (t[i] * (T[i - 1] + s))
    BY <1>2, <2>1, <2>4, <2>5 DEF u, r
  <2>7. QED
    BY <2>6
<1>3. CASE i # 1
  <2>1. i - 1 \in 1 .. n
    BY <1>3
  <2>2. PICK j \in 1 .. i - 1 : A[i - 1] * t[j] <= l[j] * T[i - 1]
    BY <2>1, MeanOfSteps
  <2>3. l[j] \in Nat /\ t[j] \in Nat /\ j \in 1 .. i
    BY DEF Ways
  <2>4. W * t[j] <= l[j] * (t[i] * (T[i - 1] + s)) \/ W * t[i] <= l[i] * (t[i] * (T[i - 1] + s))
    BY <1>1, <2>2, <2>3, MeanOfPart
  <2>5. QED
    BY <2>3, <2>4
<1>4. QED
  BY <1>2, <1>3

(* Turning by way of a third pose is no shorter than turning at once.      *)
LEMMA TurnTriangle ==
  ASSUME NEW p, NEW q, NEW r,
         p.quarter \in 0 .. 3, q.quarter \in 0 .. 3, r.quarter \in 0 .. 3
  PROVE  /\ Turn(p, q) \in -1 .. 2 /\ Turn(p, p) = 0
         /\ Magnitude(Turn(p, r)) <= Magnitude(Turn(p, q)) + Magnitude(Turn(q, r))
<1> DEFINE N(d) == IF d = -3 \/ d = 1 THEN 1 ELSE IF d = -2 \/ d = 2 THEN 2
                   ELSE IF d = 0 THEN 0 ELSE -1
<1>1. \A d \in -3 .. 3 : NormalizeTheta(d) = N(d)
  BY DEF NormalizeTheta
<1>2. /\ Turn(p, q) = N(q.quarter - p.quarter) /\ Turn(q, r) = N(r.quarter - q.quarter)
      /\ Turn(p, r) = N(r.quarter - p.quarter) /\ Turn(p, p) = N(0)
  BY <1>1 DEF Turn
<1>3. QED
  BY <1>2 DEF Magnitude

(* A band with its poses on a line: x are their places on it, in units of  *)
(* a vector of length L.                                                   *)
BandOnLine(b, dir, L, x) ==
  /\ b.dts \in Seq(Nat) /\ b.poses \in Seq([at : Int \X Int, quarter : 0 .. 3])
  /\ Len(b.poses) = Len(b.dts) + 1
  /\ dir \in Int \X Int /\ L \in Nat /\ L * L = SqNorm(dir)
  /\ \A i \in 1 .. Len(b.poses) : x[i] \in Int /\ b.poses[i].at = Scale(x[i], dir)

(* A pose p, and one d further on. *)
Onward(p, q, d, dir, L) ==
  /\ AtPose(p) /\ AtPose(q)
  /\ Minus(q.at, p.at) = Scale(d, dir)
  /\ Length(Minus(q.at, p.at)) = Magnitude(d) * L
  /\ SqNorm(Minus(q.at, p.at)) = (Magnitude(d) * L) * (Magnitude(d) * L)
  /\ Ahead(p, q) = d * Dot(Heading(p), dir)
  /\ Beside(p, q) = d * Cross(Heading(p), dir)

(* One pose of it in the frame of another. *)
LEMMA AlongLine ==
  ASSUME NEW b, NEW dir, NEW L, NEW x, BandOnLine(b, dir, L, x),
         NEW i \in 1 .. Len(b.poses), NEW j \in 1 .. Len(b.poses)
  PROVE  Onward(b.poses[i], b.poses[j], x[j] - x[i], dir, L)
<1> DEFINE p == b.poses[i]
           q == b.poses[j]
           d == x[j] - x[i]
<1>1. /\ p \in [at : Int \X Int, quarter : 0 .. 3] /\ q \in [at : Int \X Int, quarter : 0 .. 3]
      /\ x[i] \in Int /\ x[j] \in Int /\ dir \in Int \X Int /\ L \in Nat /\ L * L = SqNorm(dir)
      /\ p.at = Scale(x[i], dir) /\ q.at = Scale(x[j], dir)
  <2>1. b.poses \in Seq([at : Int \X Int, quarter : 0 .. 3])
    BY DEF BandOnLine
  <2>2. p \in [at : Int \X Int, quarter : 0 .. 3] /\ q \in [at : Int \X Int, quarter : 0 .. 3]
    BY <2>1, ElementOfSeq
  <2>3. QED
    BY <2>2 DEF BandOnLine
<1>2. AtPose(p) /\ AtPose(q)
  BY <1>1 DEF AtPose
<1>3. d \in Int /\ Minus(q.at, p.at) = Scale(d, dir)
  <2>1. x[j] * dir[1] - x[i] * dir[1] = d * dir[1] /\ x[j] * dir[2] - x[i] * dir[2] = d * dir[2]
    BY <1>1
  <2>2. QED
    BY <1>1, <2>1 DEF Minus, Scale
<1> HIDE DEF d
<1>4. Magnitude(d) \in Nat /\ Magnitude(d) * Magnitude(d) = d * d
  BY <1>3 DEF Magnitude
<1>5. Magnitude(d) * L \in Nat
  BY <1>1, <1>4
<1>6. SqNorm(Scale(d, dir)) = (Magnitude(d) * L) * (Magnitude(d) * L)
  <2>1. SqNorm(Scale(d, dir)) = (d * d) * SqNorm(dir)
    BY <1>1, <1>3 DEF SqNorm, Dot, Scale
  <2> DEFINE m == Magnitude(d)
  <2>2. m \in Nat /\ m * m = d * d
    BY <1>4
  <2> HIDE DEF m
  <2>3. (m * L) * (m * L) = (m * m) * (L * L)
    BY <1>1, <2>2
  <2>4. QED
    BY <1>1, <2>1, <2>2, <2>3 DEF m
<1>7. Scale(d, dir) \in Int \X Int
  <2>1. dir[1] \in Int /\ dir[2] \in Int
    BY <1>1
  <2>2. d * dir[1] \in Int /\ d * dir[2] \in Int
    BY <1>3, <2>1
  <2>3. QED
    BY <2>2 DEF Scale
<1>8. Length(Scale(d, dir)) = Magnitude(d) * L
  BY <1>5, <1>6, <1>7, LengthIs
<1>9. \A h \in {<<1, 0>>, <<0, 1>>, <<-1, 0>>, <<0, -1>>} :
        Dot(h, Scale(d, dir)) = d * Dot(h, dir) /\ Cross(h, Scale(d, dir)) = d * Cross(h, dir)
  <2> DEFINE u == dir[1]
             v == dir[2]
  <2>1. u \in Int /\ v \in Int
    BY <1>1
  <2>2. Scale(d, dir) = <<d * u, d * v>>
    BY DEF Scale
  <2>3. \A h \in {<<1, 0>>, <<0, 1>>, <<-1, 0>>, <<0, -1>>} :
          /\ Dot(h, Scale(d, dir)) = h[1] * (d * u) + h[2] * (d * v) /\ Dot(h, dir) = h[1] * u + h[2] * v
          /\ Cross(h, Scale(d, dir)) = h[1] * (d * v) - h[2] * (d * u) /\ Cross(h, dir) = h[1] * v - h[2] * u
    BY <2>2 DEF Dot, Cross
  <2> HIDE DEF u, v
  <2>4. \A h \in {<<1, 0>>, <<0, 1>>, <<-1, 0>>, <<0, -1>>} :
          /\ h[1] * (d * u) + h[2] * (d * v) = d * (h[1] * u + h[2] * v)
          /\ h[1] * (d * v) - h[2] * (d * u) = d * (h[1] * v - h[2] * u)
    BY <1>3, <2>1
  <2>5. QED
    BY <2>3, <2>4
<1>10. Ahead(p, q) = d * Dot(Heading(p), dir) /\ Beside(p, q) = d * Cross(Heading(p), dir)
  BY <1>2, <1>3, <1>9, HeadingIsUnit DEF Ahead, Beside
<1>11. QED
  BY <1>2, <1>3, <1>6, <1>8, <1>10 DEF d, Onward

(* The direction in the frame of a pose has its length.                    *)
LEMMA TurnedLength ==
  ASSUME NEW p, AtPose(p), NEW dir \in Int \X Int, NEW L \in Nat, L * L = SqNorm(dir)
  PROVE  /\ Dot(Heading(p), dir) \in Int /\ Cross(Heading(p), dir) \in Int
         /\ Dot(Heading(p), dir) * Dot(Heading(p), dir)
              + Cross(Heading(p), dir) * Cross(Heading(p), dir) = L * L
<1>1. Heading(p) \in {<<1, 0>>, <<0, 1>>, <<-1, 0>>, <<0, -1>>}
  BY HeadingIsUnit
<1>2. QED
  BY <1>1 DEF Dot, Cross, SqNorm

(* The ways and turns from the first pose of the band, in its times.       *)
LengthTo(x, n)  == [k \in 0 .. n |-> Magnitude(x[k + 1] - x[1])]
LengthStep(x, n) == [k \in 1 .. n |-> Magnitude(x[k + 1] - x[k])]
TurnTo(b)   == [k \in 0 .. Len(b.dts) |-> Magnitude(Turn(b.poses[1], b.poses[k + 1]))]
TurnSteps(b) == [k \in 1 .. Len(b.dts) |-> TurnStep(b, k)]
Times3(b)   == [k \in 0 .. Len(b.dts) |-> TimeTo(b, k)]

(* The lengths of the steps add up to no less than the way, and so do the  *)
(* turns.                                                                  *)
LEMMA BandWays ==
  ASSUME NEW b, NEW dir, NEW L, NEW x, BandOnLine(b, dir, L, x)
  PROVE  /\ Ways(Len(b.dts), LengthTo(x, Len(b.dts)), LengthStep(x, Len(b.dts)), Times3(b), b.dts)
         /\ Ways(Len(b.dts), TurnTo(b), TurnSteps(b), Times3(b), b.dts)
<1> DEFINE n == Len(b.dts)
           T == Times3(b)
<1>1. /\ b.dts \in Seq(Nat) /\ n \in Nat /\ Len(b.poses) = n + 1
      /\ b.poses \in Seq([at : Int \X Int, quarter : 0 .. 3])
      /\ \A i \in 1 .. n + 1 : x[i] \in Int
  BY DEF BandOnLine
<1>0. /\ \A k \in 1 .. n : b.dts[k] \in Nat
      /\ \A i \in 1 .. n + 1 : b.poses[i] \in [at : Int \X Int, quarter : 0 .. 3]
  <2>1. \A i \in 1 .. Len(b.poses) : b.poses[i] \in [at : Int \X Int, quarter : 0 .. 3]
    BY <1>1, ElementOfSeq
  <2>2. \A k \in 1 .. Len(b.dts) : b.dts[k] \in Nat
    BY <1>1, ElementOfSeq
  <2>3. QED
    BY <1>1, <2>1, <2>2
<1>2. /\ \A k \in 0 .. n : T[k] \in Nat
      /\ \A k \in 1 .. n : T[k] = T[k - 1] + b.dts[k] /\ b.dts[k] \in Nat
      /\ T[0] = 0
  <2>1. /\ TimeTo(b, 0) = 0
        /\ \A k \in 1 .. n : TimeTo(b, k) = TimeTo(b, k - 1) + b.dts[k]
        /\ \A k \in 0 .. n : TimeTo(b, k) \in Nat
    BY <1>1, TimesAdd
  <2>2. \A k \in 0 .. n : T[k] = TimeTo(b, k)
    BY DEF Times3
  <2>3. \A k \in 1 .. n : k - 1 \in 0 .. n /\ k \in 0 .. n /\ b.dts[k] \in Nat
    <3>1. n \in Nat
      BY <1>1
    <3> HIDE DEF n
    <3>2. \A k \in 1 .. n : k - 1 \in 0 .. n /\ k \in 0 .. n
      BY <3>1
    <3>3. \A k \in 1 .. n : b.dts[k] \in Nat
      BY <1>0, Zenon
    <3>4. QED
      BY <3>2, <3>3, Zenon
  <2> HIDE DEF T, n
  <2>4. QED
    BY <1>1, <2>1, <2>2, <2>3
<1>3. Ways(n, LengthTo(x, n), LengthStep(x, n), T, b.dts)
  <2> DEFINE A == LengthTo(x, n)
             l == LengthStep(x, n)
  <2>0. n \in Nat /\ \A k \in 0 .. n : x[k + 1] \in Int /\ x[1] \in Int
    BY <1>1
  <2>1. \A k \in 0 .. n : A[k] = Magnitude(x[k + 1] - x[1]) /\ A[k] \in Nat
    <3>1. \A k \in 0 .. n : A[k] = Magnitude(x[k + 1] - x[1])
      BY DEF LengthTo
    <3>2. \A m \in Int : Magnitude(m) \in Nat
      BY DEF Magnitude
    <3> HIDE DEF A, n
    <3>3. \A k \in 0 .. n : x[k + 1] - x[1] \in Int
      BY <2>0
    <3>4. QED
      BY <3>1, <3>2, <3>3
  <2>2. A[0] = 0
    BY <1>1 DEF LengthTo, Magnitude
  <2>3. ASSUME NEW k \in 1 .. n PROVE l[k] \in Nat /\ A[k] <= A[k - 1] + l[k]
    <3>1. k \in 0 .. n /\ k - 1 \in 0 .. n /\ (k - 1) + 1 = k
      BY <1>1
    <3>2. A[k] = Magnitude(x[k + 1] - x[1]) /\ A[k - 1] = Magnitude(x[k] - x[1])
      BY <2>1, <3>1
    <3>3. l[k] = Magnitude(x[k + 1] - x[k])
      BY DEF LengthStep
    <3>4. x[k + 1] \in Int /\ x[k] \in Int /\ x[1] \in Int
      BY <2>0, <3>1
    <3> HIDE DEF A, l
    <3>5. QED
      BY <3>2, <3>3, <3>4 DEF Magnitude
  <2> HIDE DEF A, l, T, n
  <2>4. QED
    BY <1>1, <1>2, <2>1, <2>2, <2>3 DEF Ways, A, l
<1>4. Ways(n, TurnTo(b), TurnSteps(b), T, b.dts)
  <2> DEFINE A == TurnTo(b)
             l == TurnSteps(b)
  <2>1. \A i \in 1 .. n + 1 : b.poses[i].quarter \in 0 .. 3
    BY <1>0
  <2>2. \A k \in 0 .. n : A[k] = Magnitude(Turn(b.poses[1], b.poses[k + 1])) /\ A[k] \in Nat
    <3>1. \A k \in 0 .. n : Turn(b.poses[1], b.poses[k + 1]) \in -1 .. 2
      <4>1. \A k \in 0 .. n : k + 1 \in 1 .. n + 1 /\ 1 \in 1 .. n + 1
        BY <1>1
      <4>2. QED
        BY <2>1, <4>1, TurnTriangle
    <3>2. \A k \in 0 .. n : A[k] = Magnitude(Turn(b.poses[1], b.poses[k + 1]))
      BY DEF TurnTo
    <3>3. \A m \in -1 .. 2 : Magnitude(m) \in Nat
      BY DEF Magnitude
    <3>4. QED
      BY <3>1, <3>2, <3>3
  <2>3. A[0] = 0
    <3>1. 0 \in 0 .. n /\ 1 \in 1 .. n + 1
      BY <1>1
    <3>2. Turn(b.poses[1], b.poses[1]) = 0
      BY <2>1, <3>1, TurnTriangle
    <3>3. QED
      BY <3>1, <3>2 DEF TurnTo, Magnitude
  <2>4. ASSUME NEW k \in 1 .. n PROVE l[k] \in Nat /\ A[k] <= A[k - 1] + l[k]
    <3>1. k \in 0 .. n /\ k - 1 \in 0 .. n /\ (k - 1) + 1 = k
      BY <1>1
    <3>2. k \in 1 .. n + 1 /\ k + 1 \in 1 .. n + 1 /\ 1 \in 1 .. n + 1
      <4>1. n \in Nat
        BY <1>1
      <4> HIDE DEF n
      <4>2. QED
        BY <4>1
    <3>3. /\ Turn(b.poses[k], b.poses[k + 1]) \in -1 .. 2
          /\ Magnitude(Turn(b.poses[1], b.poses[k + 1]))
               <= Magnitude(Turn(b.poses[1], b.poses[k])) + Magnitude(Turn(b.poses[k], b.poses[k + 1]))
      BY <2>1, <3>2, TurnTriangle
    <3>4. l[k] = Magnitude(Turn(b.poses[k], b.poses[k + 1]))
      BY <3>3 DEF TurnSteps, TurnStep, AbsQ, Q, NegQ, Magnitude
    <3>5. A[k] = Magnitude(Turn(b.poses[1], b.poses[k + 1])) /\ A[k - 1] = Magnitude(Turn(b.poses[1], b.poses[k]))
      BY <2>2, <3>1
    <3>6. \A m \in -1 .. 2 : Magnitude(m) \in Nat
      BY DEF Magnitude
    <3> HIDE DEF A, l
    <3>7. QED
      BY <3>3, <3>4, <3>5, <3>6
  <2> HIDE DEF A, l, T, n
  <2>5. QED
    BY <1>1, <1>2, <2>2, <2>3, <2>4 DEF Ways, A, l
<1>5. QED
  BY <1>3, <1>4

(* A velocity that takes a time d for a way of length W L, and turns by n3, *)
(* when some step takes it no longer for its part of W, and another for its *)
(* part of n3.                                                              *)
LEMMA SlowerByMeans ==
  ASSUME NEW b, NEW dir, NEW L, NEW x, BandOnLine(b, dir, L, x),
         NEW n1 \in Int, NEW n2 \in Int, NEW n3 \in Int, NEW d \in Nat \ {0}, NEW W \in Nat,
         n1 * n1 + n2 * n2 <= (W * L) * (W * L),
         \E i \in 1 .. Len(b.dts) : W * b.dts[i] <= LengthStep(x, Len(b.dts))[i] * d,
         \E i \in 1 .. Len(b.dts) : Magnitude(n3) * b.dts[i] <= TurnSteps(b)[i] * d
  PROVE  /\ SlowerThanAStep(<<<<n1, d>>, <<n2, d>>, <<n3, d>>>>, b)
         /\ n2 = 0 => SlowerThanAStep(<<<<n1, d>>, Q(0), <<n3, d>>>>, b)
<1>0. /\ DOMAIN b.dts = 1 .. Len(b.dts) /\ Len(b.dts) \in Nat /\ L \in Nat
      /\ \A i \in 1 .. Len(b.dts) : b.dts[i] \in Nat /\ i \in 1 .. Len(b.poses) /\ i + 1 \in 1 .. Len(b.poses)
  <2>1. b.dts \in Seq(Nat) /\ Len(b.poses) = Len(b.dts) + 1 /\ L \in Nat
    BY DEF BandOnLine
  <2>2. DOMAIN b.dts = 1 .. Len(b.dts) /\ Len(b.dts) \in Nat
    BY <2>1
  <2>3. \A i \in 1 .. Len(b.dts) : b.dts[i] \in Nat
    BY <2>1, ElementOfSeq
  <2> DEFINE m == Len(b.dts)
  <2> HIDE DEF m
  <2>4. m \in Nat => \A i \in 1 .. m : i \in 1 .. m + 1 /\ i + 1 \in 1 .. m + 1
    OBVIOUS
  <2>5. QED
    BY <2>1, <2>2, <2>3, <2>4 DEF m
<1>1. PICK i \in 1 .. Len(b.dts) : W * b.dts[i] <= LengthStep(x, Len(b.dts))[i] * d
  OBVIOUS
<1>2. PICK j \in 1 .. Len(b.dts) : Magnitude(n3) * b.dts[j] <= TurnSteps(b)[j] * d
  OBVIOUS
<1> DEFINE l == Magnitude(x[i + 1] - x[i])
           t == b.dts[i]
<1>3. l \in Nat /\ t \in Nat /\ SqStep(b, i) = (l * L) * (l * L) /\ W * t <= l * d
  <2>1. LengthStep(x, Len(b.dts))[i] = l
    BY DEF LengthStep
  <2>2. x[i] \in Int /\ x[i + 1] \in Int
    BY <1>0 DEF BandOnLine
  <2>3. l \in Nat
    BY <2>2 DEF Magnitude
  <2>4. SqNorm(Minus(b.poses[i + 1].at, b.poses[i].at)) = (l * L) * (l * L)
    <3>1. i \in 1 .. Len(b.poses) /\ i + 1 \in 1 .. Len(b.poses)
      BY <1>0
    <3>2. Onward(b.poses[i], b.poses[i + 1], x[i + 1] - x[i], dir, L)
      BY <3>1, AlongLine
    <3>3. QED
      BY <3>2, Zenon DEF Onward
  <2>5. QED
    BY <1>0, <1>1, <2>1, <2>3, <2>4 DEF SqStep
<1> HIDE DEF l, t
<1> DEFINE a == W * t
           c == l * d
           N == n1 * n1 + n2 * n2
<1>4. a * a <= c * c
  <2>1. a \in Nat /\ c \in Nat /\ a <= c
    BY <1>3
  <2> HIDE DEF a, c
  <2>2. a * a <= a * c /\ a * c <= c * c
    BY <2>1
  <2>3. a * a \in Int /\ a * c \in Int /\ c * c \in Int
    BY <2>1
  <2>4. QED
    BY <2>2, <2>3
<1>5. N * (t * t) <= ((l * L) * (l * L)) * (d * d)
  <2>1. N * (t * t) <= ((W * L) * (W * L)) * (t * t)
    <3> DEFINE r == (W * L) * (W * L)
               s == t * t
    <3>1. N \in Int /\ r \in Int /\ N <= r
      BY <1>0
    <3>2. s \in Nat
      BY <1>3
    <3> HIDE DEF N, r, s
    <3>3. N * s <= r * s
      BY <3>1, <3>2
    <3>4. QED
      BY <3>3 DEF r, s
  <2>2. ((W * L) * (W * L)) * (t * t) = (L * L) * (a * a)
    BY <1>0, <1>3
  <2>3. (L * L) * (a * a) <= (L * L) * (c * c)
    <3> DEFINE r == L * L
               u == a * a
               v == c * c
    <3>1. r \in Nat
      BY <1>0
    <3>2. u \in Int /\ v \in Int /\ u <= v
      BY <1>3, <1>4
    <3> HIDE DEF r, u, v
    <3>3. r * u <= r * v
      BY <3>1, <3>2
    <3>4. QED
      BY <3>3 DEF r, u, v
  <2>4. (L * L) * (c * c) = ((l * L) * (l * L)) * (d * d)
    BY <1>0, <1>3
  <2>5. /\ N * (t * t) \in Int /\ ((W * L) * (W * L)) * (t * t) \in Int /\ (L * L) * (a * a) \in Int
        /\ (L * L) * (c * c) \in Int /\ ((l * L) * (l * L)) * (d * d) \in Int
    BY <1>0, <1>3
  <2> DEFINE e1 == N * (t * t)
             e2 == ((W * L) * (W * L)) * (t * t)
             e3 == (L * L) * (a * a)
             e4 == (L * L) * (c * c)
             e5 == ((l * L) * (l * L)) * (d * d)
  <2>6. e1 <= e2 /\ e2 = e3 /\ e3 <= e4 /\ e4 = e5
        /\ e1 \in Int /\ e2 \in Int /\ e3 \in Int /\ e4 \in Int /\ e5 \in Int
    BY <2>1, <2>2, <2>3, <2>4, <2>5
  <2> HIDE DEF e1, e2, e3, e4, e5
  <2>7. e1 <= e5
    BY <2>6
  <2>8. QED
    BY <2>7 DEF e1, e5
<1> DEFINE S == (l * L) * (l * L)
           k == t * t
           D == d * d
<1>6. S \in Int /\ k \in Int /\ D \in Nat /\ N \in Int /\ N * k <= S * D
  BY <1>0, <1>3, <1>5
<1>7. ~LessQ(MulQ(Q(SqStep(b, i)), Q(1)),
             MulQ(AddQ(MulQ(<<n1, d>>, <<n1, d>>), MulQ(<<n2, d>>, <<n2, d>>)), Q(b.dts[i] * b.dts[i])))
  <2>1. LessQ(MulQ(Q(SqStep(b, i)), Q(1)),
             MulQ(AddQ(MulQ(<<n1, d>>, <<n1, d>>), MulQ(<<n2, d>>, <<n2, d>>)), Q(b.dts[i] * b.dts[i])))
          <=> (S * 1) * ((D * D) * 1) < (((n1 * n1) * D + (n2 * n2) * D) * k) * (1 * 1)
    BY <1>3 DEF LessQ, MulQ, AddQ, Q, t
  <2>2. (n1 * n1) * D + (n2 * n2) * D = N * D
    BY <1>6
  <2> HIDE DEF S, k, D, N
  <2>3. (S * 1) * ((D * D) * 1) = (S * D) * D
    BY <1>6
  <2>4. ((N * D) * k) * (1 * 1) = (N * k) * D
    BY <1>6
  <2>5. (N * k) * D <= (S * D) * D
    <3> DEFINE u == N * k
               v == S * D
    <3>1. u \in Int /\ v \in Int /\ u <= v
      BY <1>6
    <3> HIDE DEF u, v
    <3>2. u * D <= v * D
      BY <1>6, <3>1
    <3>3. QED
      BY <3>2 DEF u, v
  <2>6. (N * k) * D \in Int /\ (S * D) * D \in Int
    BY <1>6
  <2>7. QED
    BY <2>1, <2>2, <2>3, <2>4, <2>5, <2>6
<1>8. n2 = 0 =>
        ~LessQ(MulQ(Q(SqStep(b, i)), Q(1)),
               MulQ(AddQ(MulQ(<<n1, d>>, <<n1, d>>), MulQ(Q(0), Q(0))), Q(b.dts[i] * b.dts[i])))
  <2> SUFFICES ASSUME n2 = 0
               PROVE ~LessQ(MulQ(Q(SqStep(b, i)), Q(1)),
               MulQ(AddQ(MulQ(<<n1, d>>, <<n1, d>>), MulQ(Q(0), Q(0))), Q(b.dts[i] * b.dts[i])))
    OBVIOUS
  <2>1. LessQ(MulQ(Q(SqStep(b, i)), Q(1)),
             MulQ(AddQ(MulQ(<<n1, d>>, <<n1, d>>), MulQ(Q(0), Q(0))), Q(b.dts[i] * b.dts[i])))
          <=> (S * 1) * ((D * (1 * 1)) * 1) < (((n1 * n1) * (1 * 1) + (0 * 0) * D) * k) * (1 * 1)
    BY <1>3 DEF LessQ, MulQ, AddQ, Q, t
  <2>2. (n1 * n1) * (1 * 1) + (0 * 0) * D = N
    BY <1>6
  <2> HIDE DEF S, k, D, N
  <2>3. (S * 1) * ((D * (1 * 1)) * 1) = S * D /\ (N * k) * (1 * 1) = N * k
    BY <1>6
  <2>4. N * k \in Int /\ S * D \in Int
    BY <1>6
  <2>5. QED
    BY <1>6, <2>1, <2>2, <2>3, <2>4
<1>9. ~LessQ(Q(TurnStep(b, j)), MulQ(AbsQ(<<n3, d>>), Q(b.dts[j])))
  <2>1. AbsQ(<<n3, d>>) = <<Magnitude(n3), d>>
    BY DEF AbsQ, NegQ, Magnitude
  <2>2. TurnSteps(b)[j] = TurnStep(b, j)
    BY DEF TurnSteps
  <2>3. TurnStep(b, j) \in Nat
    <3>1. b.poses[j].quarter \in 0 .. 3 /\ b.poses[j + 1].quarter \in 0 .. 3
      <4>1. Onward(b.poses[j], b.poses[j + 1], x[j + 1] - x[j], dir, L)
        BY <1>0, AlongLine
      <4>2. QED
        BY <4>1 DEF Onward, AtPose
    <3>2. Turn(b.poses[j], b.poses[j + 1]) \in -1 .. 2
      BY <3>1, TurnTriangle
    <3>3. QED
      BY <3>2 DEF TurnStep, AbsQ, NegQ, Q
  <2>4. Magnitude(n3) \in Nat
    BY DEF Magnitude
  <2> DEFINE u == TurnStep(b, j)
             m == Magnitude(n3)
             r == b.dts[j]
  <2>5. u \in Nat /\ m \in Nat /\ r \in Nat /\ m * r <= u * d
    BY <1>0, <1>2, <2>2, <2>3, <2>4
  <2>6. LessQ(Q(u), MulQ(<<m, d>>, Q(r))) <=> u * (d * 1) < (m * r) * 1
    BY DEF LessQ, MulQ, Q
  <2> HIDE DEF u, m, r
  <2>7. u * (d * 1) = u * d /\ (m * r) * 1 = m * r /\ u * d \in Int /\ m * r \in Int
    BY <2>5
  <2>8. ~LessQ(Q(u), MulQ(<<m, d>>, Q(r)))
    BY <2>5, <2>6, <2>7
  <2>9. QED
    BY <2>1, <2>8 DEF u, m, r
<1>10. QED
  BY <1>0, <1>7, <1>8, <1>9 DEF SlowerThanAStep

(* The motion to a later pose, over a time that is positive, is slower     *)
(* than some step on the way and turns slower than some step on the way.   *)
LEMMA MotionSlower ==
  ASSUME NEW b, NEW dir, NEW L, NEW x, BandOnLine(b, dir, L, x),
         NEW k \in 1 .. Len(b.dts), TimeTo(b, k) > 0, NEW holonomic \in BOOLEAN
  PROVE  /\ SlowerThanAStep(HolonomicTwist(b.poses[1], b.poses[k + 1], TimeTo(b, k)), b)
         /\ SlowerThanAStep(ExtractVelocity(b.poses[1], b.poses[k + 1], TimeTo(b, k), holonomic), b)
<1> DEFINE n == Len(b.dts)
           p == b.poses[1]
           q == b.poses[k + 1]
           T == TimeTo(b, k)
           d == x[k + 1] - x[1]
           W == Magnitude(d)
           f == Ahead(p, q)
           g == Beside(p, q)
           l == Length(Minus(q.at, p.at))
           s == Sign(f) * l
           tau == Turn(p, q)
<1>0. /\ n \in Nat /\ dir \in Int \X Int /\ L \in Nat /\ L * L = SqNorm(dir)
      /\ 1 \in 1 .. Len(b.poses) /\ k + 1 \in 1 .. Len(b.poses) /\ x[1] \in Int /\ x[k + 1] \in Int
  <2>1. Len(b.poses) = n + 1 /\ n \in Nat
    BY DEF BandOnLine
  <2> HIDE DEF n
  <2>2. 1 \in 1 .. n + 1 /\ k + 1 \in 1 .. n + 1
    BY <2>1 DEF n
  <2>3. QED
    BY <2>1, <2>2 DEF BandOnLine
<1>1. Onward(p, q, d, dir, L)
  BY <1>0, AlongLine
<1>2. d \in Int /\ W \in Nat /\ W * W = d * d
  BY <1>0 DEF Magnitude
<1>3. Ways(n, LengthTo(x, n), LengthStep(x, n), Times3(b), b.dts) /\ Ways(n, TurnTo(b), TurnSteps(b), Times3(b), b.dts)
  BY BandWays
<1>4. k \in 0 .. n /\ LengthTo(x, n)[k] = W /\ TurnTo(b)[k] = Magnitude(tau) /\ Times3(b)[k] = T
  BY <1>0 DEF LengthTo, TurnTo, Times3
<1>5. T \in Nat \ {0}
  BY <1>3, <1>4 DEF Ways
<1>6. PICK i \in 1 .. k : LengthTo(x, n)[k] * b.dts[i] <= LengthStep(x, n)[i] * Times3(b)[k]
  BY <1>0, <1>3, MeanOfSteps
<1>7. PICK j \in 1 .. k : TurnTo(b)[k] * b.dts[j] <= TurnSteps(b)[j] * Times3(b)[k]
  BY <1>0, <1>3, MeanOfSteps
<1>8. /\ \E i1 \in 1 .. n : W * b.dts[i1] <= LengthStep(x, n)[i1] * T
      /\ \E j1 \in 1 .. n : Magnitude(tau) * b.dts[j1] <= TurnSteps(b)[j1] * T
  <2>1. i \in 1 .. n /\ j \in 1 .. n
    BY <1>0
  <2>2. W * b.dts[i] <= LengthStep(x, n)[i] * T /\ Magnitude(tau) * b.dts[j] <= TurnSteps(b)[j] * T
    BY <1>4, <1>6, <1>7
  <2>3. QED
    BY <2>1, <2>2
<1>9. tau \in Int
  <2>1. tau \in -1 .. 2
    BY <1>1, TurnTriangle DEF Onward, AtPose
  <2>2. QED
    BY <2>1
<1>10. f \in Int /\ g \in Int /\ f * f + g * g = (W * L) * (W * L)
  <2> DEFINE u == Dot(Heading(p), dir)
             v == Cross(Heading(p), dir)
  <2>1. u \in Int /\ v \in Int /\ u * u + v * v = L * L
    BY <1>0, <1>1, TurnedLength DEF Onward
  <2>2. f = d * u /\ g = d * v
    BY <1>1 DEF Onward
  <2> HIDE DEF u, v, d, f, g, W
  <2>3. f \in Int /\ g \in Int
    BY <1>2, <2>1, <2>2
  <2>4. (d * u) * (d * u) + (d * v) * (d * v) = (d * d) * (u * u + v * v)
    BY <1>2, <2>1
  <2>5. (W * L) * (W * L) = (W * W) * (L * L)
    BY <1>0, <1>2
  <2>6. QED
    BY <1>2, <2>1, <2>2, <2>3, <2>4, <2>5
<1>11. l = W * L /\ l \in Nat
  BY <1>0, <1>1, <1>2 DEF Onward
<1>12. s \in Int /\ s * s + 0 * 0 <= (W * L) * (W * L)
  <2> HIDE DEF f, l, W
  <2>1. Sign(f) \in {-1, 0, 1}
    BY <1>10 DEF Sign
  <2>2. s = l \/ s = -l \/ s = 0
    BY <1>11, <2>1
  <2> HIDE DEF s
  <2>3. s \in Int /\ (s * s = l * l \/ s * s = 0)
    BY <1>11, <2>2
  <2>4. l * l \in Nat
    BY <1>11
  <2>5. s * s + 0 * 0 <= l * l
    BY <2>3, <2>4
  <2>6. QED
    BY <1>11, <2>3, <2>5
<1>13. HolonomicTwist(p, q, T) = <<<<f, T>>, <<g, T>>, <<tau, T>>>>
  BY Zenon DEF HolonomicTwist
<1>14. ExtractVelocity(p, q, T, holonomic)
         = IF holonomic THEN HolonomicTwist(p, q, T) ELSE <<<<s, T>>, Q(0), <<tau, T>>>>
  BY <1>5 DEF ExtractVelocity
<1>15. SlowerThanAStep(<<<<f, T>>, <<g, T>>, <<tau, T>>>>, b)
  <2> HIDE DEF n, p, q, T, d, W, f, g, l, s, tau
  <2>1. f * f + g * g <= (W * L) * (W * L)
    BY <1>0, <1>2, <1>10
  <2>2. QED
    BY <1>2, <1>5, <1>8, <1>9, <1>10, <2>1, SlowerByMeans DEF n
<1>16. SlowerThanAStep(<<<<s, T>>, Q(0), <<tau, T>>>>, b)
  <2> HIDE DEF n, p, q, T, d, W, f, g, l, s, tau
  <2>1. 0 \in Int
    OBVIOUS
  <2>2. QED
    BY <1>2, <1>5, <1>8, <1>9, <1>12, <2>1, SlowerByMeans DEF n
<1>17. QED
  BY <1>13, <1>14, <1>15, <1>16, Zenon

FollowsLook(b, look, holonomic) ==
  LET command == GetVelocityCommand(b, look, holonomic)
  IN IF command.ok THEN SlowerThanAStep(command.twist, b)
     ELSE command.twist = Stop /\ \A i \in DOMAIN b.dts : i <= look => b.dts[i] = 0

(* No step takes longer than all of them.                                  *)
LEMMA TimeCovers ==
  ASSUME NEW b, b.dts \in Seq(Nat), NEW k \in 0 .. Len(b.dts), NEW i \in 1 .. k
  PROVE  b.dts[i] <= TimeTo(b, k)
<1> DEFINE n == Len(b.dts)
           N == {m \in Nat : m <= n => \A j \in 1 .. m : b.dts[j] <= TimeTo(b, m)}
<1>0. /\ n \in Nat /\ \A m \in 1 .. n : b.dts[m] \in Nat /\ TimeTo(b, m) = TimeTo(b, m - 1) + b.dts[m]
      /\ \A m \in 0 .. n : TimeTo(b, m) \in Nat
  <2>1. n \in Nat
    OBVIOUS
  <2>2. \A m \in 1 .. n : b.dts[m] \in Nat
    BY ElementOfSeq
  <2>3. QED
    BY <2>1, <2>2, TimesAdd
<1> HIDE DEF n
<1>1. 0 \in N
  OBVIOUS
<1>2. ASSUME NEW m \in Nat, m \in N PROVE m + 1 \in N
  <2> SUFFICES ASSUME m + 1 <= n, NEW j \in 1 .. m + 1 PROVE b.dts[j] <= TimeTo(b, m + 1)
    OBVIOUS
  <2>1. m + 1 \in 1 .. n /\ m \in 0 .. n /\ (m + 1) - 1 = m
    BY <1>0
  <2>2. TimeTo(b, m + 1) = TimeTo(b, m) + b.dts[m + 1] /\ TimeTo(b, m) \in Nat /\ b.dts[m + 1] \in Nat
    BY <1>0, <2>1
  <2>3. CASE j = m + 1
    BY <2>2, <2>3
  <2>4. CASE j # m + 1
    <3>1. j \in 1 .. m /\ j \in 1 .. n
      BY <1>0, <2>1, <2>4
    <3>2. b.dts[j] <= TimeTo(b, m) /\ b.dts[j] \in Nat
      BY <1>0, <1>2, <2>1, <3>1
    <3>3. QED
      BY <2>2, <3>2
  <2>5. QED
    BY <2>3, <2>4
<1> HIDE DEF N
<1>3. k \in N
  BY <1>1, <1>2, NatSetInduction
<1>4. QED
  BY <1>3 DEF N, n

(* getVelocityCommand() is ok unless the steps it looks at take no time,   *)
(* and then it is slower than some step.                                   *)
LEMMA LookFollows ==
  ASSUME NEW b, NEW dir, NEW L, NEW x, BandOnLine(b, dir, L, x), Len(b.dts) >= 1,
         NEW look \in 1 .. 3, NEW holonomic \in BOOLEAN
  PROVE  FollowsLook(b, look, holonomic)
<1> DEFINE n == Larger(1, SmallerOf(look, Size(b) - 1))
           late == {k \in 1 .. n : TimeTo(b, k) >= DtRef * n}
           k == IF late = {} THEN n ELSE FirstOf(late)
           m == Len(b.dts)
<1>0. m \in Nat /\ b.dts \in Seq(Nat) /\ Size(b) = m + 1 /\ m >= 1 /\ DOMAIN b.dts = 1 .. m
  BY DEF BandOnLine, Size
<1>1. n = (IF look < m THEN look ELSE m) /\ n \in 1 .. m
  BY <1>0 DEF Larger, SmallerOf
<1>2. GetVelocityCommand(b, look, holonomic)
        = IF Size(b) < 2 \/ TimeTo(b, n) <= 0 THEN [ok |-> FALSE, twist |-> Stop]
          ELSE [ok |-> TRUE, twist |-> ExtractVelocity(b.poses[1], b.poses[k + 1], TimeTo(b, k), holonomic)]
  BY Zenon DEF GetVelocityCommand
<1>3. \A i \in 0 .. m : TimeTo(b, i) \in Nat
  BY <1>0, TimesAdd
<1>4. CASE TimeTo(b, n) <= 0
  <2>1. GetVelocityCommand(b, look, holonomic) = [ok |-> FALSE, twist |-> Stop]
    BY <1>2, <1>4
  <2>2. ASSUME NEW i \in DOMAIN b.dts, i <= look PROVE b.dts[i] = 0
    <3>1. i \in 1 .. n /\ n \in 0 .. m
      BY <1>0, <1>1, <2>2
    <3>2. b.dts[i] <= TimeTo(b, n)
      BY <1>0, <3>1, TimeCovers
    <3>3. b.dts[i] \in Nat /\ TimeTo(b, n) \in Nat
      BY <1>0, <1>3, <3>1, ElementOfSeq
    <3>4. QED
      BY <1>4, <3>2, <3>3
  <2>3. QED
    BY <2>1, <2>2 DEF FollowsLook
<1>5. CASE ~(TimeTo(b, n) <= 0)
  <2>1. k \in 1 .. n /\ TimeTo(b, k) > 0
    <3>1. CASE late = {}
      BY <1>0, <1>1, <1>3, <1>5, <3>1
    <3>2. CASE late # {}
      <4>1. \E i \in late : \A j \in late : i <= j
        <5>1. late \subseteq Nat
          BY <1>0, <1>1
        <5> HIDE DEF late
        <5>2. QED
          BY <3>2, <5>1, SmallestOf
      <4>2. FirstOf(late) \in late
        BY <4>1 DEF FirstOf
      <4>3. DtRef * n > 0
        BY <1>0, <1>1, DtRefOK
      <4>4. TimeTo(b, FirstOf(late)) >= DtRef * n /\ FirstOf(late) \in 1 .. n
        BY <4>2
      <4>5. TimeTo(b, FirstOf(late)) \in Nat /\ DtRef * n \in Nat
        BY <1>0, <1>1, <1>3, <4>4, DtRefOK
      <4>6. QED
        BY <3>2, <4>3, <4>4, <4>5
    <3>3. QED
      BY <3>1, <3>2
  <2> HIDE DEF k
  <2>2. k \in 1 .. m
    BY <1>0, <1>1, <2>1
  <2>3. SlowerThanAStep(ExtractVelocity(b.poses[1], b.poses[k + 1], TimeTo(b, k), holonomic), b)
    BY <2>1, <2>2, MotionSlower
  <2>4. ~(Size(b) < 2)
    BY <1>0
  <2>5. GetVelocityCommand(b, look, holonomic)
          = [ok |-> TRUE, twist |-> ExtractVelocity(b.poses[1], b.poses[k + 1], TimeTo(b, k), holonomic)]
    BY <1>2, <1>5, <2>4, Zenon
  <2>6. QED
    BY <2>3, <2>5 DEF FollowsLook
<1>6. QED
  BY <1>4, <1>5

FollowsTarget(b, target) ==
  LET command == GetVelocityCommandMyj(b, target)
  IN /\ command.ok
     /\ \A i \in 1 .. 3 : command.twist[i][2] > 0
     /\ command.twist # Stop => SlowerThanAStep(command.twist, b)

(* getVelocityCommandMyj() with a point on the band: f from the first pose *)
(* to a pose, and s / t of g from there.                                   *)
MeanCoordinate(f, s, t, g) == AddQ(Q(f), MulQ(<<s, t>>, Q(g)))

(* A coordinate of the interpolated pose, as a quotient.                   *)
LEMMA MeanCoordinateIs ==
  \A f \in Int, s \in Int, g \in Int, t \in Nat \ {0}, target \in Nat \ {0} :
    /\ MeanCoordinate(f, s, t, g) = <<f * t + s * g, t>>
    /\ OverQ(<<f * t + s * g, t>>, Q(target)) = <<f * t + s * g, t * target>>
<1> TAKE f \in Int, s \in Int, g \in Int, t \in Nat \ {0}, target \in Nat \ {0}
<1>1. MeanCoordinate(f, s, t, g) = <<f * (t * 1) + (s * g) * 1, 1 * (t * 1)>>
  BY DEF MeanCoordinate, AddQ, MulQ, Q
<1>2. f * (t * 1) + (s * g) * 1 = f * t + s * g /\ 1 * (t * 1) = t
  OBVIOUS
<1>3. f * t + s * g \in Int
  OBVIOUS
<1> DEFINE a == f * t + s * g
<1> HIDE DEF a
<1>4. OverQ(<<a, t>>, Q(target)) = <<a * 1, t * target>>
  BY DEF OverQ, Q
<1>5. a \in Int => a * 1 = a
  OBVIOUS
<1>6. QED
  BY <1>1, <1>2, <1>3, <1>4, <1>5 DEF a

LessTurnIs(u, v, t, s, target) ==
  LET turn == <<u * t + s * v, t>>
      less == IF LessQ(Q(2), turn) THEN SubQ(turn, Q(4)) ELSE turn
  IN \E w \in Int : /\ OverQ(less, Q(target)) = <<w, t * target>>
                    /\ Magnitude(w) <= t * Magnitude(u) + s * Magnitude(v)

(* A turn of more than half a round is taken the other way, which is less. *)
LEMMA LessTurn ==
  \A u \in -1 .. 2, v \in -1 .. 2, t \in Nat \ {0}, target \in Nat \ {0} : \A s \in 0 .. t :
    LessTurnIs(u, v, t, s, target)
<1> SUFFICES ASSUME NEW u \in -1 .. 2, NEW v \in -1 .. 2, NEW t \in Nat \ {0}, NEW target \in Nat \ {0},
                    NEW s \in 0 .. t
             PROVE  LessTurnIs(u, v, t, s, target)
  OBVIOUS
<1> DEFINE turn == <<u * t + s * v, t>>
           less == IF LessQ(Q(2), turn) THEN SubQ(turn, Q(4)) ELSE turn
<1> DEFINE a == u * t + s * v
<1>1. a \in Int /\ s \in Nat /\ u \in Int /\ v \in Int
  OBVIOUS
<1>2. Magnitude(a) <= t * Magnitude(u) + s * Magnitude(v)
  <2>1. u * t = IF u < 0 THEN -(t * Magnitude(u)) ELSE t * Magnitude(u)
    BY <1>1 DEF Magnitude
  <2>2. s * v = IF v < 0 THEN -(s * Magnitude(v)) ELSE s * Magnitude(v)
    BY <1>1 DEF Magnitude
  <2>3. t * Magnitude(u) \in Nat /\ s * Magnitude(v) \in Nat
    BY <1>1 DEF Magnitude
  <2> DEFINE c == t * Magnitude(u)
             d == s * Magnitude(v)
             e == u * t
             g == s * v
  <2>4. (e = c \/ e = -c) /\ (g = d \/ g = -d) /\ c \in Nat /\ d \in Nat /\ a = e + g
    BY <2>1, <2>2, <2>3
  <2> HIDE DEF a, c, d, e, g
  <2>5. Magnitude(a) <= c + d
    BY <2>4 DEF Magnitude
  <2>6. QED
    BY <2>5 DEF a, c, d
<1> HIDE DEF a
<1>3. turn = <<a, t>> /\ less = IF LessQ(Q(2), turn) THEN SubQ(turn, Q(4)) ELSE turn
  BY DEF a
<1>8. (\E w \in Int : /\ OverQ(less, Q(target)) = <<w, t * target>>
                      /\ Magnitude(w) <= t * Magnitude(u) + s * Magnitude(v))
      => LessTurnIs(u, v, t, s, target)
  BY Zenon DEF LessTurnIs
<1> HIDE DEF turn, less
<1>4. LessQ(Q(2), turn) <=> 2 * t < a * 1
  BY <1>3 DEF LessQ, Q
<1>5. CASE 2 * t < a * 1
  <2>1. less = <<a * 1 + (-4) * t, t * 1>>
    BY <1>3, <1>4, <1>5 DEF SubQ, AddQ, NegQ, Q
  <2>2. a * 1 + (-4) * t = a - 4 * t /\ t * 1 = t
    BY <1>1
  <2>3. OverQ(<<a - 4 * t, t>>, Q(target)) = <<(a - 4 * t) * 1, t * target>>
    BY DEF OverQ, Q
  <2>4. (a - 4 * t) * 1 = a - 4 * t /\ a - 4 * t \in Int
    BY <1>1
  <2>5. a <= 4 * t
    <3>1. u * t <= 2 * t /\ s * v <= 2 * s
      BY <1>1
    <3>2. u * t \in Int /\ s * v \in Int /\ 2 * s <= 2 * t /\ a = u * t + s * v
      BY <1>1 DEF a
    <3>3. QED
      BY <1>1, <3>1, <3>2
  <2>6. Magnitude(a - 4 * t) <= Magnitude(a)
    BY <1>1, <1>5, <2>5 DEF Magnitude
  <2>7. Magnitude(a - 4 * t) \in Int /\ Magnitude(a) \in Int
        /\ t * Magnitude(u) + s * Magnitude(v) \in Int
    BY <1>1 DEF Magnitude
  <2>8. Magnitude(a - 4 * t) <= t * Magnitude(u) + s * Magnitude(v)
    BY <1>2, <2>6, <2>7
  <2>9. QED
    BY <1>8, <2>1, <2>2, <2>3, <2>4, <2>8
<1>6. CASE ~(2 * t < a * 1)
  <2>1. less = <<a, t>>
    BY <1>3, <1>4, <1>6
  <2>2. OverQ(<<a, t>>, Q(target)) = <<a * 1, t * target>> /\ a * 1 = a
    BY <1>1 DEF OverQ, Q
  <2>3. QED
    BY <1>1, <1>2, <1>8, <2>1, <2>2
<1>7. QED
  BY <1>5, <1>6

(* getDtPose() finds the step in which the time is reached. *)
ReachedIn(b, target, i) ==
  /\ i \in 1 .. Len(b.dts) /\ target - TimeTo(b, i - 1) \in 1 .. b.dts[i]
  /\ GetDtPose(b, target)
       = [pose |-> b.poses[i], next |-> b.poses[i + 1],
          ratio |-> <<target - TimeTo(b, i - 1), b.dts[i]>>, dt |-> target]

(* getDtPose(), as the pose it finds and the time.                         *)
LEMMA DtPoseIs ==
  ASSUME NEW b, b.dts \in Seq(Nat), Len(b.poses) = Len(b.dts) + 1, Len(b.dts) >= 1,
         NEW target \in Nat \ {0}
  PROVE  \/ GetDtPose(b, target)
              = [pose |-> b.poses[Len(b.dts) + 1], next |-> b.poses[Len(b.dts) + 1], ratio |-> Q(0),
                 dt |-> TimeTo(b, Len(b.dts))]
         \/ \E i \in 1 .. Len(b.dts) : ReachedIn(b, target, i)
<1> DEFINE n == Len(b.dts)
           reached == {i \in 1 .. Size(b) - 1 : TimeTo(b, i) >= target}
<1>0. n \in Nat /\ Size(b) = n + 1 /\ Size(b) - 1 = n /\ Size(b) # 1 /\ reached \subseteq 1 .. n
  <2>1. n \in Nat
    OBVIOUS
  <2>2. Size(b) = n + 1
    BY DEF Size
  <2> HIDE DEF n
  <2>3. QED
    BY <2>1, <2>2 DEF n
<1>1. GetDtPose(b, target) =
        IF Size(b) = 1 THEN [pose |-> b.poses[1], next |-> b.poses[1], ratio |-> Q(0), dt |-> target]
        ELSE IF reached = {}
          THEN [pose |-> b.poses[Size(b)], next |-> b.poses[Size(b)], ratio |-> Q(0),
                dt |-> TimeTo(b, Size(b) - 1)]
        ELSE [pose |-> b.poses[FirstOf(reached)], next |-> b.poses[FirstOf(reached) + 1],
              ratio |-> <<target - TimeTo(b, FirstOf(reached) - 1), b.dts[FirstOf(reached)]>>, dt |-> target]
  BY Zenon DEF GetDtPose
<1>2. CASE reached = {}
  BY <1>0, <1>1, <1>2
<1>3. CASE reached # {}
  <2> DEFINE i == FirstOf(reached)
  <2>1. i \in reached /\ \A j \in reached : i <= j
    <3>1. reached \subseteq Nat
      BY <1>0
    <3> HIDE DEF reached
    <3>2. \E m \in reached : \A j \in reached : m <= j
      BY <1>3, <3>1, SmallestOf
    <3>3. QED
      BY <3>2 DEF FirstOf
  <2>2. GetDtPose(b, target)
       = [pose |-> b.poses[i], next |-> b.poses[i + 1],
          ratio |-> <<target - TimeTo(b, i - 1), b.dts[i]>>, dt |-> target]
    BY <1>0, <1>1, <1>3
  <2> HIDE DEF i
  <2>3. i \in 1 .. n /\ TimeTo(b, i) >= target
    BY <1>0, <2>1
  <2>4. i - 1 \in 0 .. n /\ i \in 0 .. n
    BY <1>0, <2>3
  <2>5. TimeTo(b, i) = TimeTo(b, i - 1) + b.dts[i] /\ TimeTo(b, i - 1) \in Nat /\ TimeTo(b, i) \in Nat
        /\ b.dts[i] \in Nat
    BY <2>3, <2>4, TimesAdd, ElementOfSeq
  <2>6. TimeTo(b, i - 1) < target
    <3>1. CASE i = 1
      <4>1. TimeTo(b, 0) = 0
        BY TimesAdd
      <4>2. QED
        BY <3>1, <4>1
    <3>2. CASE i # 1
      <4>1. i - 1 \in 1 .. n /\ ~(i <= i - 1)
        BY <1>0, <2>3, <3>2
      <4>2. i - 1 \notin reached
        BY <2>1, <4>1
      <4>3. ~(TimeTo(b, i - 1) >= target)
        BY <1>0, <4>1, <4>2
      <4>4. QED
        BY <2>5, <4>3
    <3>3. QED
      BY <3>1, <3>2
  <2>7. target - TimeTo(b, i - 1) \in 1 .. b.dts[i]
    BY <2>3, <2>5, <2>6
  <2>8. QED
    BY <2>2, <2>3, <2>7 DEF ReachedIn
<1>4. QED
  BY <1>2, <1>3

(* The motion from a pose to a point on the band, as getVelocityCommandMyj() computes it. *)
TwistTo(home, d) ==
  LET x    == AddQ(Q(Ahead(home, d.pose)), MulQ(d.ratio, Q(Ahead(home, d.next) - Ahead(home, d.pose))))
      y    == AddQ(Q(Beside(home, d.pose)), MulQ(d.ratio, Q(Beside(home, d.next) - Beside(home, d.pose))))
      turn == AddQ(Q(Turn(home, d.pose)), MulQ(d.ratio, Q(Turn(d.pose, d.next))))
      less == IF LessQ(Q(2), turn) THEN SubQ(turn, Q(4)) ELSE turn
  IN IF d.dt <= 0 THEN Stop ELSE <<OverQ(x, Q(d.dt)), OverQ(y, Q(d.dt)), OverQ(less, Q(d.dt))>>

(* getVelocityCommandMyj() sends the twist to the pose it looks at.        *)
LEMMA CommandIsTwist ==
  ASSUME NEW b, NEW target, Size(b) # 0
  PROVE  GetVelocityCommandMyj(b, target) = [ok |-> TRUE, twist |-> TwistTo(b.poses[1], GetDtPose(b, target))]
<1> DEFINE d == GetDtPose(b, target)
           home == b.poses[1]
           x == AddQ(Q(Ahead(home, d.pose)), MulQ(d.ratio, Q(Ahead(home, d.next) - Ahead(home, d.pose))))
           y == AddQ(Q(Beside(home, d.pose)), MulQ(d.ratio, Q(Beside(home, d.next) - Beside(home, d.pose))))
           turn == AddQ(Q(Turn(home, d.pose)), MulQ(d.ratio, Q(Turn(d.pose, d.next))))
           less == IF LessQ(Q(2), turn) THEN SubQ(turn, Q(4)) ELSE turn
           twist == <<OverQ(x, Q(d.dt)), OverQ(y, Q(d.dt)), OverQ(less, Q(d.dt))>>
<1>1. GetVelocityCommandMyj(b, target) =
        IF Size(b) = 0 THEN [ok |-> FALSE, twist |-> Stop]
        ELSE IF d.dt <= 0 THEN [ok |-> TRUE, twist |-> Stop]
        ELSE [ok |-> TRUE, twist |-> twist]
  BY Zenon DEF GetVelocityCommandMyj
<1>2. TwistTo(home, d) = IF d.dt <= 0 THEN Stop ELSE twist
  BY Zenon DEF TwistTo
<1> HIDE DEF d, home, twist
<1>3. QED
  BY <1>1, <1>2 DEF d, home

(* What getVelocityCommandMyj() computes from a pose d.pose, a share s / t  *)
(* of the step to d.next and a positive time. *)
LEMMA TwistIs ==
  ASSUME NEW home, NEW p, NEW q, NEW s, NEW t \in Nat \ {0}, s \in 0 .. t, NEW target \in Nat \ {0},
         Ahead(home, p) \in Int, Ahead(home, q) \in Int, Beside(home, p) \in Int, Beside(home, q) \in Int,
         Turn(home, p) \in -1 .. 2, Turn(p, q) \in -1 .. 2
  PROVE  \E w \in Int :
           /\ TwistTo(home, [pose |-> p, next |-> q, ratio |-> <<s, t>>, dt |-> target])
                = <<<<Ahead(home, p) * t + s * (Ahead(home, q) - Ahead(home, p)), t * target>>,
                    <<Beside(home, p) * t + s * (Beside(home, q) - Beside(home, p)), t * target>>,
                    <<w, t * target>>>>
           /\ Magnitude(w) <= t * Magnitude(Turn(home, p)) + s * Magnitude(Turn(p, q))
<1> DEFINE d == [pose |-> p, next |-> q, ratio |-> <<s, t>>, dt |-> target]
           f == Ahead(home, p)
           g == Ahead(home, q) - Ahead(home, p)
           k == Beside(home, p)
           l == Beside(home, q) - Beside(home, p)
           u == Turn(home, p)
           v == Turn(p, q)
           turn == MeanCoordinate(u, s, t, v)
           less == IF LessQ(Q(2), turn) THEN SubQ(turn, Q(4)) ELSE turn
<1>1. f \in Int /\ g \in Int /\ k \in Int /\ l \in Int /\ s \in Int /\ u \in Int /\ v \in Int
  OBVIOUS
<1>2. d.pose = p /\ d.next = q /\ d.ratio = <<s, t>> /\ d.dt = target
  OBVIOUS
<1>3. TwistTo(home, d)
        = IF target <= 0 THEN Stop
          ELSE <<OverQ(MeanCoordinate(f, s, t, g), Q(target)),
                 OverQ(MeanCoordinate(k, s, t, l), Q(target)),
                 OverQ(less, Q(target))>>
  BY <1>2, Zenon DEF TwistTo, MeanCoordinate
<1>4. u \in -1 .. 2 /\ v \in -1 .. 2
  OBVIOUS
<1> HIDE DEF d, f, g, k, l, u, v
<1>5. MeanCoordinate(f, s, t, g) = <<f * t + s * g, t>> /\ OverQ(<<f * t + s * g, t>>, Q(target)) = <<f * t + s * g, t * target>>
  BY <1>1, MeanCoordinateIs
<1>6. MeanCoordinate(k, s, t, l) = <<k * t + s * l, t>> /\ OverQ(<<k * t + s * l, t>>, Q(target)) = <<k * t + s * l, t * target>>
  BY <1>1, MeanCoordinateIs
<1>7. turn = <<u * t + s * v, t>>
  <2>1. /\ MeanCoordinate(u, s, t, v) = <<u * t + s * v, t>>
        /\ OverQ(<<u * t + s * v, t>>, Q(target)) = <<u * t + s * v, t * target>>
    BY <1>1, MeanCoordinateIs
  <2>2. QED
    BY <2>1
<1>8. \E w \in Int : /\ OverQ(less, Q(target)) = <<w, t * target>>
                     /\ Magnitude(w) <= t * Magnitude(u) + s * Magnitude(v)
  <2>1. less = IF LessQ(Q(2), turn) THEN SubQ(turn, Q(4)) ELSE turn
    OBVIOUS
  <2> HIDE DEF turn, less
  <2>2. LessTurnIs(u, v, t, s, target)
    BY <1>4, LessTurn
  <2>3. QED
    BY <1>7, <2>1, <2>2, Zenon DEF LessTurnIs
<1>9. PICK w \in Int : /\ OverQ(less, Q(target)) = <<w, t * target>>
                       /\ Magnitude(w) <= t * Magnitude(u) + s * Magnitude(v)
  BY <1>8
<1> HIDE DEF turn, less
<1>10. ~(target <= 0)
  OBVIOUS
<1>11. TwistTo(home, d) = <<<<f * t + s * g, t * target>>, <<k * t + s * l, t * target>>, <<w, t * target>>>>
  BY <1>3, <1>5, <1>6, <1>9, <1>10
<1>12. QED
  BY <1>9, <1>11, Zenon DEF d, f, g, k, l, u, v

(* What is slower than a step, with a positive time, is a command as it is wanted. *)
LEMMA TargetFollowsFrom ==
  ASSUME NEW b, NEW target, NEW v, Size(b) # 0, TwistTo(b.poses[1], GetDtPose(b, target)) = v,
         \A i \in 1 .. 3 : v[i][2] > 0, v # Stop => SlowerThanAStep(v, b)
  PROVE  FollowsTarget(b, target)
<1>1. GetVelocityCommandMyj(b, target) = [ok |-> TRUE, twist |-> v]
  BY CommandIsTwist, Zenon
<1>2. QED
  BY <1>1 DEF FollowsTarget

(* Standing still is no division by zero.                                  *)
LEMMA StopIsNoQuotient == \A i \in 1 .. 3 : Stop[i][2] > 0
  BY DEF Stop, Q

(* A motion with a magnitude, over a way W, is slower than a step. *)
LEMMA TurnedTwist ==
  ASSUME NEW b, NEW dir, NEW L, NEW x, BandOnLine(b, dir, L, x),
         NEW p, AtPose(p), NEW r \in Int, NEW n3 \in Int, NEW d \in Nat \ {0},
         NEW n1, n1 = r * Dot(Heading(p), dir), NEW n2, n2 = r * Cross(Heading(p), dir),
         \E i \in 1 .. Len(b.dts) : Magnitude(r) * b.dts[i] <= LengthStep(x, Len(b.dts))[i] * d,
         \E i \in 1 .. Len(b.dts) : Magnitude(n3) * b.dts[i] <= TurnSteps(b)[i] * d
  PROVE  SlowerThanAStep(<<<<n1, d>>, <<n2, d>>, <<n3, d>>>>, b)
<1> DEFINE u == Dot(Heading(p), dir)
           v == Cross(Heading(p), dir)
           W == Magnitude(r)
<1>1. L \in Nat /\ dir \in Int \X Int /\ L * L = SqNorm(dir)
  BY DEF BandOnLine
<1>2. u \in Int /\ v \in Int /\ u * u + v * v = L * L
  BY <1>1, TurnedLength
<1>3. W \in Nat /\ W * W = r * r
  BY DEF Magnitude
<1> HIDE DEF u, v, W
<1>4. n1 = r * u /\ n2 = r * v
  BY DEF u, v
<1>5. n1 \in Int /\ n2 \in Int /\ n1 * n1 + n2 * n2 <= (W * L) * (W * L)
  <2>1. n1 \in Int /\ n2 \in Int
    BY <1>2, <1>4
  <2>2. (r * u) * (r * u) + (r * v) * (r * v) = (r * r) * (u * u + v * v)
    BY <1>2
  <2>3. (W * L) * (W * L) = (W * W) * (L * L)
    BY <1>1, <1>3
  <2>4. (W * L) * (W * L) \in Int
    BY <1>1, <1>3
  <2>5. n1 * n1 + n2 * n2 = (r * r) * (L * L)
    BY <1>2, <1>4, <2>2
  <2>6. n1 * n1 + n2 * n2 = (W * L) * (W * L)
    BY <1>3, <2>3, <2>5
  <2>7. \A e \in Int : e <= e
    OBVIOUS
  <2>8. QED
    BY <2>1, <2>4, <2>6, <2>7
<1>6. /\ \E i \in 1 .. Len(b.dts) : W * b.dts[i] <= LengthStep(x, Len(b.dts))[i] * d
  BY DEF W
<1>7. QED
  BY <1>3, <1>5, <1>6, SlowerByMeans

(* getVelocityCommandMyj() is slower than some step of the band, and       *)
(* divides by no zero. *)
LEMMA TargetFollows ==
  ASSUME NEW b, NEW dir, NEW L, NEW x, BandOnLine(b, dir, L, x), Len(b.dts) >= 1,
         NEW target \in Nat \ {0}
  PROVE  FollowsTarget(b, target)
<1> DEFINE n == Len(b.dts)
           home == b.poses[1]
           A == LengthTo(x, n)
           l == LengthStep(x, n)
           T == Times3(b)
           B == TurnTo(b)
           m == TurnSteps(b)
<1>0. /\ n \in Nat /\ n >= 1 /\ b.dts \in Seq(Nat) /\ Len(b.poses) = n + 1 /\ Size(b) # 0
      /\ dir \in Int \X Int /\ L \in Nat /\ L * L = SqNorm(dir)
      /\ \A i \in 1 .. n + 1 : x[i] \in Int
  BY DEF BandOnLine, Size
<1>1. Ways(n, A, l, T, b.dts) /\ Ways(n, B, m, T, b.dts)
  BY BandWays
<1>2. \A i \in 1 .. n + 1, j \in 1 .. n + 1 : Onward(b.poses[i], b.poses[j], x[j] - x[i], dir, L)
  BY <1>0, AlongLine
<1>3. \A i \in 1 .. n + 1, j \in 1 .. n + 1 :
        /\ AtPose(b.poses[i]) /\ AtPose(b.poses[j]) /\ x[j] - x[i] \in Int
        /\ Ahead(b.poses[i], b.poses[j]) = (x[j] - x[i]) * Dot(Heading(b.poses[i]), dir)
        /\ Beside(b.poses[i], b.poses[j]) = (x[j] - x[i]) * Cross(Heading(b.poses[i]), dir)
        /\ Turn(b.poses[i], b.poses[j]) \in -1 .. 2
  <2> SUFFICES ASSUME NEW i \in 1 .. n + 1, NEW j \in 1 .. n + 1
               PROVE  /\ AtPose(b.poses[i]) /\ AtPose(b.poses[j]) /\ x[j] - x[i] \in Int
        /\ Ahead(b.poses[i], b.poses[j]) = (x[j] - x[i]) * Dot(Heading(b.poses[i]), dir)
        /\ Beside(b.poses[i], b.poses[j]) = (x[j] - x[i]) * Cross(Heading(b.poses[i]), dir)
        /\ Turn(b.poses[i], b.poses[j]) \in -1 .. 2
    OBVIOUS
  <2>1. Onward(b.poses[i], b.poses[j], x[j] - x[i], dir, L)
    BY <1>2
  <2>2. AtPose(b.poses[i]) /\ AtPose(b.poses[j])
    BY <2>1 DEF Onward
  <2>3. Turn(b.poses[i], b.poses[j]) \in -1 .. 2
    BY <2>2, TurnTriangle DEF AtPose
  <2>4. x[j] - x[i] \in Int
    BY <1>0
  <2>5. QED
    BY <2>1, <2>2, <2>3, <2>4 DEF Onward
<1>4. 1 \in 1 .. n + 1 /\ n + 1 \in 1 .. n + 1 /\ n \in 1 .. n /\ n \in 0 .. n
  BY <1>0
<1> DEFINE u == Dot(Heading(home), dir)
           v == Cross(Heading(home), dir)
<1>5. u \in Int /\ v \in Int /\ AtPose(home)
  BY <1>0, <1>3, <1>4, TurnedLength
<1>6. CASE GetDtPose(b, target)
              = [pose |-> b.poses[n + 1], next |-> b.poses[n + 1], ratio |-> Q(0), dt |-> TimeTo(b, n)]
  <2> DEFINE p == b.poses[n + 1]
             d == [pose |-> p, next |-> p, ratio |-> Q(0), dt |-> TimeTo(b, n)]
  <2>1. T[n] = TimeTo(b, n) /\ T[n] \in Nat
    BY <1>0, <1>1, <1>4 DEF Times3, Ways
  <2>2. CASE TimeTo(b, n) = 0
    <3>1. TwistTo(home, d) = Stop
      <4>1. d.dt <= 0
        BY <2>2
      <4> HIDE DEF d
      <4>2. QED
        BY <4>1 DEF TwistTo
    <3>2. QED
      BY <1>0, <1>6, <3>1, StopIsNoQuotient, TargetFollowsFrom
  <2>3. CASE TimeTo(b, n) # 0
    <3> DEFINE t == TimeTo(b, n)
               r == x[n + 1] - x[1]
               f == Ahead(home, p)
               k == Beside(home, p)
    <3>1. t \in Nat \ {0} /\ t = T[n]
      BY <2>1, <2>3
    <3>2. r \in Int /\ f = r * u /\ k = r * v /\ f \in Int /\ k \in Int
      <4>1. r \in Int /\ f = r * u /\ k = r * v
        BY <1>3, <1>4
      <4> HIDE DEF r, f, k, u, v
      <4>2. QED
        BY <1>5, <4>1
    <3>3. Turn(home, p) \in -1 .. 2 /\ Turn(p, p) \in -1 .. 2
      BY <1>3, <1>4
    <3>4. Turn(p, p) = 0
      BY <1>3, <1>4, TurnTriangle DEF AtPose
    <3>5. PICK w \in Int :
           /\ TwistTo(home, [pose |-> p, next |-> p, ratio |-> <<0, 1>>, dt |-> t])
                = <<<<f * 1 + 0 * (f - f), 1 * t>>, <<k * 1 + 0 * (k - k), 1 * t>>, <<w, 1 * t>>>>
           /\ Magnitude(w) <= 1 * Magnitude(Turn(home, p)) + 0 * Magnitude(Turn(p, p))
      <4>1. 1 \in Nat \ {0} /\ 0 \in 0 .. 1
        OBVIOUS
      <4> HIDE DEF t, p, home
      <4>2. f \in Int /\ k \in Int
        BY <3>2
      <4>3. QED
        BY <3>1, <3>3, <4>1, <4>2, TwistIs
    <3>6. f * 1 + 0 * (f - f) = r * u /\ k * 1 + 0 * (k - k) = r * v /\ 1 * t = t
      <4> HIDE DEF f, k, r, u, v, t
      <4>1. f * 1 + 0 * (f - f) = f /\ k * 1 + 0 * (k - k) = k /\ 1 * t = t
        BY <3>1, <3>2
      <4>2. QED
        BY <3>2, <4>1
    <3>7. Q(0) = <<0, 1>>
      BY DEF Q
    <3>8. TwistTo(home, d) = <<<<r * u, t>>, <<r * v, t>>, <<w, t>>>>
      BY <3>5, <3>6, <3>7
    <3>9. \E i \in 1 .. n : Magnitude(r) * b.dts[i] <= l[i] * t
      <4>1. A[n] = Magnitude(r)
        BY <1>4 DEF LengthTo
      <4>2. \E i \in 1 .. n : A[n] * b.dts[i] <= l[i] * T[n]
        <5> HIDE DEF A, l, T, n
        <5>1. QED
          BY <1>0, <1>1, <1>4, MeanOfSteps
      <4>3. QED
        BY <3>1, <4>1, <4>2
    <3>10. \E i \in 1 .. n : Magnitude(w) * b.dts[i] <= m[i] * t
      <4>1. B[n] = Magnitude(Turn(home, p))
        BY <1>4 DEF TurnTo
      <4>2. PICK i \in 1 .. n : B[n] * b.dts[i] <= m[i] * T[n]
        <5> HIDE DEF B, m, T, n
        <5>1. QED
          BY <1>0, <1>1, <1>4, MeanOfSteps
      <4>3. b.dts[i] \in Nat /\ m[i] \in Nat /\ B[n] \in Nat
        BY <1>1, <1>4 DEF Ways
      <4>4. Magnitude(w) \in Nat /\ Magnitude(w) <= B[n]
        <5>1. Magnitude(w) \in Nat /\ Magnitude(Turn(home, p)) \in Nat /\ Magnitude(Turn(p, p)) = 0
          BY <3>3, <3>4 DEF Magnitude
        <5>2. QED
          BY <3>5, <4>1, <5>1
      <4> DEFINE y == Magnitude(w)
                 z == B[n]
                 e == b.dts[i]
                 g == m[i]
      <4> HIDE DEF y, z, e, g, t
      <4>5. y * e <= z * e
        BY <4>3, <4>4 DEF y, z, e
      <4>6. z * e <= g * t /\ z * e \in Int /\ y * e \in Int /\ g * t \in Int
        BY <3>1, <4>2, <4>3, <4>4 DEF y, z, e, g
      <4>7. y * e <= g * t
        BY <4>5, <4>6
      <4>8. QED
        BY <4>7 DEF y, e, g
    <3>11. SlowerThanAStep(<<<<r * u, t>>, <<r * v, t>>, <<w, t>>>>, b)
      <4> HIDE DEF r, t, l, m, home
      <4>1. r \in Int /\ t \in Nat \ {0} /\ AtPose(home)
        BY <1>5, <3>1, <3>2
      <4>2. QED
        BY <3>9, <3>10, <4>1, TurnedTwist DEF l, m
    <3> DEFINE z == <<<<r * u, t>>, <<r * v, t>>, <<w, t>>>>
    <3>12. \A i \in 1 .. 3 : z[i][2] > 0
      <4> HIDE DEF r, t, u, v
      <4>1. QED
        BY <3>1
    <3> HIDE DEF z
    <3>13. QED
      BY <1>0, <1>6, <3>8, <3>11, <3>12, TargetFollowsFrom DEF z
  <2>4. QED
    BY <2>2, <2>3
<1>7. ASSUME NEW i \in 1 .. n, ReachedIn(b, target, i) PROVE FollowsTarget(b, target)
  <2> DEFINE p == b.poses[i]
             q == b.poses[i + 1]
             s == target - TimeTo(b, i - 1)
             t == b.dts[i]
             X == x[i] - x[1]
             Y == x[i + 1] - x[1]
             a == x[i + 1] - x[i]
             r == X * t + s * a
             f == Ahead(home, p)
             f2 == Ahead(home, q)
             k == Beside(home, p)
             k2 == Beside(home, q)
             D == t * target
  <2>1. i \in 1 .. n + 1 /\ i + 1 \in 1 .. n + 1 /\ i - 1 \in 0 .. n /\ (i - 1) + 1 = i
    BY <1>0
  <2>2. s \in 1 .. t /\ GetDtPose(b, target) = [pose |-> p, next |-> q, ratio |-> <<s, t>>, dt |-> target]
    BY <1>7 DEF ReachedIn
  <2>3. t \in Nat \ {0} /\ s \in 0 .. t /\ s \in Int
    <3>1. t \in Nat
      BY <1>0, ElementOfSeq
    <3>2. QED
      BY <2>2, <3>1
  <2>4. T[i - 1] + s = target /\ T[i - 1] \in Nat
    <3>1. T[i - 1] = TimeTo(b, i - 1) /\ T[i - 1] \in Nat
      BY <1>1, <2>1 DEF Times3, Ways
    <3>2. QED
      BY <3>1
  <2>5. X \in Int /\ Y \in Int /\ a \in Int /\ Y - X = a
    <3>1. x[1] \in Int /\ x[i] \in Int /\ x[i + 1] \in Int
      BY <1>0, <1>4, <2>1
    <3>2. QED
      BY <3>1
  <2>6. f = X * u /\ f2 = Y * u /\ k = X * v /\ k2 = Y * v /\ Turn(home, p) \in -1 .. 2 /\ Turn(p, q) \in -1 .. 2
    BY <1>3, <1>4, <2>1
  <2>7. f \in Int /\ f2 \in Int /\ k \in Int /\ k2 \in Int
    <3> HIDE DEF f, f2, k, k2, X, Y, u, v
    <3>1. QED
      BY <1>5, <2>5, <2>6
  <2>8. PICK w \in Int :
           /\ TwistTo(home, [pose |-> p, next |-> q, ratio |-> <<s, t>>, dt |-> target])
                = <<<<f * t + s * (f2 - f), t * target>>, <<k * t + s * (k2 - k), t * target>>, <<w, t * target>>>>
           /\ Magnitude(w) <= t * Magnitude(Turn(home, p)) + s * Magnitude(Turn(p, q))
    <3> HIDE DEF home, p, q, s, t
    <3>1. QED
      BY <2>3, <2>6, <2>7, TwistIs
  <2>9. r \in Int /\ f * t + s * (f2 - f) = r * u /\ k * t + s * (k2 - k) = r * v
    <3> HIDE DEF f, f2, k, k2, X, Y, u, v, a, s, t
    <3>1. r \in Int
      BY <2>3, <2>5
    <3>2. (X * u) * t + s * (Y * u - X * u) = (X * t + s * (Y - X)) * u
      BY <1>5, <2>3, <2>5
    <3>3. (X * v) * t + s * (Y * v - X * v) = (X * t + s * (Y - X)) * v
      BY <1>5, <2>3, <2>5
    <3>4. QED
      BY <2>5, <2>6, <3>1, <3>2, <3>3
  <2>10. Magnitude(r) \in Nat /\ Magnitude(r) <= t * A[i - 1] + s * l[i]
    <3>1. A[i - 1] = Magnitude(X) /\ l[i] = Magnitude(a)
      BY <2>1 DEF LengthTo, LengthStep
    <3> HIDE DEF X, a, s, t, A, l
    <3> DEFINE c == X * t
               e == s * a
               g == t * Magnitude(X)
               h == s * Magnitude(a)
    <3>2. (c = g \/ c = -g) /\ (e = h \/ e = -h) /\ g \in Nat /\ h \in Nat
      BY <2>3, <2>5 DEF Magnitude
    <3>3. r = c + e
      OBVIOUS
    <3> HIDE DEF c, e, g, h, r
    <3>4. Magnitude(r) \in Nat /\ Magnitude(r) <= g + h
      BY <3>2, <3>3 DEF Magnitude
    <3>5. QED
      BY <3>1, <3>4 DEF g, h
  <2>11. Magnitude(w) \in Nat /\ Magnitude(w) <= t * B[i - 1] + s * m[i]
    <3>1. B[i - 1] = Magnitude(Turn(home, p))
      BY <2>1 DEF TurnTo
    <3>2. m[i] = Magnitude(Turn(p, q))
      BY <2>6 DEF TurnSteps, TurnStep, AbsQ, NegQ, Q, Magnitude
    <3>3. Magnitude(w) \in Nat
      BY DEF Magnitude
    <3>4. QED
      BY <2>8, <3>1, <3>2, <3>3
  <2>12. D \in Nat \ {0}
    BY <2>3
  <2>13. \E j \in 1 .. n : Magnitude(r) * b.dts[j] <= l[j] * D
    <3> DEFINE W == Magnitude(r)
    <3>1. W \in Nat /\ s \in 0 .. b.dts[i] /\ W <= b.dts[i] * A[i - 1] + s * l[i]
      BY <2>3, <2>10
    <3> HIDE DEF W, s, A, l, T, n
    <3>2. \E j \in 1 .. i : W * b.dts[j] <= l[j] * (b.dts[i] * (T[i - 1] + s))
      BY <1>0, <1>1, <3>1, MeanOfLook
    <3>3. \A j \in 1 .. i : j \in 1 .. n
      BY <1>0
    <3>4. QED
      BY <2>4, <3>2, <3>3 DEF W
  <2>14. \E j \in 1 .. n : Magnitude(w) * b.dts[j] <= m[j] * D
    <3> DEFINE W == Magnitude(w)
    <3>1. W \in Nat /\ s \in 0 .. b.dts[i] /\ W <= b.dts[i] * B[i - 1] + s * m[i]
      BY <2>3, <2>11
    <3> HIDE DEF W, s, B, m, T, n
    <3>2. \E j \in 1 .. i : W * b.dts[j] <= m[j] * (b.dts[i] * (T[i - 1] + s))
      BY <1>0, <1>1, <3>1, MeanOfLook
    <3>3. \A j \in 1 .. i : j \in 1 .. n
      BY <1>0
    <3>4. QED
      BY <2>4, <3>2, <3>3 DEF W
  <2>15. SlowerThanAStep(<<<<r * u, D>>, <<r * v, D>>, <<w, D>>>>, b)
    <3> HIDE DEF r, D, l, m, home
    <3>1. r \in Int /\ D \in Nat \ {0} /\ AtPose(home)
      BY <1>5, <2>9, <2>12
    <3>2. QED
      BY <2>13, <2>14, <3>1, TurnedTwist DEF l, m
  <2> DEFINE z == <<<<r * u, D>>, <<r * v, D>>, <<w, D>>>>
  <2>16. \A j \in 1 .. 3 : z[j][2] > 0
    <3> HIDE DEF r, D, u, v
    <3>1. QED
      BY <2>12
  <2>17. TwistTo(home, GetDtPose(b, target)) = z
    BY <2>2, <2>8, <2>9
  <2> HIDE DEF z
  <2>18. QED
    BY <1>0, <2>15, <2>16, <2>17, TargetFollowsFrom DEF z
<1>8. QED
  BY <1>0, <1>6, <1>7, DtPoseIs

(* The place reached after i steps, driven with the velocities profile for  *)
(* the times of full, each turned from the frame of its pose. *)
TurnedBack(v, h) == <<SubQ(MulQ(v[1], Q(h[1])), MulQ(v[2], Q(h[2]))),
                      AddQ(MulQ(v[1], Q(h[2])), MulQ(v[2], Q(h[1])))>>

DrivenStep(b, profile, full, i, from) ==
  LET w == TurnedBack(profile[i + 1], Heading(b.poses[i]))
  IN [k \in 1 .. 2 |-> AddQ(from[k], MulQ(w[k], Q(full[i + 1].time - full[i].time)))]

Driven(b, profile, full) ==
  LET n == Size(b)
      driven[i \in 0 .. n - 1] ==
        IF i = 0 THEN <<Q(b.poses[1].at[1]), Q(b.poses[1].at[2])>>
        ELSE DrivenStep(b, profile, full, i, driven[i - 1])
  IN driven

(* What holds of a band follows of the input's. *)
LeadsToGoal(b) ==
  LET n == Size(b)
      profile == GetVelocityProfile(b, Stop, Stop, TRUE)
      full    == GetFullTrajectory(b, Stop, Stop, TRUE)
      driven  == Driven(b, profile, full)
  IN /\ \A i \in 1 .. n, k \in 1 .. 2 : SameQ(driven[i - 1][k], Q(full[i].pose.at[k]))
     /\ \A i \in 2 .. n - 1, k \in 1 .. 3 :
          SameQ(Times2(2, full[i].velocity[k]), AddQ(profile[i][k], profile[i + 1][k]))

(* The same, of the input.                                                 *)
LEMMA LeadsProperty ==
  ASSUME input.kind = "band", Len(input.poses) >= 2, \A i \in DOMAIN input.dts : input.dts[i] > 0,
         LeadsToGoal([poses |-> input.poses, dts |-> input.dts])
  PROVE  TrajectoryLeadsToGoal
  BY Zenon DEF TrajectoryLeadsToGoal, LeadsToGoal, Driven, DrivenStep, TurnedBack

FollowsBand(b) ==
  /\ \A look \in 1 .. 3, holonomic \in BOOLEAN : FollowsLook(b, look, holonomic)
  /\ \A target \in {1, 2, 4} : FollowsTarget(b, target)

(* The same, of the input.                                                 *)
LEMMA FollowsProperty ==
  FollowsBand([poses |-> input.poses, dts |-> input.dts]) => CommandsFollowBand
  BY Zenon DEF CommandsFollowBand, FollowsBand, FollowsLook, FollowsTarget

DrivenSteps(b, profile, full, st) ==
  /\ st[0] = <<Q(b.poses[1].at[1]), Q(b.poses[1].at[2])>>
  /\ \A i \in 1 .. Size(b) - 1 : st[i] = DrivenStep(b, profile, full, i, st[i - 1])

(* There is such a sequence of places. *)
LEMMA DrivenOneByOne ==
  ASSUME NEW b, NEW profile, NEW full, NEW last \in Nat, last = Size(b) - 1
  PROVE  DrivenSteps(b, profile, full, Driven(b, profile, full))
<1> DEFINE S0 == <<Q(b.poses[1].at[1]), Q(b.poses[1].at[2])>>
           Def(g, i) == IF i = 0 THEN S0 ELSE DrivenStep(b, profile, full, i, g[i - 1])
           Rec(g, m) == g = [i \in 0 .. m |-> Def(g, i)]
           N == {m \in Nat : \E g : Rec(g, m)}
<1>1. \A m \in Nat : m \in N
  <2>1. 0 \in N
    <3>1. Rec([i \in 0 .. 0 |-> S0], 0)
      OBVIOUS
    <3>2. QED
      BY <3>1
  <2>2. ASSUME NEW m \in Nat, m \in N PROVE m + 1 \in N
    <3>1. PICK g : Rec(g, m)
      BY <2>2
    <3> DEFINE h == [i \in 0 .. m + 1 |->
                       IF i = m + 1 THEN DrivenStep(b, profile, full, m + 1, g[m]) ELSE g[i]]
    <3>2. ASSUME NEW i \in 0 .. m + 1 PROVE h[i] = Def(h, i)
      <4>1. CASE i = m + 1
        <5>1. i # 0 /\ h[i - 1] = g[m] /\ h[i] = DrivenStep(b, profile, full, i, g[m])
          BY <4>1
        <5> HIDE DEF h
        <5>2. QED
          BY <5>1
      <4>2. CASE i # m + 1
        <5>1. i \in 0 .. m /\ g[i] = Def(g, i)
          <6>1. i \in 0 .. m
            BY <4>2
          <6> HIDE DEF Def, h
          <6>2. g[i] = Def(g, i)
            BY <3>1, <6>1
          <6>3. QED
            BY <6>1, <6>2
        <5>2. h[i] = g[i] /\ (i # 0 => h[i - 1] = g[i - 1])
          BY <4>2, <5>1
        <5> HIDE DEF h
        <5>3. QED
          BY <5>1, <5>2
      <4>3. QED
        BY <4>1, <4>2
    <3>3. h = [i \in 0 .. m + 1 |-> h[i]]
      OBVIOUS
    <3> HIDE DEF h, Def
    <3>4. Rec(h, m + 1)
      BY <3>2, <3>3
    <3>5. QED
      BY <3>4
  <2> HIDE DEF N
  <2>3. QED
    BY <2>1, <2>2, NatSetInduction
<1> DEFINE st == CHOOSE g : Rec(g, Size(b) - 1)
<1>2. Rec(st, Size(b) - 1)
  <2>1. \E g : Rec(g, Size(b) - 1)
    BY <1>1
  <2> HIDE DEF Def
  <2>2. QED
    BY <2>1
<1>3. Driven(b, profile, full) = st
  BY Zenon DEF Driven
<1> HIDE DEF st
<1>4. DrivenSteps(b, profile, full, st)
  <2>1. st[0] = S0
    BY <1>2
  <2>2. ASSUME NEW i \in 1 .. Size(b) - 1 PROVE st[i] = DrivenStep(b, profile, full, i, st[i - 1])
    <3>1. i \in 0 .. Size(b) - 1 /\ i # 0
      OBVIOUS
    <3>2. st[i] = Def(st, i)
      <4> HIDE DEF Def
      <4>1. QED
        BY <1>2, <3>1
    <3>3. QED
      BY <3>1, <3>2
  <2>3. QED
    BY <2>1, <2>2 DEF DrivenSteps
<1>5. QED
  BY <1>3, <1>4

(* The displacement from one pose to another. *)
LEMMA PlacesApart ==
  ASSUME NEW p, NEW q, AtPose(p), AtPose(q)
  PROVE  /\ Minus(q.at, p.at) \in Int \X Int
         /\ p.at[1] \in Int /\ p.at[2] \in Int
         /\ p.at[1] + Minus(q.at, p.at)[1] = q.at[1]
         /\ p.at[2] + Minus(q.at, p.at)[2] = q.at[2]
<1> DEFINE a == p.at
           c == q.at
<1>1. a \in Int \X Int /\ c \in Int \X Int
  BY DEF AtPose
<1> HIDE DEF a, c
<1>2. a[1] \in Int /\ a[2] \in Int /\ c[1] \in Int /\ c[2] \in Int
  BY <1>1
<1>3. Minus(c, a) = <<c[1] - a[1], c[2] - a[2]>>
  BY DEF Minus
<1>4. Minus(c, a) \in Int \X Int /\ a[1] + Minus(c, a)[1] = c[1] /\ a[2] + Minus(c, a)[2] = c[2]
  BY <1>2, <1>3
<1>5. QED
  BY <1>2, <1>4 DEF a, c

(* The displacement e in the time dt, as a velocity. *)
TurnsTo(v, h, e, dt) == TurnedBack(v, h) = <<<<e[1] * dt, dt * dt>>, <<e[2] * dt, dt * dt>>>>

(* A displacement turned to the frame of a heading and back. *)
LEMMA TurnedBackIs ==
  ASSUME NEW h \in {<<1, 0>>, <<0, 1>>, <<-1, 0>>, <<0, -1>>}, NEW e \in Int \X Int,
         NEW dt \in Nat \ {0}, NEW r
  PROVE  TurnsTo(<<<<Dot(h, e), dt>>, <<Cross(h, e), dt>>, r>>, h, e, dt)
<1> DEFINE v == <<<<Dot(h, e), dt>>, <<Cross(h, e), dt>>, r>>
<1> DEFINE f == Dot(h, e)
           g == Cross(h, e)
           w == TurnedBack(<<<<f, dt>>, <<g, dt>>, r>>, h)
<1>1. h[1] \in Int /\ h[2] \in Int /\ e[1] \in Int /\ e[2] \in Int
  OBVIOUS
<1>2. f \in Int /\ g \in Int /\ f * h[1] - g * h[2] = e[1] /\ f * h[2] + g * h[1] = e[2]
  BY DEF Dot, Cross
<1> HIDE DEF f, g
<1> DEFINE h1 == h[1]
           h2 == h[2]
<1>3. /\ w[1] = <<(f * h1) * (dt * 1) + (-(g * h2)) * (dt * 1), (dt * 1) * (dt * 1)>>
      /\ w[2] = <<(f * h2) * (dt * 1) + (g * h1) * (dt * 1), (dt * 1) * (dt * 1)>>
  BY DEF TurnedBack, SubQ, AddQ, MulQ, NegQ, Q
<1> HIDE DEF h1, h2, w
<1>4. /\ (f * h1) * (dt * 1) + (-(g * h2)) * (dt * 1) = (f * h1 - g * h2) * dt
      /\ (f * h2) * (dt * 1) + (g * h1) * (dt * 1) = (f * h2 + g * h1) * dt
      /\ (dt * 1) * (dt * 1) = dt * dt
  <2>1. h1 \in Int /\ h2 \in Int
    BY <1>1 DEF h1, h2
  <2>2. QED
    BY <1>2, <2>1
<1>5. f * h1 - g * h2 = e[1] /\ f * h2 + g * h1 = e[2]
  BY <1>2 DEF h1, h2
<1>6. w[1] = <<e[1] * dt, dt * dt>> /\ w[2] = <<e[2] * dt, dt * dt>>
  BY <1>3, <1>4, <1>5
<1>8. v = <<<<f, dt>>, <<g, dt>>, r>>
  BY DEF f, g
<1> HIDE DEF v
<1>9. TurnedBack(v, h) = <<TurnedBack(v, h)[1], TurnedBack(v, h)[2]>>
  BY DEF TurnedBack
<1>7. QED
  BY <1>6, <1>8, <1>9, Zenon DEF w, v, TurnsTo

(* The places of two vertices, and a step between them that takes its time. *)
LEMMA StepDriven ==
  ASSUME NEW q \in Rational, NEW a \in Int, NEW e \in Int, NEW dt \in Nat \ {0}, SameQ(q, Q(a)),
         NEW r, r = AddQ(q, MulQ(<<e * dt, dt * dt>>, Q(dt)))
  PROVE  r \in Rational /\ SameQ(r, Q(a + e))
<1> DEFINE n == q[1]
           d == q[2]
           k == dt * dt
<1>1. n \in Int /\ d \in Nat \ {0} /\ k \in Nat \ {0} /\ n * 1 = a * d
  BY DEF Rational, SameQ, Q
<1>2. r = <<n * (k * 1) + ((e * dt) * dt) * d, d * (k * 1)>>
  BY DEF AddQ, MulQ, Q
<1>3. (e * dt) * dt = e * k
  OBVIOUS
<1> HIDE DEF n, d, k
<1>4. n * (k * 1) + (e * k) * d = (a + e) * (d * k) /\ d * (k * 1) = d * k
  <2>1. n = a * d
    BY <1>1
  <2>2. (a * d) * (k * 1) + (e * k) * d = (a + e) * (d * k) /\ d * (k * 1) = d * k
    BY <1>1
  <2>3. QED
    BY <2>1, <2>2
<1> DEFINE D == d * k
<1>5. D \in Nat \ {0}
  BY <1>1
<1> HIDE DEF D
<1>6. r = <<(a + e) * D, D>>
  BY <1>2, <1>3, <1>4 DEF D
<1>7. (a + e) * D \in Int
  BY <1>5
<1>8. SameQ(<<(a + e) * D, D>>, Q(a + e)) <=> ((a + e) * D) * 1 = (a + e) * D
  BY DEF SameQ, Q
<1>9. QED
  BY <1>5, <1>6, <1>7, <1>8 DEF Rational

(* Twice the mean of two velocities is their sum. *)
LEMMA TwiceMean ==
  ASSUME NEW q \in Int \X Int, NEW r \in Int \X Int
  PROVE  SameQ(Times2(2, MulQ(<<1, 2>>, AddQ(q, r))), AddQ(q, r))
<1> DEFINE s == AddQ(q, r)
           n == s[1]
           d == s[2]
<1>1. n \in Int /\ d \in Int
  BY DEF AddQ
<1> HIDE DEF s
<1>2. SameQ(Times2(2, MulQ(<<1, 2>>, s)), s) <=> (2 * (1 * n)) * d = n * (1 * (2 * d))
  BY DEF SameQ, Times2, MulQ, Q
<1> HIDE DEF n, d
<1>3. (2 * (1 * n)) * d = n * (1 * (2 * d))
  BY <1>1
<1>4. QED
  BY <1>2, <1>3 DEF s

(* The velocities of the profile lead from the first pose to each of the   *)
(* others in the times of the full trajectory, which has their means.      *)
LEMMA BandLeads ==
  ASSUME NEW b, NEW dir, NEW L, NEW x, BandOnLine(b, dir, L, x), Len(b.dts) >= 1,
         \A i \in 1 .. Len(b.dts) : b.dts[i] > 0
  PROVE  LeadsToGoal(b)
<1> DEFINE m == Len(b.dts)
           n == Size(b)
           profile == GetVelocityProfile(b, Stop, Stop, TRUE)
           full    == GetFullTrajectory(b, Stop, Stop, TRUE)
           driven  == Driven(b, profile, full)
           Leg(i)  == ExtractVelocity(b.poses[i], b.poses[i + 1], b.dts[i], TRUE)
<1>0. m \in Nat /\ m >= 1 /\ n = m + 1 /\ b.dts \in Seq(Nat) /\ Len(b.poses) = m + 1
  BY DEF BandOnLine, Size
<1>1. \A i \in 1 .. m : b.dts[i] \in Nat \ {0}
  BY <1>0, ElementOfSeq
<1>2. \A i \in 1 .. n : AtPose(b.poses[i])
  <2> SUFFICES ASSUME NEW i \in 1 .. n PROVE AtPose(b.poses[i])
    OBVIOUS
  <2>1. i \in 1 .. Len(b.poses)
    BY <1>0
  <2>2. Onward(b.poses[i], b.poses[i], x[i] - x[i], dir, L)
    BY <2>1, AlongLine
  <2>3. QED
    BY <2>2 DEF Onward
<1>3. ASSUME NEW i \in 1 .. m
      PROVE  /\ Leg(i) = HolonomicTwist(b.poses[i], b.poses[i + 1], b.dts[i])
             /\ \A k \in 1 .. 3 : Leg(i)[k] \in Int \X Int
  <2>1. Leg(i) = HolonomicTwist(b.poses[i], b.poses[i + 1], b.dts[i])
    BY <1>1 DEF ExtractVelocity
  <2>2. i \in 1 .. n /\ i + 1 \in 1 .. n
    BY <1>0
  <2>3. AtPose(b.poses[i]) /\ AtPose(b.poses[i + 1])
    BY <1>2, <2>2
  <2> DEFINE p == b.poses[i]
             q == b.poses[i + 1]
             dt == b.dts[i]
  <2>4. Ahead(p, q) \in Int /\ Beside(p, q) \in Int
    <3>1. Minus(q.at, p.at) \in Int \X Int
      BY <2>3, PlacesApart
    <3>2. Heading(p) \in {<<1, 0>>, <<0, 1>>, <<-1, 0>>, <<0, -1>>}
      BY <2>3, HeadingIsUnit
    <3>3. QED
      BY <3>1, <3>2 DEF Ahead, Beside, Dot, Cross
  <2>5. Turn(p, q) \in Int
    <3>1. Turn(p, q) \in -1 .. 2
      BY <2>3, TurnTriangle DEF AtPose
    <3>2. QED
      BY <3>1
  <2>6. dt \in Int
    BY <1>1
  <2> DEFINE u == Ahead(p, q)
             v == Beside(p, q)
             w == Turn(p, q)
  <2>7. Leg(i) = <<<<u, dt>>, <<v, dt>>, <<w, dt>>>>
    BY <2>1, Zenon DEF HolonomicTwist
  <2> HIDE DEF u, v, w, dt, Leg
  <2>8. \A k \in 1 .. 3 : Leg(i)[k] \in Int \X Int
    <3>1. u \in Int /\ v \in Int /\ w \in Int
      BY <2>4, <2>5 DEF u, v, w
    <3>2. QED
      BY <2>6, <2>7, <3>1
  <2>9. QED
    BY <2>1, <2>8
<1>4. ASSUME NEW i \in 1 .. m PROVE profile[i + 1] = Leg(i)
  <2>1. i + 1 \in 1 .. Size(b) + 1 /\ i + 1 # 1 /\ i + 1 # Size(b) + 1 /\ (i + 1) - 1 = i
    BY <1>0
  <2>2. profile[i + 1] = ExtractVelocity(b.poses[(i + 1) - 1], b.poses[i + 1], b.dts[(i + 1) - 1], TRUE)
    BY <2>1 DEF GetVelocityProfile
  <2>3. QED
    BY <2>1, <2>2
<1>5. ASSUME NEW i \in 1 .. n
      PROVE  /\ full[i].pose = b.poses[i] /\ full[i].time = TimeTo(b, i - 1)
             /\ i # 1 /\ i # n => full[i].velocity = [j \in 1 .. 3 |-> MulQ(<<1, 2>>, AddQ(Leg(i - 1)[j], Leg(i)[j]))]
  <2>1. full[i] = [pose |-> b.poses[i], time |-> TimeTo(b, i - 1),
                   velocity |-> IF i = 1 THEN Stop ELSE IF i = Size(b) THEN Stop
                      ELSE [j \in 1 .. 3 |-> MulQ(<<1, 2>>, AddQ(Leg(i - 1)[j], Leg(i)[j]))]]
    BY DEF GetFullTrajectory
  <2> HIDE DEF full, Leg
  <2>2. QED
    BY <2>1
<1>6. DrivenSteps(b, profile, full, driven)
  <2>1. m = Size(b) - 1
    BY <1>0
  <2> HIDE DEF m, profile, full
  <2>2. QED
    BY <1>0, <2>1, DrivenOneByOne
<1> DEFINE At(i) == \A k \in 1 .. 2 : /\ driven[i][k] \in Rational
                                      /\ SameQ(driven[i][k], Q(b.poses[i + 1].at[k]))
<1>7. At(0)
  <2>1. driven[0] = <<Q(b.poses[1].at[1]), Q(b.poses[1].at[2])>>
    BY <1>6 DEF DrivenSteps
  <2>2. AtPose(b.poses[1])
    BY <1>0, <1>2
  <2>3. b.poses[1].at[1] \in Int /\ b.poses[1].at[2] \in Int
    BY <2>2 DEF AtPose
  <2>4. \A a \in Int : Q(a) \in Rational /\ SameQ(Q(a), Q(a))
    BY DEF Q, Rational, SameQ
  <2>5. /\ driven[0][1] = Q(b.poses[1].at[1]) /\ driven[0][2] = Q(b.poses[1].at[2])
    <3> HIDE DEF driven
    <3>1. QED
      BY <2>1
  <2> HIDE DEF driven
  <2>6. QED
    BY <2>3, <2>4, <2>5
<1>8. ASSUME NEW i \in 1 .. m, At(i - 1) PROVE At(i)
  <2> DEFINE p == b.poses[i]
             q == b.poses[i + 1]
             e == Minus(q.at, p.at)
             h == Heading(p)
             dt == b.dts[i]
             w == TurnedBack(profile[i + 1], h)
  <2>0. i \in 1 .. n /\ i + 1 \in 1 .. n /\ i \in 1 .. Size(b) - 1 /\ (i + 1) - 1 = i /\ (i - 1) + 1 = i
    BY <1>0
  <2>1. driven[i] = DrivenStep(b, profile, full, i, driven[i - 1])
    BY <1>6, <2>0 DEF DrivenSteps
  <2>2. full[i + 1].time - full[i].time = dt
    <3>1. full[i + 1].time = TimeTo(b, i) /\ full[i].time = TimeTo(b, i - 1)
      <4> HIDE DEF full
      <4>1. QED
        BY <1>5, <2>0
    <3>2. TimeTo(b, i) = TimeTo(b, i - 1) + dt /\ TimeTo(b, i - 1) \in Nat
      <4>1. i - 1 \in 0 .. Len(b.dts)
        BY <1>0
      <4>2. QED
        BY <1>0, <4>1, TimesAdd
    <3>3. dt \in Nat
      BY <1>1
    <3> HIDE DEF full, dt
    <3>4. QED
      BY <3>1, <3>2, <3>3
  <2>3. driven[i] = [k \in 1 .. 2 |-> AddQ(driven[i - 1][k], MulQ(w[k], Q(dt)))]
    <3> HIDE DEF driven, full, profile, dt
    <3>1. QED
      BY <2>1, <2>2 DEF DrivenStep
  <2>4. AtPose(p) /\ AtPose(q)
    BY <1>2, <2>0
  <2>5. e \in Int \X Int /\ p.at[1] \in Int /\ p.at[2] \in Int
        /\ p.at[1] + e[1] = q.at[1] /\ p.at[2] + e[2] = q.at[2]
    BY <2>4, PlacesApart
  <2>6. w[1] = <<e[1] * dt, dt * dt>> /\ w[2] = <<e[2] * dt, dt * dt>>
    <3>1. profile[i + 1] = <<<<Dot(h, e), dt>>, <<Cross(h, e), dt>>, <<Turn(p, q), dt>>>>
      <4>1. profile[i + 1] = HolonomicTwist(p, q, dt)
        BY <1>3, <1>4
      <4> HIDE DEF profile
      <4>2. QED
        BY <4>1 DEF HolonomicTwist, Ahead, Beside
    <3>2. h \in {<<1, 0>>, <<0, 1>>, <<-1, 0>>, <<0, -1>>}
      BY <2>4, HeadingIsUnit
    <3>3. dt \in Nat \ {0}
      BY <1>1
    <3> HIDE DEF profile, h, e, dt
    <3>6. e \in Int \X Int
      BY <2>5
    <3> DEFINE y == <<Turn(p, q), dt>>
    <3>7. profile[i + 1] = <<<<Dot(h, e), dt>>, <<Cross(h, e), dt>>, y>>
      BY <3>1
    <3> HIDE DEF y
    <3>8. TurnsTo(<<<<Dot(h, e), dt>>, <<Cross(h, e), dt>>, y>>, h, e, dt)
      BY <3>2, <3>3, <3>6, TurnedBackIs
    <3>4. w = <<<<e[1] * dt, dt * dt>>, <<e[2] * dt, dt * dt>>>>
      BY <3>7, <3>8, Zenon DEF TurnsTo
    <3> HIDE DEF w
    <3>5. QED
      BY <3>4
  <2>7. dt \in Nat \ {0} /\ e[1] \in Int /\ e[2] \in Int
    BY <1>1, <2>5
  <2>8. ASSUME NEW k \in 1 .. 2
        PROVE  driven[i][k] \in Rational /\ SameQ(driven[i][k], Q(q.at[k]))
    <3>1. driven[i - 1][k] \in Rational /\ SameQ(driven[i - 1][k], Q(p.at[k]))
      BY <1>8, <2>0
    <3>2. driven[i][k] = AddQ(driven[i - 1][k], MulQ(<<e[k] * dt, dt * dt>>, Q(dt)))
      <4> HIDE DEF driven, w, e, dt
      <4>1. driven[i][k] = AddQ(driven[i - 1][k], MulQ(w[k], Q(dt)))
        BY <2>3
      <4>2. w[k] = <<e[k] * dt, dt * dt>>
        BY <2>6
      <4>3. QED
        BY <4>1, <4>2
    <3>3. p.at[k] \in Int /\ e[k] \in Int /\ p.at[k] + e[k] = q.at[k]
      <4> HIDE DEF e
      <4>1. QED
        BY <2>5, <2>7
    <3> HIDE DEF driven, e, dt, p, q
    <3>4. driven[i][k] \in Rational /\ SameQ(driven[i][k], Q(p.at[k] + e[k]))
      BY <2>7, <3>1, <3>2, <3>3, StepDriven
    <3>5. QED
      BY <3>3, <3>4
  <2> HIDE DEF driven
  <2>9. QED
    BY <2>8
<1> DEFINE N == {i \in Nat : i <= m => At(i)}
<1>9. \A i \in Nat : i \in N
  <2> HIDE DEF At
  <2>1. 0 \in N
    BY <1>7
  <2>2. ASSUME NEW i \in Nat, i \in N PROVE i + 1 \in N
    <3> SUFFICES ASSUME i + 1 <= m PROVE At(i + 1)
      OBVIOUS
    <3>1. i + 1 \in 1 .. m /\ (i + 1) - 1 = i
      BY <1>0
    <3>2. At(i)
      BY <1>0, <2>2, <3>1
    <3>3. QED
      BY <1>8, <3>1, <3>2
  <2> HIDE DEF N
  <2>3. QED
    BY <2>1, <2>2, NatSetInduction
<1>10. ASSUME NEW i \in 1 .. n, NEW k \in 1 .. 2
       PROVE  SameQ(driven[i - 1][k], Q(full[i].pose.at[k]))
  <2>1. i - 1 \in Nat /\ i - 1 <= m /\ (i - 1) + 1 = i
    BY <1>0
  <2>2. At(i - 1)
    <3> HIDE DEF At
    <3>1. QED
      BY <1>9, <2>1
  <2>3. full[i].pose = b.poses[i]
    BY <1>5
  <2> HIDE DEF driven, full
  <2>4. QED
    BY <2>1, <2>2, <2>3
<1>11. ASSUME NEW i \in 2 .. n - 1, NEW k \in 1 .. 3
       PROVE  SameQ(Times2(2, full[i].velocity[k]), AddQ(profile[i][k], profile[i + 1][k]))
  <2>1. i - 1 \in 1 .. m /\ i \in 1 .. m /\ i \in 1 .. n /\ i # 1 /\ i # n /\ (i - 1) + 1 = i
    BY <1>0
  <2>2. full[i].velocity = [j \in 1 .. 3 |-> MulQ(<<1, 2>>, AddQ(Leg(i - 1)[j], Leg(i)[j]))]
    BY <1>5, <2>1
  <2>3. profile[i] = Leg(i - 1) /\ profile[i + 1] = Leg(i)
    <3>1. profile[(i - 1) + 1] = Leg(i - 1)
      BY <1>4, <2>1
    <3>2. QED
      BY <1>4, <2>1, <3>1
  <2>4. Leg(i - 1)[k] \in Int \X Int /\ Leg(i)[k] \in Int \X Int
    BY <1>3, <2>1
  <2> HIDE DEF full, profile, Leg
  <2>5. full[i].velocity[k] = MulQ(<<1, 2>>, AddQ(Leg(i - 1)[k], Leg(i)[k]))
    BY <2>2
  <2>6. QED
    BY <2>3, <2>4, <2>5, TwiceMean
<1>12. QED
  BY <1>10, <1>11, Zenon DEF LeadsToGoal

(* What is picked for the poses after the first. *)
LEMMA PosesPicked ==
  ASSUME NEW dir \in Directions, NEW n \in Nat,
         NEW k \in [1 .. n -> Steps], NEW h \in [1 .. n -> {0, 1, 2}], NEW dts \in [1 .. n -> Times]
  PROVE  /\ [i \in 1 .. n |-> [at |-> Scale(k[i], dir), quarter |-> h[i]]]
              \in [1 .. n -> [at : Int \X Int, quarter : 0 .. 3]]
         /\ k \in [1 .. n -> Int] /\ dts \in [1 .. n -> Nat]
<1>1. dir \in Int \X Int /\ Steps \subseteq Int /\ Times \subseteq Nat
  BY AlgorithmsOK
<1>2. k \in [1 .. n -> Int] /\ dts \in [1 .. n -> Nat]
  BY <1>1
<1>3. ASSUME NEW i \in 1 .. n
      PROVE  [at |-> Scale(k[i], dir), quarter |-> h[i]] \in [at : Int \X Int, quarter : 0 .. 3]
  <2>1. k[i] \in Int /\ h[i] \in 0 .. 3
    BY <1>2
  <2>2. Scale(k[i], dir) \in Int \X Int
    BY <1>1, <2>1 DEF Scale
  <2>3. QED
    BY <2>1, <2>2
<1>4. QED
  BY <1>2, <1>3

(* A picked band, and one of n steps that lies on a line. *)
PickedPoses(dir, g, n, k, h) ==
  <<Pose(0, 0, g)>> \o [i \in 1 .. n |-> [at |-> Scale(k[i], dir), quarter |-> h[i]]]

InLine(b, n) ==
  Len(b.poses) = n + 1 /\ Len(b.dts) = n /\ \E dir, L, x : BandOnLine(b, dir, L, x)

(* The band that is picked lies on a line. *)
LEMMA BandPicked ==
  ASSUME NEW dir \in Directions, NEW g \in 0 .. 3, NEW n \in Nat,
         NEW k \in [1 .. n -> Steps], NEW h \in [1 .. n -> {0, 1, 2}], NEW dts \in [1 .. n -> Times]
  PROVE  InLine([poses |-> PickedPoses(dir, g, n, k, h), dts |-> dts], n)
<1> DEFINE S == [at : Int \X Int, quarter : 0 .. 3]
           rest == [i \in 1 .. n |-> [at |-> Scale(k[i], dir), quarter |-> h[i]]]
           x == [i \in 1 .. n + 1 |-> IF i = 1 THEN 0 ELSE k[i - 1]]
           poses == PickedPoses(dir, g, n, k, h)
           b == [poses |-> poses, dts |-> dts]
<1>1. dir \in Int \X Int
  BY AlgorithmsOK
<1>2. PICK L \in Nat : L * L = SqNorm(dir)
  <2>1. \E m \in 0 .. SqNorm(dir) : m * m = SqNorm(dir)
    BY AlgorithmsOK
  <2>2. SqNorm(dir) \in Nat
    <3>1. dir[1] \in Int /\ dir[2] \in Int
      BY <1>1
    <3>2. \A y \in Int : y * y \in Nat
      OBVIOUS
    <3>3. dir[1] * dir[1] \in Nat /\ dir[2] * dir[2] \in Nat
      BY <3>1, <3>2
    <3>4. SqNorm(dir) = dir[1] * dir[1] + dir[2] * dir[2]
      BY DEF SqNorm, Dot
    <3>5. QED
      BY <3>3, <3>4
  <2>3. QED
    BY <2>1, <2>2
<1>8. rest \in [1 .. n -> S] /\ k \in [1 .. n -> Int] /\ dts \in [1 .. n -> Nat]
  BY PosesPicked
<1>3. rest \in Seq(S) /\ Len(rest) = n /\ dts \in Seq(Nat) /\ Len(dts) = n
      /\ \A i \in 1 .. n : rest[i] = [at |-> Scale(k[i], dir), quarter |-> h[i]]
  <2> HIDE DEF S
  <2>1. \A i \in 1 .. n : rest[i] = [at |-> Scale(k[i], dir), quarter |-> h[i]]
    OBVIOUS
  <2> HIDE DEF rest
  <2>2. QED
    BY <1>8, <2>1
<1>4. <<Pose(0, 0, g)>> \in Seq(S) /\ Pose(0, 0, g) = [at |-> Scale(0, dir), quarter |-> g]
  <2>1. Pose(0, 0, g) = [at |-> <<0, 0>>, quarter |-> g]
    BY DEF Pose
  <2>2. Scale(0, dir) = <<0, 0>>
    BY <1>1 DEF Scale
  <2>3. [at |-> <<0, 0>>, quarter |-> g] \in S
    OBVIOUS
  <2>4. Pose(0, 0, g) \in S /\ Pose(0, 0, g) = [at |-> Scale(0, dir), quarter |-> g]
    <3> HIDE DEF S
    <3>1. QED
      BY <2>1, <2>2, <2>3, Zenon
  <2>5. \A y \in S : <<y>> \in Seq(S)
    <3> HIDE DEF S
    <3>1. QED
      OBVIOUS
  <2> HIDE DEF S
  <2>6. QED
    BY <2>4, <2>5
<1> HIDE DEF rest
<1> DEFINE first == <<Pose(0, 0, g)>>
<1>5. poses = first \o rest
  BY DEF rest, PickedPoses
<1> HIDE DEF poses
<1>6. first \in Seq(S) /\ Len(first) = 1 /\ first[1] = [at |-> Scale(0, dir), quarter |-> g]
  <2> HIDE DEF S
  <2>1. QED
    BY <1>4
<1> HIDE DEF first, S
<1>7. /\ poses \in Seq(S) /\ Len(poses) = n + 1 /\ poses[1] = first[1]
      /\ \A i \in 2 .. n + 1 : poses[i] = rest[i - 1]
  <2>1. /\ first \o rest \in Seq(S) /\ Len(first \o rest) = Len(first) + Len(rest)
        /\ \A i \in 1 .. Len(first) + Len(rest) :
             (first \o rest)[i] = IF i <= Len(first) THEN first[i] ELSE rest[i - Len(first)]
    BY <1>3, <1>6, ConcatProperties
  <2>2. poses \in Seq(S) /\ Len(poses) = 1 + n
        /\ \A i \in 1 .. 1 + n : poses[i] = IF i <= 1 THEN first[i] ELSE rest[i - 1]
    BY <1>3, <1>5, <1>6, <2>1
  <2>3. ASSUME NEW i \in 2 .. n + 1 PROVE poses[i] = rest[i - 1]
    <3>1. i \in 1 .. 1 + n /\ ~(i <= 1)
      OBVIOUS
    <3>2. QED
      BY <2>2, <3>1, Zenon
  <2>4. poses[1] = first[1]
    BY <2>2
  <2>5. 1 + n = n + 1
    OBVIOUS
  <2>6. QED
    BY <2>2, <2>3, <2>4, <2>5, Zenon
<1>9. \A i \in 1 .. n + 1 : x[i] \in Int /\ poses[i].at = Scale(x[i], dir)
  <2> SUFFICES ASSUME NEW i \in 1 .. n + 1 PROVE x[i] \in Int /\ poses[i].at = Scale(x[i], dir)
    OBVIOUS
  <2>1. CASE i = 1
    <3>1. x[i] = 0
      BY <2>1
    <3>2. QED
      BY <1>6, <1>7, <2>1, <3>1
  <2>2. CASE i # 1
    <3>1. i - 1 \in 1 .. n /\ i \in 2 .. n + 1
      BY <2>2
    <3>2. x[i] = k[i - 1] /\ k[i - 1] \in Int
      BY <1>8, <2>2, <3>1
    <3>3. poses[i] = [at |-> Scale(k[i - 1], dir), quarter |-> h[i - 1]]
      BY <1>3, <1>7, <3>1
    <3>4. QED
      BY <3>2, <3>3
  <2>3. QED
    BY <2>1, <2>2
<1> HIDE DEF x
<1>10. b.poses = poses /\ b.dts = dts
  OBVIOUS
<1>11. BandOnLine(b, dir, L, x)
  BY <1>1, <1>2, <1>3, <1>7, <1>9, <1>10 DEF BandOnLine, S
<1> HIDE DEF b
<1>12. QED
  BY <1>3, <1>7, <1>10, <1>11 DEF InLine, b, poses

-----------------------------------------------------------------------------
(* The inputs that Next picks.                                             *)

KinematicsInput ==
  \E h, g \in Headings, d \in Points : input = [kind |-> "kinematics", h |-> h, g |-> g, d |-> d]

FootprintInput ==
  \E type \in {"point", "circular", "line", "two_circles", "polygon"}, g \in Sizes \cup {Malformed},
     n \in Nat :
    \E changes \in [1 .. n -> Fields(type) \X (Sizes \cup {Malformed})] :
      input = [kind |-> "footprint", type |-> type,
               given |-> [f \in Fields(type) |-> g], changes |-> changes]

MotionInput ==
  \E dir \in Directions, k \in Steps, g, h \in 0 .. 3, dt \in Times \ {0}, c \in Configs :
    input = [kind |-> "motion", p |-> Pose(0, 0, g),
             q |-> [at |-> Scale(k, dir), quarter |-> h], dt |-> dt, c |-> c]

AccelerationInput ==
  \E dir \in Directions, v \in Steps, half \in -1 .. 1, g \in 0 .. 3, dt1, dt2 \in Times \ {0}, c \in Configs :
    input = [kind |-> "acceleration", dir |-> dir, v |-> v, half |-> half, quarter |-> g,
             dt1 |-> dt1, dt2 |-> dt2, c |-> c]

DistancesInput ==
  \E near \in -3 .. 8, c \in Configs :
    input = [kind |-> "distances", near |-> <<near, 2>>, far |-> <<near + 1, 2>>, c |-> c]

BandInput ==
  \E dir \in Directions, g \in 0 .. 3, n \in 0 .. 2 :
    \E k \in [1 .. n -> Steps], h \in [1 .. n -> {0, 1, 2}], dts \in [1 .. n -> Times] :
      input = [kind |-> "band", dts |-> dts,
               poses |-> <<Pose(0, 0, g)>> \o
                         [i \in 1 .. n |-> [at |-> Scale(k[i], dir), quarter |-> h[i]]]]

Inputs == /\ input.kind = "kinematics"   => KinematicsInput
          /\ input.kind = "footprint"    => FootprintInput
          /\ input.kind = "motion"       => MotionInput
          /\ input.kind = "acceleration" => AccelerationInput
          /\ input.kind = "distances"    => DistancesInput
          /\ input.kind = "band"         => BandInput

(* Whatever Next picks is one of the inputs.                               *)
LEMMA InputsInductive == Spec => []Inputs
<1>1. Init => Inputs
  BY DEF Init, Inputs
<1>2. Inputs /\ [Next]_input => Inputs'
  <2> SUFFICES ASSUME Inputs, [Next]_input PROVE Inputs'
    OBVIOUS
  <2>1. CASE PickKinematics
    <3>1. KinematicsInput' /\ input'.kind = "kinematics"
      BY <2>1 DEF PickKinematics, KinematicsInput
    <3>2. QED
      BY <3>1 DEF Inputs
  <2>2. CASE PickFootprint
    <3>1. PICK type \in {"point", "circular", "line", "two_circles", "polygon"}, g \in Sizes \cup {Malformed} :
            \E n \in 0 .. Cardinality(Fields(type)) :
              \E changes \in [1 .. n -> Fields(type) \X (IF Numbers(type) THEN Sizes ELSE Sizes \cup {Malformed})] :
                input' = [kind |-> "footprint", type |-> type,
                          given |-> [f \in Fields(type) |-> g], changes |-> changes]
      BY <2>2 DEF PickFootprint
    <3>2. PICK n \in 0 .. Cardinality(Fields(type)) : \E changes \in
               [1 .. n -> Fields(type) \X (IF Numbers(type) THEN Sizes ELSE Sizes \cup {Malformed})] :
            input' = [kind |-> "footprint", type |-> type,
                      given |-> [f \in Fields(type) |-> g], changes |-> changes]
      BY <3>1
    <3>3. PICK changes \in
               [1 .. n -> Fields(type) \X (IF Numbers(type) THEN Sizes ELSE Sizes \cup {Malformed})] :
            input' = [kind |-> "footprint", type |-> type,
                      given |-> [f \in Fields(type) |-> g], changes |-> changes]
      BY <3>2
    <3>4. n \in Nat /\ changes \in [1 .. n -> Fields(type) \X (Sizes \cup {Malformed})]
      BY <3>3
    <3>5. FootprintInput'
      BY <3>3, <3>4 DEF FootprintInput
    <3>6. input'.kind = "footprint"
      BY <3>3
    <3>7. QED
      BY <3>5, <3>6 DEF Inputs
  <2>3. CASE PickPair
    <3>1. input'.kind = "pair"
      BY <2>3 DEF PickPair
    <3>2. QED
      BY <3>1 DEF Inputs
  <2>4. CASE PickPolygon
    <3>1. input'.kind = "polygon"
      BY <2>4 DEF PickPolygon
    <3>2. QED
      BY <3>1 DEF Inputs
  <2>5. CASE PickRobot
    <3>1. input'.kind = "robot"
      BY <2>5 DEF PickRobot
    <3>2. QED
      BY <3>1 DEF Inputs
  <2>6. CASE PickNeighbours
    <3>1. input'.kind = "neighbours"
      BY <2>6 DEF PickNeighbours
    <3>2. QED
      BY <3>1 DEF Inputs
  <2>7. CASE PickMessages
    <3>1. input'.kind = "messages"
      BY <2>7 DEF PickMessages
    <3>2. QED
      BY <3>1 DEF Inputs
  <2>8. CASE PickMotion
    <3>1. MotionInput' /\ input'.kind = "motion"
      BY <2>8 DEF PickMotion, MotionInput
    <3>2. QED
      BY <3>1 DEF Inputs
  <2>9. CASE PickAcceleration
    <3>1. AccelerationInput' /\ input'.kind = "acceleration"
      BY <2>9 DEF PickAcceleration, AccelerationInput
    <3>2. QED
      BY <3>1 DEF Inputs
  <2>10. CASE PickDistances
    <3>1. PICK near \in -3 .. 8, c \in Configs :
            input' = [kind |-> "distances", near |-> <<near, 2>>, far |-> <<near + 1, 2>>, c |-> c]
      BY <2>10, Zenon DEF PickDistances
    <3>2. DistancesInput'
      BY <3>1, Zenon DEF DistancesInput
    <3>3. input'.kind = "distances"
      BY <3>1
    <3>4. QED
      BY <3>2, <3>3 DEF Inputs
  <2>11. CASE PickBand
    <3>1. PICK dir \in Directions, g \in 0 .. 3, n \in 0 .. 2 :
            \E k \in [1 .. n -> Steps], h \in [1 .. n -> {0, 1, 2}], dts \in [1 .. n -> Times] :
              input' = [kind |-> "band", dts |-> dts,
                        poses |-> <<Pose(0, 0, g)>> \o
                                  [i \in 1 .. n |-> [at |-> Scale(k[i], dir), quarter |-> h[i]]]]
      BY <2>11, Zenon DEF PickBand
    <3>2. BandInput'
      BY <3>1, Zenon DEF BandInput
    <3>3. input'.kind = "band"
      BY <3>1
    <3>4. QED
      BY <3>2, <3>3 DEF Inputs
  <2>12. CASE PickPath
    <3>1. input'.kind = "path"
      BY <2>12 DEF PickPath
    <3>2. QED
      BY <3>1 DEF Inputs
  <2>13. CASE UNCHANGED input
    <3>1. /\ (KinematicsInput => KinematicsInput') /\ (FootprintInput => FootprintInput')
          /\ (MotionInput => MotionInput') /\ (DistancesInput => DistancesInput')
      BY <2>13, Zenon DEF KinematicsInput, FootprintInput, MotionInput, DistancesInput
    <3>2. AccelerationInput => AccelerationInput'
      BY <2>13, Zenon DEF AccelerationInput
    <3>3. input'.kind = input.kind
      BY <2>13
    <3>4. BandInput => BandInput'
      BY <2>13, Zenon DEF BandInput
    <3>5. QED
      BY <3>1, <3>2, <3>3, <3>4, Zenon DEF Inputs
  <2>14. QED
    BY <2>1, <2>2, <2>3, <2>4, <2>5, <2>6, <2>7, <2>8, <2>9, <2>10, <2>11, <2>12, <2>13 DEF Next
<1>3. QED
  BY <1>1, <1>2, PTL DEF Spec

(* Velocities taken from a band that was picked follow it.                 *)
LEMMA BandFollowed ==
  BandInput => VelocitiesFollowBand
<1> SUFFICES ASSUME BandInput PROVE CommandsFollowBand /\ TrajectoryLeadsToGoal
  BY DEF VelocitiesFollowBand
<1>1. PICK dir \in Directions, g \in 0 .. 3, n \in 0 .. 2 :
        \E k \in [1 .. n -> Steps], h \in [1 .. n -> {0, 1, 2}], dts \in [1 .. n -> Times] :
          input = [kind |-> "band", dts |-> dts,
                   poses |-> <<Pose(0, 0, g)>> \o
                             [i \in 1 .. n |-> [at |-> Scale(k[i], dir), quarter |-> h[i]]]]
  BY Zenon DEF BandInput
<1>2. PICK k \in [1 .. n -> Steps], h \in [1 .. n -> {0, 1, 2}], dts \in [1 .. n -> Times] :
        input = [kind |-> "band", dts |-> dts,
                 poses |-> <<Pose(0, 0, g)>> \o
                           [i \in 1 .. n |-> [at |-> Scale(k[i], dir), quarter |-> h[i]]]]
  BY <1>1, Zenon
<1> DEFINE poses == PickedPoses(dir, g, n, k, h)
           b == [poses |-> poses, dts |-> dts]
<1>3. input.kind = "band" /\ input.poses = poses /\ input.dts = dts
  BY <1>2 DEF PickedPoses
<1>4. Len(poses) = n + 1 /\ Len(dts) = n /\ \E dir1, L, x : BandOnLine(b, dir1, L, x)
  <2>0. n \in Nat
    OBVIOUS
  <2>1. InLine(b, n)
    BY <2>0, BandPicked, Zenon
  <2> HIDE DEF poses
  <2>2. b.poses = poses /\ b.dts = dts
    OBVIOUS
  <2> HIDE DEF b
  <2>3. QED
    BY <2>1, <2>2 DEF InLine
<1>5. n \in Nat /\ Len(b.dts) = n /\ DOMAIN b.dts = 1 .. n
  <2>1. b.dts = dts /\ DOMAIN dts = 1 .. n
    <3> HIDE DEF poses
    <3>1. QED
      OBVIOUS
  <2> HIDE DEF b, poses
  <2>2. QED
    BY <1>4, <2>1
<1>6. b = [poses |-> input.poses, dts |-> input.dts]
  BY <1>3, Zenon
<1>7. input.dts = b.dts
  <2> HIDE DEF poses
  <2>1. QED
    BY <1>3
<1> HIDE DEF poses, b
<1>8. PICK dir1, L, x : BandOnLine(b, dir1, L, x)
  BY <1>4
<1>9. CASE Len(input.poses) < 2
  <2>1. Len(input.poses) = n + 1
    BY <1>3, <1>4
  <2>2. ~(Len(input.poses) >= 2)
    BY <1>5, <1>9, <2>1
  <2>3. CommandsFollowBand /\ TrajectoryLeadsToGoal
    BY <2>2, Zenon DEF CommandsFollowBand, TrajectoryLeadsToGoal
  <2>4. QED
    BY <2>3
<1>10. CASE Len(input.poses) >= 2
  <2>1. Len(b.dts) >= 1
    BY <1>3, <1>4, <1>5, <1>10
  <2>2. FollowsBand(b)
    <3>1. \A look \in 1 .. 3, holonomic \in BOOLEAN : FollowsLook(b, look, holonomic)
      BY <1>8, <2>1, LookFollows
    <3>2. \A target \in Nat \ {0} : FollowsTarget(b, target)
      BY <1>8, <2>1, TargetFollows
    <3>3. QED
      BY <3>1, <3>2 DEF FollowsBand
  <2>3. CommandsFollowBand
    BY <1>6, <2>2, FollowsProperty
  <2>4. TrajectoryLeadsToGoal
    <3>1. CASE \A i \in DOMAIN input.dts : input.dts[i] > 0
      <4>1. \A i \in 1 .. Len(b.dts) : b.dts[i] > 0
        BY <1>5, <1>7, <3>1
      <4>2. LeadsToGoal(b)
        BY <1>8, <2>1, <4>1, BandLeads
      <4>3. QED
        BY <1>3, <1>6, <1>10, <3>1, <4>2, LeadsProperty
    <3>2. CASE ~(\A i \in DOMAIN input.dts : input.dts[i] > 0)
      BY <3>2, Zenon DEF TrajectoryLeadsToGoal
    <3>3. QED
      BY <3>1, <3>2
  <2>5. QED
    BY <2>3, <2>4
<1>11. Len(input.poses) < 2 \/ Len(input.poses) >= 2
  <2>1. Len(input.poses) = n + 1
    BY <1>3, <1>4
  <2>2. QED
    BY <1>5, <2>1
<1>12. QED
  BY <1>9, <1>10, <1>11

(* linearizeOplus() of EdgeKinematicsDiffDrive is the slope of its error,  *)
(* at every displacement and for every pair of headings.                   *)
THEOREM JacobianIsSlopeHolds == Spec => []JacobianIsSlope
<1>1. Inputs => JacobianIsSlope
  <2> SUFFICES ASSUME Inputs, input.kind = "kinematics" PROVE JacobianIsSlope
    BY DEF JacobianIsSlope
  <2>1. PICK h \in Headings, g \in Headings, d \in Points :
          input = [kind |-> "kinematics", h |-> h, g |-> g, d |-> d]
    BY DEF Inputs, KinematicsInput
  <2>2. h \in Int \X Int /\ g \in Int \X Int /\ d \in Int \X Int
    BY AlgorithmsOK
  <2>3. QED
    BY <2>1, <2>2, SlopeOfError
<1>2. QED
  BY <1>1, InputsInductive, PTL

(* Once every parameter of the footprint was set, the footprint model is   *)
(* what they say, after any number of changes in any order.                *)
THEOREM FootprintAsConfiguredHolds == Spec => []FootprintAsConfigured
<1>1. Inputs => FootprintAsConfigured
  <2> SUFFICES ASSUME Inputs, input.kind = "footprint" PROVE FootprintAsConfigured
    BY DEF FootprintAsConfigured
  <2>1. PICK type \in {"point", "circular", "line", "two_circles", "polygon"},
             g \in Sizes \cup {Malformed}, n \in Nat :
          \E changes \in [1 .. n -> Fields(type) \X (Sizes \cup {Malformed})] :
            input = [kind |-> "footprint", type |-> type,
                   given |-> [f \in Fields(type) |-> g], changes |-> changes]
    BY DEF Inputs, FootprintInput
  <2>2. PICK changes \in [1 .. n -> Fields(type) \X (Sizes \cup {Malformed})] :
          input = [kind |-> "footprint", type |-> type,
                   given |-> [f \in Fields(type) |-> g], changes |-> changes]
    BY <2>1
  <2> DEFINE given == [f \in Fields(type) |-> g]
  <2>3. \A f \in Fields(type) : given[f] \in Sizes \cup {Malformed}
    OBVIOUS
  <2>4. input = [kind |-> "footprint", type |-> type, given |-> given, changes |-> changes]
    BY <2>2
  <2> HIDE DEF given
  <2>5. QED
    BY <2>3, <2>4, FootprintIsAsSet
<1>2. QED
  BY <1>1, InputsInductive, PTL

(* What the terms of the optimization charge for is what they are named    *)
(* for: a step at no cost of velocity is within the limits of the robot, a *)
(* constant acceleration is what the edge over two steps measures, in      *)
(* every direction (those at the start and the goal measure half of it),   *)
(* coming nearer to an obstacle never costs less, and with parameters that *)
(* checkParameters() does not warn of standing still is free.  So for all  *)
(* limits and all steps of whole length.                                   *)
THEOREM CostsMeasuredHolds == Spec => []CostsMeasured
<1>1. Inputs => SpeedLimitHolds /\ BoundsDoNotCross
  <2>1. ASSUME Inputs, input.kind = "motion" PROVE SpeedLimitHolds /\ BoundsDoNotCross
    <3>1. PICK dir \in Directions, k \in Steps, g \in 0 .. 3, h \in 0 .. 3, dt \in Times \ {0}, c \in Configs :
            input = [kind |-> "motion", p |-> Pose(0, 0, g),
                     q |-> [at |-> Scale(k, dir), quarter |-> h], dt |-> dt, c |-> c]
      BY <2>1 DEF Inputs, MotionInput
    <3> DEFINE p == Pose(0, 0, g)
               q == [at |-> Scale(k, dir), quarter |-> h]
    <3>2. k \in Int /\ dt \in Nat \ {0}
      BY AlgorithmsOK
    <3>3. Scale(k, dir) \in Int \X Int /\ Whole(Scale(k, dir))
      BY <3>2, ScaledIsWhole
    <3>4. AtPose(p) /\ AtPose(q)
      BY <3>3 DEF AtPose, Pose
    <3>5. Minus(q.at, p.at) = Scale(k, dir)
      BY <3>3 DEF Minus, Pose
    <3>6. input.p = p /\ input.q = q /\ input.dt = dt /\ input.c = c
      BY <3>1
    <3> HIDE DEF p, q
    <3>7. SpeedLimited(p, q, dt, c)
      BY <3>2, <3>3, <3>4, <3>5, SpeedIsLimited
    <3>8. CheckParameters(c) = {} => StandsFree(p, dt, c)
      BY <3>2, <3>4, StillFree
    <3>9. QED
      BY <3>6, <3>7, <3>8, SpeedProperty, StandingProperty
  <2>2. ASSUME input.kind # "motion" PROVE SpeedLimitHolds /\ BoundsDoNotCross
    BY <2>2, Zenon DEF SpeedLimitHolds, BoundsDoNotCross
  <2>3. QED
    BY <2>1, <2>2
<1>2. Inputs => AccelerationMeasured
  <2>1. ASSUME Inputs, input.kind = "acceleration" PROVE AccelerationMeasured
    <3>1. PICK dir \in Directions, v \in Steps, half \in -1 .. 1, g \in 0 .. 3,
               dt1 \in Times \ {0}, dt2 \in Times \ {0}, c \in Configs :
            input = [kind |-> "acceleration", dir |-> dir, v |-> v, half |-> half, quarter |-> g,
                     dt1 |-> dt1, dt2 |-> dt2, c |-> c]
      BY <2>1 DEF Inputs, AccelerationInput
    <3>2. v \in Int /\ half \in Int /\ dt1 \in Nat \ {0} /\ dt2 \in Nat \ {0} /\ dir \in Int \X Int
      BY AlgorithmsOK
    <3>3. SteadyCharged(dir, v, half, g, dt1, dt2, c) /\ ReversedSame(dir, v, half, g, dt1, dt2, c)
      BY <3>2, SteadyAcceleration, ReversedAcceleration
    <3>4. /\ input.dir = dir /\ input.v = v /\ input.half = half /\ input.quarter = g
          /\ input.dt1 = dt1 /\ input.dt2 = dt2 /\ input.c = c
      BY <3>1
    <3>5. QED
      BY <3>3, <3>4, AccelerationProperty
  <2>2. ASSUME input.kind # "acceleration" PROVE AccelerationMeasured
    BY <2>2, Zenon DEF AccelerationMeasured
  <2>3. QED
    BY <2>1, <2>2
<1>3. Inputs => NearnessCosts
  <2>1. ASSUME Inputs, input.kind = "distances" PROVE NearnessCosts
    <3>1. PICK n \in -3 .. 8, c \in Configs :
            input = [kind |-> "distances", near |-> <<n, 2>>, far |-> <<n + 1, 2>>, c |-> c]
      BY <2>1 DEF Inputs, DistancesInput
    <3>2. <<n, 2>> \in Rational /\ <<n + 1, 2>> \in Rational /\ ~LessQ(<<n + 1, 2>>, <<n, 2>>)
      BY DEF Rational, LessQ
    <3>3. Nearness(<<n, 2>>, <<n + 1, 2>>, c)
      BY <3>2, NearerCostsMore
    <3>4. input.near = <<n, 2>> /\ input.far = <<n + 1, 2>> /\ input.c = c
      BY <3>1
    <3>5. QED
      BY <3>3, <3>4, NearnessProperty
  <2>2. ASSUME input.kind # "distances" PROVE NearnessCosts
    BY <2>2, Zenon DEF NearnessCosts
  <2>3. QED
    BY <2>1, <2>2
<1>4. Inputs => CostsMeasured
  BY <1>1, <1>2, <1>3 DEF CostsMeasured
<1>5. QED
  BY <1>4, InputsInductive, PTL

(* Velocities taken from a band are no faster than the fastest step of it  *)
(* and turn no faster than its fastest turn, with getVelocityCommand() for *)
(* every pose ahead and with the command interpolated at a time ahead,     *)
(* also when steps take no time at all; and driving the velocity profile   *)
(* for the times of the full trajectory leads from the first pose to each  *)
(* of the others. So for all steps and times of a band along a direction   *)
(* of whole length.                                                        *)
THEOREM VelocitiesFollowBandHolds == Spec => []VelocitiesFollowBand
<1>1. Inputs => VelocitiesFollowBand
  <2>1. CASE input.kind = "band"
    BY <2>1, BandFollowed DEF Inputs
  <2>2. CASE input.kind # "band"
    BY <2>2, Zenon DEF VelocitiesFollowBand, CommandsFollowBand, TrajectoryLeadsToGoal
  <2>3. QED
    BY <2>1, <2>2
<1>2. QED
  BY <1>1, InputsInductive, PTL
=============================================================================
