--------------------------- MODULE GeometryChecks ---------------------------
(***************************************************************************)
(* What the distances, obstacles and robot models are checked against:     *)
(* the definition of each quantity, written without regard to how the code *)
(* computes it.                                                            *)
(***************************************************************************)
EXTENDS RobotModels, FiniteSets

SideSet(vs) == {Sides(vs)[i] : i \in DOMAIN Sides(vs)}

(* on which side of the line from a to b is p *)
SideOf(p, a, b) ==
  LET c == Cross(Minus(b, a), Minus(p, a)) IN IF c > 0 THEN 1 ELSE IF c < 0 THEN -1 ELSE 0

On(p, a, b) == SideOf(p, a, b) = 0 /\ Dot(Minus(a, p), Minus(b, p)) <= 0

(* Two segments have a point in common: each separates the ends of the     *)
(* other, or an end of one lies on the other.                              *)
ProperlyCross(a, b, c, d) ==
  SideOf(a, c, d) * SideOf(b, c, d) < 0 /\ SideOf(c, a, b) * SideOf(d, a, b) < 0

Meet(a, b, c, d) ==
  ProperlyCross(a, b, c, d) \/ On(a, c, d) \/ On(b, c, d) \/ On(c, a, b) \/ On(d, a, b)

(* The distance of p from the segment: the height of the triangle, if its  *)
(* foot is between the ends, otherwise the nearer end.                     *)
Height(p, a, b) ==
  IF a # b /\ Dot(Minus(p, a), Minus(b, a)) >= 0 /\ Dot(Minus(p, b), Minus(a, b)) >= 0
    THEN <<Cross(Minus(b, a), Minus(p, a)) * Cross(Minus(b, a), Minus(p, a)), SqNorm(Minus(b, a))>>
    ELSE MinQ(<<SqNorm(Minus(p, a)), 1>>, <<SqNorm(Minus(p, b)), 1>>)

IsLeast(q, S) == (\E r \in S : SameQ(q, r)) /\ (\A r \in S : ~LessQ(r, q))

(* q is the squared distance of the outlines vs and ws: zero when they     *)
(* meet, otherwise the least distance of a vertex from a side.             *)
Apart(q, vs, ws) ==
  IF \E s \in SideSet(vs), t \in SideSet(ws) : Meet(s[1], s[2], t[1], t[2])
    THEN q[1] = 0
    ELSE IsLeast(q, {Height(vs[i], t[1], t[2]) : i \in DOMAIN vs, t \in SideSet(ws)}
                    \cup {Height(ws[i], s[1], s[2]) : i \in DOMAIN ws, s \in SideSet(vs)})

(* p is inside the convex polygon vs: on the same side of all its sides *)
StrictlyInside(p, vs) ==
  \E side \in {-1, 1} : \A s \in SideSet(vs) : SideOf(p, s[1], s[2]) = side

OnOutline(p, vs) == \E s \in SideSet(vs) : On(p, s[1], s[2])

(* the same two clearances, up to the representation *)
SameClearances(C, D) ==
  /\ \A c \in C : \E d \in D : SameQ(c.sq, d.sq) /\ c.less = d.less
  /\ \A d \in D : \E c \in C : SameQ(c.sq, d.sq) /\ c.less = d.less

(* a turn by one quarter about the origin, and by several *)
QuarterTurn(p) == <<-p[2], p[1]>>

Turned(p, quarters) ==
  LET turned[i \in 0 .. quarters] == IF i = 0 THEN p ELSE QuarterTurn(turned[i - 1])
  IN turned[quarters]

Moved(vs, pose) == [i \in DOMAIN vs |-> Plus(pose.at, Turned(vs[i], pose.quarter))]

(* sqrt(p) + sqrt(r) <= sqrt(q), for rationals *)
RootsWithin(p, r, q) ==
  LET d == p[2] * r[2] * q[2]
      P == p[1] * r[2] * q[2]
      R == r[1] * p[2] * q[2]
      S == q[1] * p[2] * r[2]
  IN S - P - R >= 0 /\ 4 * P * R <= (S - P - R) * (S - P - R)

(* vs again, beginning with vertex k, or the other way round *)
Rotated(vs, k)  == [i \in DOMAIN vs |-> vs[((i + k - 1) % Len(vs)) + 1]]
Backwards(vs)   == [i \in DOMAIN vs |-> vs[Len(vs) + 1 - i]]
SamePoint(c, d) == Scale(d.den, c.at) = Scale(c.den, d.at)
=============================================================================
