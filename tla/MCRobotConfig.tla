--------------------------- MODULE MCRobotConfig ---------------------------
(***************************************************************************)
(* RobotConfig for TLC.                                                    *)
(***************************************************************************)
EXTENDS RobotConfig

(* as in the constructor, forwards the fastest *)
Constructed == [a \in Axes |-> IF a = "x" THEN 2 ELSE 1]

(* memory may hold a number no limit could be *)
Memory == {-2}

(* one that is ignored, and one between the values of a parameter *)
Asked == {-1, 2}

(* faster than every limit in both directions, and slow *)
Planned == {-99, -1, 0, 99}
============================================================================
