----------------------- MODULE MCHomotopyClassPlanner -----------------------
(* Instances of HomotopyClassPlanner for TLC. *)
EXTENDS HomotopyClassPlanner

CONSTANTS c1, c2, far, nan

(* isEqual() is not transitive: "far" equals both sides, which do not      *)
(* equal each other.  It is a signature within the tolerance of two that   *)
(* are not within that of each other (HSignature), or one that is below    *)
(* the threshold for every obstacle (HSignature3d).                        *)
NotTransitive ==
  {p \in (Classes \ Invalid) \X (Classes \ Invalid) : p[1] = p[2] \/ far \in {p[1], p[2]}}
=============================================================================
