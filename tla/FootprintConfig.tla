--------------------------- MODULE FootprintConfig ---------------------------
(***************************************************************************)
(* How TebConfig builds the robot's footprint model from its parameters    *)
(* (teb_config.cpp), when they are loaded and when they are set at         *)
(* runtime.  A value is well formed or Malformed, which for a list or      *)
(* string that is loaded also says that it is missing; a number that is    *)
(* missing is Garbage, as is what was never written.                       *)
(***************************************************************************)
EXTENDS SequencesExt

CONSTANTS Malformed, Garbage

Fields(type) ==
  CASE type = "circular"    -> {"radius"}
    [] type = "line"        -> {"line_start", "line_end"}
    [] type = "two_circles" -> {"front_offset", "front_radius", "rear_offset", "rear_radius"}
    [] type = "polygon"     -> {"vertices"}
    [] OTHER                -> {}

Point == <<>>

Numbers(type) == type \in {"circular", "two_circles"}

(* What was never given: a number, or an empty list or string. *)
Unset(type) == IF Numbers(type) THEN Garbage ELSE Malformed

(* loadRosParamFromNodeHandle(): of the types that are not known, and of a *)
(* polygon that cannot be read, the model is a point.  What the other      *)
(* types need is used in any case, though the messages say otherwise.      *)
LoadFootprint(type, given) ==
  IF type = "polygon" /\ given["vertices"] = Malformed THEN Point
  ELSE [f \in Fields(type) |-> IF given[f] = Malformed THEN Garbage ELSE given[f]]

(* getRobotFootprintFromParamServer(): a point unless all is there. *)
FootprintFromServer(type, given) ==
  IF \E f \in Fields(type) : given[f] \in {Malformed, Garbage} THEN Point
  ELSE [f \in Fields(type) |-> given[f]]

(* The members of TebConfig that a reload reads are not those that loading *)
(* fills.                                                                  *)
Loaded(type, given) ==
  [type    |-> type,
   members |-> [f \in Fields(type) |-> Unset(type)],
   model   |-> LoadFootprint(type, given)]

(* Fault: the model is built before the value is written. *)
SetFootprintEarly(c, change) ==
  LET new == [c.members EXCEPT ![change[1]] = change[2]]
  IN [c EXCEPT !.members = new,
               !.model = IF \E f \in DOMAIN new : c.members[f] = Malformed THEN @ ELSE c.members]

(* The parameter callback, for a value of the footprint: the model is      *)
(* built from all the members, unless a list or string is malformed.       *)
SetFootprint(c, change) ==
  LET new == [c.members EXCEPT ![change[1]] = change[2]]
  IN [c EXCEPT !.members = new,
               !.model = IF \E f \in DOMAIN new : new[f] = Malformed THEN @ ELSE new]

FootprintAfter(type, given, changes) ==
  FoldLeft(SetFootprint, Loaded(type, given), changes)
==============================================================================
