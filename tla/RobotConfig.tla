----------------------------- MODULE RobotConfig -----------------------------
(***************************************************************************)
(* The velocity limits of TebConfig, which change at runtime while a cycle *)
(* uses them (teb_config.h, teb_config.cpp), and the plugin's              *)
(* setSpeedLimit() and saturation (teb_local_planner_ros.cpp).             *)
(*                                                                         *)
(* Parameter callbacks and setSpeedLimit() run in one thread, the cycle in *)
(* another.  The callbacks take the configuration's mutex, which the cycle *)
(* holds from planning to the command; setSpeedLimit() does not take it.   *)
(* max_vel_y is left out: no speed limit ever changes it.                  *)
(***************************************************************************)
EXTENDS Integers, Sequences

CONSTANTS
  Speeds,       \* values of the parameters max_vel_...
  Defaults,     \* what the constructor sets max_vel_... to
  Leftovers,    \* what memory that is not initialised may hold
  SpeedLimits,  \* arguments of setSpeedLimit(), ...
  Factors,      \* ... and those that come as percentages
  Velocities    \* that the planner may ask for

ASSUME RobotConfigOK ==
  /\ Speeds \subseteq Nat /\ Factors \subseteq Nat
  /\ Defaults \in [{"x", "backwards", "theta"} -> Nat] /\ Leftovers \subseteq Int
  /\ SpeedLimits \subseteq Int /\ Velocities \subseteq Int

VARIABLES
  max,        \* robot.max_vel_...: the limits in force
  base,       \* robot.base_max_vel_...: those without a speed limit
  params,     \* the parameters max_vel_... (a history variable)
  asked,      \* the speed limit since a parameter was last set (history)
  outcomes,   \* what limit each request since then has led to (history)
  request,    \* the arguments of setSpeedLimit() and the limits left to write
  pc,         \* "unconfigured", "idle", or where the cycle is
  read,       \* the arguments of saturateVelocity() evaluated so far
  seen        \* the limits in force since planning was done (history)

limits    == <<max, base, params, asked, outcomes, request>>
cycleVars == <<pc, read, seen>>
vars == <<limits, cycleVars>>

Axes == {"x", "backwards", "theta"}

(* a request that setSpeedLimit() ignores stands for none *)
None == [limit |-> -1, percentage |-> FALSE]
NoRequest == [args |-> None, left |-> <<>>]

(* no limit read, none seen *)
Nothing == [a \in {} |-> 0]

Lesser(x, y) == IF x < y THEN x ELSE y

(* std::clamp(), the lower bound first *)
Clamp(v, low, high) == IF v < low THEN low ELSE IF high < v THEN high ELSE v

(* What setSpeedLimit() makes of a maximum; it multiplies by a percentage  *)
(* as if it was a fraction.                                                *)
Limited(r, b) == IF r.percentage THEN b * r.limit ELSE Lesser(b, r.limit)

Outcome(r, m) == [args |-> r, max |-> m]

(* Of the limits without a speed limit the constructor sets the one for    *)
(* driving forwards, and copies the others from themselves: they are what  *)
(* their memory holds (a number; that it is none is left out).             *)
Init ==
  /\ params \in [Axes -> Speeds]
  /\ max = Defaults
  /\ base \in [Axes -> Leftovers \cup {Defaults["x"]}] /\ base["x"] = Defaults["x"]
  /\ asked = [a \in Axes |-> None] /\ outcomes = [a \in Axes |-> {}]
  /\ request = NoRequest
  /\ pc = "unconfigured" /\ read = Nothing /\ seen = Nothing

-----------------------------------------------------------------------------
(* The parameters.                                                         *)

(* loadRosParamFromNodeHandle() sets the limits, not what they are without *)
(* a speed limit.                                                          *)
Load ==
  /\ pc = "unconfigured" /\ pc' = "idle"
  /\ max' = params
  /\ UNCHANGED <<base, params, asked, outcomes, request, read, seen>>

(* dynamicParametersCallback(), under the mutex; it lifts a speed limit. *)
SetParameter(a, v) ==
  /\ pc = "idle" /\ request = NoRequest
  /\ params' = [params EXCEPT ![a] = v]
  /\ max' = [max EXCEPT ![a] = v] /\ base' = [base EXCEPT ![a] = v]
  /\ asked' = [asked EXCEPT ![a] = None] /\ outcomes' = [outcomes EXCEPT ![a] = {}]
  /\ UNCHANGED <<request, cycleVars>>

-----------------------------------------------------------------------------
(* setSpeedLimit(), whatever the cycle is doing.                           *)

SetSpeedLimit(limit, percentage) ==
  /\ pc # "unconfigured" /\ request = NoRequest
  /\ limit >= 0
  /\ request' = [args |-> [limit |-> limit, percentage |-> percentage],
                 left |-> <<"x", "backwards", "theta">>]
  /\ UNCHANGED <<max, base, params, asked, outcomes, cycleVars>>

(* Fault: the limit in force is limited again. *)
WriteLimitAgain(a) ==
  /\ request.left # <<>> /\ a = Head(request.left)
  /\ max' = [max EXCEPT ![a] = Limited(request.args, max[a])]
  /\ asked' = [asked EXCEPT ![a] = request.args]
  /\ outcomes' = [outcomes EXCEPT ![a] = @ \cup {Outcome(request.args, max'[a])}]
  /\ request' = IF Len(request.left) = 1 THEN NoRequest
                ELSE [request EXCEPT !.left = Tail(request.left)]
  /\ seen' = [b \in DOMAIN seen |-> seen[b] \cup {max'[b]}]
  /\ UNCHANGED <<base, params, pc, read>>

(* It writes one limit after another. *)
WriteLimit(a) ==
  /\ request.left # <<>> /\ a = Head(request.left)
  /\ max' = [max EXCEPT ![a] = Limited(request.args, base[a])]
  /\ asked' = [asked EXCEPT ![a] = request.args]
  /\ outcomes' = [outcomes EXCEPT ![a] = @ \cup {Outcome(request.args, max'[a])}]
  /\ request' = IF Len(request.left) = 1 THEN NoRequest
                ELSE [request EXCEPT !.left = Tail(request.left)]
  /\ seen' = [b \in DOMAIN seen |-> seen[b] \cup {max'[b]}]
  /\ UNCHANGED <<base, params, pc, read>>

-----------------------------------------------------------------------------
(* computeVelocityCommands(), from the mutex on. *)

Plan ==
  /\ pc = "idle" /\ pc' = "planning"
  /\ UNCHANGED <<limits, read, seen>>

(* It throws; the next cycle begins anew. *)
Fail ==
  /\ pc = "planning" /\ pc' = "idle"
  /\ UNCHANGED <<limits, read, seen>>

BeginCommand ==
  /\ pc = "planning" /\ pc' = "command"
  /\ seen' = [a \in Axes |-> {max[a]}]
  /\ UNCHANGED <<limits, read>>

(* The arguments of a call are evaluated in any order. *)
ReadLimit(a) ==
  /\ pc = "command" /\ a \notin DOMAIN read
  /\ read' = [b \in DOMAIN read \cup {a} |-> IF b = a THEN max[a] ELSE read[b]]
  /\ UNCHANGED <<limits, pc, seen>>

(* Fault: driving backwards is limited like driving forwards. *)
SaturateForwards(v, w, m) ==
  [v |-> Clamp(v, -m["x"], m["x"]), w |-> Clamp(w, -m["theta"], m["theta"])]

(* saturateVelocity() *)
Saturate(v, w, m) ==
  [v |-> Clamp(IF v < 0 /\ v < -m["backwards"] THEN -m["backwards"] ELSE v, -m["x"], m["x"]),
   w |-> Clamp(w, -m["theta"], m["theta"])]

ReturnCommand ==
  /\ pc = "command" /\ DOMAIN read = Axes
  /\ pc' = "idle" /\ read' = Nothing /\ seen' = Nothing
  /\ UNCHANGED limits

-----------------------------------------------------------------------------
Callbacks ==
  \/ \E a \in Axes, v \in Speeds : SetParameter(a, v)
  \/ \E l \in SpeedLimits : SetSpeedLimit(l, FALSE)
  \/ \E l \in Factors : SetSpeedLimit(l, TRUE)
  \/ \E a \in Axes : WriteLimit(a)

Cycle ==
  \/ Plan \/ Fail \/ BeginCommand
  \/ \E a \in Axes : ReadLimit(a)
  \/ ReturnCommand

Next == Load \/ Callbacks \/ Cycle

Spec == Init /\ [][Next]_vars

-----------------------------------------------------------------------------
(* Properties.                                                             *)

Args == [limit : Int, percentage : BOOLEAN]
Left == {<<"x", "backwards", "theta">>, <<"backwards", "theta">>, <<"theta">>, <<>>}

TypeOK ==
  /\ {max, base} \subseteq [Axes -> Int] /\ params \in [Axes -> Nat]
  /\ asked \in [Axes -> Args] /\ outcomes \in [Axes -> SUBSET [args : Args, max : Int]]
  /\ request \in [args : Args, left : Left]
  /\ pc \in {"unconfigured", "idle", "planning", "command"}
  /\ IF pc = "command"
       THEN seen \in [Axes -> SUBSET Int] /\ \E s \in SUBSET Axes : read \in [s -> Int]
       ELSE seen = Nothing /\ read = Nothing

(* However speed limits and parameter changes alternate, and wherever in a *)
(* setSpeedLimit() one looks, each limit is its parameter or comes of the  *)
(* latest request.  Requests do not add up: one that is repeated leads to  *)
(* the same limit again, whatever was asked for in between, and a greater  *)
(* speed in m/s takes a smaller one back.                                  *)
LimitsDoNotCompound ==
  pc # "unconfigured" =>
    \A a \in Axes :
      /\ IF asked[a] = None THEN max[a] = params[a]
         ELSE Outcome(asked[a], max[a]) \in outcomes[a]
      /\ \A o, p \in outcomes[a] :
           /\ o.args = p.args => o.max = p.max
           /\ ~o.args.percentage /\ ~p.args.percentage /\ o.args.limit <= p.args.limit =>
                o.max <= p.max /\ o.max <= o.args.limit

(* Whatever velocity the planner asks for, the command obeys limits that   *)
(* were each in force at some time since planning, although setSpeedLimit()*)
(* may write between two of them being read: forwards that of driving      *)
(* forwards, backwards both.  It must not have made a limit negative of    *)
(* what was never initialised: std::clamp() is then undefined.             *)
CommandWithinLimits ==
  pc = "command" /\ DOMAIN read = Axes /\ (\A a \in Axes : read[a] >= 0) =>
    \A v, w \in Velocities :
      LET c == Saturate(v, w, read)
      IN /\ \E m \in seen["x"], b \in seen["backwards"] : -Lesser(m, b) <= c.v /\ c.v <= m
         /\ \E m \in seen["theta"] : -m <= c.w /\ c.w <= m

-----------------------------------------------------------------------------
(* What the documentation says, and the code does not do.                  *)

(* teb_local_planner_ros.h:320, of setSpeedLimit(): "Limits the maximum    *)
(* linear speed of the robot", :322, of its argument: "or in percentage    *)
(* from maximum robot speed".  The maximum is what the parameter says.     *)
PercentageOfMaximum ==
  pc # "unconfigured" =>
    \A a \in Axes : asked[a].percentage => 100 * max[a] = asked[a].limit * params[a]
==============================================================================
