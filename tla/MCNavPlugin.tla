----------------------------- MODULE MCNavPlugin -----------------------------
(***************************************************************************)
(* NavPlugin for TLC: plans along a line of three positions.               *)
(***************************************************************************)
EXTENDS NavPlugin

(* the way there, and one that goes on and turns back *)
SomePlans == {<<0, 2>>, <<0, 2, 1>>}

(* via-points from the topic, and none *)
SomeViaPaths == {<<>>, <<1>>}
==============================================================================
