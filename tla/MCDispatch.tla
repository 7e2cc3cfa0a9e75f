----------------------------- MODULE MCDispatch -----------------------------
(***************************************************************************)
(* Dispatch for TLC: the time app, with two of its views that have an      *)
(* enter handler and one that has none, and one other app with one of each *)
(* like the compass.                                                       *)
(***************************************************************************)
EXTENDS Dispatch

CONSTANTS time, compass, display, menu, adj, main, cal

MCApps == {time, compass}
MCViews == [a \in MCApps |-> IF a = time THEN {display, menu, adj} ELSE {main, cal}]
MCHasEnter == {<<time, display>>, <<time, menu>>, <<compass, cal>>}
=============================================================================
