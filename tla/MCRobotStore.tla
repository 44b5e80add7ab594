----------------------------- MODULE MCRobotStore -----------------------------
(* Model checking of RobotStore on two robots and a few concurrent clients. *)
EXTENDS RobotStore

\* A "which" list that is served, one whose second field does not exist.
MCWhichLists == {<<"Motor", "Temperature">>, <<"Motor", "unknown">>}
===============================================================================
