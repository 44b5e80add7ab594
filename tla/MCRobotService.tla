---------------------------- MODULE MCRobotService ----------------------------
(* Model checking of RobotService on small sets of connections and robots. *)
EXTENDS RobotService, TLC

ServiceSymmetry == Permutations(Clients) \cup Permutations(Robots)
===============================================================================
