------------------------------ MODULE StateFeed ------------------------------
(***************************************************************************)
(* What the robot web-socket service promises its viewers, with no hub, no *)
(* goroutine and no socket: states are published in one order, and every   *)
(* viewer is shown all of them from the moment it subscribed, one by one,  *)
(* until it is dropped.  The feed runs in lock step: a state is published  *)
(* only when every current viewer has been shown the one before.           *)
(***************************************************************************)
EXTENDS Naturals

CONSTANT Viewers

VARIABLES published,  \* how many states have been published
          viewers,    \* the viewers being fed
          position    \* position[v]: the last state v was shown

feedVars == <<published, viewers, position>>

FeedInit ==
  /\ published = 0
  /\ viewers = {}
  /\ position = [v \in Viewers |-> 0]

PublishState ==
  /\ \A v \in viewers : position[v] = published
  /\ published' = published + 1
  /\ UNCHANGED <<viewers, position>>

Subscribe(v) ==
  /\ v \notin viewers
  /\ viewers' = viewers \cup {v}
  /\ position' = [position EXCEPT ![v] = published]
  /\ UNCHANGED published

Show(v) ==
  /\ v \in viewers
  /\ position[v] < published
  /\ position' = [position EXCEPT ![v] = @ + 1]
  /\ UNCHANGED <<published, viewers>>

Drop(v) ==
  /\ v \in viewers
  /\ viewers' = viewers \ {v}
  /\ UNCHANGED <<published, position>>

FeedNext ==
  \/ PublishState
  \/ \E v \in Viewers : Subscribe(v) \/ Show(v) \/ Drop(v)

FeedSpec == FeedInit /\ [][FeedNext]_feedVars
==============================================================================
