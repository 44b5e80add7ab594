-------------------------- MODULE WebSocketHubProofs --------------------------
(***************************************************************************)
(* Proofs about WebSocketHub for any set of connections, any number of     *)
(* states and any socket buffer: the type invariant, the safety invariants *)
(* checked by TLC on small instances, the refinement of StateFeed, and     *)
(* what a browser that does not read does to the hub.                      *)
(***************************************************************************)
EXTENDS WebSocketHub, TLAPS

(* How the hub's control state relates to its map: the part of the         *)
(* inductive invariant that no run states on its own.                      *)
HubShape ==
  /\ todo \subseteq clients
  /\ target # NoClient => target \in clients /\ target \notin todo
  /\ hub = "write" <=> target # NoClient
  /\ hub = "select" => todo = {}

(* A connection that was never registered has been written nothing. *)
NothingBeforeRegister ==
  \A c \in Clients : handler[c] \in {"none", "registering"} =>
                       feed[c] = <<>> /\ c \notin broken

IInv ==
  /\ TypeOK
  /\ HubShape
  /\ EntryHasReader
  /\ NothingBeforeRegister
  /\ FeedIsComplete

-------------------------------------------------------------------------------
LEMMA InitInv == Init => IInv
  BY BoundsAssumption, NoClientAssumption
  DEF Init, IInv, TypeOK, HubShape, EntryHasReader, NothingBeforeRegister,
      FeedIsComplete, HandlerState, WaitingForWrite

\* A reader or handler goroutine moving on without the hub, a browser, and the
\* telemetry goroutine disturb neither the hub nor what was written.
LEMMA QuietStep ==
  ASSUME IInv,
         UNCHANGED <<clients, hub, todo, target, taken, broken, feed, joined>>,
         handler' \in [Clients -> HandlerState],
         peer' \in [Clients -> {"up", "stalled", "gone"}],
         got' \in [Clients -> Nat],
         offered' \in taken..(taken + 1), offered' <= MaxMessages,
         \A c \in Clients :
           /\ handler'[c] \in {"reading", "unregistering"}
                <=> handler[c] \in {"reading", "unregistering"}
           /\ handler'[c] \in {"none", "registering"}
                => handler[c] \in {"none", "registering"}
  PROVE  IInv'
<1>1. TypeOK'
  BY DEF IInv, TypeOK
<1>2. HubShape'
  BY DEF IInv, HubShape
<1>3. EntryHasReader'
  BY DEF IInv, EntryHasReader
<1>4. NothingBeforeRegister'
  BY DEF IInv, NothingBeforeRegister
<1>5. FeedIsComplete'
  BY DEF IInv, FeedIsComplete, WaitingForWrite
<1>6. QED
  BY <1>1, <1>2, <1>3, <1>4, <1>5 DEF IInv

LEMMA HandlerStep ==
  ASSUME IInv, NEW c \in Clients,
         Upgrade(c) \/ ReadError(c) \/ BadMessage(c) \/ CloseSocket(c)
  PROVE  IInv'
<1>1. UNCHANGED <<clients, hub, todo, target, taken, broken, feed, joined,
                  peer, got, offered>>
  BY DEF Upgrade, ReadError, BadMessage, ReadFails, CloseSocket, hubVars,
         peerVars
<1>2. handler' \in [Clients -> HandlerState]
  BY DEF IInv, TypeOK, Upgrade, ReadError, BadMessage, ReadFails, CloseSocket,
         HandlerState
<1>3. ASSUME NEW d \in Clients
      PROVE  /\ handler'[d] \in {"reading", "unregistering"}
                  <=> handler[d] \in {"reading", "unregistering"}
             /\ handler'[d] \in {"none", "registering"}
                  => handler[d] \in {"none", "registering"}
  BY DEF IInv, TypeOK, Upgrade, ReadError, BadMessage, ReadFails, CloseSocket
<1>4. QED
  BY <1>1, <1>2, <1>3, QuietStep DEF IInv, TypeOK

LEMMA OutsideStep ==
  ASSUME IInv, OfferState \/ \E c \in Clients : PeerStep(c)
  PROVE  IInv'
<1>1. UNCHANGED <<clients, hub, todo, target, taken, broken, feed, joined,
                  handler>>
  BY DEF OfferState, PeerStep, Receive, ReceiveLate, Stall, Resume, Leave, hubVars, peerVars
<1>2. CASE OfferState
  <2>1. /\ peer' = peer /\ got' = got /\ offered' = taken + 1
        /\ offered' <= MaxMessages
    BY <1>2, BoundsAssumption DEF OfferState, peerVars, IInv, TypeOK
  <2>2. QED
    BY <1>1, <2>1, QuietStep DEF IInv, TypeOK
<1>3. ASSUME NEW c \in Clients, PeerStep(c)
      PROVE  IInv'
  <2>1. offered' = offered
    BY <1>3 DEF PeerStep, Receive, ReceiveLate, Stall, Resume, Leave
  <2>2. got' \in [Clients -> Nat]
    <3>1. got \in [Clients -> Nat]
      BY DEF IInv, TypeOK
    <3>2. CASE Receive(c) \/ ReceiveLate(c)
      BY <3>1, <3>2 DEF Receive, ReceiveLate
    <3>3. CASE Stall(c) \/ Resume(c) \/ Leave(c)
      BY <3>1, <3>3 DEF Stall, Resume, Leave
    <3>4. QED
      BY <1>3, <3>2, <3>3 DEF PeerStep
  <2>3. peer' \in [Clients -> {"up", "stalled", "gone"}]
    BY <1>3 DEF IInv, TypeOK, PeerStep, Receive, ReceiveLate, Stall, Resume, Leave
  <2>4. QED
    BY <1>1, <2>1, <2>2, <2>3, QuietStep DEF IInv, TypeOK
<1>4. QED
  BY <1>2, <1>3

-------------------------------------------------------------------------------
(* The steps of the hub: who is in the map, and who has been written what. *)

LEMMA RegisterStep ==
  ASSUME IInv, NEW c \in Clients, Register(c)
  PROVE  IInv'
<1> USE DEF IInv
<1>1. TypeOK'
  BY DEF TypeOK, Register, peerVars, HandlerState
<1>2. HubShape'
  BY DEF HubShape, Register
<1>3. EntryHasReader'
  BY DEF TypeOK, EntryHasReader, Register
<1>4. NothingBeforeRegister'
  BY DEF TypeOK, NothingBeforeRegister, Register
<1>5. FeedIsComplete'
  <2>1. c \notin clients /\ feed[c] = <<>>
    BY DEF Register, EntryHasReader, NothingBeforeRegister
  <2>2. todo = {} /\ target = NoClient
    BY DEF Register, HubShape, TypeOK
  <2>3. ~WaitingForWrite(c)' /\ joined'[c] = taken /\ feed' = feed
    BY <2>2, NoClientAssumption DEF WaitingForWrite, Register, TypeOK
  <2>4. taken \in Int /\ Len(feed[c]) = 0
    BY <2>1, BoundsAssumption DEF TypeOK
  <2>5. ASSUME NEW d \in Clients, d # c
        PROVE  /\ joined'[d] = joined[d]
               /\ d \in clients' <=> d \in clients
               /\ WaitingForWrite(d)' <=> WaitingForWrite(d)
    BY <2>5 DEF Register, WaitingForWrite, TypeOK
  <2>6. broken' = broken /\ taken' = taken
    BY DEF Register
  <2>7. QED
    BY <2>1, <2>3, <2>4, <2>5, <2>6 DEF FeedIsComplete
<1>6. QED
  BY <1>1, <1>2, <1>3, <1>4, <1>5 DEF IInv

LEMMA UnregisterStep ==
  ASSUME IInv, NEW c \in Clients, Unregister(c)
  PROVE  IInv'
<1> USE DEF IInv
<1>1. TypeOK'
  BY DEF TypeOK, Unregister, peerVars, HandlerState
<1>2. todo = {} /\ target = NoClient
  BY DEF Unregister, HubShape, TypeOK
<1>3. HubShape'
  BY <1>2 DEF HubShape, Unregister
<1>4. EntryHasReader'
  BY DEF TypeOK, EntryHasReader, Unregister
<1>5. NothingBeforeRegister'
  BY DEF TypeOK, NothingBeforeRegister, Unregister
<1>6. FeedIsComplete'
  <2>1. ASSUME NEW d \in Clients
        PROVE  WaitingForWrite(d)' <=> WaitingForWrite(d)
    BY DEF Unregister, WaitingForWrite
  <2>2. QED
    BY <2>1 DEF FeedIsComplete, Unregister
<1>7. QED
  BY <1>1, <1>3, <1>4, <1>5, <1>6

LEMMA TakeBroadcastStep ==
  ASSUME IInv, TakeBroadcast
  PROVE  IInv'
<1> USE DEF IInv
<1>1. todo = {} /\ target = NoClient /\ todo' = clients
  BY DEF TakeBroadcast, HubShape, TypeOK
<1>2. TypeOK'
  BY BoundsAssumption DEF TypeOK, TakeBroadcast, peerVars
<1>3. HubShape'
  BY <1>1 DEF HubShape, TakeBroadcast
<1>4. EntryHasReader' /\ NothingBeforeRegister'
  BY DEF EntryHasReader, NothingBeforeRegister, TakeBroadcast
<1>5. FeedIsComplete'
  <2>1. ASSUME NEW d \in Clients
        PROVE  /\ ~WaitingForWrite(d)
               /\ WaitingForWrite(d)' <=> d \in clients
    BY <1>1, NoClientAssumption DEF WaitingForWrite, TakeBroadcast
  <2>2. taken' - 1 = taken /\ taken \in Nat
    BY BoundsAssumption DEF TakeBroadcast, TypeOK
  <2>3. QED
    BY <2>1, <2>2 DEF FeedIsComplete, TakeBroadcast
<1>6. QED
  BY <1>2, <1>3, <1>4, <1>5

LEMMA NextClientStep ==
  ASSUME IInv, NEW c \in Clients, NextClient(c)
  PROVE  IInv'
<1> USE DEF IInv
<1>1. TypeOK'
  <2>1. /\ hub' \in {"select", "range", "write"} /\ todo' \subseteq Clients
        /\ target' \in Clients
    BY DEF TypeOK, NextClient
  <2>2. QED
    BY <2>1 DEF TypeOK, NextClient, peerVars
<1>2. HubShape'
  BY NoClientAssumption DEF HubShape, NextClient, TypeOK
<1>3. EntryHasReader' /\ NothingBeforeRegister'
  BY DEF EntryHasReader, NothingBeforeRegister, NextClient
<1>4. FeedIsComplete'
  <2>1. target = NoClient
    BY DEF NextClient, HubShape, TypeOK
  <2>2. ASSUME NEW d \in Clients
        PROVE  WaitingForWrite(d)' <=> WaitingForWrite(d)
    BY <2>1, NoClientAssumption DEF WaitingForWrite, NextClient
  <2>3. QED
    BY <2>2 DEF FeedIsComplete, NextClient
<1>5. QED
  BY <1>1, <1>2, <1>3, <1>4

LEMMA EndBroadcastStep ==
  ASSUME IInv, EndBroadcast
  PROVE  IInv'
<1> USE DEF IInv
<1>1. TypeOK' /\ HubShape'
  BY DEF TypeOK, HubShape, EndBroadcast, peerVars
<1>2. EntryHasReader' /\ NothingBeforeRegister'
  BY DEF EntryHasReader, NothingBeforeRegister, EndBroadcast
<1>3. FeedIsComplete'
  BY DEF FeedIsComplete, WaitingForWrite, EndBroadcast
<1>4. QED
  BY <1>1, <1>2, <1>3

\* Whether it succeeds or fails, a write ends with its client waiting no more.
LEMMA WriteEnds ==
  ASSUME IInv, NEW c \in Clients, hub = "write", target = c,
         WriteReturns, todo' = todo
  PROVE  /\ c \in clients /\ WaitingForWrite(c) /\ ~WaitingForWrite(c)'
         /\ \A d \in Clients \ {c} : WaitingForWrite(d)' <=> WaitingForWrite(d)
  BY NoClientAssumption DEF IInv, HubShape, WaitingForWrite, WriteReturns

LEMMA WriteOkStep ==
  ASSUME IInv, NEW c \in Clients, WriteOk(c)
  PROVE  IInv'
<1> USE DEF IInv
<1>1. hub = "write" /\ target = c /\ WriteReturns /\ todo' = todo
  BY DEF WriteOk
<1>2. /\ feed[c] \in Seq(Nat) /\ taken \in Nat /\ joined[c] \in Nat
      /\ Len(feed[c]) \in Nat
  BY BoundsAssumption DEF TypeOK
<1>3. TypeOK'
  BY <1>2 DEF TypeOK, WriteOk, WriteReturns, peerVars
<1>4. HubShape'
  BY <1>1, NoClientAssumption DEF HubShape, WriteOk, WriteReturns
<1>5. EntryHasReader'
  BY DEF EntryHasReader, WriteOk
<1>6. NothingBeforeRegister'
  <2>1. handler[c] \in {"reading", "unregistering"}
    BY <1>1, WriteEnds DEF EntryHasReader
  <2>2. QED
    BY <2>1 DEF NothingBeforeRegister, WriteOk, TypeOK
<1>7. FeedIsComplete'
  <2>1. joined[c] + Len(feed[c]) + 1 = taken
    BY <1>1, <1>2, WriteEnds DEF FeedIsComplete, WriteOk, Writable
  <2>2. /\ feed'[c] = Append(feed[c], taken)
        /\ \A d \in Clients \ {c} : feed'[d] = feed[d]
        /\ UNCHANGED <<joined, clients, broken, taken>>
    BY DEF WriteOk, TypeOK
  <2>3. /\ Len(feed'[c]) = Len(feed[c]) + 1
        /\ \A i \in 1..Len(feed'[c]) : feed'[c][i] = joined[c] + i
    <3>1. \A i \in 1..Len(feed[c]) : feed[c][i] = joined[c] + i
      BY DEF FeedIsComplete
    <3>2. /\ Len(Append(feed[c], taken)) = Len(feed[c]) + 1
          /\ \A i \in 1..(Len(feed[c]) + 1) :
               Append(feed[c], taken)[i] =
                 IF i <= Len(feed[c]) THEN feed[c][i] ELSE taken
      BY <1>2
    <3>3. Len(feed'[c]) = Len(feed[c]) + 1
      BY <2>2, <3>2
    <3>4. ASSUME NEW i \in 1..Len(feed'[c])
          PROVE  feed'[c][i] = joined[c] + i
      <4>1. i \in 1..(Len(feed[c]) + 1)
        BY <3>3
      <4>2. CASE i <= Len(feed[c])
        <5>1. feed'[c][i] = feed[c][i] /\ i \in 1..Len(feed[c])
          BY <1>2, <2>2, <3>2, <4>1, <4>2
        <5>2. QED
          BY <3>1, <5>1
      <4>3. CASE i = Len(feed[c]) + 1
        <5>1. feed'[c][i] = taken
          BY <1>2, <2>2, <3>2, <4>1, <4>3
        <5>2. QED
          BY <1>2, <2>1, <4>3, <5>1
      <4>4. QED
        BY <1>2, <4>1, <4>2, <4>3
    <3>5. QED
      BY <3>3, <3>4
  <2>4. joined[c] + Len(feed'[c]) = taken
    BY <1>2, <2>1, <2>3
  <2>5. QED
    <3>1. ASSUME NEW d \in Clients, d # c
          PROVE  WaitingForWrite(d)' <=> WaitingForWrite(d)
      BY <1>1, <3>1, WriteEnds
    <3>2. ~WaitingForWrite(c)'
      BY <1>1, WriteEnds
    <3>3. taken' - 0 = taken /\ joined' = joined
      BY <1>2, <2>2
    <3>4. ASSUME NEW d \in Clients
          PROVE  /\ \A i \in 1..Len(feed'[d]) : feed'[d][i] = joined'[d] + i
                 /\ d \in clients' \ broken' =>
                      joined'[d] + Len(feed'[d]) =
                        taken' - (IF WaitingForWrite(d)' THEN 1 ELSE 0)
      <4>1. CASE d = c
        BY <4>1, <2>2, <2>3, <2>4, <3>2, <3>3
      <4>2. CASE d # c
        BY <4>2, <2>2, <3>1, <3>3 DEF FeedIsComplete
      <4>3. QED
        BY <4>1, <4>2
    <3>5. QED
      BY <3>4 DEF FeedIsComplete
<1>8. QED
  BY <1>3, <1>4, <1>5, <1>6, <1>7

LEMMA WriteFailsStep ==
  ASSUME IInv, NEW c \in Clients, WriteFails(c)
  PROVE  IInv'
<1> USE DEF IInv
<1>1. hub = "write" /\ target = c /\ WriteReturns /\ todo' = todo
  BY DEF WriteFails
<1>2. TypeOK'
  BY DEF TypeOK, WriteFails, WriteReturns, peerVars
<1>3. HubShape'
  BY <1>1, NoClientAssumption DEF HubShape, WriteFails, WriteReturns
<1>4. EntryHasReader'
  BY DEF EntryHasReader, WriteFails
<1>5. NothingBeforeRegister'
  <2>1. handler[c] \in {"reading", "unregistering"}
    BY <1>1, WriteEnds DEF EntryHasReader
  <2>2. QED
    BY <2>1 DEF NothingBeforeRegister, WriteFails
<1>6. FeedIsComplete'
  BY <1>1, WriteEnds DEF FeedIsComplete, WriteFails
<1>7. QED
  BY <1>2, <1>3, <1>4, <1>5, <1>6

-------------------------------------------------------------------------------
LEMMA StepInv == IInv /\ [Next]_vars => IInv'
<1> SUFFICES ASSUME IInv, [Next]_vars PROVE IInv'
  OBVIOUS
<1>1. CASE TakeBroadcast
  BY <1>1, TakeBroadcastStep
<1>2. CASE EndBroadcast
  BY <1>2, EndBroadcastStep
<1>3. CASE OfferState
  BY <1>3, OutsideStep
<1>4. ASSUME NEW c \in Clients, ServiceStep(c)
      PROVE  IInv'
  BY <1>4, HandlerStep, RegisterStep, UnregisterStep, NextClientStep,
     WriteOkStep, WriteFailsStep
  DEF ServiceStep
<1>5. ASSUME NEW c \in Clients, PeerStep(c)
      PROVE  IInv'
  BY <1>5, OutsideStep
<1>6. CASE UNCHANGED vars
  BY <1>6 DEF vars, IInv, TypeOK, HubShape, EntryHasReader,
              NothingBeforeRegister, FeedIsComplete, WaitingForWrite
<1>7. QED
  BY <1>1, <1>2, <1>3, <1>4, <1>5, <1>6 DEF Next

\* The inductive invariant of the service: the hub's range loop visits only
\* clients in its map, so whatever it is doing the map, the readers and the
\* feeds agree (hub.go:28-50).
THEOREM SpecInv == Spec => []IInv
  BY InitInv, StepInv, PTL DEF Spec

\* The state of the hub, its goroutines and its sockets is always well formed;
\* in particular at most one state waits to be taken (hub.go:24-26).
THEOREM TypeCorrect == Spec => []TypeOK
  BY SpecInv, PTL DEF IInv

\* The hub's map holds exactly the connections whose reader will unregister
\* them, and what the hub writes to is in the map, so it is never a socket that
\* is closed, however connections come, break and go (hub.go:31-47,
\* client.go:92-94).
THEOREM ReadersAreFollowed == Spec => []HubFollowsReaders
<1>1. IInv => NeverWritesToClosed
  BY DEF IInv, TypeOK, HubShape, EntryHasReader, NeverWritesToClosed
<1>2. IInv => HubFollowsReaders
  BY <1>1 DEF IInv, HubFollowsReaders
<1>3. QED
  BY <1>2, SpecInv, PTL

\* A registered client with a working socket has been written every state
\* taken since it joined, once and in order (hub.go:37-47).
THEOREM FeedCorrect == Spec => []FeedIsComplete
  BY SpecInv, PTL DEF IInv

-------------------------------------------------------------------------------
(* The refinement of StateFeed, one lemma per kind of step. *)

FeedFrame == UNCHANGED <<taken, clients, broken, joined, feed>>

LEMMA FrameStutters == FeedFrame => UNCHANGED Feed!feedVars
<1> SUFFICES ASSUME FeedFrame PROVE UNCHANGED Feed!feedVars
  OBVIOUS
<1>1. (clients \ broken)' = clients \ broken /\ taken' = taken
  BY DEF FeedFrame
<1>2. [c \in Clients |-> joined[c] + Len(feed[c])]'
        = [c \in Clients |-> joined[c] + Len(feed[c])]
  BY DEF FeedFrame
<1>3. QED
  BY <1>1, <1>2 DEF Feed!feedVars

LEMMA RegisterSubscribes ==
  ASSUME IInv, NEW c \in Clients, Register(c)
  PROVE  Feed!Subscribe(c)
<1>1. c \notin clients /\ c \notin broken /\ feed[c] = <<>>
  BY DEF Register, IInv, EntryHasReader, NothingBeforeRegister
<1>2. (clients \ broken)' = (clients \ broken) \cup {c}
  BY <1>1 DEF Register
<1>3. taken \in Nat /\ joined \in [Clients -> Nat] /\ Len(feed[c]) = 0
  BY <1>1 DEF IInv, TypeOK
<1>4. [d \in Clients |-> joined[d] + Len(feed[d])]' =
        [[d \in Clients |-> joined[d] + Len(feed[d])] EXCEPT ![c] = taken]
  <2>1. ASSUME NEW d \in Clients
        PROVE  joined'[d] + Len(feed'[d]) =
                 IF d = c THEN taken ELSE joined[d] + Len(feed[d])
    BY <1>3 DEF Register
  <2>2. QED
    BY <2>1
<1>5. QED
  BY <1>1, <1>2, <1>4 DEF Feed!Subscribe, Register

LEMMA UnregisterDrops ==
  ASSUME IInv, NEW c \in Clients, Unregister(c)
  PROVE  Feed!Drop(c) \/ UNCHANGED Feed!feedVars
<1>1. UNCHANGED <<taken, broken, joined, feed>> /\ clients' = clients \ {c}
  BY DEF Unregister
<1>2. c \in clients
  BY DEF Unregister, IInv, EntryHasReader
<1>3. CASE c \in broken
  BY <1>1, <1>3 DEF Feed!feedVars
<1>4. CASE c \notin broken
  BY <1>1, <1>2, <1>4 DEF Feed!Drop
<1>5. QED
  BY <1>3, <1>4

LEMMA TakeBroadcastPublishes ==
  ASSUME IInv, TakeBroadcast
  PROVE  Feed!PublishState
<1>1. ASSUME NEW c \in clients \ broken
      PROVE  [d \in Clients |-> joined[d] + Len(feed[d])][c] = taken
  <2>1. c \in Clients /\ taken \in Nat
    BY DEF IInv, TypeOK
  <2>2. ~WaitingForWrite(c)
    BY <2>1, NoClientAssumption
    DEF TakeBroadcast, IInv, HubShape, WaitingForWrite, TypeOK
  <2>3. QED
    BY <2>1, <2>2 DEF IInv, FeedIsComplete
<1>2. QED
  BY <1>1 DEF Feed!PublishState, TakeBroadcast

LEMMA WriteOkShows ==
  ASSUME IInv, NEW c \in Clients, WriteOk(c)
  PROVE  Feed!Show(c)
<1>1. hub = "write" /\ target = c /\ WriteReturns /\ todo' = todo
  BY DEF WriteOk
<1>2. c \in clients \ broken /\ WaitingForWrite(c)
  BY <1>1, WriteEnds DEF WriteOk, Writable
<1>3. /\ feed[c] \in Seq(Nat) /\ Len(feed[c]) \in Nat
      /\ taken \in Nat /\ joined[c] \in Nat
  BY DEF IInv, TypeOK
<1>4. joined[c] + Len(feed[c]) = taken - 1
  BY <1>2 DEF IInv, FeedIsComplete
<1>5. Len(feed'[c]) = Len(feed[c]) + 1
  BY <1>3 DEF WriteOk, IInv, TypeOK
<1>6. \A d \in Clients \ {c} : feed'[d] = feed[d]
  BY DEF WriteOk, IInv, TypeOK
<1>7. [d \in Clients |-> joined[d] + Len(feed[d])]' =
        [[d \in Clients |-> joined[d] + Len(feed[d])]
           EXCEPT ![c] = joined[c] + Len(feed[c]) + 1]
  <2>1. ASSUME NEW d \in Clients
        PROVE  joined'[d] + Len(feed'[d]) =
                 IF d = c THEN joined[c] + Len(feed[c]) + 1
                          ELSE joined[d] + Len(feed[d])
    BY <1>3, <1>5, <1>6 DEF WriteOk
  <2>2. QED
    BY <2>1
<1>8. UNCHANGED <<taken, clients, broken>>
  BY DEF WriteOk
<1>9. QED
  BY <1>2, <1>3, <1>4, <1>7, <1>8 DEF Feed!Show

LEMMA WriteFailsDrops ==
  ASSUME IInv, NEW c \in Clients, WriteFails(c)
  PROVE  Feed!Drop(c) \/ UNCHANGED Feed!feedVars
<1>1. /\ UNCHANGED <<taken, clients, joined, feed>>
      /\ broken' = broken \cup {c}
  BY DEF WriteFails
<1>2. c \in clients
  BY WriteEnds DEF WriteFails
<1>3. CASE c \in broken
  BY <1>1, <1>3 DEF Feed!feedVars
<1>4. CASE c \notin broken
  BY <1>1, <1>2, <1>4 DEF Feed!Drop
<1>5. QED
  BY <1>3, <1>4

LEMMA StepRefines == IInv /\ [Next]_vars => [Feed!FeedNext]_Feed!feedVars
<1> SUFFICES ASSUME IInv, [Next]_vars PROVE [Feed!FeedNext]_Feed!feedVars
  OBVIOUS
<1>1. CASE TakeBroadcast
  BY <1>1, TakeBroadcastPublishes DEF Feed!FeedNext
<1>2. CASE EndBroadcast \/ OfferState \/ UNCHANGED vars
  BY <1>2, FrameStutters DEF EndBroadcast, OfferState, vars, hubVars, FeedFrame
<1>3. ASSUME NEW c \in Clients, ServiceStep(c)
      PROVE  [Feed!FeedNext]_Feed!feedVars
  <2>1. CASE Upgrade(c) \/ ReadError(c) \/ BadMessage(c) \/ CloseSocket(c)
             \/ NextClient(c)
    BY <2>1, FrameStutters
    DEF Upgrade, ReadError, BadMessage, ReadFails, CloseSocket, NextClient,
        hubVars, FeedFrame
  <2>2. CASE Register(c)
    BY <2>2, RegisterSubscribes DEF Feed!FeedNext
  <2>3. CASE Unregister(c)
    BY <2>3, UnregisterDrops DEF Feed!FeedNext
  <2>4. CASE WriteOk(c)
    BY <2>4, WriteOkShows DEF Feed!FeedNext
  <2>5. CASE WriteFails(c)
    BY <2>5, WriteFailsDrops DEF Feed!FeedNext
  <2>6. QED
    BY <1>3, <2>1, <2>2, <2>3, <2>4, <2>5 DEF ServiceStep
<1>4. ASSUME NEW c \in Clients, PeerStep(c)
      PROVE  [Feed!FeedNext]_Feed!feedVars
  BY <1>4, FrameStutters
  DEF PeerStep, Receive, ReceiveLate, Stall, Resume, Leave, hubVars, FeedFrame
<1>5. QED
  BY <1>1, <1>2, <1>3, <1>4 DEF Next

\* The web-socket service implements the lock-step feed: no interleaving of
\* registrations, broken sockets and broadcasts makes a viewer skip, repeat or
\* reorder a state, or lets the hub run ahead of a viewer (hub.go:28-50).
THEOREM RefinesFeed == Spec => ImplementsFeed
<1>1. Init => Feed!FeedInit
  <2>1. SUFFICES ASSUME Init PROVE Feed!FeedInit
    OBVIOUS
  <2>2. [c \in Clients |-> joined[c] + Len(feed[c])] = [c \in Clients |-> 0]
    <3>1. ASSUME NEW c \in Clients PROVE joined[c] + Len(feed[c]) = 0
      <4>1. joined[c] = 0 /\ feed[c] = <<>>
        BY <2>1 DEF Init
      <4>2. QED
        BY <4>1
    <3>2. QED
      BY <3>1
  <2>3. taken = 0 /\ clients \ broken = {}
    BY <2>1 DEF Init
  <2>4. QED
    BY <2>2, <2>3 DEF Feed!FeedInit
<1>2. QED
  BY <1>1, SpecInv, StepRefines, PTL DEF Spec, ImplementsFeed, Feed!FeedSpec

-------------------------------------------------------------------------------
\* The hub writes to a socket that is full, and its browser does not read.
HeldUpBy(c) ==
  /\ hub = "write" /\ target = c /\ Writable(c)
  /\ ~HasRoom(c) /\ peer[c] = "stalled"

\* What one such browser does to all the others, for any number of connections
\* and any buffer: until it reads again or is gone nobody is registered or taken
\* out, no state is taken and none is written, and nothing the backend does gets
\* over it.  It is the step behind WriteIsBounded (hub.go:28-50, client.go:40-41,
\* 61-79).
THEOREM OneHoldsUpAll ==
  Spec => [][\A c \in Clients : HeldUpBy(c) =>
               /\ UNCHANGED <<hubVars, broken, feed>>
               /\ HeldUpBy(c)' \/ peer'[c] # "stalled"]_vars
<1>1. ASSUME IInv, Next, NEW c \in Clients, HeldUpBy(c)
      PROVE  /\ UNCHANGED <<hubVars, broken, feed>>
             /\ HeldUpBy(c)' \/ peer'[c] # "stalled"
  <2>1. hub = "write" /\ target = c /\ Writable(c) /\ ~HasRoom(c) /\ peer[c] = "stalled"
    BY <1>1 DEF HeldUpBy
  <2>2. UNCHANGED <<hubVars, broken, feed>>
    BY <1>1, <2>1 DEF Next, TakeBroadcast, EndBroadcast, OfferState, ServiceStep, PeerStep,
       Upgrade, ReadError, BadMessage, ReadFails, CloseSocket, Register, Unregister,
       NextClient, WriteOk, WriteFails, Receive, ReceiveLate, Stall, Resume, Leave
  <2>3. handler[c] \in {"reading", "unregistering"}
    BY <1>1, <2>1, NoClientAssumption DEF IInv, HubShape, EntryHasReader
  <2>4. handler'[c] # "closed"
    <3>1. ASSUME NEW d \in Clients, CloseSocket(d) PROVE handler'[c] # "closed"
      BY <1>1, <2>3, <3>1 DEF CloseSocket, IInv, TypeOK
    <3>2. ASSUME NEW d \in Clients, Upgrade(d) \/ ReadFails(d) PROVE handler'[c] # "closed"
      BY <1>1, <2>3, <3>2 DEF Upgrade, ReadFails, IInv, TypeOK
    <3>3. CASE UNCHANGED handler
      BY <2>3, <3>3
    <3>4. QED
      BY <1>1, <2>1, <3>1, <3>2, <3>3 DEF Next, TakeBroadcast, EndBroadcast, OfferState,
         ServiceStep, PeerStep, ReadError, BadMessage, Register, Unregister, NextClient,
         WriteOk, WriteFails, Receive, ReceiveLate, Stall, Resume, Leave
  <2>5. got'[c] = got[c] \/ peer'[c] # "stalled"
    BY <1>1, <2>1 DEF Next, TakeBroadcast, EndBroadcast, OfferState, ServiceStep, PeerStep,
       Upgrade, ReadError, BadMessage, ReadFails, CloseSocket, Register, Unregister,
       NextClient, WriteOk, WriteFails, Receive, ReceiveLate, Disconnected, Stall, Resume,
       Leave, peerVars, IInv, TypeOK
  <2>6. QED
    BY <2>1, <2>2, <2>4, <2>5 DEF HeldUpBy, Writable, HasRoom, hubVars
<1>2. IInv /\ [Next]_vars =>
        [\A c \in Clients : HeldUpBy(c) =>
           /\ UNCHANGED <<hubVars, broken, feed>>
           /\ HeldUpBy(c)' \/ peer'[c] # "stalled"]_vars
  BY <1>1
<1>3. QED
  BY <1>2, SpecInv, PTL DEF Spec
===============================================================================
