-------------------------- MODULE RobotServiceProofs --------------------------
(***************************************************************************)
(* Proofs about RobotService for any set of connections and robots, any    *)
(* number of states and loadings and any socket buffer: its types, that a  *)
(* page whose socket is open is served by the hub, and that the whole      *)
(* backend implements the one RobotPage supposes.                          *)
(***************************************************************************)
EXTENDS RobotService, WebSocketHubProofs, SequenceTheorems

(* The page's connection has been dialled by this loading of the page, and *)
(* nobody else takes it from the hub while neither end has lost it.        *)
PageLink ==
  /\ fetch = "none" => mine = NoClient /\ ~closed
  /\ mine # NoClient => handler[mine] # "none"
  /\ mine # NoClient /\ ~closed /\ peer[mine] # "gone" =>
       /\ handler[mine] \in {"registering", "reading"} /\ mine \notin broken

(* No browser has received more than it was sent, and one that was not     *)
(* connected yet is still to come.                                         *)
SocketShape ==
  \A c \in Clients :
    /\ got[c] <= Len(feed[c])
    /\ handler[c] = "none" => peer[c] = "up"

(* What has been written and what is being written is no more than what the *)
(* hub took since the registration, for broken and closed sockets too.      *)
Due(c) == IF WaitingForWrite(c) THEN 1 ELSE 0

SentIsTaken ==
  \A c \in Clients : joined[c] + Len(feed[c]) + Due(c) <= taken

(* The last state stored is what the database holds for its robot.         *)
LastIsStored == about # <<>> => stored[about[Len(about)]] = Len(about)

SInv ==
  IInv /\ ServiceTypeOK /\ PageLink /\ SocketShape /\ SentIsTaken /\ LastIsStored

-------------------------------------------------------------------------------
LEMMA ServiceStepsHub ==
  ASSUME mine \in Clients \cup {NoClient}, [ServiceNext]_serviceVars
  PROVE  [Next]_vars
<1>1. CASE TelemetryStep
  BY <1>1 DEF TelemetryStep, Offer, Take, HubMovesOn, StoreState, Next
<1>2. CASE PageReceives
  BY <1>2 DEF PageReceives, PageConn, Registered, Next, PeerStep
<1>3. CASE PageStep /\ ~PageReceives
  BY <1>3 DEF PageStep, BackendLosesPage, PageLosesSocket, Mount, AnswerGet, GetSucceeds,
     GetFails, Reload, Next, PeerStep
<1>4. ASSUME NEW c \in Clients, ConnectionStep(c) PROVE [Next]_vars
  BY <1>4 DEF ConnectionStep, PageDials, HubServes, OthersAct, Next, ServiceStep,
     PeerStep
<1>5. CASE UNCHANGED serviceVars
  BY <1>5 DEF serviceVars
<1>6. QED
  BY <1>1, <1>2, <1>3, <1>4, <1>5 DEF ServiceNext, PageStep

LEMMA ServiceStarts == ServiceInit => SInv
<1> SUFFICES ASSUME ServiceInit PROVE SInv
  OBVIOUS
<1>1. IInv
  BY InitInv DEF ServiceInit
<1>2. ServiceTypeOK
  <2>1. about = <<>> /\ offered = 0 /\ taken = 0 /\ session = 1
    BY DEF ServiceInit, Init
  <2>2. about \in Seq(Robots) /\ Len(about) = 0
    BY <2>1
  <2>3. Len(about) \in offered..(taken + 1) /\ Len(about) <= MaxMessages
        /\ session \in 1..MaxSessions
    BY <2>1, <2>2, BoundsAssumption, SessionsAssumption
  <2>4. NothingShown \in [Robots -> 0..MaxMessages]
    BY BoundsAssumption DEF NothingShown
  <2>5. closed \in BOOLEAN
    BY DEF ServiceInit
  <2>6. /\ stored = NothingShown /\ answer = NothingShown /\ shown = NothingShown
        /\ fetch = "none" /\ mine = NoClient /\ missed = {} /\ heard = {}
    BY DEF ServiceInit, NothingShown
  <2>7. QED
    BY <2>2, <2>3, <2>4, <2>5, <2>6 DEF ServiceTypeOK
<1>3. PageLink /\ SocketShape /\ LastIsStored
  BY DEF ServiceInit, Init, PageLink, SocketShape, LastIsStored
<1>4. SentIsTaken
  <2>1. Init
    BY DEF ServiceInit
  <2>2. SUFFICES ASSUME NEW c \in Clients
                 PROVE  joined[c] + Len(feed[c]) + Due(c) <= taken
    BY DEF SentIsTaken
  <2>3. joined[c] = 0 /\ feed[c] = <<>> /\ todo = {} /\ target = NoClient /\ taken = 0
    BY <2>1 DEF Init
  <2>4. Due(c) = 0
    BY <2>3, NoClientAssumption DEF Due, WaitingForWrite
  <2>5. Len(feed[c]) = 0
    <3>1. feed[c] \in Seq(Nat)
      BY <1>1 DEF IInv, TypeOK
    <3>2. QED
      BY <2>3, <3>1, EmptySeq
  <2>6. QED
    BY <2>3, <2>4, <2>5
<1>5. QED
  BY <1>1, <1>2, <1>3, <1>4 DEF SInv

-------------------------------------------------------------------------------
(* Sockets and browsers. *)

LEMMA SocketStep ==
  ASSUME IInv, SocketShape, [Next]_vars
  PROVE  SocketShape'
<1> USE DEF SocketShape
<1>0. /\ handler \in [Clients -> HandlerState] /\ peer \in [Clients -> {"up", "stalled", "gone"}]
      /\ feed \in [Clients -> Seq(Nat)] /\ got \in [Clients -> Nat] /\ taken \in Nat
  BY DEF IInv, TypeOK
<1>1. CASE TakeBroadcast \/ EndBroadcast \/ OfferState
  BY <1>1 DEF TakeBroadcast, EndBroadcast, OfferState, peerVars, hubVars
<1>2. ASSUME NEW d \in Clients, ServiceStep(d) PROVE SocketShape'
  <2>1. CASE WriteOk(d)
    <3>1. /\ UNCHANGED <<got, peer, handler>>
          /\ feed' = [feed EXCEPT ![d] = Append(@, taken)]
      BY <2>1 DEF WriteOk, peerVars
    <3>2. ASSUME NEW c \in Clients PROVE Len(feed[c]) <= Len(feed'[c])
      BY <1>0, <3>1
    <3>3. \A c \in Clients : Len(feed[c]) \in Nat /\ Len(feed'[c]) \in Nat
      BY <1>0, <3>1
    <3>4. QED
      BY <1>0, <3>1, <3>2, <3>3
  <2>2. CASE ~WriteOk(d)
    <3>1. UNCHANGED <<got, peer, feed>>
      BY <1>2, <2>2 DEF ServiceStep, Upgrade, ReadError, BadMessage, ReadFails,
         CloseSocket, Register, Unregister, NextClient, WriteFails, peerVars
    <3>2. \A c \in Clients : handler'[c] = "none" => handler[c] = "none"
      BY <1>0, <1>2, <2>2 DEF ServiceStep, Upgrade, ReadError, BadMessage, ReadFails,
         CloseSocket, Register, Unregister, NextClient, WriteFails
    <3>3. QED
      BY <3>1, <3>2
  <2>3. QED
    BY <2>1, <2>2
<1>3. ASSUME NEW d \in Clients, PeerStep(d) PROVE SocketShape'
  <2>1. UNCHANGED <<handler, feed>>
    BY <1>3 DEF PeerStep, Receive, ReceiveLate, Stall, Resume, Leave
  <2>2. CASE Receive(d) \/ ReceiveLate(d)
    <3>1. UNCHANGED <<handler, feed, peer>> /\ got' = [got EXCEPT ![d] = @ + 1]
          /\ got[d] < Len(feed[d])
      BY <2>2 DEF Receive, ReceiveLate
    <3>2. \A c \in Clients : Len(feed[c]) \in Nat
      BY <1>0
    <3>3. QED
      BY <1>0, <3>1, <3>2
  <2>3. CASE Stall(d) \/ Resume(d) \/ Leave(d)
    <3>1. got' = got /\ handler[d] # "none"
      BY <2>3 DEF Stall, Resume, Leave, Connected
    <3>2. \A c \in Clients : c # d => peer'[c] = peer[c]
      BY <1>0, <2>3 DEF Stall, Resume, Leave
    <3>3. QED
      BY <2>1, <3>1, <3>2
  <2>4. QED
    BY <1>3, <2>2, <2>3 DEF PeerStep
<1>4. CASE UNCHANGED vars
  BY <1>4 DEF vars
<1>5. QED
  BY <1>1, <1>2, <1>3, <1>4 DEF Next

LEMMA SentStep ==
  ASSUME IInv, SentIsTaken, [Next]_vars
  PROVE  SentIsTaken'
<1> USE DEF SentIsTaken, Due, WaitingForWrite
<1>0. /\ feed \in [Clients -> Seq(Nat)] /\ joined \in [Clients -> Nat] /\ taken \in Nat
      /\ \A c \in Clients : Len(feed[c]) \in Nat /\ joined[c] \in Nat
  BY DEF IInv, TypeOK
<1>1. CASE TakeBroadcast
  <2>1. /\ taken' = taken + 1 /\ UNCHANGED <<joined, feed, target>>
        /\ \A c \in Clients : ~WaitingForWrite(c)
    BY <1>1, NoClientAssumption DEF TakeBroadcast, IInv, HubShape
  <2>2. \A c \in Clients : joined[c] + Len(feed[c]) <= taken
    BY <1>0, <2>1
  <2>3. QED
    BY <1>0, <2>1, <2>2
<1>2. ASSUME NEW d \in Clients, WriteOk(d) PROVE SentIsTaken'
  <2>1. /\ target = d /\ target' = NoClient /\ d \notin todo
        /\ feed' = [feed EXCEPT ![d] = Append(@, taken)]
        /\ UNCHANGED <<joined, taken, todo>>
    BY <1>2, NoClientAssumption DEF WriteOk, WriteReturns, IInv, HubShape
  <2>2. \A c \in Clients : Len(feed'[c]) = Len(feed[c]) + (IF c = d THEN 1 ELSE 0)
    BY <1>0, <2>1
  <2>3. QED
    BY <1>0, <2>1, <2>2, NoClientAssumption
<1>3. ASSUME NEW d \in Clients, Register(d) PROVE SentIsTaken'
  <2>1. /\ joined' = [joined EXCEPT ![d] = taken] /\ UNCHANGED <<taken, feed, todo, target>>
        /\ feed[d] = <<>> /\ ~WaitingForWrite(d)
    BY <1>3, NoClientAssumption DEF Register, IInv, HubShape, NothingBeforeRegister
  <2>2. \A c \in Clients : joined'[c] = IF c = d THEN taken ELSE joined[c]
    BY <1>0, <2>1
  <2>3. Len(feed[d]) = 0
    BY <2>1
  <2>4. QED
    BY <1>0, <2>1, <2>2, <2>3
<1>4. CASE /\ UNCHANGED <<joined, feed, taken>>
           /\ \A c \in Clients : WaitingForWrite(c)' => WaitingForWrite(c)
  BY <1>0, <1>4
<1>5. ASSUME NEW d \in Clients, NextClient(d) \/ WriteFails(d) PROVE SentIsTaken'
  <2>1. UNCHANGED <<joined, feed, taken>>
    BY <1>5 DEF NextClient, WriteFails
  <2>2. \A c \in Clients : WaitingForWrite(c)' => WaitingForWrite(c)
    BY <1>5, NoClientAssumption DEF NextClient, WriteFails, WriteReturns
  <2>3. QED
    BY <1>4, <2>1, <2>2
<1>6. CASE /\ ~TakeBroadcast
           /\ \A d \in Clients : ~WriteOk(d) /\ ~Register(d) /\ ~NextClient(d) /\ ~WriteFails(d)
  <2>1. UNCHANGED <<joined, feed, taken, todo, target>>
    BY <1>6 DEF Next, ServiceStep, PeerStep, EndBroadcast, OfferState, Upgrade, ReadError,
       BadMessage, ReadFails, CloseSocket, Unregister, Receive, ReceiveLate, Stall, Resume,
       Leave, vars, hubVars
  <2>2. QED
    BY <1>4, <2>1
<1>7. QED
  BY <1>1, <1>2, <1>3, <1>5, <1>6
-------------------------------------------------------------------------------
(* What is on the page's wire: the states written to its socket after the   *)
(* ones it has received, and the one the hub has still to write.            *)

OnLine == PageConn \in {"open", "lost"}

Base == joined[mine] + got[mine]
Left == Len(feed[mine]) - got[mine]

AllStates == [id : Robots, temp : 1..MaxMessages]

LEMMA StateTyped ==
  ASSUME SInv, NEW n \in 1..Len(about)
  PROVE  StateOf(n) \in AllStates
<1>1. about \in Seq(Robots) /\ Len(about) <= MaxMessages
  BY DEF SInv, ServiceTypeOK
<1>2. about[n] \in Robots /\ n \in 1..MaxMessages
  BY <1>1, BoundsAssumption
<1>3. QED
  BY <1>2 DEF StateOf, AllStates

LEMMA TakenIsStored ==
  ASSUME SInv
  PROVE  taken \in 0..Len(about) /\ Len(about) \in Nat
<1>1. about \in Seq(Robots) /\ Len(about) \in offered..(taken + 1)
  BY DEF SInv, ServiceTypeOK
<1>2. taken \in Nat /\ offered \in taken..(taken + 1)
  BY DEF SInv, IInv, TypeOK
<1>3. QED
  BY <1>1, <1>2

WireAt(n) == StateOf(IF n <= Left THEN Base + n ELSE taken)

WireFact ==
  SInv /\ OnLine =>
    /\ mine \in Clients /\ taken \in 0..Len(about)
    /\ Base \in Nat /\ Left \in Nat /\ Due(mine) \in 0..1
    /\ Base + Left + Due(mine) <= taken
    /\ PageWire \in Seq(AllStates) /\ Len(PageWire) = Left + Due(mine)
    /\ \A n \in 1..Left : PageWire[n] = StateOf(Base + n)
    /\ Due(mine) = 1 => PageWire[Left + 1] = StateOf(taken)
    /\ got[mine] < Len(feed[mine]) => feed[mine][got[mine] + 1] = Base + 1 /\ Left > 0
    /\ \A n \in 1..Len(PageWire) : PageWire[n] = WireAt(n)

LEMMA WireIs == WireFact
<1> SUFFICES ASSUME SInv, OnLine
    PROVE  /\ mine \in Clients /\ taken \in 0..Len(about)
           /\ Base \in Nat /\ Left \in Nat /\ Due(mine) \in 0..1
           /\ Base + Left + Due(mine) <= taken
           /\ PageWire \in Seq(AllStates) /\ Len(PageWire) = Left + Due(mine)
           /\ \A n \in 1..Left : PageWire[n] = StateOf(Base + n)
           /\ Due(mine) = 1 => PageWire[Left + 1] = StateOf(taken)
           /\ got[mine] < Len(feed[mine]) => feed[mine][got[mine] + 1] = Base + 1 /\ Left > 0
           /\ \A n \in 1..Len(PageWire) : PageWire[n] = WireAt(n)
  BY DEF WireFact
<1>1. mine \in Clients
  BY DEF SInv, ServiceTypeOK, OnLine, PageConn, Registered
<1>2. taken \in 0..Len(about) /\ Len(about) \in Nat
  BY TakenIsStored
<1> DEFINE F == feed[mine]
           J == joined[mine]
           G == got[mine]
           W == Due(mine)
<1>3. /\ F \in Seq(Nat) /\ J \in Nat /\ G \in Nat /\ W \in 0..1
      /\ G <= Len(F) /\ Len(F) \in Nat /\ J + Len(F) + W <= taken
  BY <1>1 DEF SInv, IInv, TypeOK, SocketShape, SentIsTaken, Due
<1>4. \A k \in 1..Len(F) : F[k] = J + k
  BY <1>1 DEF SInv, IInv, FeedIsComplete
<1>5. Base = J + G /\ Left = Len(F) - G /\ Left \in Nat /\ Base \in Nat
      /\ Base + Left + W <= taken
  BY <1>2, <1>3 DEF Base, Left
<1>6. /\ Unread(mine) \in Seq(AllStates) /\ Len(Unread(mine)) = Left
      /\ \A n \in 1..Left : Unread(mine)[n] = StateOf(Base + n)
  <2>1. \A n \in 1..Left : F[G + n] = Base + n /\ Base + n \in 1..Len(about)
    <3> HIDE DEF F, G, J, W
    <3>1. TAKE n \in 1..Left
    <3>2. G + n \in 1..Len(F)
      BY <1>3, <1>5
    <3>3. F[G + n] = J + (G + n)
      BY <3>2, <1>4
    <3>4. QED
      BY <3>2, <3>3, <1>2, <1>3, <1>5
  <2>2. \A n \in 1..Left : StateOf(F[G + n]) = StateOf(Base + n)
                           /\ StateOf(F[G + n]) \in AllStates
    BY <2>1, StateTyped
  <2>3. Unread(mine) = [n \in 1..Left |-> StateOf(F[G + n])]
    BY DEF Unread, Left
  <2> HIDE DEF F, G, J, W
  <2>4. Unread(mine) \in [1..Left -> AllStates]
    BY <2>2, <2>3
  <2>5. Unread(mine) \in Seq(AllStates) /\ Len(Unread(mine)) = Left
    BY <1>5, <2>4, SeqDef, LenProperties
  <2>6. \A n \in 1..Left : Unread(mine)[n] = StateOf(Base + n)
    BY <2>2, <2>3
  <2>7. QED
    BY <2>5, <2>6
<1>7. PageWire = Unread(mine) \o (IF W = 1 THEN <<StateOf(taken)>> ELSE <<>>)
  BY DEF PageWire, OnLine, Due
<1>8. /\ PageWire \in Seq(AllStates) /\ Len(PageWire) = Left + W
      /\ \A n \in 1..Left : PageWire[n] = StateOf(Base + n)
      /\ W = 1 => PageWire[Left + 1] = StateOf(taken)
  <2>1. CASE W = 1
    <3>1. StateOf(taken) \in AllStates
      <4>1. taken \in 1..Len(about)
        BY <2>1, <1>2, <1>5
      <4>2. QED
        BY <4>1, StateTyped
    <3> HIDE DEF F, G, J, W
    <3>2. PageWire = Unread(mine) \o <<StateOf(taken)>>
      BY <1>7, <2>1
    <3>3. <<StateOf(taken)>> \in Seq(AllStates) /\ Len(<<StateOf(taken)>>) = 1
          /\ <<StateOf(taken)>>[1] = StateOf(taken)
      BY <3>1
    <3>4. /\ PageWire \in Seq(AllStates) /\ Len(PageWire) = Left + 1
          /\ \A n \in 1..(Left + 1) :
               PageWire[n] = IF n <= Left THEN Unread(mine)[n] ELSE StateOf(taken)
      BY <1>5, <1>6, <3>2, <3>3, ConcatProperties
    <3>5. QED
      BY <1>5, <1>6, <2>1, <3>4
  <2>2. CASE W = 0
    <3> HIDE DEF F, G, J, W
    <3>1. PageWire = Unread(mine)
      BY <1>6, <1>7, <2>2, ConcatEmptySeq
    <3>2. QED
      BY <1>5, <1>6, <2>2, <3>1
  <2>3. QED
    BY <1>3, <2>1, <2>2
<1>9. G < Len(F) => F[G + 1] = Base + 1 /\ Left > 0
  <2> HIDE DEF F, G, J, W
  <2>1. QED
    BY <1>3, <1>4, <1>5
<1>10. \A n \in 1..Len(PageWire) : PageWire[n] = WireAt(n)
  <2> HIDE DEF F, G, J, W
  <2>1. TAKE n \in 1..Len(PageWire)
  <2>2. CASE n <= Left
    BY <1>5, <1>8, <2>2 DEF WireAt
  <2>3. CASE ~(n <= Left)
    <3>1. W = 1 /\ n = Left + 1
      BY <1>3, <1>5, <1>8, <2>3
    <3>2. QED
      BY <1>8, <2>3, <3>1 DEF WireAt
  <2>4. QED
    BY <2>2, <2>3
<1>11. QED
  BY <1>1, <1>2, <1>3, <1>5, <1>8, <1>9, <1>10

LEMMA WireIsNext == WireFact'
BY WireIs, PTL

\* While neither end has lost the connection, the wire goes up to the last state
\* the hub has taken.
OpenFact ==
  SInv /\ PageConn = "open" =>
    /\ mine \in clients \ broken /\ handler[mine] = "reading" /\ peer[mine] # "gone"
    /\ Base \in 0..taken /\ Base + Left + Due(mine) = taken
    /\ Len(PageWire) = taken - Base
    /\ \A n \in 1..(taken - Base) : PageWire[n] = StateOf(Base + n)

LEMMA OpenIs == OpenFact
<1> SUFFICES ASSUME SInv, PageConn = "open"
    PROVE  /\ mine \in clients \ broken /\ handler[mine] = "reading" /\ peer[mine] # "gone"
           /\ Base \in 0..taken /\ Base + Left + Due(mine) = taken
           /\ Len(PageWire) = taken - Base
           /\ \A n \in 1..(taken - Base) : PageWire[n] = StateOf(Base + n)
  BY DEF OpenFact
<1>1. /\ mine \in Clients /\ handler[mine] = "reading" /\ peer[mine] # "gone"
      /\ mine \notin broken
  BY DEF SInv, ServiceTypeOK, PageLink, PageConn, Registered
<1>2. mine \in clients
  BY <1>1 DEF SInv, IInv, EntryHasReader
<1>3. /\ taken \in Nat /\ Base \in Nat /\ Left \in Nat /\ Due(mine) \in 0..1
      /\ Base + Left + Due(mine) <= taken /\ Len(PageWire) = Left + Due(mine)
      /\ \A n \in 1..Left : PageWire[n] = StateOf(Base + n)
      /\ Due(mine) = 1 => PageWire[Left + 1] = StateOf(taken)
  BY WireIs, TakenIsStored DEF WireFact, OnLine
<1>4. joined[mine] + Len(feed[mine]) = taken - Due(mine)
  BY <1>1, <1>2 DEF SInv, IInv, FeedIsComplete, Due
<1>5. Base + Left + Due(mine) = taken
  <2>1. /\ joined[mine] \in Nat /\ got[mine] \in Nat /\ Len(feed[mine]) \in Nat
    BY <1>1 DEF SInv, IInv, TypeOK
  <2>2. QED
    BY <1>3, <1>4, <2>1 DEF Base, Left
<1>6. \A n \in 1..(taken - Base) : PageWire[n] = StateOf(Base + n)
  <2>1. TAKE n \in 1..(taken - Base)
  <2>2. n \in 1..Left \/ (Due(mine) = 1 /\ n = Left + 1 /\ Base + n = taken)
    BY <1>3, <1>5
  <2>3. QED
    BY <1>3, <2>2
<1>7. QED
  BY <1>1, <1>2, <1>3, <1>5, <1>6

LEMMA OpenIsNext == OpenFact'
BY OpenIs, PTL
-------------------------------------------------------------------------------
(* The types, in two halves: what the telemetry goroutine has stored, and    *)
(* the page.                                                                 *)

StoreTyped ==
  /\ stored \in [Robots -> 0..MaxMessages]
  /\ about \in Seq(Robots) /\ Len(about) \in offered..(taken + 1)
  /\ Len(about) <= MaxMessages

ViewTyped ==
  /\ session \in 1..MaxSessions /\ mine \in Clients \cup {NoClient}
  /\ fetch \in {"none", "asked", "answered", "loaded", "failed"}
  /\ answer \in [Robots -> 0..MaxMessages]
  /\ shown \in [Robots -> 0..MaxMessages]
  /\ closed \in BOOLEAN
  /\ missed \subseteq Robots /\ heard \subseteq Robots

LEMMA TypeParts == ServiceTypeOK <=> StoreTyped /\ ViewTyped
BY DEF ServiceTypeOK, StoreTyped, ViewTyped

LEMMA StoreStep ==
  ASSUME IInv, StoreTyped, LastIsStored, [ServiceNext]_serviceVars
  PROVE  StoreTyped' /\ LastIsStored'
<1>0. taken \in Nat /\ offered \in taken..(taken + 1) /\ offered <= MaxMessages
  BY DEF IInv, TypeOK
<1>1. ASSUME NEW i \in Robots, StoreState(i) PROVE StoreTyped' /\ LastIsStored'
  <2>1. /\ taken = Len(about) /\ Len(about) < MaxMessages
        /\ about' = Append(about, i) /\ stored' = [stored EXCEPT ![i] = Len(about')]
        /\ offered' = offered /\ taken' = taken
    BY <1>1 DEF StoreState, vars
  <2>2. about \in Seq(Robots) /\ stored \in [Robots -> 0..MaxMessages]
    BY DEF StoreTyped
  <2>3. /\ about' \in Seq(Robots) /\ Len(about') = Len(about) + 1
        /\ about'[Len(about')] = i
    BY <2>1, <2>2
  <2>4. stored' \in [Robots -> 0..MaxMessages] /\ stored'[i] = Len(about')
    BY <2>1, <2>2, <2>3, BoundsAssumption
  <2>5. Len(about') \in offered'..(taken' + 1) /\ Len(about') <= MaxMessages
    BY <1>0, <2>1, <2>3, BoundsAssumption DEF StoreTyped
  <2>6. QED
    BY <2>3, <2>4, <2>5 DEF StoreTyped, LastIsStored
<1>2. CASE Offer
  <2>1. /\ UNCHANGED <<stored, about, taken>> /\ offered < Len(about)
        /\ offered = taken /\ offered' = offered + 1
    BY <1>2 DEF Offer, OfferState, storeVars, hubVars
  <2>2. QED
    BY <1>0, <2>1 DEF StoreTyped, LastIsStored
<1>3. CASE Take
  <2>1. /\ UNCHANGED <<stored, about, offered>> /\ taken < offered /\ taken' = taken + 1
    BY <1>3 DEF Take, TakeBroadcast, storeVars
  <2>2. QED
    BY <1>0, <2>1 DEF StoreTyped, LastIsStored
<1>4. CASE HubMovesOn \/ PageStep
  <2>1. UNCHANGED <<stored, about, offered, taken>>
    BY <1>4 DEF HubMovesOn, EndBroadcast, PageStep, PageReceives, Receive, ReceiveLate,
       BackendLosesPage, PageLosesSocket, Leave, Mount, AnswerGet, GetSucceeds, GetFails,
       Reload, vars, storeVars, hubVars
  <2>2. QED
    BY <2>1 DEF StoreTyped, LastIsStored
<1>5. ASSUME NEW c \in Clients, ConnectionStep(c) PROVE StoreTyped' /\ LastIsStored'
  <2>1. UNCHANGED <<stored, about>>
    BY <1>5 DEF ConnectionStep, PageDials, HubServes, OthersAct, storeVars
  <2>2. UNCHANGED <<offered, taken>>
    BY <1>5 DEF ConnectionStep, PageDials, HubServes, OthersAct, Upgrade, Register,
       Unregister, ReadError, BadMessage, ReadFails, CloseSocket, NextClient,
       WriteOk, WriteFails, Receive, ReceiveLate, Leave, hubVars
  <2>3. QED
    BY <2>1, <2>2 DEF StoreTyped, LastIsStored
<1>6. CASE UNCHANGED serviceVars
  BY <1>6 DEF serviceVars, storeVars, vars, StoreTyped, LastIsStored
<1>7. QED
  BY <1>1, <1>2, <1>3, <1>4, <1>5, <1>6 DEF ServiceNext, TelemetryStep

\* What the page handles next is a state of a robot.
LEMMA NextStateTyped ==
  ASSUME SInv, PageReceives
  PROVE  feed[mine][got[mine] + 1] \in 1..Len(about)
<1>1. OnLine /\ got[mine] < Len(feed[mine])
  BY DEF OnLine, PageReceives, Receive, ReceiveLate
<1>2. /\ Base \in Nat /\ Left \in Nat /\ Left > 0 /\ Due(mine) \in 0..1
      /\ Base + Left + Due(mine) <= taken
      /\ feed[mine][got[mine] + 1] = Base + 1
  BY <1>1, WireIs DEF WireFact
<1>3. QED
  BY <1>2, TakenIsStored

\* What a lost socket carried are states of robots.
LEMMA LostAreRobots ==
  ASSUME SInv
  PROVE  OnTheWire \subseteq Robots
<1> USE DEF OnTheWire
<1>1. CASE OnLine
  <2>1. PageWire \in Seq(AllStates)
    BY <1>1, WireIs DEF WireFact
  <2>2. \A n \in DOMAIN PageWire : PageWire[n] \in AllStates
    BY <2>1
  <2>3. QED
    BY <2>2 DEF AllStates
<1>2. CASE ~OnLine
  BY <1>2 DEF PageWire, OnLine
<1>3. QED
  BY <1>1, <1>2

LEMMA ViewStep ==
  ASSUME SInv, StoreTyped', [ServiceNext]_serviceVars
  PROVE  ViewTyped'
<1>0. ViewTyped /\ StoreTyped
  BY TypeParts DEF SInv
<1>1. CASE UNCHANGED viewVars
  BY <1>0, <1>1 DEF viewVars, ViewTyped
<1>2. CASE Take
  <2>1. /\ UNCHANGED <<session, mine, fetch, answer, shown, closed, heard, about>>
        /\ missed' = missed \/ missed' = Unseen({about[taken']})
        /\ taken < offered /\ taken' = taken + 1
    BY <1>2 DEF Take, TakeBroadcast, storeVars
  <2>2. about[taken'] \in Robots
    <3>1. taken \in Nat /\ offered \in taken..(taken + 1)
      BY DEF SInv, IInv, TypeOK
    <3>2. about \in Seq(Robots) /\ Len(about) \in offered..(taken + 1)
      BY <1>0 DEF StoreTyped
    <3>3. taken' \in 1..Len(about)
      BY <2>1, <3>1, <3>2
    <3>4. QED
      BY <3>2, <3>3
  <2>3. missed' \subseteq Robots
    BY <1>0, <2>1, <2>2 DEF ViewTyped, Unseen
  <2>4. QED
    BY <1>0, <2>1, <2>3 DEF ViewTyped
<1>3. ASSUME NEW c \in Clients, PageDials(c) PROVE ViewTyped'
  BY <1>0, <1>3 DEF PageDials, ViewTyped
<1>4. CASE PageReceives
  <2> DEFINE m == feed[mine][got[mine] + 1]
  <2>1. m \in 1..Len(about) /\ StateOf(m).id \in Robots /\ StateOf(m).temp \in 0..MaxMessages
    <3>1. m \in 1..Len(about)
      BY <1>4, NextStateTyped
    <3>2. StateOf(m) \in AllStates
      BY <3>1, StateTyped
    <3>3. QED
      BY <3>1, <3>2, BoundsAssumption DEF AllStates
  <2>2. UNCHANGED <<session, mine, fetch, answer, closed>> /\ Page!ApplyStatus(StateOf(m))
    BY <1>4 DEF PageReceives
  <2> HIDE DEF m
  <2>3. /\ shown' = shown \/ shown' = [shown EXCEPT ![StateOf(m).id] = StateOf(m).temp]
        /\ heard' = heard \/ heard' = heard \cup {StateOf(m).id}
        /\ missed' \subseteq missed \cup {StateOf(m).id}
    BY <2>2 DEF Page!ApplyStatus, Page!Unseen
  <2>4. QED
    BY <1>0, <2>1, <2>2, <2>3 DEF ViewTyped
<1>5. CASE BackendLosesPage \/ PageLosesSocket
  <2>1. /\ UNCHANGED <<session, mine, fetch, answer, shown, heard>>
        /\ closed' = TRUE \/ closed' = closed
        /\ missed' = Unseen(OnTheWire)
    BY <1>5 DEF BackendLosesPage, PageLosesSocket
  <2>2. missed' \subseteq Robots
    BY <1>0, <2>1, LostAreRobots DEF ViewTyped, Unseen
  <2>3. closed' \in BOOLEAN
    BY <1>0, <2>1 DEF ViewTyped
  <2>4. QED
    BY <1>0, <2>1, <2>2, <2>3 DEF ViewTyped
<1>6. CASE Mount \/ AnswerGet \/ GetSucceeds \/ GetFails
  BY <1>0, <1>6, LostAreRobots
  DEF Mount, AnswerGet, GetSucceeds, GetFails, ViewTyped, StoreTyped
<1>7. CASE Reload
  <2>1. NothingShown \in [Robots -> 0..MaxMessages]
    BY BoundsAssumption DEF NothingShown
  <2>2. session' \in 1..MaxSessions
    BY <1>0, <1>7, SessionsAssumption DEF Reload, ViewTyped
  <2>3. closed' \in BOOLEAN
    BY <1>7 DEF Reload
  <2>4. /\ mine' = NoClient /\ fetch' = "none" /\ answer' = NothingShown
        /\ shown' = NothingShown /\ missed' = {} /\ heard' = {}
    BY <1>7 DEF Reload
  <2>5. QED
    BY <2>1, <2>2, <2>3, <2>4 DEF ViewTyped
<1>8. QED
  BY <1>1, <1>2, <1>3, <1>4, <1>5, <1>6, <1>7
  DEF ServiceNext, TelemetryStep, PageStep, ConnectionStep, StoreState, Offer,
      HubMovesOn, HubServes, OthersAct, serviceVars
-------------------------------------------------------------------------------
(* The page and its connection. *)

\* No step of the hub or of another viewer takes the page's connection away.
LEMMA OthersKeepLink ==
  ASSUME SInv, NEW c \in Clients, HubServes(c) \/ OthersAct(c)
  PROVE  PageLink'
<1>0. /\ handler \in [Clients -> HandlerState] /\ peer \in [Clients -> {"up", "stalled", "gone"}]
      /\ mine \in Clients \cup {NoClient}
  BY DEF SInv, IInv, TypeOK, ServiceTypeOK
<1>1. UNCHANGED <<fetch, mine, closed>>
  BY DEF HubServes, OthersAct, viewVars
<1>2. ASSUME mine # NoClient PROVE handler'[mine] # "none"
  <2>1. mine \in Clients /\ handler[mine] # "none"
    BY <1>0, <1>2 DEF SInv, PageLink
  <2>2. QED
    BY <1>0, <2>1 DEF HubServes, OthersAct, Upgrade, Register, Unregister, ReadError,
       BadMessage, ReadFails, CloseSocket, NextClient, WriteOk, WriteFails, Receive,
       ReceiveLate, Leave
<1>3. ASSUME mine # NoClient, ~closed, peer'[mine] # "gone"
      PROVE  handler'[mine] \in {"registering", "reading"} /\ mine \notin broken'
  <2>1. /\ mine \in Clients /\ handler[mine] \in {"registering", "reading"}
        /\ peer[mine] # "gone" /\ mine \notin broken
    <3>1. mine \in Clients
      BY <1>0, <1>3
    <3>2. peer'[mine] = peer[mine]
      BY <1>0, <3>1 DEF HubServes, OthersAct, Upgrade, Register, Unregister, ReadError,
         BadMessage, ReadFails, CloseSocket, NextClient, WriteOk, WriteFails, Receive,
         ReceiveLate, Leave, peerVars
    <3>3. QED
      BY <1>3, <3>1, <3>2 DEF SInv, PageLink
  <2>2. CASE OthersAct(c)
    BY <1>0, <2>1, <2>2 DEF OthersAct, Upgrade, BadMessage, ReadFails, Receive, ReceiveLate,
       Leave, peerVars
  <2>3. CASE HubServes(c)
    BY <1>0, <2>1, <2>3 DEF HubServes, Register, Unregister, ReadError, ReadFails,
       CloseSocket, NextClient, WriteOk, WriteFails, Writable, peerVars
  <2>4. QED
    BY <2>2, <2>3
<1>4. QED
  BY <1>1, <1>2, <1>3 DEF SInv, PageLink

LEMMA LinkStep ==
  ASSUME SInv, [ServiceNext]_serviceVars
  PROVE  PageLink'
<1> USE DEF PageLink
<1>0. PageLink
  BY DEF SInv
<1>1. CASE TelemetryStep \/ UNCHANGED serviceVars
  <2>1. UNCHANGED <<fetch, mine, closed, handler, peer, broken>>
    BY <1>1 DEF TelemetryStep, StoreState, Offer, OfferState, Take, TakeBroadcast,
       HubMovesOn, EndBroadcast, serviceVars, vars, viewVars, peerVars
  <2>2. QED
    BY <1>0, <2>1
<1>2. ASSUME NEW c \in Clients, PageDials(c) PROVE PageLink'
  <2>1. /\ mine' = c /\ handler[c] = "none" /\ handler' = [handler EXCEPT ![c] = "registering"]
        /\ UNCHANGED <<fetch, closed, peer, broken>> /\ fetch # "none"
    BY <1>2 DEF PageDials, Upgrade, peerVars
  <2>2. peer[c] = "up" /\ c \notin broken
    BY <2>1 DEF SInv, SocketShape, IInv, NothingBeforeRegister
  <2>3. handler'[c] = "registering"
    BY <2>1 DEF SInv, IInv, TypeOK
  <2>4. QED
    BY <2>1, <2>2, <2>3
<1>3. ASSUME NEW c \in Clients, HubServes(c) \/ OthersAct(c) PROVE PageLink'
  BY <1>3, OthersKeepLink
<1>4. CASE PageReceives
  <2>1. UNCHANGED <<fetch, mine, closed, handler, peer, broken>>
    BY <1>4 DEF PageReceives, Receive, ReceiveLate
  <2>2. QED
    BY <1>0, <2>1
<1>5. CASE PageLosesSocket
  <2>1. fetch # "none" /\ fetch' = fetch /\ mine' = mine /\ closed' /\ handler' = handler
    BY <1>5 DEF PageLosesSocket, PageConn, vars
  <2>2. QED
    BY <1>0, <2>1
<1>9. CASE BackendLosesPage
  <2>1. /\ mine # NoClient /\ mine \in Clients /\ peer' = [peer EXCEPT ![mine] = "gone"]
        /\ UNCHANGED <<fetch, mine, closed, handler>>
    BY <1>9 DEF BackendLosesPage, Leave, SInv, ServiceTypeOK
  <2>2. peer'[mine] = "gone"
    BY <2>1 DEF SInv, IInv, TypeOK
  <2>3. QED
    BY <1>0, <2>1, <2>2
<1>6. CASE Mount \/ AnswerGet \/ GetSucceeds \/ GetFails
  <2>1. UNCHANGED <<mine, closed, handler, peer, broken>> /\ fetch' # "none"
    BY <1>6 DEF Mount, AnswerGet, GetSucceeds, GetFails, vars
  <2>2. QED
    BY <1>0, <2>1
<1>7. CASE Reload
  BY <1>7 DEF Reload
<1>8. QED
  BY <1>1, <1>2, <1>3, <1>4, <1>5, <1>6, <1>7, <1>9
  DEF ServiceNext, PageStep, ConnectionStep

LEMMA ServiceKeeps == SInv /\ [ServiceNext]_serviceVars => SInv'
<1> SUFFICES ASSUME SInv, [ServiceNext]_serviceVars PROVE SInv'
  OBVIOUS
<1>1. /\ IInv /\ SocketShape /\ SentIsTaken /\ LastIsStored /\ StoreTyped
      /\ mine \in Clients \cup {NoClient}
  BY TypeParts DEF SInv, ServiceTypeOK
<1>2. [Next]_vars
  BY <1>1, ServiceStepsHub
<1>3. IInv' /\ SocketShape' /\ SentIsTaken'
  BY <1>1, <1>2, StepInv, SocketStep, SentStep
<1>4. StoreTyped' /\ LastIsStored'
  BY <1>1, StoreStep
<1>5. ViewTyped'
  BY <1>4, ViewStep
<1>6. PageLink'
  BY LinkStep
<1>7. ServiceTypeOK'
  BY <1>4, <1>5 DEF ServiceTypeOK, StoreTyped, ViewTyped
<1>8. QED
  BY <1>3, <1>4, <1>6, <1>7 DEF SInv

LEMMA ServiceAlways == EndToEnd => []SInv
BY ServiceStarts, ServiceKeeps, PTL DEF EndToEnd

\* Every variable of the composed backend keeps its type; the database is never
\* more than one state ahead of what the hub has taken (robots.go:174-198,
\* hub.go:27-49).
THEOREM ServiceTypeCorrect == EndToEnd => []ServiceTypeOK
<1>1. SInv => ServiceTypeOK
  BY DEF SInv
<1>2. QED
  BY <1>1, ServiceAlways, PTL

\* For any number of viewers: until its connection is lost at one end, the hub
\* serves a page, and each state the hub took since has been handled or is on
\* its way; nothing that others do takes one from it (hub.go:31-47,
\* client.go:61-94).
THEOREM PageIsServed == EndToEnd => []OpenIsServed
<1>1. SInv => OpenIsServed
  <2>1. SUFFICES ASSUME SInv, PageConn = "open"
                 PROVE  /\ mine \in clients \ broken /\ handler[mine] = "reading"
                        /\ joined[mine] + got[mine] + Len(PageWire) = taken
    BY DEF OpenIsServed
  <2>2. /\ mine \in clients \ broken /\ handler[mine] = "reading"
        /\ Base \in 0..taken /\ Len(PageWire) = taken - Base
    BY <2>1, OpenIs DEF OpenFact
  <2>3. taken \in Nat
    BY <2>1, TakenIsStored
  <2>4. QED
    BY <2>2, <2>3 DEF Base
<1>2. QED
  BY <1>1, ServiceAlways, PTL

\* Behind its store and its page the hub is still the hub: all that is proved
\* of WebSocketHub holds of the composition (websocket.go:25-50).
THEOREM ServiceKeepsHub == EndToEnd => Spec
<1>1. ServiceInit => Init
  BY DEF ServiceInit
<1>2. SInv => mine \in Clients \cup {NoClient}
  BY DEF SInv, ServiceTypeOK
<1>3. SInv /\ [ServiceNext]_serviceVars => [Next]_vars
  BY <1>2, ServiceStepsHub
<1>4. QED
  BY <1>1, <1>3, ServiceAlways, PTL DEF EndToEnd, Spec
-------------------------------------------------------------------------------
(* Every step of the composition is a step of RobotPage or changes nothing   *)
(* that RobotPage knows of.                                                  *)

\* The variables of RobotPage that the composition changes.
Seen == <<stored, Len(about), Unannounced, session, fetch, answer, shown,
          PageConn, PageWire, missed, heard>>

LEMMA SeenIsAll == UNCHANGED Seen => UNCHANGED Page!vars
BY DEF Seen, Page!vars, Page!backendVars, Page!pageVars, Page!motorVars,
   Page!pastVars

\* The wire is the same when the page's place in what was taken is, and when
\* the state the hub has to write is written.
SameLeft ==
  \/ Left' = Left /\ Due(mine)' = Due(mine) /\ (Due(mine) = 1 => taken' = taken)
  \/ Left' = Left + 1 /\ Due(mine) = 1 /\ Due(mine)' = 0 /\ Base + Left + 1 = taken

LEMMA SlotStays ==
  ASSUME NEW b \in Nat, NEW l \in Nat, NEW d \in 0..1, NEW t \in Nat,
         NEW l2 \in Int, NEW d2 \in Int, NEW t2 \in Int, NEW n \in 1..(l + d),
         \/ l2 = l /\ d2 = d /\ (d = 1 => t2 = t)
         \/ l2 = l + 1 /\ d = 1 /\ d2 = 0 /\ b + l + 1 = t
  PROVE  (IF n <= l THEN b + n ELSE t) = (IF n <= l2 THEN b + n ELSE t2)
OBVIOUS

LEMMA WireStays ==
  ASSUME SInv, SInv', PageConn' = PageConn,
         \A n \in 1..Len(about) : about'[n] = about[n],
         OnLine => /\ Base' = Base
                   /\ (PageConn = "open" /\ taken' = taken) \/ SameLeft
  PROVE  PageWire' = PageWire
<1>1. CASE PageConn = "open" /\ taken' = taken
  <2>1. /\ PageWire \in Seq(AllStates) /\ Len(PageWire) = taken - Base
        /\ \A n \in 1..(taken - Base) : PageWire[n] = StateOf(Base + n)
        /\ Base \in 0..taken /\ taken \in 0..Len(about) /\ Len(about) \in Nat
    BY <1>1, WireIs, OpenIs, TakenIsStored DEF WireFact, OpenFact, OnLine
  <2>2. Base' = Base
    BY <1>1 DEF OnLine
  <2>3. /\ PageWire' \in Seq(AllStates) /\ Len(PageWire') = taken - Base
        /\ \A n \in 1..(taken - Base) : PageWire'[n] = [id |-> about'[Base + n], temp |-> Base + n]
    BY <1>1, <2>2, WireIsNext, OpenIsNext DEF WireFact, OpenFact, OnLine, StateOf
  <2>4. \A n \in 1..(taken - Base) : PageWire'[n] = PageWire[n]
    <3>1. TAKE n \in 1..(taken - Base)
    <3>2. Base + n \in 1..Len(about)
      BY <2>1
    <3>3. QED
      BY <2>1, <2>3, <3>2 DEF StateOf
  <2>5. QED
    BY <2>1, <2>3, <2>4, SeqEqual
<1>2. CASE OnLine /\ SameLeft
  <2>1. /\ PageWire \in Seq(AllStates) /\ Len(PageWire) = Left + Due(mine)
        /\ \A n \in 1..Len(PageWire) : PageWire[n] = WireAt(n)
        /\ Base \in Nat /\ Left \in Nat /\ Due(mine) \in 0..1
        /\ Base + Left + Due(mine) <= taken /\ taken \in 0..Len(about) /\ Len(about) \in Nat
    BY <1>2, WireIs, TakenIsStored DEF WireFact
  <2>2. Base' = Base /\ OnLine'
    BY <1>2 DEF OnLine
  <2>3. /\ PageWire' \in Seq(AllStates) /\ Len(PageWire') = Left' + Due(mine)'
        /\ \A n \in 1..Len(PageWire') : PageWire'[n] = WireAt(n)'
        /\ Left' \in Nat /\ Due(mine)' \in 0..1
    BY <2>2, WireIsNext DEF WireFact
  <2>4. Len(PageWire') = Len(PageWire)
    <3>1. Left' + Due(mine)' = Left + Due(mine)
      <4>1. CASE Left' = Left /\ Due(mine)' = Due(mine)
        BY <4>1
      <4>2. CASE Left' = Left + 1 /\ Due(mine) = 1 /\ Due(mine)' = 0
        <5>1. Left + 1 + 0 = Left + 1
          BY <2>1
        <5>2. QED
          BY <4>2, <5>1
      <4>3. QED
        BY <1>2, <4>1, <4>2 DEF SameLeft
    <3>2. QED
      BY <2>1, <2>3, <3>1
  <2>5. \A n \in 1..Len(PageWire) : WireAt(n)' = WireAt(n)
    <3>1. TAKE n \in 1..Len(PageWire)
    <3> DEFINE k == IF n <= Left THEN Base + n ELSE taken
               l == IF n <= Left' THEN Base + n ELSE taken'
    <3>2. k \in 1..Len(about)
      BY <2>1
    <3>3. k = l
      <4>1. \/ Left' = Left /\ Due(mine)' = Due(mine) /\ (Due(mine) = 1 => taken' = taken)
            \/ Left' = Left + 1 /\ Due(mine) = 1 /\ Due(mine)' = 0 /\ Base + Left + 1 = taken
        BY <1>2 DEF SameLeft
      <4>2. taken \in Nat /\ taken' \in Nat /\ n \in 1..(Left + Due(mine))
        BY <2>1 DEF SInv, IInv, TypeOK
      <4>3. QED
        BY <2>1, <2>3, <4>1, <4>2, SlotStays
    <3>4. WireAt(n) = [id |-> about[k], temp |-> k]
      BY DEF WireAt, StateOf
    <3>5. WireAt(n)' = [id |-> about'[l], temp |-> l]
      BY <2>2 DEF WireAt, StateOf
    <3> HIDE DEF k, l
    <3>6. QED
      BY <3>2, <3>3, <3>4, <3>5
  <2>6. QED
    BY <2>1, <2>3, <2>4, <2>5, SeqEqual
<1>3. CASE ~OnLine
  BY <1>3 DEF PageWire, OnLine
<1>4. QED
  BY <1>1, <1>2, <1>3

\* A step that leaves store and page alone, and the page's connection where it
\* is, is nothing to the page.
LEMMA QuietForPage ==
  ASSUME UNCHANGED <<storeVars, viewVars, taken>>,
         PageConn' = PageConn, PageWire' = PageWire
  PROVE  UNCHANGED Page!vars
<1>1. UNCHANGED <<stored, about, session, mine, fetch, answer, shown, closed,
                  missed, heard, taken>>
  BY DEF storeVars, viewVars
<1>2. Unannounced' = Unannounced /\ Len(about)' = Len(about)
  BY <1>1 DEF Unannounced
<1>3. QED
  BY <1>1, <1>2, SeenIsAll DEF Seen

\* So is one that touches neither the page's connection nor what the hub owes it.
LEMMA UntouchedIsQuiet ==
  ASSUME SInv, SInv', UNCHANGED <<storeVars, viewVars, taken>>,
         mine # NoClient =>
           /\ handler'[mine] = handler[mine] /\ peer'[mine] = peer[mine]
           /\ got'[mine] = got[mine] /\ joined'[mine] = joined[mine]
           /\ feed'[mine] = feed[mine] /\ Due(mine)' = Due(mine)
  PROVE  UNCHANGED Page!vars
<1>1. UNCHANGED <<about, mine, fetch, closed, taken>>
  BY DEF storeVars, viewVars
<1>2. PageConn' = PageConn
  BY <1>1 DEF PageConn, Registered
<1>3. OnLine => mine # NoClient
  BY DEF OnLine, PageConn, Registered
<1>4. PageWire' = PageWire
  BY <1>1, <1>2, <1>3, WireStays DEF Base, Left, SameLeft
<1>5. QED
  BY <1>2, <1>4, QuietForPage

LEMMA StoreStateStores ==
  ASSUME SInv, SInv', NEW i \in Robots, StoreState(i)
  PROVE  Page!StoreState(i)
<1>1. /\ taken = Len(about) /\ Len(about) < MaxMessages
      /\ about' = Append(about, i) /\ stored' = [stored EXCEPT ![i] = Len(about')]
      /\ UNCHANGED <<session, mine, fetch, answer, shown, closed, missed, heard>>
      /\ UNCHANGED <<handler, peer, joined, got, taken, feed, todo, target>>
  BY DEF StoreState, vars, viewVars
<1>2. about \in Seq(Robots) /\ Len(about) \in Nat
  BY DEF SInv, ServiceTypeOK
<1>3. /\ Len(about') = Len(about) + 1 /\ about'[Len(about')] = i
      /\ \A n \in 1..Len(about) : about'[n] = about[n]
  BY <1>1, <1>2
<1>4. Unannounced = Nobody /\ Unannounced' = i
  BY <1>1, <1>2, <1>3 DEF Unannounced
<1>5. PageConn' = PageConn
  BY <1>1 DEF PageConn, Registered
<1>6. PageWire' = PageWire
  BY <1>1, <1>3, <1>5, WireStays DEF Base, Left, Due, WaitingForWrite, SameLeft
<1>7. QED
  BY <1>1, <1>2, <1>3, <1>4, <1>5, <1>6
  DEF Page!StoreState, Page!pageVars, Page!motorVars, Page!pastVars

\* The hub's next broadcast is for the page when the page is in the hub's map.
LEMMA TakeIsDue ==
  ASSUME SInv, SInv', Take, OnLine
  PROVE  /\ OnLine' /\ Left' = Left /\ Base' = Base /\ Due(mine) = 0
         /\ Due(mine)' = IF mine \in clients THEN 1 ELSE 0
<1>1. /\ todo' = clients /\ hub = "select"
      /\ UNCHANGED <<mine, fetch, closed, handler, peer, joined, got, feed, target>>
  BY DEF Take, TakeBroadcast, peerVars
<1>2. mine \in Clients
  BY WireIs DEF WireFact
<1>3. todo = {} /\ target = NoClient /\ mine # NoClient
  BY <1>1, <1>2, NoClientAssumption DEF SInv, IInv, HubShape
<1>4. PageConn' = PageConn
  BY <1>1 DEF PageConn, Registered
<1>5. QED
  BY <1>1, <1>3, <1>4 DEF OnLine, Left, Base, Due, WaitingForWrite

LEMMA TakeAnnounces ==
  ASSUME SInv, SInv', Take
  PROVE  Page!Announce
<1>1. /\ taken < offered /\ taken' = taken + 1
      /\ UNCHANGED <<stored, about, session, mine, fetch, answer, shown, closed, heard>>
      /\ UNCHANGED <<handler, peer, joined, got, feed>>
      /\ missed' = IF PageConn = "open" THEN missed ELSE Unseen({about[taken']})
  BY DEF Take, TakeBroadcast, storeVars, peerVars
<1>2. /\ taken \in Nat /\ offered \in taken..(taken + 1)
      /\ about \in Seq(Robots) /\ Len(about) \in offered..(taken + 1)
  BY DEF SInv, IInv, TypeOK, ServiceTypeOK
<1>3. Len(about) = taken + 1 /\ about[taken + 1] \in Robots
  BY <1>1, <1>2
<1>4. /\ Unannounced = about[taken + 1] /\ Unannounced # Nobody
      /\ Unannounced' = Nobody /\ stored[Unannounced] = taken + 1
  <2>1. about # <<>>
    BY <1>2, <1>3
  <2>2. stored[about[Len(about)]] = Len(about)
    BY <2>1 DEF SInv, LastIsStored
  <2>3. QED
    BY <1>1, <1>2, <1>3, <2>2, RobotsAssumption DEF Unannounced
<1>5. PageConn' = PageConn
  BY <1>1 DEF PageConn, Registered
<1> DEFINE new == [id |-> Unannounced, temp |-> stored[Unannounced]]
<1>6. new = StateOf(taken + 1) /\ new \in AllStates
  <2>1. new = StateOf(taken + 1)
    BY <1>4 DEF StateOf
  <2>2. taken + 1 \in 1..Len(about)
    BY <1>2, <1>3
  <2>3. QED
    BY <2>1, <2>2, StateTyped
<1>7. missed' = IF PageConn # "open" THEN Page!Unseen({Unannounced}) ELSE missed
  BY <1>1, <1>4 DEF Unseen, Page!Unseen, Page!Answered
<1> HIDE DEF new
<1>8. CASE OnLine /\ mine \in clients
  <2>1. /\ PageWire \in Seq(AllStates) /\ Len(PageWire) = Left
        /\ \A n \in 1..Left : PageWire[n] = StateOf(Base + n)
        /\ Left \in Nat /\ Base \in Nat
    BY <1>8, WireIs, TakeIsDue DEF WireFact
  <2>2. /\ PageWire' \in Seq(AllStates) /\ Len(PageWire') = Left + 1
        /\ \A n \in 1..Left : PageWire'[n] = StateOf(Base + n)
        /\ PageWire'[Left + 1] = StateOf(taken + 1)
    <3>1. /\ OnLine' /\ Left' = Left /\ Base' = Base /\ Due(mine)' = 1
      BY <1>8, TakeIsDue
    <3>2. /\ PageWire' \in Seq(AllStates) /\ Len(PageWire') = Left' + Due(mine)'
          /\ \A n \in 1..Left' : PageWire'[n] = [id |-> about'[Base' + n], temp |-> Base' + n]
          /\ PageWire'[Left' + 1] = [id |-> about'[taken'], temp |-> taken']
      BY <3>1, WireIsNext DEF WireFact, StateOf
    <3>3. QED
      BY <1>1, <3>1, <3>2 DEF StateOf
  <2>3. /\ Append(PageWire, new) \in Seq(AllStates)
        /\ Len(Append(PageWire, new)) = Left + 1
        /\ \A n \in 1..Left : Append(PageWire, new)[n] = StateOf(Base + n)
        /\ Append(PageWire, new)[Left + 1] = StateOf(taken + 1)
    BY <1>6, <2>1, AppendProperties
  <2>4. \A n \in 1..(Left + 1) : PageWire'[n] = Append(PageWire, new)[n]
    <3>1. TAKE n \in 1..(Left + 1)
    <3>2. n \in 1..Left \/ n = Left + 1
      BY <2>1
    <3>3. QED
      BY <2>2, <2>3, <3>2
  <2>5. PageWire' = Append(PageWire, new)
    BY <2>2, <2>3, <2>4, SeqEqual
  <2>6. PageConn \in {"open", "lost"}
    BY <1>8 DEF OnLine
  <2>7. QED
    BY <1>1, <1>4, <1>5, <1>7, <2>5, <2>6 DEF Page!Announce, Page!motorVars, new
<1>9. CASE ~(OnLine /\ mine \in clients)
  <2>1. PageConn # "open"
    BY <1>9, OpenIs DEF OnLine, OpenFact
  <2>2. PageWire' = PageWire
    BY <1>1, <1>5, <1>9, <2>1, TakeIsDue, WireStays DEF SameLeft
  <2>3. QED
    BY <1>1, <1>4, <1>5, <1>7, <2>1, <2>2 DEF Page!Announce, Page!motorVars
<1>10. QED
  BY <1>8, <1>9

\* The upgrade is not seen: the page is still connecting.
LEMMA DialIsQuiet ==
  ASSUME SInv, SInv', NEW c \in Clients, PageDials(c)
  PROVE  UNCHANGED Page!vars
<1>1. /\ fetch # "none" /\ ~closed /\ mine = NoClient /\ mine' = c
      /\ handler[c] = "none" /\ handler' = [handler EXCEPT ![c] = "registering"]
      /\ UNCHANGED <<stored, about, session, fetch, answer, shown, closed, missed,
                     heard, taken, peer>>
  BY DEF PageDials, Upgrade, storeVars, hubVars, peerVars
<1>2. handler'[c] = "registering" /\ peer[c] = "up"
  BY <1>1 DEF SInv, IInv, TypeOK, SocketShape
<1>3. PageConn = "connecting" /\ PageConn' = "connecting"
  BY <1>1, <1>2 DEF PageConn, Registered
<1>4. PageWire' = PageWire
  BY <1>3 DEF PageWire
<1>5. QED
  BY <1>1, <1>3, <1>4, SeenIsAll DEF Seen, Unannounced

\* A connection that has been written nothing, and is not to be, carries nothing.
EmptyFact ==
  SInv /\ OnLine /\ feed[mine] = <<>> /\ Due(mine) = 0 => PageWire = <<>>

LEMMA NothingCarried == EmptyFact
<1> SUFFICES ASSUME SInv, OnLine, feed[mine] = <<>>, Due(mine) = 0
             PROVE  PageWire = <<>>
  BY DEF EmptyFact
<1>1. /\ mine \in Clients /\ PageWire \in Seq(AllStates)
      /\ Len(PageWire) = Left + Due(mine) /\ Left \in Nat
  BY WireIs DEF WireFact
<1>2. Len(feed[mine]) = 0 /\ got[mine] \in Nat /\ feed[mine] \in Seq(Nat)
  BY <1>1, EmptySeq DEF SInv, IInv, TypeOK
<1>3. Len(PageWire) = 0
  BY <1>1, <1>2 DEF Left
<1>4. QED
  BY <1>1, <1>3, EmptySeq

LEMMA NothingCarriedNext == EmptyFact'
BY NothingCarried, PTL

LEMMA NothingOwed ==
  ASSUME SInv, mine \in Clients, handler[mine] = "registering"
  PROVE  feed[mine] = <<>> /\ Due(mine) = 0
<1>1. feed[mine] = <<>> /\ mine \notin clients /\ mine # NoClient
  BY NoClientAssumption DEF SInv, IInv, NothingBeforeRegister, EntryHasReader
<1>2. mine \notin todo /\ target # mine
  BY <1>1 DEF SInv, IInv, HubShape
<1>3. QED
  BY <1>1, <1>2 DEF Due, WaitingForWrite

\* Until the page is registered its wire is empty, lost or not.
LEMMA RegisterIsEmpty ==
  ASSUME SInv, SInv', Register(mine), mine # NoClient, UNCHANGED viewVars
  PROVE  /\ PageWire = <<>> /\ PageWire' = <<>> /\ mine \in Clients
         /\ handler[mine] = "registering" /\ handler'[mine] = "reading"
         /\ peer' = peer /\ taken' = taken
<1>1. /\ handler[mine] = "registering"
      /\ handler' = [handler EXCEPT ![mine] = "reading"]
      /\ UNCHANGED <<mine, fetch, closed, taken, got, feed, peer, todo, target>>
  BY DEF Register, viewVars, peerVars
<1>2. mine \in Clients /\ handler'[mine] = "reading"
  BY <1>1 DEF SInv, ServiceTypeOK, IInv, TypeOK
<1>3. feed[mine] = <<>> /\ Due(mine) = 0
  BY <1>1, <1>2, NothingOwed
<1>4. feed'[mine'] = <<>> /\ Due(mine)' = 0
  BY <1>1, <1>3 DEF Due, WaitingForWrite
<1>5. PageWire = <<>>
  BY <1>3, NothingCarried DEF EmptyFact, PageWire, OnLine
<1>6. PageWire' = <<>>
  BY <1>4, NothingCarriedNext DEF EmptyFact, PageWire, OnLine
<1>7. QED
  BY <1>1, <1>2, <1>5, <1>6

\* The registration of the page's connection opens it.
LEMMA RegisterConnects ==
  ASSUME SInv, SInv', Register(mine), mine # NoClient, ~closed, peer[mine] # "gone",
         UNCHANGED <<storeVars, viewVars>>
  PROVE  Page!Connect
<1>1. UNCHANGED <<stored, about, session, mine, fetch, answer, shown, closed,
                  missed, heard>>
  BY DEF storeVars, viewVars
<1>2. /\ PageWire = <<>> /\ PageWire' = <<>> /\ handler[mine] = "registering"
      /\ handler'[mine] = "reading" /\ peer' = peer /\ taken' = taken
  BY RegisterIsEmpty
<1>3. fetch # "none"
  BY DEF SInv, PageLink
<1>4. PageConn = "connecting" /\ PageConn' = "open"
  BY <1>1, <1>2, <1>3 DEF PageConn, Registered
<1>5. Unannounced' = Unannounced
  BY <1>1, <1>2 DEF Unannounced
<1>6. QED
  BY <1>1, <1>2, <1>4, <1>5
  DEF Page!Connect, Page!backendVars, Page!motorVars, Page!pastVars

\* A connection that the backend has lost is written to until a write fails.
LEMMA LostIsServed ==
  ASSUME SInv, SInv', HubServes(mine), mine # NoClient, ~closed, peer[mine] = "gone"
  PROVE  Page!WireIsCut \/ UNCHANGED Page!vars
<1>0. /\ mine \in Clients /\ mine # NoClient /\ fetch # "none"
      /\ feed \in [Clients -> Seq(Nat)] /\ got[mine] \in Nat /\ joined[mine] \in Nat
      /\ taken \in Nat /\ Len(feed[mine]) \in Nat
  <2>1. mine \in Clients /\ fetch # "none"
    BY DEF SInv, ServiceTypeOK, PageLink
  <2>2. /\ feed \in [Clients -> Seq(Nat)] /\ got \in [Clients -> Nat]
        /\ joined \in [Clients -> Nat] /\ taken \in Nat
    BY DEF SInv, IInv, TypeOK
  <2>3. feed[mine] \in Seq(Nat)
    BY <2>1, <2>2
  <2>4. QED
    BY <2>1, <2>2, <2>3
<1>1. UNCHANGED <<stored, about, session, mine, fetch, answer, shown, closed,
                  missed, heard>>
  BY DEF HubServes, storeVars, viewVars
<1>2. UNCHANGED <<taken, peer, got>> /\ (~Register(mine) => joined' = joined)
  BY DEF HubServes, Register, Unregister, ReadError, ReadFails, CloseSocket, NextClient,
     WriteOk, WriteFails, hubVars, peerVars
<1>3. PageConn = "lost" /\ PageConn' = "lost" /\ OnLine /\ OnLine'
  BY <1>0, <1>1, <1>2 DEF PageConn, OnLine
<1>4. UNCHANGED <<storeVars, viewVars, taken>>
  BY <1>2 DEF HubServes
<1>5. CASE Register(mine)
  <2>1. PageWire = <<>> /\ PageWire' = <<>>
    BY <1>4, <1>0, <1>5, RegisterIsEmpty
  <2>2. QED
    BY <1>3, <1>4, <2>1, QuietForPage
<1>6. CASE ReadError(mine) \/ Unregister(mine) \/ CloseSocket(mine) \/ NextClient(mine)
  <2>1. feed' = feed /\ joined' = joined
    BY <1>6 DEF ReadError, ReadFails, Unregister, CloseSocket, NextClient
  <2>2. WaitingForWrite(mine)' <=> WaitingForWrite(mine)
    BY <1>0, <1>1, <1>6 DEF ReadError, ReadFails, Unregister, CloseSocket, NextClient, hubVars,
       WaitingForWrite, SInv, IInv, HubShape
  <2>3. Due(mine)' = Due(mine)
    BY <1>1, <2>2 DEF Due
  <2>4. Left' = Left /\ Base' = Base
    BY <1>1, <1>2, <2>1 DEF Left, Base
  <2>5. PageWire' = PageWire
    BY <1>1, <1>2, <1>3, <2>3, <2>4, WireStays DEF SameLeft
  <2>6. QED
    BY <1>3, <1>4, <2>5, QuietForPage
<1>7. CASE WriteOk(mine)
  <2>1. /\ target = mine /\ mine \notin broken /\ target' = NoClient /\ todo' = todo
        /\ feed' = [feed EXCEPT ![mine] = Append(@, taken)] /\ joined' = joined
    BY <1>7 DEF WriteOk, Writable, WriteReturns
  <2>2. mine \in clients \ broken /\ mine \notin todo
    BY <1>0, <2>1 DEF SInv, IInv, HubShape
  <2>3. Due(mine) = 1 /\ Due(mine)' = 0
    BY <1>0, <1>1, <2>1, <2>2 DEF Due, WaitingForWrite
  <2>4. joined[mine] + Len(feed[mine]) = taken - 1
    BY <1>0, <2>1, <2>2 DEF SInv, IInv, FeedIsComplete, WaitingForWrite
  <2>5. Len(feed'[mine]) = Len(feed[mine]) + 1
    BY <1>0, <2>1
  <2>6. Left' = Left + 1 /\ Base' = Base /\ Base + Left + 1 = taken
    <3>1. /\ Left' = Len(feed'[mine]) - got[mine] /\ Left = Len(feed[mine]) - got[mine]
          /\ Base = joined[mine] + got[mine] /\ Base' = Base
      <4>1. mine' = mine /\ got' = got /\ joined' = joined
        BY <1>1, <1>2, <2>1
      <4>2. QED
        BY <4>1 DEF Left, Base
    <3>2. /\ got[mine] \in Int /\ joined[mine] \in Int /\ taken \in Int
          /\ Len(feed[mine]) \in Int
      BY <1>0
    <3>3. Left' = Left + 1
      BY <2>5, <3>1, <3>2
    <3>4. Base + Left = joined[mine] + Len(feed[mine])
      BY <3>1, <3>2
    <3>5. Base + Left + 1 = taken
      BY <2>4, <3>2, <3>4
    <3>6. QED
      BY <3>1, <3>3, <3>5
  <2>7. PageWire' = PageWire
    BY <1>1, <1>3, <2>3, <2>6, WireStays DEF SameLeft
  <2>8. QED
    BY <1>3, <1>4, <2>7, QuietForPage
<1>8. CASE WriteFails(mine)
  <2>1. /\ target = mine /\ target' = NoClient /\ todo' = todo
        /\ feed' = feed /\ joined' = joined
    BY <1>8 DEF WriteFails, WriteReturns
  <2>2. mine \notin todo
    BY <1>0, <2>1 DEF SInv, IInv, HubShape
  <2>3. Due(mine) = 1 /\ Due(mine)' = 0
    BY <1>0, <1>1, <2>1, <2>2 DEF Due, WaitingForWrite
  <2>4. Left' = Left /\ Base' = Base
    BY <1>1, <1>2, <2>1 DEF Left, Base
  <2>5. /\ PageWire \in Seq(AllStates) /\ Len(PageWire) = Left + 1 /\ Left \in Nat
        /\ \A n \in 1..Left : PageWire[n] = StateOf(Base + n)
    BY <1>3, <2>3, WireIs DEF WireFact
  <2>6. /\ PageWire' \in Seq(AllStates) /\ Len(PageWire') = Left
        /\ \A n \in 1..Left : PageWire'[n] = StateOf(Base + n)
    <3>1. /\ PageWire' \in Seq(AllStates) /\ Len(PageWire') = Left' + Due(mine)'
          /\ \A n \in 1..Left' : PageWire'[n] = [id |-> about'[Base' + n], temp |-> Base' + n]
      BY <1>3, WireIsNext DEF WireFact, StateOf
    <3>2. Len(PageWire') = Left
      BY <2>3, <2>4, <2>5, <3>1
    <3>3. QED
      BY <1>1, <2>4, <3>1, <3>2 DEF StateOf
  <2>7. PageWire' = SubSeq(PageWire, 1, Left)
    <3>1. \A n \in 1..Left : PageWire[n] \in AllStates
      BY <2>5
    <3>2. /\ SubSeq(PageWire, 1, Left) \in Seq(AllStates)
          /\ Len(SubSeq(PageWire, 1, Left)) = Left
          /\ \A n \in 1..Left : SubSeq(PageWire, 1, Left)[n] = PageWire[n]
      BY <2>5, <3>1, SubSeqProperties
    <3>3. QED
      BY <2>5, <2>6, <3>2, SeqEqual
  <2>8. Left \in 0..(Len(PageWire) - 1)
    BY <2>5
  <2>9. Unannounced' = Unannounced
    BY <1>1, <1>2 DEF Unannounced
  <2>10. Page!WireIsCut
    BY <1>1, <1>3, <2>7, <2>8, <2>9
    DEF Page!WireIsCut, Page!backendVars, Page!motorVars, Page!pastVars
  <2>11. QED
    BY <2>10
<1>9. QED
  BY <1>5, <1>6, <1>7, <1>8 DEF HubServes

\* What the hub does otherwise for any connection, and what other viewers do,
\* is nothing to the page.
LEMMA OthersAreQuiet ==
  ASSUME SInv, SInv', NEW c \in Clients, HubServes(c) \/ OthersAct(c)
  PROVE  Page!Connect \/ Page!WireIsCut \/ UNCHANGED Page!vars
<1>0. /\ handler \in [Clients -> HandlerState] /\ got \in [Clients -> Nat]
      /\ peer \in [Clients -> {"up", "stalled", "gone"}]
      /\ joined \in [Clients -> Nat] /\ feed \in [Clients -> Seq(Nat)]
      /\ mine \in Clients \cup {NoClient}
  BY DEF SInv, IInv, TypeOK, ServiceTypeOK
<1>1. UNCHANGED <<storeVars, viewVars, taken>>
  BY DEF HubServes, OthersAct, Upgrade, Register, Unregister, ReadError, BadMessage,
     ReadFails, CloseSocket, NextClient, WriteOk, WriteFails, Receive, ReceiveLate, Leave,
     hubVars
<1>2. UNCHANGED <<fetch, mine, closed>>
  BY <1>1 DEF viewVars
<1>3. CASE mine = NoClient \/ closed
  <2>1. PageConn' = PageConn /\ PageConn \notin {"open", "lost"}
    BY <1>2, <1>3 DEF PageConn, Registered
  <2>2. PageWire' = PageWire
    BY <2>1 DEF PageWire
  <2>3. QED
    BY <1>1, <2>1, <2>2, QuietForPage
<1>4. CASE mine # NoClient /\ c # mine
  <2>1. /\ handler'[mine] = handler[mine] /\ peer'[mine] = peer[mine]
        /\ got'[mine] = got[mine] /\ joined'[mine] = joined[mine]
        /\ feed'[mine] = feed[mine]
    BY <1>0, <1>4 DEF HubServes, OthersAct, Upgrade, Register, Unregister, ReadError,
       BadMessage,
       ReadFails, CloseSocket, NextClient, WriteOk, WriteFails, Receive, ReceiveLate, Leave,
       peerVars
  <2>2. WaitingForWrite(mine)' <=> WaitingForWrite(mine)
    BY <1>2, <1>4 DEF HubServes, OthersAct, Upgrade, Register, Unregister, ReadError,
       BadMessage,
       ReadFails, CloseSocket, NextClient, WriteOk, WriteFails, WriteReturns, Receive,
       ReceiveLate, Leave, hubVars, WaitingForWrite, SInv, IInv, HubShape
  <2>3. Due(mine)' = Due(mine)
    BY <1>2, <2>2 DEF Due
  <2>4. QED
    BY <1>1, <2>1, <2>3, UntouchedIsQuiet
<1>5. CASE c = mine /\ ~closed /\ peer[mine] = "gone"
  <2>1. HubServes(mine) /\ mine # NoClient
    BY <1>5, NoClientAssumption DEF OthersAct
  <2>2. QED
    BY <1>5, <2>1, LostIsServed
<1>6. CASE c = mine /\ ~closed /\ peer[mine] # "gone"
  <2>1. HubServes(mine) /\ mine # NoClient /\ mine \in Clients
    BY <1>6, NoClientAssumption DEF OthersAct
  <2>2. CASE Register(mine)
    BY <1>1, <1>6, <2>1, <2>2, RegisterConnects
  <2>3. CASE ~Register(mine)
    <3>1. /\ handler'[mine] = handler[mine] /\ peer'[mine] = peer[mine]
          /\ got'[mine] = got[mine] /\ joined'[mine] = joined[mine]
      <4>1. handler[mine] \in {"registering", "reading"} /\ mine \notin broken
        BY <1>6, <2>1 DEF SInv, PageLink
      <4>2. QED
        BY <1>0, <1>6, <2>1, <2>3, <4>1 DEF HubServes, Unregister, ReadError,
           ReadFails, CloseSocket, NextClient, WriteOk, WriteFails, peerVars
    <3>2. PageConn' = PageConn /\ Base' = Base
      BY <1>2, <3>1 DEF PageConn, Registered, Base
    <3>3. OnLine => PageConn = "open"
      BY <1>6 DEF OnLine, PageConn
    <3>4. about' = about /\ taken' = taken
      BY <1>1 DEF storeVars
    <3>5. PageWire' = PageWire
      BY <3>2, <3>3, <3>4, WireStays
    <3>6. QED
      BY <1>1, <3>2, <3>5, QuietForPage
  <2>4. QED
    BY <2>2, <2>3
<1>7. QED
  BY <1>3, <1>4, <1>5, <1>6

\* What the page handles is the first state on its wire, lost or not.
LEMMA ReceiveIsHandled ==
  ASSUME SInv, SInv', PageReceives
  PROVE  Page!HandleStatus
<1> DEFINE m == feed[mine][got[mine] + 1]
<1>1. /\ OnLine /\ got[mine] < Len(feed[mine])
      /\ got' = [got EXCEPT ![mine] = @ + 1]
      /\ UNCHANGED <<stored, about, session, mine, fetch, answer, closed, taken,
                     handler, peer, joined, feed, todo, target>>
      /\ Page!ApplyStatus(StateOf(m))
  BY DEF PageReceives, Receive, ReceiveLate, storeVars, hubVars, OnLine
<1>2. /\ mine \in Clients /\ Base \in Nat /\ Left \in Nat /\ Left > 0 /\ m = Base + 1
      /\ Due(mine) \in 0..1
      /\ PageWire \in Seq(AllStates) /\ Len(PageWire) = Left + Due(mine)
      /\ \A n \in 1..Len(PageWire) : PageWire[n] = WireAt(n)
  BY <1>1, WireIs DEF WireFact
<1>3. /\ got[mine] \in Nat /\ joined[mine] \in Nat /\ Len(feed[mine]) \in Nat
      /\ got'[mine] = got[mine] + 1
  BY <1>1, <1>2 DEF SInv, IInv, TypeOK
<1>4. PageConn' = PageConn
  BY <1>1 DEF PageConn, Registered
<1>5. Base' = Base + 1 /\ Left' = Left - 1
  BY <1>1, <1>3 DEF Base, Left
<1>6. Due(mine)' = Due(mine)
  BY <1>1 DEF Due, WaitingForWrite
<1>7. /\ PageWire' \in Seq(AllStates) /\ Len(PageWire') = Left - 1 + Due(mine)
      /\ \A n \in 1..Len(PageWire') :
           PageWire'[n] = StateOf(IF n <= Left - 1 THEN Base + 1 + n ELSE taken)
  <2>1. OnLine'
    BY <1>1, <1>4 DEF OnLine
  <2>2. /\ PageWire' \in Seq(AllStates) /\ Len(PageWire') = Left' + Due(mine)'
        /\ \A n \in 1..Len(PageWire') : PageWire'[n] = WireAt(n)'
    BY <2>1, WireIsNext DEF WireFact
  <2>3. \A n : WireAt(n)' = StateOf(IF n <= Left - 1 THEN Base + 1 + n ELSE taken)
    BY <1>1, <1>5 DEF WireAt, StateOf
  <2>4. QED
    BY <1>5, <1>6, <2>2, <2>3
<1> HIDE DEF m
<1>8. PageWire # <<>> /\ Head(PageWire) = StateOf(m)
  <2>1. Len(PageWire) >= 1 /\ PageWire[1] = StateOf(Base + 1)
    BY <1>2 DEF WireAt
  <2>2. QED
    BY <1>2, <2>1
<1>9. PageWire' = Tail(PageWire)
  <2>1. /\ Tail(PageWire) \in Seq(AllStates) /\ Len(Tail(PageWire)) = Len(PageWire) - 1
        /\ \A n \in 1..Len(Tail(PageWire)) : Tail(PageWire)[n] = PageWire[n + 1]
    BY <1>2, <1>8, HeadTailProperties
  <2>2. Len(Tail(PageWire)) = Len(PageWire')
    BY <1>2, <1>7, <2>1
  <2>3. ASSUME NEW n \in 1..Len(PageWire') PROVE PageWire'[n] = Tail(PageWire)[n]
    <3>1. n \in 1..(Left - 1 + Due(mine)) /\ n + 1 \in 1..Len(PageWire)
      BY <1>2, <1>7
    <3>2. (IF n <= Left - 1 THEN Base + 1 + n ELSE taken)
            = (IF n + 1 <= Left THEN Base + (n + 1) ELSE taken)
      BY <1>2, <3>1
    <3>3. PageWire[n + 1] = StateOf(IF n + 1 <= Left THEN Base + (n + 1) ELSE taken)
      BY <1>2, <3>1 DEF WireAt
    <3>4. PageWire'[n] = StateOf(IF n <= Left - 1 THEN Base + 1 + n ELSE taken)
      BY <1>7
    <3>5. Tail(PageWire)[n] = PageWire[n + 1]
      BY <2>1, <2>2
    <3>6. QED
      BY <3>2, <3>3, <3>4, <3>5
  <2>4. QED
    BY <1>7, <2>1, <2>2, <2>3, SeqEqual
<1>10. Unannounced' = Unannounced
  BY <1>1 DEF Unannounced
<1>11. QED
  BY <1>1, <1>4, <1>8, <1>9, <1>10
  DEF Page!HandleStatus, Page!backendVars, Page!motorVars

LEMMA UnseenSame ==
  Unseen(OnTheWire) = Page!Unseen(Page!OnTheWire)
BY DEF Unseen, Page!Unseen, Page!Answered, OnTheWire, Page!OnTheWire

\* The page hears that its connection is lost.
LEMMA LossDisconnects ==
  ASSUME SInv, SInv', PageLosesSocket
  PROVE  Page!Disconnect
<1>1. /\ PageConn \in {"connecting", "open", "lost"} /\ closed' = TRUE
      /\ missed' = Page!Unseen(Page!OnTheWire)
      /\ UNCHANGED <<stored, about, session, mine, fetch, answer, shown, heard, taken>>
  BY UnseenSame DEF PageLosesSocket, vars, storeVars
<1>2. PageConn' = "closed"
  BY <1>1 DEF PageConn
<1>3. PageWire' = <<>>
  BY <1>2 DEF PageWire
<1>4. Unannounced' = Unannounced
  BY <1>1 DEF Unannounced
<1>5. QED
  BY <1>1, <1>2, <1>3, <1>4
  DEF Page!Disconnect, Page!backendVars, Page!motorVars

\* The backend loses the connection of a page that may know of it or not.
LEMMA BackendLoses ==
  ASSUME SInv, SInv', BackendLosesPage
  PROVE  Page!LoseConnection \/ UNCHANGED Page!vars
<1>0. /\ mine \in Clients /\ mine # NoClient /\ fetch # "none"
      /\ peer \in [Clients -> {"up", "stalled", "gone"}]
  BY DEF SInv, ServiceTypeOK, PageLink, IInv, TypeOK, BackendLosesPage
<1>1. /\ peer[mine] # "gone" /\ peer' = [peer EXCEPT ![mine] = "gone"]
      /\ missed' = Unseen(OnTheWire)
      /\ UNCHANGED <<stored, about, session, mine, fetch, answer, shown, closed, heard,
                     taken, handler, joined, got, feed, todo, target>>
  BY DEF BackendLosesPage, Leave, Connected, storeVars, hubVars
<1>2. Unannounced' = Unannounced /\ Len(about)' = Len(about)
  BY <1>1 DEF Unannounced
<1>3. CASE closed
  <2>1. PageConn = "closed" /\ PageConn' = "closed"
    BY <1>0, <1>1, <1>3 DEF PageConn
  <2>2. PageWire = <<>> /\ PageWire' = <<>>
    BY <2>1 DEF PageWire
  <2>3. OnTheWire = {}
    BY <2>2 DEF OnTheWire
  <2>4. missed' = missed
    BY <1>1, <2>3 DEF Unseen
  <2>5. QED
    BY <1>1, <1>2, <2>1, <2>2, <2>4, SeenIsAll DEF Seen
<1>4. CASE ~closed
  <2>1. PageConn \in {"connecting", "open"} /\ PageConn' = "lost" /\ OnLine'
    BY <1>0, <1>1, <1>4 DEF PageConn, OnLine
  <2>2. PageWire' = PageWire
    <3>1. CASE PageConn = "open"
      <4>1. /\ PageWire = Unread(mine) \o
                 (IF WaitingForWrite(mine) THEN <<StateOf(taken)>> ELSE <<>>)
            /\ PageWire' = Unread(mine)' \o
                 (IF WaitingForWrite(mine)' THEN <<StateOf(taken)'>> ELSE <<>>)
        BY <3>1, <2>1 DEF PageWire
      <4>2. /\ Unread(mine)' = Unread(mine) /\ StateOf(taken)' = StateOf(taken)
            /\ WaitingForWrite(mine)' = WaitingForWrite(mine)
        BY <1>1 DEF Unread, StateOf, WaitingForWrite
      <4>3. QED
        BY <4>1, <4>2
    <3>2. CASE PageConn = "connecting"
      <4>1. handler[mine] = "registering"
        BY <1>0, <1>1, <1>4, <3>2 DEF PageConn, Registered, SInv, PageLink
      <4>2. feed[mine] = <<>> /\ Due(mine) = 0
        BY <1>0, <4>1, NothingOwed
      <4>3. feed'[mine'] = <<>> /\ Due(mine)' = 0
        BY <1>1, <4>2 DEF Due, WaitingForWrite
      <4>4. PageWire' = <<>>
        BY <2>1, <4>3, NothingCarriedNext DEF EmptyFact
      <4>5. QED
        BY <3>2, <4>4 DEF PageWire
    <3>3. QED
      BY <2>1, <3>1, <3>2
  <2>3. missed' = Page!Unseen(Page!OnTheWire)
    BY <1>1, UnseenSame
  <2>4. QED
    BY <1>1, <1>2, <2>1, <2>2, <2>3
    DEF Page!LoseConnection, Page!backendVars, Page!motorVars
<1>5. QED
  BY <1>3, <1>4

\* What the page does by itself.
LEMMA MountMounts ==
  ASSUME SInv, SInv', Mount
  PROVE  Page!Mount
<1>1. /\ fetch = "none" /\ fetch' = "asked" /\ mine = NoClient /\ ~closed
      /\ UNCHANGED <<stored, about, session, mine, answer, shown, closed, missed,
                     heard, taken>>
  BY DEF Mount, storeVars, vars, SInv, PageLink
<1>2. PageConn = "none" /\ PageConn' = "connecting"
  BY <1>1 DEF PageConn, Registered
<1>3. PageWire' = PageWire
  BY <1>2 DEF PageWire
<1>4. Unannounced' = Unannounced
  BY <1>1 DEF Unannounced
<1>5. QED
  BY <1>1, <1>2, <1>3, <1>4
  DEF Page!Mount, Page!backendVars, Page!motorVars, Page!pastVars

LEMMA FetchFetches ==
  ASSUME SInv, SInv', AnswerGet \/ GetSucceeds \/ GetFails
  PROVE  Page!AnswerGet \/ Page!GetSucceeds \/ Page!GetFails
<1>1. /\ fetch # "none" /\ fetch' # "none"
      /\ UNCHANGED <<stored, about, session, mine, closed, heard, taken, handler, peer,
                     joined, got, feed, todo, target>>
  BY DEF AnswerGet, GetSucceeds, GetFails, storeVars, vars
<1>2. PageConn' = PageConn
  BY <1>1 DEF PageConn, Registered
<1>3. PageWire' = PageWire
  BY <1>1, <1>2, WireStays DEF Base, Left, Due, WaitingForWrite, SameLeft
<1>4. Unannounced' = Unannounced /\ Len(about)' = Len(about) /\ OnTheWire = Page!OnTheWire
  BY <1>1 DEF Unannounced, OnTheWire, Page!OnTheWire
<1>5. CASE AnswerGet
  BY <1>1, <1>2, <1>3, <1>4, <1>5
  DEF AnswerGet, Page!AnswerGet, Page!backendVars, Page!motorVars
<1>6. CASE GetSucceeds
  BY <1>1, <1>2, <1>3, <1>4, <1>6
  DEF GetSucceeds, Page!GetSucceeds, Page!backendVars, Page!motorVars, Page!pastVars
<1>7. CASE GetFails
  BY <1>1, <1>2, <1>3, <1>4, <1>7
  DEF GetFails, Page!GetFails, Page!backendVars, Page!motorVars, Page!pastVars
<1>8. QED
  BY <1>5, <1>6, <1>7

LEMMA ReloadReloads ==
  ASSUME SInv, SInv', Reload
  PROVE  Page!Reload
<1>1. /\ closed /\ session < MaxSessions /\ session' = session + 1
      /\ fetch' = "none" /\ mine' = NoClient
      /\ answer' = NothingShown /\ shown' = NothingShown /\ missed' = {} /\ heard' = {}
      /\ UNCHANGED <<stored, about, taken>>
  BY DEF Reload, storeVars, vars
<1>2. PageConn = "closed" /\ PageConn' = "none"
  BY <1>1 DEF PageConn, SInv, PageLink
<1>3. PageWire' = <<>>
  BY <1>2 DEF PageWire
<1>4. Unannounced' = Unannounced
  BY <1>1 DEF Unannounced
<1>5. QED
  BY <1>1, <1>2, <1>3, <1>4
  DEF Page!Reload, Page!backendVars, Page!Zero, NothingShown

LEMMA ServiceRefines ==
  ASSUME SInv, SInv', [ServiceNext]_serviceVars
  PROVE  [Page!Next]_Page!vars
<1>1. ASSUME NEW i \in Robots, StoreState(i) PROVE [Page!Next]_Page!vars
  BY <1>1, StoreStateStores DEF Page!Next, Page!BackendStep
<1>2. CASE Take
  BY <1>2, TakeAnnounces DEF Page!Next, Page!BackendStep
<1>3. CASE Offer \/ HubMovesOn
  <2>1. UNCHANGED <<storeVars, viewVars, taken, handler, peer, got, joined, feed, todo, target>>
    BY <1>3 DEF Offer, OfferState, HubMovesOn, EndBroadcast, hubVars, peerVars
  <2>2. Due(mine)' = Due(mine)
    BY <2>1 DEF Due, WaitingForWrite, viewVars
  <2>3. QED
    BY <2>1, <2>2, UntouchedIsQuiet
<1>4. ASSUME NEW c \in Clients, PageDials(c) PROVE [Page!Next]_Page!vars
  BY <1>4, DialIsQuiet
<1>5. ASSUME NEW c \in Clients, HubServes(c) \/ OthersAct(c)
      PROVE  [Page!Next]_Page!vars
  BY <1>5, OthersAreQuiet DEF Page!Next, Page!PageStep
<1>6. CASE PageStep
  BY <1>6, ReceiveIsHandled, LossDisconnects, BackendLoses, MountMounts, FetchFetches,
     ReloadReloads
  DEF PageStep, Page!Next, Page!PageStep
<1>7. CASE UNCHANGED serviceVars
  <2>1. UNCHANGED <<storeVars, viewVars, taken, handler, peer, got, joined, feed, todo, target>>
    BY <1>7 DEF serviceVars, vars
  <2>2. Due(mine)' = Due(mine)
    BY <2>1 DEF Due, WaitingForWrite, viewVars
  <2>3. QED
    BY <2>1, <2>2, UntouchedIsQuiet
<1>8. QED
  BY <1>1, <1>2, <1>3, <1>4, <1>5, <1>6, <1>7
  DEF ServiceNext, TelemetryStep, ConnectionStep

\* For any number of viewers, robots, states and loadings and any socket buffer,
\* the store, the hub and the sockets together are the backend RobotPage
\* supposes: a page sees each state once and in order after it was stored, from
\* its registration to the loss of its socket at either end (robots.go:174-198, hub.go:27-49,
\* client.go:61-79, robots-reducer.ts:130-156).
THEOREM ServiceImplementsPage == EndToEnd => ImplementsPage
<1>1. ServiceInit => Page!Init
  <2> SUFFICES ASSUME ServiceInit PROVE Page!Init
    OBVIOUS
  <2>1. /\ taken = 0 /\ about = <<>> /\ mine = NoClient /\ fetch = "none"
        /\ session = 1 /\ stored = NothingShown /\ answer = NothingShown
        /\ shown = NothingShown /\ missed = {} /\ heard = {}
    BY DEF ServiceInit, Init, NothingShown
  <2>2. PageConn = "none" /\ PageWire = <<>>
    BY <2>1 DEF PageConn, PageWire
  <2>3. Len(about) = 0 /\ Unannounced = Nobody
    BY <2>1 DEF Unannounced
  <2>4. QED
    BY <2>1, <2>2, <2>3 DEF Page!Init, Page!Zero, NothingShown
<1>2. SInv /\ SInv' /\ [ServiceNext]_serviceVars => [Page!Next]_Page!vars
  BY ServiceRefines
<1>3. QED
  BY <1>1, <1>2, ServiceAlways, PTL DEF EndToEnd, ImplementsPage, Page!Spec

-------------------------------------------------------------------------------
(* What is proved of RobotPage holds of the composition.  RobotPageProofs is *)
(* taken with the same substitution; its definitions are those of Page.      *)

Proved == INSTANCE RobotPageProofs WITH
  MaxStates <- MaxMessages, MaxCommands <- 0, EngineQueue <- 1,
  latest <- Len(about), unannounced <- Unannounced,
  conn <- PageConn, wire <- PageWire,
  updating <- FALSE, reply <- "none", issued <- 0, puts <- {},
  engine <- <<>>, driven <- 0

LEMMA InitSame == Page!Init <=> Proved!Init
BY DEF Page!Init, Proved!Init, Page!Zero, Proved!Zero

LEMMA NextSame == Page!Next <=> Proved!Next
BY
DEF Page!Next, Proved!Next, Page!BackendStep, Proved!BackendStep,
    Page!PageStep, Proved!PageStep, Page!MotorStep, Proved!MotorStep,
    Page!PutStep, Proved!PutStep, Page!AllPuts, Proved!AllPuts,
    Page!Announce, Proved!Announce, Page!StoreState, Proved!StoreState,
    Page!Mount, Proved!Mount, Page!AnswerGet, Proved!AnswerGet,
    Page!GetSucceeds, Proved!GetSucceeds, Page!GetFails,
    Proved!GetFails, Page!Connect, Proved!Connect, Page!Disconnect,
    Proved!Disconnect, Page!LoseConnection, Proved!LoseConnection,
    Page!WireIsCut, Proved!WireIsCut, Page!Unseen, Proved!Unseen,
    Page!OnTheWire, Proved!OnTheWire, Page!Reload, Proved!Reload, Page!HandleStatus,
    Proved!HandleStatus, Page!ApplyStatus, Proved!ApplyStatus,
    Page!SetSpeed, Proved!SetSpeed, Page!PutBreaks, Proved!PutBreaks,
    Page!CommandSucceeds, Proved!CommandSucceeds, Page!CommandFails,
    Proved!CommandFails, Page!Drive, Proved!Drive,
    Page!SendEngineMessage, Proved!SendEngineMessage,
    Page!SendEngineFails, Proved!SendEngineFails, Page!PutFails,
    Proved!PutFails, Page!AnswerPut, Proved!AnswerPut, Page!Mine,
    Proved!Mine, Page!Loaded, Proved!Loaded, Page!Answered,
    Proved!Answered, Page!Zero, Proved!Zero, Page!backendVars,
    Proved!backendVars, Page!pageVars, Proved!pageVars, Page!motorVars,
    Proved!motorVars, Page!pastVars, Proved!pastVars

LEMMA VarsSame == UNCHANGED Page!vars <=> UNCHANGED Proved!vars
BY DEF Page!vars, Page!backendVars, Page!pageVars, Page!motorVars, Page!pastVars,
   Proved!vars, Proved!backendVars, Proved!pageVars, Proved!motorVars, Proved!pastVars

LEMMA ServiceIsProvedPage == EndToEnd => Proved!Spec
<1>1. Page!Spec => Proved!Spec
  BY InitSame, NextSame, VarsSame, PTL DEF Page!Spec, Proved!Spec
<1>2. QED
  BY <1>1, ServiceImplementsPage, PTL DEF ImplementsPage

\* End to end, whatever the other viewers do: when all that was announced has
\* been handled, a loaded page shows what the database holds, except for robots
\* whose states could not reach it (robots.go:174-198, hub.go:27-49,
\* robots-reducer.ts:33-66, 130-156).
THEOREM FreshEndToEnd == EndToEnd => []Page!FreshUnlessMissed
<1>1. MaxMessages \in Nat /\ MaxSessions \in Nat \ {0}
  BY BoundsAssumption, SessionsAssumption
<1>2. Proved!Spec => []Proved!FreshUnlessMissed
  BY <1>1, Proved!FreshPage, RobotsAssumption
<1>3. Proved!FreshUnlessMissed => Page!FreshUnlessMissed
  BY DEF Proved!FreshUnlessMissed, Page!FreshUnlessMissed, Page!Loaded, Proved!Loaded
<1>4. QED
  BY <1>2, <1>3, ServiceIsProvedPage, PTL

\* End to end, a page never shows an older state of a robot than one that came
\* over its socket (hub.go:27-49, client.go:61-79, robots-reducer.ts:130-156).
THEOREM ForwardEndToEnd == EndToEnd => Page!ShownMovesForward
<1>1. MaxMessages \in Nat /\ MaxSessions \in Nat \ {0}
  BY BoundsAssumption, SessionsAssumption
<1>2. Proved!Spec => Proved!ShownMovesForward
  BY <1>1, Proved!PageMovesForward, RobotsAssumption
<1>3. QED
  BY <1>2, VarsSame, ServiceIsProvedPage, PTL
     DEF Page!ShownMovesForward, Proved!ShownMovesForward
===============================================================================
