---------------------------- MODULE RobotPageProofs ----------------------------
(***************************************************************************)
(* Proofs about RobotPage, for any robots, bounds and capacity of the      *)
(* motor queue: the types, the order of motor commands, what a page shows  *)
(* when all states have been handled, that it never steps back, and that   *)
(* what it waits for comes.                                                *)
(***************************************************************************)
EXTENDS RobotPage, TLAPS

USE PageBounds, NobodyAssumption

LEMMA Elements ==
  ASSUME NEW S, NEW q \in Seq(S)
  PROVE  DOMAIN q = 1..Len(q) /\ Len(q) \in Nat /\ \A n \in DOMAIN q : q[n] \in S
OBVIOUS

LEMMA TailElement ==
  ASSUME NEW S, NEW q \in Seq(S), q # <<>>
  PROVE  /\ Head(q) \in S /\ Head(q) = q[1] /\ Tail(q) \in Seq(S)
         /\ Len(Tail(q)) = Len(q) - 1 /\ Len(q) > 0
         /\ \A n \in 1..(Len(q) - 1) : Tail(q)[n] = q[n + 1]
OBVIOUS

LEMMA AppendElement ==
  ASSUME NEW S, NEW q \in Seq(S), NEW e \in S
  PROVE  /\ Append(q, e) \in Seq(S) /\ Len(Append(q, e)) = Len(q) + 1
         /\ Len(q) \in Nat
         /\ \A n \in 1..Len(q) : Append(q, e)[n] = q[n]
         /\ Append(q, e)[Len(q) + 1] = e
OBVIOUS

-------------------------------------------------------------------------------
(* The types. *)

BackendTypes ==
  /\ stored \in [Robots -> 0..MaxStates]
  /\ latest \in 0..MaxStates /\ unannounced \in Robots \cup {Nobody}
  /\ unannounced # Nobody => stored[unannounced] > 0

PageTypes ==
  /\ session \in 1..MaxSessions
  /\ fetch \in {"none", "asked", "answered", "loaded", "failed"}
  /\ answer \in [Robots -> 0..MaxStates]
  /\ shown \in [Robots -> 0..MaxStates]
  /\ conn \in {"none", "connecting", "open", "lost", "closed"}

WireTypes == wire \in Seq([id : Robots, temp : 1..MaxStates])

PastTypes == missed \subseteq Robots /\ heard \subseteq Robots

MotorTypes ==
  /\ updating \in BOOLEAN /\ reply \in {"none", "waiting", "ok", "failed"}
  /\ reply # "none" => updating
  /\ issued \in 0..MaxCommands /\ puts \subseteq AllPuts
  /\ engine \in Seq(AllPuts)
  /\ driven \in 0..Len(engine) /\ Len(engine) - driven <= EngineQueue

Types == BackendTypes /\ PageTypes /\ WireTypes /\ PastTypes /\ MotorTypes

LEMMA WireEntries ==
  ASSUME WireTypes
  PROVE  /\ DOMAIN wire = 1..Len(wire) /\ Len(wire) \in Nat
         /\ \A n \in DOMAIN wire : wire[n].id \in Robots /\ wire[n].temp \in 1..MaxStates
<1> DEFINE S == [id : Robots, temp : 1..MaxStates]
<1>1. wire \in Seq(S)
  BY DEF WireTypes
<1>2. DOMAIN wire = 1..Len(wire) /\ Len(wire) \in Nat /\ \A n \in DOMAIN wire : wire[n] \in S
  <2> HIDE DEF S
  <2> QED BY <1>1, Elements, Zenon
<1> QED BY <1>2

LEMMA InitTypes == Init => Types
<1> SUFFICES ASSUME Init PROVE Types
  OBVIOUS
<1>1. Zero \in [Robots -> 0..MaxStates]
  BY DEF Zero
<1>2. BackendTypes
  BY <1>1 DEF Init, BackendTypes
<1>3. PageTypes
  BY <1>1 DEF Init, PageTypes
<1>4. WireTypes /\ PastTypes
  BY DEF Init, WireTypes, PastTypes
<1>5. MotorTypes
  <2>1. engine = <<>> /\ driven = 0 /\ issued = 0 /\ puts = {} /\ updating = FALSE /\ reply = "none"
    BY DEF Init
  <2>2. engine \in Seq(AllPuts) /\ Len(engine) = 0
    BY <2>1
  <2>3. issued \in 0..MaxCommands /\ driven \in 0..Len(engine) /\ Len(engine) - driven <= EngineQueue
    BY <2>1, <2>2
  <2> QED BY <2>1, <2>2, <2>3, Zenon DEF MotorTypes
<1> QED BY <1>2, <1>3, <1>4, <1>5 DEF Types

LEMMA AnswerPutTypes ==
  ASSUME Types, NEW p \in AllPuts, AnswerPut(p),
         engine' \in Seq(AllPuts), driven \in 0..Len(engine'),
         Len(engine') - driven <= EngineQueue
  PROVE  MotorTypes'
<1>1. /\ puts' = puts \ {p} /\ UNCHANGED <<updating, issued, driven>>
      /\ reply' = IF Mine(p) /\ reply = "waiting" THEN "ok" ELSE reply
  BY DEF AnswerPut
<1>2. reply' \in {"none", "waiting", "ok", "failed"} /\ (reply' # "none" => updating')
  BY <1>1, Zenon DEF Types, MotorTypes
<1>3. issued' \in 0..MaxCommands /\ puts' \subseteq AllPuts /\ driven' \in 0..Len(engine')
  BY <1>1 DEF Types, MotorTypes
<1> QED BY <1>1, <1>2, <1>3 DEF Types, MotorTypes

LEMMA MotorStepTypes == Types /\ MotorStep => MotorTypes'
<1> SUFFICES ASSUME Types, MotorStep PROVE MotorTypes'
  OBVIOUS
<1>0. MotorTypes
  BY DEF Types
<1>1. CASE SetSpeed
  <2>1. /\ updating' = TRUE /\ reply' = "waiting" /\ issued' = issued + 1
        /\ puts' = puts \cup {[session |-> session, number |-> issued + 1]}
        /\ UNCHANGED <<engine, driven>> /\ issued < MaxCommands
    BY <1>1 DEF SetSpeed
  <2>2. [session |-> session, number |-> issued + 1] \in AllPuts
    BY <2>1 DEF Types, MotorTypes, PageTypes, AllPuts
  <2>3. puts' \subseteq AllPuts
    BY <1>0, <2>1, <2>2, Zenon DEF MotorTypes
  <2>4. issued' \in 0..MaxCommands
    BY <1>0, <2>1 DEF MotorTypes
  <2> QED BY <1>0, <2>1, <2>3, <2>4 DEF MotorTypes
<1>2. CASE PutBreaks \/ CommandSucceeds \/ CommandFails
  BY <1>0, <1>2 DEF PutBreaks, CommandSucceeds, CommandFails, MotorTypes
<1>3. CASE Drive
  BY <1>0, <1>3 DEF Drive, MotorTypes
<1>4. ASSUME NEW p \in AllPuts, PutStep(p) PROVE MotorTypes'
  <2>1. CASE SendEngineMessage(p)
    <3>1. engine' = Append(engine, p) /\ AnswerPut(p) /\ Len(engine) - driven < EngineQueue
      BY <2>1 DEF SendEngineMessage
    <3>2. engine' \in Seq(AllPuts) /\ Len(engine') = Len(engine) + 1
      BY <1>0, <3>1, AppendElement DEF MotorTypes
    <3>3. driven \in 0..Len(engine') /\ Len(engine') - driven <= EngineQueue
      BY <1>0, <3>1, <3>2 DEF MotorTypes
    <3> QED BY <3>1, <3>2, <3>3, AnswerPutTypes
  <2>2. CASE SendEngineFails(p)
    BY <1>0, <2>2, AnswerPutTypes DEF SendEngineFails, MotorTypes
  <2>3. CASE PutFails(p)
    <3>1. /\ puts' = puts \ {p} /\ UNCHANGED <<updating, issued, engine, driven>>
          /\ reply' = IF Mine(p) /\ reply = "waiting" THEN "failed" ELSE reply
      BY <2>3 DEF PutFails
    <3>2. reply' \in {"none", "waiting", "ok", "failed"} /\ (reply' # "none" => updating')
      BY <1>0, <3>1, Zenon DEF MotorTypes
    <3> QED BY <1>0, <3>1, <3>2 DEF MotorTypes
  <2> QED BY <1>4, <2>1, <2>2, <2>3 DEF PutStep
<1> QED BY <1>1, <1>2, <1>3, <1>4 DEF MotorStep

LEMMA ApplyTypes ==
  ASSUME Types, NEW s \in [id : Robots, temp : 1..MaxStates], ApplyStatus(s)
  PROVE  shown' \in [Robots -> 0..MaxStates] /\ PastTypes'
BY DEF ApplyStatus, Unseen, Types, PageTypes, PastTypes

\* What is on the wire belongs to robots, and so does what is missed with it.
LEMMA WireRobots == WireTypes => OnTheWire \subseteq Robots
BY WireEntries DEF OnTheWire

\* What is left of a wire that is cut is its first states.
LEMMA CutWire ==
  ASSUME WireTypes, WireIsCut
  PROVE  /\ WireTypes' /\ DOMAIN wire' \subseteq DOMAIN wire
         /\ \A n \in DOMAIN wire' : wire'[n] = wire[n]
<1> DEFINE S == [id : Robots, temp : 1..MaxStates]
<1>1. PICK n \in 0..(Len(wire) - 1) : wire' = SubSeq(wire, 1, n)
  BY DEF WireIsCut
<1>2. wire \in Seq(S)
  BY DEF WireTypes
<1> HIDE DEF S
<1>3. n \in Nat /\ n <= Len(wire) /\ Len(wire) \in Nat
  BY <1>1, <1>2, Elements
<1>4. /\ wire' \in Seq(S) /\ Len(wire') = n
      /\ \A m \in 1..n : wire'[m] = wire[m]
  BY <1>1, <1>2, <1>3, Elements
<1>5. DOMAIN wire' = 1..n /\ DOMAIN wire = 1..Len(wire)
  BY <1>2, <1>4, Elements, Zenon
<1>6. WireTypes'
  BY <1>4 DEF WireTypes, S
<1> QED BY <1>3, <1>4, <1>5, <1>6

LEMMA StepTypes == Types /\ [Next]_vars => Types'
<1> SUFFICES ASSUME Types, [Next]_vars PROVE Types'
  OBVIOUS
<1> USE DEF Types, backendVars, pageVars, motorVars, pastVars
<1>1. ASSUME NEW i \in Robots, StoreState(i) PROVE Types'
  <2>1. BackendTypes'
    BY <1>1 DEF StoreState, BackendTypes
  <2> QED BY <1>1, <2>1 DEF StoreState, PageTypes, WireTypes, PastTypes, MotorTypes
<1>2. CASE Announce
  <2>1. unannounced \in Robots /\ stored[unannounced] \in 1..MaxStates
    BY <1>2 DEF Announce, BackendTypes
  <2>2. WireTypes'
    <3>1. [id |-> unannounced, temp |-> stored[unannounced]] \in [id : Robots, temp : 1..MaxStates]
      BY <2>1
    <3>2. \/ wire' = Append(wire, [id |-> unannounced, temp |-> stored[unannounced]])
          \/ wire' = wire
      BY <1>2 DEF Announce
    <3>3. wire \in Seq([id : Robots, temp : 1..MaxStates])
      BY DEF WireTypes
    <3>4. Append(wire, [id |-> unannounced, temp |-> stored[unannounced]])
            \in Seq([id : Robots, temp : 1..MaxStates])
      BY <3>1, <3>3, AppendElement, Zenon
    <3> QED BY <3>2, <3>3, <3>4, Zenon DEF WireTypes
  <2>3. PastTypes'
    BY <1>2, <2>1 DEF Announce, Unseen, PastTypes
  <2> QED BY <1>2, <2>2, <2>3 DEF Announce, BackendTypes, PageTypes, MotorTypes
<1>3. CASE Mount \/ AnswerGet \/ GetSucceeds \/ GetFails \/ Connect
  <2>1. PastTypes'
    BY <1>3, WireRobots DEF Mount, AnswerGet, GetSucceeds, GetFails, Connect, PastTypes
  <2> QED BY <1>3, <2>1 DEF Mount, AnswerGet, GetSucceeds, GetFails, Connect,
                            BackendTypes, PageTypes, WireTypes, MotorTypes
<1>4. CASE LoseConnection \/ WireIsCut \/ Disconnect
  <2>1. PastTypes'
    <3>1. heard' = heard /\ missed' \subseteq missed \cup OnTheWire
      BY <1>4 DEF LoseConnection, WireIsCut, Disconnect, Unseen
    <3> QED BY <3>1, WireRobots DEF PastTypes
  <2>2. WireTypes'
    <3>1. CASE WireIsCut
      BY <3>1, CutWire
    <3>2. CASE LoseConnection
      BY <3>2, Zenon DEF LoseConnection, WireTypes
    <3>3. CASE Disconnect
      BY <3>3 DEF Disconnect, WireTypes
    <3> QED BY <1>4, <3>1, <3>2, <3>3
  <2> QED BY <1>4, <2>1, <2>2 DEF LoseConnection, WireIsCut, Disconnect, BackendTypes,
                                  PageTypes, MotorTypes
<1>5. CASE Reload
  <2>1. WireTypes' /\ PastTypes'
    BY <1>5 DEF Reload, WireTypes, PastTypes
  <2>2. PageTypes' /\ BackendTypes'
    BY <1>5 DEF Reload, Zero, PageTypes, BackendTypes
  <2>3. MotorTypes'
    BY <1>5 DEF Reload, MotorTypes
  <2> QED BY <2>1, <2>2, <2>3
<1>6. CASE HandleStatus
  <2>1. wire # <<>> /\ ApplyStatus(Head(wire)) /\ wire' = Tail(wire)
    BY <1>6 DEF HandleStatus
  <2>2. Head(wire) \in [id : Robots, temp : 1..MaxStates] /\ WireTypes'
    BY <2>1, TailElement DEF WireTypes
  <2>3. shown' \in [Robots -> 0..MaxStates] /\ PastTypes'
    BY <2>1, <2>2, ApplyTypes
  <2> QED BY <1>6, <2>2, <2>3 DEF HandleStatus, BackendTypes, PageTypes, MotorTypes
<1>7. CASE MotorStep
  <2>1. UNCHANGED <<backendVars, pageVars, pastVars>>
    BY <1>7 DEF MotorStep, SetSpeed, PutBreaks, CommandSucceeds, CommandFails, Drive,
                PutStep, SendEngineMessage, SendEngineFails, PutFails, AnswerPut
  <2> QED BY <1>7, <2>1, MotorStepTypes DEF BackendTypes, PageTypes, WireTypes, PastTypes
<1>8. CASE UNCHANGED vars
  BY <1>8 DEF vars, BackendTypes, PageTypes, WireTypes, PastTypes, MotorTypes
<1> QED BY <1>1, <1>2, <1>3, <1>4, <1>5, <1>6, <1>7, <1>8 DEF Next, BackendStep, PageStep

LEMMA AlwaysTypes == Spec => []Types
BY InitTypes, StepTypes, PTL DEF Spec

\* Every state of the page, the backend and the motor queue keeps its type;
\* the queue is never overfilled, and a command that is under way hides the page.
THEOREM PageTypeCorrect == Spec => []TypeOK
<1>1. Types => TypeOK
  BY DEF Types, BackendTypes, PageTypes, WireTypes, PastTypes, MotorTypes, TypeOK
<1> QED BY <1>1, AlwaysTypes, PTL

-------------------------------------------------------------------------------
(* The order of motor commands.                                            *)

\* A loading of the page has one command under way at most, and none when the
\* page takes input or has its answer.
OneUnderWay ==
  /\ \A p, q \in puts : p.session = q.session => p = q
  /\ \A p \in puts : Mine(p) => updating /\ reply # "ok"

\* Numbers and sessions are handed out upwards.
Handed ==
  /\ \A p \in puts : p.session <= session /\ p.number <= issued
  /\ \A n \in DOMAIN engine : engine[n].session <= session /\ engine[n].number <= issued

\* A command under way is later than those of its session in the queue.
UnderWayIsLater ==
  \A n \in DOMAIN engine, p \in puts :
    engine[n].session = p.session => engine[n].number < p.number

OrderInv == OneUnderWay /\ Handed /\ UnderWayIsLater /\ CommandsInOrder

LEMMA InitOrder == Init => OrderInv
BY DEF Init, OrderInv, OneUnderWay, Handed, UnderWayIsLater, CommandsInOrder

LEMMA EngineEntries ==
  ASSUME MotorTypes
  PROVE  /\ DOMAIN engine = 1..Len(engine) /\ Len(engine) \in Nat
         /\ \A n \in DOMAIN engine : engine[n].session \in Nat /\ engine[n].number \in Nat
         /\ \A p \in puts : p.session \in Nat /\ p.number \in Nat
<1>1. engine \in Seq(AllPuts) /\ puts \subseteq AllPuts
  BY DEF MotorTypes
<1>2. DOMAIN engine = 1..Len(engine) /\ Len(engine) \in Nat /\ \A n \in DOMAIN engine : engine[n] \in AllPuts
  BY <1>1, Elements, Zenon
<1>3. \A p \in AllPuts : p.session \in Nat /\ p.number \in Nat
  BY DEF AllPuts
<1> QED BY <1>1, <1>2, <1>3

\* A step that takes commands out of the handlers, puts none into the queue and
\* shows the page only when its answer is in.
LEMMA TakenOut ==
  ASSUME OrderInv, puts' \subseteq puts, UNCHANGED <<session, issued, engine>>,
         \A p \in puts' : Mine(p) => updating' /\ reply' # "ok"
  PROVE  OrderInv'
BY DEF OrderInv, OneUnderWay, Handed, UnderWayIsLater, CommandsInOrder, Mine

\* After an answer its command is no longer under way, and it was the only one
\* of the page's.
LEMMA AnswerPutOne ==
  ASSUME OrderInv, NEW p \in puts, AnswerPut(p)
  PROVE  /\ puts' \subseteq puts /\ p \notin puts' /\ UNCHANGED <<session, issued>>
         /\ \A q \in puts' : Mine(q) => updating' /\ reply' # "ok"
<1>1. /\ puts' = puts \ {p} /\ UNCHANGED <<session, issued, updating>>
      /\ reply' = IF Mine(p) /\ reply = "waiting" THEN "ok" ELSE reply
  BY DEF AnswerPut, pageVars
<1>2. ASSUME NEW q \in puts', Mine(q) PROVE updating' /\ reply' # "ok"
  <2>1. q \in puts /\ q # p
    BY <1>1, <1>2
  <2>2. ~Mine(p)
    BY <1>2, <2>1 DEF OrderInv, OneUnderWay, Mine
  <2>3. reply' = reply /\ updating' = updating
    BY <1>1, <2>2
  <2> QED BY <1>2, <2>1, <2>3, Zenon DEF OrderInv, OneUnderWay
<1> QED BY <1>1, <1>2

LEMMA SendOrder ==
  ASSUME Types, OrderInv, NEW p \in AllPuts, SendEngineMessage(p)
  PROVE  OrderInv'
<1>1. p \in puts /\ engine' = Append(engine, p) /\ AnswerPut(p)
  BY DEF SendEngineMessage
<1>2. /\ puts' \subseteq puts /\ p \notin puts' /\ UNCHANGED <<session, issued>>
      /\ \A q \in puts' : Mine(q) => updating' /\ reply' # "ok"
  BY <1>1, AnswerPutOne
<1>3. /\ DOMAIN engine = 1..Len(engine) /\ Len(engine) \in Nat
      /\ \A n \in DOMAIN engine : engine[n].session \in Nat /\ engine[n].number \in Nat
      /\ \A q \in puts : q.session \in Nat /\ q.number \in Nat
  BY EngineEntries DEF Types
<1>4. /\ engine' \in Seq(AllPuts) /\ Len(engine') = Len(engine) + 1
      /\ \A n \in 1..Len(engine) : engine'[n] = engine[n]
      /\ engine'[Len(engine) + 1] = p
  <2>1. engine \in Seq(AllPuts)
    BY DEF Types, MotorTypes
  <2>2. engine' = Append(engine, p)
    BY <1>1
  <2> QED BY <2>1, <2>2, AppendElement
<1>5. DOMAIN engine' = 1..(Len(engine) + 1)
  <2>1. DOMAIN engine' = 1..Len(engine')
    BY <1>4, Elements, Zenon
  <2> QED BY <1>4, <2>1
<1>6. \A n \in DOMAIN engine' :
        (n \in DOMAIN engine /\ engine'[n] = engine[n]) \/ (n = Len(engine) + 1 /\ engine'[n] = p)
  BY <1>3, <1>4, <1>5
<1>7. OneUnderWay'
  BY <1>2 DEF OrderInv, OneUnderWay, Mine
<1>8. Handed'
  BY <1>1, <1>2, <1>6 DEF OrderInv, Handed
<1>9. UnderWayIsLater'
  <2> SUFFICES ASSUME NEW n \in DOMAIN engine', NEW q \in puts', engine'[n].session = q.session
               PROVE  engine'[n].number < q.number
    BY DEF UnderWayIsLater
  <2>1. CASE n \in DOMAIN engine /\ engine'[n] = engine[n]
    BY <1>2, <2>1 DEF OrderInv, UnderWayIsLater
  <2>2. engine'[n] # p
    BY <1>1, <1>2 DEF OrderInv, OneUnderWay
  <2> QED BY <1>6, <2>1, <2>2
<1>10. CommandsInOrder'
  <2> SUFFICES ASSUME NEW m \in DOMAIN engine', NEW n \in DOMAIN engine', m < n,
                      engine'[m].session = engine'[n].session
               PROVE  engine'[m].number < engine'[n].number
    BY DEF CommandsInOrder
  <2>1. m \in DOMAIN engine /\ engine'[m] = engine[m]
    BY <1>3, <1>4, <1>5
  <2>2. CASE n \in DOMAIN engine /\ engine'[n] = engine[n]
    BY <2>1, <2>2 DEF OrderInv, CommandsInOrder
  <2>3. CASE engine'[n] = p
    BY <1>1, <2>1, <2>3 DEF OrderInv, UnderWayIsLater
  <2> QED BY <1>6, <2>2, <2>3
<1> QED BY <1>7, <1>8, <1>9, <1>10 DEF OrderInv

LEMMA SetSpeedOrder == ASSUME Types, OrderInv, SetSpeed PROVE OrderInv'
<1> DEFINE new == [session |-> session, number |-> issued + 1]
<1>1. /\ updating' = TRUE /\ reply' = "waiting" /\ issued' = issued + 1
      /\ puts' = puts \cup {new} /\ UNCHANGED <<session, engine>> /\ updating # TRUE
  BY DEF SetSpeed, pageVars
<1>2. \A p \in puts : p.session # session
  BY <1>1 DEF OrderInv, OneUnderWay, Mine
<1>3. issued \in Nat /\ session \in Nat
  BY DEF Types, MotorTypes, PageTypes
<1>4. new.session = session /\ new.number = issued + 1
  OBVIOUS
<1>5. \A p \in puts' : p \in puts \/ p = new
  BY <1>1
<1>6. /\ \A n \in DOMAIN engine : engine[n].session \in Nat /\ engine[n].number \in Nat
      /\ \A q \in puts : q.session \in Nat /\ q.number \in Nat
  BY EngineEntries DEF Types
<1> HIDE DEF new
<1>7. OneUnderWay'
  <2>1. \A p, q \in puts' : p.session = q.session => p = q
    BY <1>2, <1>4, <1>5 DEF OrderInv, OneUnderWay
  <2>2. updating' /\ reply' # "ok"
    BY <1>1
  <2> QED BY <2>1, <2>2, Zenon DEF OneUnderWay
<1>8. Handed'
  BY <1>1, <1>3, <1>4, <1>5, <1>6 DEF OrderInv, Handed
<1>9. UnderWayIsLater'
  BY <1>1, <1>3, <1>4, <1>5, <1>6 DEF OrderInv, UnderWayIsLater, Handed
<1>10. CommandsInOrder'
  BY <1>1 DEF OrderInv, CommandsInOrder
<1> QED BY <1>7, <1>8, <1>9, <1>10 DEF OrderInv

LEMMA StepOrder == Types /\ OrderInv /\ [Next]_vars => OrderInv'
<1> SUFFICES ASSUME Types, OrderInv, [Next]_vars PROVE OrderInv'
  OBVIOUS
<1>1. CASE SetSpeed
  BY <1>1, SetSpeedOrder
<1>2. ASSUME NEW p \in AllPuts, PutStep(p) PROVE OrderInv'
  <2>1. CASE SendEngineMessage(p)
    BY <2>1, SendOrder
  <2>2. CASE SendEngineFails(p)
    <3>1. p \in puts /\ UNCHANGED engine /\ AnswerPut(p)
      BY <2>2 DEF SendEngineFails
    <3> QED BY <3>1, AnswerPutOne, TakenOut
  <2>3. CASE PutFails(p)
    <3>1. /\ puts' = puts \ {p} /\ UNCHANGED <<session, issued, engine, updating>>
          /\ reply' = IF Mine(p) /\ reply = "waiting" THEN "failed" ELSE reply
      BY <2>3 DEF PutFails, pageVars
    <3>2. \A q \in puts' : Mine(q) => updating' /\ reply' # "ok"
      <4> SUFFICES ASSUME NEW q \in puts', Mine(q) PROVE updating' /\ reply' # "ok"
        OBVIOUS
      <4>1. updating /\ reply # "ok"
        BY <3>1, Zenon DEF OrderInv, OneUnderWay
      <4> QED BY <3>1, <4>1
    <3> QED BY <3>1, <3>2, TakenOut
  <2> QED BY <1>2, <2>1, <2>2, <2>3 DEF PutStep
<1>3. CASE PutBreaks
  <2>1. reply' = "failed" /\ UNCHANGED <<session, issued, engine, updating, puts>>
    BY <1>3 DEF PutBreaks, pageVars
  <2>2. \A q \in puts' : Mine(q) => updating' /\ reply' # "ok"
    BY <2>1 DEF OrderInv, OneUnderWay
  <2> QED BY <2>1, <2>2, TakenOut
<1>4. CASE CommandSucceeds
  <2>1. reply = "ok" /\ UNCHANGED <<session, issued, engine, puts>>
    BY <1>4 DEF CommandSucceeds, pageVars
  <2>2. \A q \in puts' : ~Mine(q)
    BY <2>1 DEF OrderInv, OneUnderWay
  <2> QED BY <2>1, <2>2, TakenOut
<1>5. CASE CommandFails
  <2>1. updating' = TRUE /\ reply' = "none" /\ UNCHANGED <<session, issued, engine, puts>>
    BY <1>5 DEF CommandFails, pageVars
  <2> QED BY <2>1, TakenOut
<1>6. CASE Drive
  <2>1. UNCHANGED <<session, issued, engine, puts, updating, reply>>
    BY <1>6 DEF Drive, pageVars
  <2>2. \A q \in puts' : Mine(q) => updating' /\ reply' # "ok"
    BY <2>1 DEF OrderInv, OneUnderWay
  <2> QED BY <2>1, <2>2, TakenOut
<1>7. CASE Reload
  <2>1. /\ session' = session + 1 /\ updating' = FALSE /\ reply' = "none"
        /\ UNCHANGED <<issued, puts, engine>>
    BY <1>7 DEF Reload
  <2>2. /\ session \in Nat
        /\ \A p \in puts : p.session \in Nat
        /\ \A n \in DOMAIN engine : engine[n].session \in Nat
    BY EngineEntries DEF Types, PageTypes
  <2>3. \A p \in puts' : p.session # session'
    BY <2>1, <2>2 DEF OrderInv, Handed
  <2>4. OneUnderWay'
    BY <2>1, <2>3 DEF OrderInv, OneUnderWay, Mine
  <2>5. Handed'
    BY <2>1, <2>2 DEF OrderInv, Handed
  <2>6. UnderWayIsLater' /\ CommandsInOrder'
    BY <2>1 DEF OrderInv, UnderWayIsLater, CommandsInOrder
  <2> QED BY <2>4, <2>5, <2>6 DEF OrderInv
<1>8. CASE \/ BackendStep \/ UNCHANGED vars
           \/ Mount \/ AnswerGet \/ GetSucceeds \/ GetFails
           \/ Connect \/ LoseConnection \/ WireIsCut \/ Disconnect \/ HandleStatus
  <2>1. UNCHANGED <<motorVars, session>>
    BY <1>8 DEF BackendStep, Announce, StoreState, pageVars, vars, Mount, AnswerGet,
                GetSucceeds, GetFails, Connect, LoseConnection, WireIsCut, Disconnect,
                HandleStatus
  <2>2. \A q \in puts' : Mine(q) => updating' /\ reply' # "ok"
    BY <2>1 DEF OrderInv, OneUnderWay, motorVars
  <2> QED BY <2>1, <2>2, TakenOut DEF motorVars
<1> QED BY <1>1, <1>2, <1>3, <1>4, <1>5, <1>6, <1>7, <1>8 DEF Next, PageStep, MotorStep

\* Whatever handlers are blocked and whatever connections break, the commands
\* of one loading of the page reach the motor queue in their order.
THEOREM CommandsStayInOrder == Spec => []CommandsInOrder
<1>1. OrderInv => CommandsInOrder
  BY DEF OrderInv
<1> QED BY <1>1, InitOrder, StepOrder, AlwaysTypes, PTL DEF Spec

-------------------------------------------------------------------------------
(* What the page shows.                                                    *)

LEMMA AnnounceWire ==
  ASSUME Types, Announce, wire' # wire \/ conn = "open"
  PROVE  /\ conn \in {"open", "lost"}
         /\ DOMAIN wire = 1..Len(wire) /\ Len(wire) \in Nat
         /\ DOMAIN wire' = 1..(Len(wire) + 1)
         /\ \A n \in DOMAIN wire : wire'[n] = wire[n]
         /\ wire'[Len(wire) + 1].id = unannounced
         /\ wire'[Len(wire) + 1].temp = stored[unannounced]
<1> DEFINE S == [id : Robots, temp : 1..MaxStates]
           new == [id |-> unannounced, temp |-> stored[unannounced]]
<1>1. wire' = Append(wire, new) /\ conn \in {"open", "lost"}
  BY DEF Announce
<1>2. new \in S /\ new.id = unannounced /\ new.temp = stored[unannounced]
  BY DEF Announce, Types, BackendTypes
<1>3. wire \in Seq(S)
  BY DEF Types, WireTypes
<1> HIDE DEF S, new
<1>4. /\ Append(wire, new) \in Seq(S) /\ Len(Append(wire, new)) = Len(wire) + 1
      /\ Len(wire) \in Nat
      /\ \A n \in 1..Len(wire) : Append(wire, new)[n] = wire[n]
      /\ Append(wire, new)[Len(wire) + 1] = new
  BY <1>2, <1>3, AppendElement
<1>5. DOMAIN wire = 1..Len(wire) /\ DOMAIN wire' = 1..Len(wire')
  BY <1>1, <1>3, <1>4, Elements, Zenon
<1> QED BY <1>1, <1>2, <1>4, <1>5

LEMMA HandleWire ==
  ASSUME Types, HandleStatus
  PROVE  /\ DOMAIN wire = 1..Len(wire) /\ Len(wire) \in Nat \ {0}
         /\ DOMAIN wire' = 1..(Len(wire) - 1)
         /\ \A n \in DOMAIN wire' : wire'[n] = wire[n + 1]
         /\ wire[1].id \in Robots /\ wire[1].temp \in 1..MaxStates
         /\ ApplyStatus(wire[1])
<1> DEFINE S == [id : Robots, temp : 1..MaxStates]
<1>1. wire # <<>> /\ ApplyStatus(Head(wire)) /\ wire' = Tail(wire)
  BY DEF HandleStatus
<1>2. wire \in Seq(S)
  BY DEF Types, WireTypes
<1>3. wire[1] \in S => wire[1].id \in Robots /\ wire[1].temp \in 1..MaxStates
  OBVIOUS
<1> HIDE DEF S
<1>4. /\ Head(wire) \in S /\ Head(wire) = wire[1] /\ Tail(wire) \in Seq(S)
      /\ Len(Tail(wire)) = Len(wire) - 1 /\ Len(wire) > 0
      /\ \A n \in 1..(Len(wire) - 1) : Tail(wire)[n] = wire[n + 1]
  BY <1>1, <1>2, TailElement
<1>5. DOMAIN wire = 1..Len(wire) /\ Len(wire) \in Nat /\ DOMAIN wire' = 1..Len(wire')
  BY <1>1, <1>2, <1>4, Elements, Zenon
<1> QED BY <1>1, <1>3, <1>4, <1>5

\* The last state on the wire of each robot is the one in the database.
LastIsStored ==
  \A n \in DOMAIN wire :
    /\ unannounced # wire[n].id
    /\ \A m \in DOMAIN wire : m > n => wire[m].id # wire[n].id
    => wire[n].temp = stored[wire[n].id]

\* A view of the robots is right for those that nothing is on its way for.
Tracked(view) ==
  \A i \in Robots \ missed :
    unannounced # i /\ (\A n \in DOMAIN wire : wire[n].id # i) => view[i] = stored[i]

FreshInv ==
  /\ conn = "open" => LastIsStored
  /\ conn \notin {"open", "lost"} => wire = <<>>
  /\ conn = "lost" /\ Answered => OnTheWire \subseteq missed
  /\ fetch = "none" => conn = "none"
  /\ fetch = "loaded" => Tracked(shown)
  /\ fetch = "answered" => Tracked(answer)

LEMMA InitFresh == Init => FreshInv
BY DEF Init, FreshInv, LastIsStored, Answered

LEMMA AnnounceFresh ==
  ASSUME Types, FreshInv, Announce PROVE FreshInv'
<1>1. /\ unannounced # Nobody /\ unannounced' = Nobody
      /\ UNCHANGED <<stored, fetch, answer, shown, conn>>
  BY DEF Announce
<1>2. CASE conn = "open"
  <2>1. /\ DOMAIN wire = 1..Len(wire) /\ Len(wire) \in Nat
        /\ DOMAIN wire' = 1..(Len(wire) + 1)
        /\ \A n \in DOMAIN wire : wire'[n] = wire[n]
        /\ wire'[Len(wire) + 1].id = unannounced
        /\ wire'[Len(wire) + 1].temp = stored[unannounced]
        /\ UNCHANGED missed
    BY <1>2, AnnounceWire DEF Announce
  <2>2. LastIsStored'
    <3> SUFFICES ASSUME NEW n \in DOMAIN wire',
                        \A m \in DOMAIN wire' : m > n => wire'[m].id # wire'[n].id
                 PROVE  wire'[n].temp = stored[wire'[n].id]
      BY <1>1 DEF LastIsStored
    <3>1. CASE n = Len(wire) + 1
      BY <2>1, <3>1
    <3>2. CASE n \in DOMAIN wire
      <4>1. unannounced # wire[n].id
        BY <2>1, <3>2
      <4>2. \A m \in DOMAIN wire : m > n => wire[m].id # wire[n].id
        BY <2>1, <3>2
      <4> QED BY <1>2, <2>1, <3>2, <4>1, <4>2 DEF FreshInv, LastIsStored
    <3> QED BY <2>1, <3>1, <3>2
  <2>3. ASSUME NEW view, Tracked(view),
               NEW i \in Robots \ missed, \A n \in DOMAIN wire' : wire'[n].id # i
        PROVE  view[i] = stored[i]
    <3>1. unannounced # i
      BY <2>1, <2>3
    <3>2. \A n \in DOMAIN wire : wire[n].id # i
      BY <2>1, <2>3
    <3> QED BY <2>3, <3>1, <3>2 DEF Tracked
  <2>4. fetch' = "loaded" => Tracked(shown)'
    BY <1>1, <2>1, <2>3 DEF FreshInv, Tracked
  <2>5. fetch' = "answered" => Tracked(answer)'
    BY <1>1, <2>1, <2>3 DEF FreshInv, Tracked
  <2> QED BY <1>1, <1>2, <2>2, <2>4, <2>5 DEF FreshInv
<1>3. CASE conn # "open"
  <2>1. Answered => missed' = missed \cup {unannounced}
    BY <1>3 DEF Announce, Unseen
  <2>2. \A n \in DOMAIN wire' :
          (n \in DOMAIN wire /\ wire'[n] = wire[n]) \/ wire'[n].id = unannounced
    <3>1. CASE wire' = wire
      BY <3>1
    <3>2. CASE wire' # wire
      BY <3>2, AnnounceWire
    <3> QED BY <3>1, <3>2
  <2>3. \A n \in DOMAIN wire : \E m \in DOMAIN wire' : wire'[m] = wire[n]
    <3>1. CASE wire' = wire
      BY <3>1
    <3>2. CASE wire' # wire
      <4>1. DOMAIN wire \subseteq DOMAIN wire' /\ \A n \in DOMAIN wire : wire'[n] = wire[n]
        BY <3>2, AnnounceWire
      <4> QED BY <4>1
    <3> QED BY <3>1, <3>2
  <2>4. conn \notin {"open", "lost"} => wire' = <<>>
    BY <1>3 DEF FreshInv, Announce
  <2>5. conn = "lost" /\ Answered => OnTheWire' \subseteq missed'
    BY <2>1, <2>2 DEF FreshInv, OnTheWire
  <2>6. fetch' = "loaded" => Tracked(shown)'
    BY <1>1, <2>1, <2>3 DEF FreshInv, Tracked, Answered
  <2>7. fetch' = "answered" => Tracked(answer)'
    BY <1>1, <2>1, <2>3 DEF FreshInv, Tracked, Answered
  <2> QED BY <1>1, <1>3, <2>4, <2>5, <2>6, <2>7 DEF FreshInv, Answered
<1> QED BY <1>2, <1>3

LEMMA HandleFresh ==
  ASSUME Types, FreshInv, HandleStatus PROVE FreshInv'
<1>1. /\ DOMAIN wire = 1..Len(wire) /\ Len(wire) \in Nat \ {0}
      /\ DOMAIN wire' = 1..(Len(wire) - 1)
      /\ \A n \in DOMAIN wire' : wire'[n] = wire[n + 1]
      /\ wire[1].id \in Robots /\ wire[1].temp \in 1..MaxStates
      /\ ApplyStatus(wire[1])
  BY HandleWire
<1>2. UNCHANGED <<backendVars, fetch, answer, conn>>
  BY DEF HandleStatus
<1>3. wire # <<>> /\ conn \in {"open", "lost"}
  BY DEF HandleStatus, FreshInv
<1>4. ASSUME conn = "open" PROVE LastIsStored'
  <2> SUFFICES ASSUME NEW n \in DOMAIN wire', unannounced # wire'[n].id,
                      \A m \in DOMAIN wire' : m > n => wire'[m].id # wire'[n].id
               PROVE  wire'[n].temp = stored[wire'[n].id]
    BY <1>2 DEF LastIsStored, backendVars
  <2>1. n + 1 \in DOMAIN wire /\ wire'[n] = wire[n + 1]
    BY <1>1
  <2>2. ASSUME NEW m \in DOMAIN wire, m > n + 1 PROVE wire[m].id # wire[n + 1].id
    <3>1. m - 1 \in DOMAIN wire' /\ m - 1 > n /\ wire'[m - 1] = wire[m]
      BY <1>1, <2>2
    <3> QED BY <2>1, <3>1
  <2> QED BY <1>4, <2>1, <2>2 DEF FreshInv, LastIsStored
\* A robot with nothing left on the wire had nothing but this state there.
<1>5. ASSUME NEW i \in Robots, \A n \in DOMAIN wire' : wire'[n].id # i
      PROVE  \A n \in DOMAIN wire : n # 1 => wire[n].id # i
  <2> SUFFICES ASSUME NEW n \in DOMAIN wire, n # 1 PROVE wire[n].id # i
    OBVIOUS
  <2>1. n - 1 \in DOMAIN wire' /\ wire'[n - 1] = wire[n]
    BY <1>1
  <2> QED BY <1>5, <2>1
<1>6. fetch' = "loaded" => Tracked(shown)'
  <2> SUFFICES ASSUME fetch = "loaded", NEW i \in Robots \ missed', unannounced # i,
                      \A n \in DOMAIN wire' : wire'[n].id # i
               PROVE  shown'[i] = stored[i]
    BY <1>2 DEF Tracked, backendVars
  <2>1. /\ shown' = [shown EXCEPT ![wire[1].id] = wire[1].temp]
        /\ missed' = IF conn = "lost" THEN missed ELSE missed \ {wire[1].id}
    BY <1>1 DEF ApplyStatus, Loaded
  <2>2. \A n \in DOMAIN wire : n # 1 => wire[n].id # i
    BY <1>5
  <2>3. shown \in [Robots -> 0..MaxStates]
    BY DEF Types, PageTypes
  <2>4. CASE wire[1].id = i
    <3>1. conn = "open"
      <4>1. conn = "lost" => wire[1].id \in missed
        BY <1>1 DEF FreshInv, Answered, OnTheWire
      <4> QED BY <1>3, <2>1, <2>4, <4>1
    <3>2. wire[1].temp = stored[i]
      BY <1>1, <2>2, <2>4, <3>1 DEF FreshInv, LastIsStored
    <3> QED BY <2>1, <2>3, <2>4, <3>2
  <2>5. CASE wire[1].id # i
    <3>1. \A n \in DOMAIN wire : wire[n].id # i
      BY <2>2, <2>5
    <3>2. shown[i] = stored[i]
      BY <2>1, <2>5, <3>1 DEF FreshInv, Tracked
    <3> QED BY <2>1, <2>3, <2>5, <3>2
  <2> QED BY <2>4, <2>5
<1>7. fetch' = "answered" => Tracked(answer)'
  <2> SUFFICES ASSUME fetch = "answered", NEW i \in Robots \ missed', unannounced # i,
                      \A n \in DOMAIN wire' : wire'[n].id # i
               PROVE  answer[i] = stored[i]
    BY <1>2 DEF Tracked, backendVars
  <2>1. missed' = missed \cup {wire[1].id}
    BY <1>1 DEF ApplyStatus, Unseen, Loaded, Answered
  <2>2. \A n \in DOMAIN wire : wire[n].id # i
    BY <1>1, <1>5, <2>1
  <2> QED BY <2>1, <2>2 DEF FreshInv, Tracked
<1>8. conn = "lost" /\ Answered => OnTheWire' \subseteq missed'
  <2> SUFFICES ASSUME conn = "lost", Answered, NEW n \in DOMAIN wire'
               PROVE  wire'[n].id \in missed'
    BY DEF OnTheWire
  <2>1. n + 1 \in DOMAIN wire /\ wire'[n] = wire[n + 1]
    BY <1>1
  <2>2. missed \subseteq missed'
    BY <1>1 DEF ApplyStatus, Unseen
  <2> QED BY <2>1, <2>2 DEF FreshInv, OnTheWire
<1> QED BY <1>2, <1>3, <1>4, <1>6, <1>7, <1>8 DEF FreshInv, Answered

LEMMA StepFresh == Types /\ FreshInv /\ [Next]_vars => FreshInv'
<1> SUFFICES ASSUME Types, FreshInv, [Next]_vars PROVE FreshInv'
  OBVIOUS
<1>1. CASE Announce
  BY <1>1, AnnounceFresh
<1>2. CASE HandleStatus
  BY <1>2, HandleFresh
<1>3. ASSUME NEW i \in Robots, StoreState(i) PROVE FreshInv'
  <2>1. /\ unannounced = Nobody /\ unannounced' = i
        /\ \A j \in Robots : j # i => stored'[j] = stored[j]
        /\ UNCHANGED <<fetch, answer, shown, conn, wire, missed>>
    BY <1>3 DEF StoreState, pageVars, pastVars, Types, BackendTypes
  <2>2. \A n \in DOMAIN wire : wire[n].id \in Robots
    BY WireEntries DEF Types
  <2>3. conn = "open" => LastIsStored'
    BY <2>1, <2>2 DEF FreshInv, LastIsStored
  <2>4. fetch' = "loaded" => Tracked(shown)'
    BY <2>1 DEF FreshInv, Tracked
  <2>5. fetch' = "answered" => Tracked(answer)'
    BY <2>1 DEF FreshInv, Tracked
  <2> QED BY <2>1, <2>3, <2>4, <2>5 DEF FreshInv, Answered, OnTheWire
<1>4. CASE Mount \/ Reload
  <2>1. wire' = <<>> /\ fetch' \notin {"loaded", "answered"} /\ (fetch' = "none" => conn' = "none")
    BY <1>4 DEF Mount, Reload, FreshInv
  <2> QED BY <2>1 DEF FreshInv, LastIsStored, Answered
<1>5. CASE AnswerGet
  <2>1. /\ fetch' = "answered" /\ answer' = stored /\ UNCHANGED <<backendVars, conn, wire>>
        /\ conn = "lost" => missed' = OnTheWire
    BY <1>5 DEF AnswerGet
  <2>2. Tracked(answer)'
    BY <2>1 DEF Tracked, backendVars
  <2> QED BY <2>1, <2>2 DEF FreshInv, LastIsStored, OnTheWire, backendVars
<1>6. CASE GetSucceeds
  <2>1. /\ fetch = "answered" /\ fetch' = "loaded" /\ shown' = answer
        /\ UNCHANGED <<backendVars, conn, wire, missed>>
    BY <1>6 DEF GetSucceeds, pastVars
  <2>2. Tracked(shown)'
    BY <2>1 DEF FreshInv, Tracked, backendVars
  <2> QED BY <2>1, <2>2 DEF FreshInv, LastIsStored, Answered, OnTheWire, backendVars
<1>7. CASE GetFails
  BY <1>7 DEF GetFails, FreshInv, LastIsStored, Answered, backendVars
<1>8. CASE Connect
  <2>1. /\ conn = "connecting" /\ conn' = "open"
        /\ UNCHANGED <<backendVars, fetch, answer, shown, wire, missed>>
    BY <1>8 DEF Connect, pastVars
  <2> QED BY <2>1 DEF FreshInv, LastIsStored, Tracked, backendVars
<1>9. CASE LoseConnection \/ Disconnect
  <2>1. /\ conn # "none" /\ conn' # "none"
        /\ (conn' = "lost" /\ wire' = wire) \/ (conn' = "closed" /\ wire' = <<>>)
        /\ UNCHANGED <<backendVars, fetch, answer, shown>>
        /\ missed' = IF Answered THEN missed \cup OnTheWire ELSE missed
    BY <1>9 DEF LoseConnection, Disconnect, Unseen
  <2>2. ASSUME Answered, NEW i \in Robots \ missed'
        PROVE  i \notin missed /\ \A n \in DOMAIN wire : wire[n].id # i
    BY <2>1, <2>2 DEF OnTheWire
  <2>3. fetch' = "loaded" => Tracked(shown)'
    BY <2>1, <2>2 DEF FreshInv, Tracked, Answered, backendVars
  <2>4. fetch' = "answered" => Tracked(answer)'
    BY <2>1, <2>2 DEF FreshInv, Tracked, Answered, backendVars
  <2> QED BY <2>1, <2>3, <2>4 DEF FreshInv, Answered, OnTheWire
<1>10. CASE WireIsCut
  <2>1. /\ conn = "lost" /\ UNCHANGED <<backendVars, fetch, answer, shown, conn, missed>>
        /\ DOMAIN wire' \subseteq DOMAIN wire /\ \A n \in DOMAIN wire' : wire'[n] = wire[n]
    BY <1>10, CutWire DEF WireIsCut, pastVars, Types
  <2>2. Answered => OnTheWire' \subseteq missed'
    BY <2>1 DEF FreshInv, OnTheWire
  <2>3. ASSUME Answered, NEW i \in Robots \ missed
        PROVE  \A n \in DOMAIN wire : wire[n].id # i
    BY <2>1, <2>3 DEF FreshInv, OnTheWire
  <2>4. fetch' = "loaded" => Tracked(shown)'
    BY <2>1, <2>3 DEF FreshInv, Tracked, Answered, backendVars
  <2>5. fetch' = "answered" => Tracked(answer)'
    BY <2>1, <2>3 DEF FreshInv, Tracked, Answered, backendVars
  <2> QED BY <2>1, <2>2, <2>4, <2>5 DEF FreshInv, Answered
<1>11. CASE MotorStep \/ UNCHANGED vars
  <2>1. UNCHANGED <<backendVars, pageVars, pastVars>>
    BY <1>11 DEF vars, MotorStep, SetSpeed, PutBreaks, CommandSucceeds, CommandFails, Drive,
                 PutStep, SendEngineMessage, SendEngineFails, PutFails, AnswerPut
  <2> QED BY <2>1 DEF backendVars, pageVars, pastVars, FreshInv, LastIsStored, Tracked,
                      Answered, OnTheWire
<1> QED BY <1>1, <1>2, <1>3, <1>4, <1>5, <1>6, <1>7, <1>8, <1>9, <1>10, <1>11
        DEF Next, BackendStep, PageStep

\* When all that was announced has been handled, a loaded page shows what the
\* database holds, except for the robots it missed.
THEOREM FreshPage == Spec => []FreshUnlessMissed
<1>1. Types /\ FreshInv => FreshUnlessMissed
  <2> SUFFICES ASSUME FreshInv, Types, Loaded, conn = "open" => wire = <<>>,
                      unannounced = Nobody, NEW i \in Robots \ missed
               PROVE  shown[i] = stored[i]
    BY DEF FreshUnlessMissed
  <2>1. \A n \in DOMAIN wire : wire[n].id # i
    BY DEF FreshInv, Answered, Loaded, OnTheWire
  <2>2. unannounced # i
    OBVIOUS
  <2> QED BY <2>1, <2>2 DEF FreshInv, Tracked, Loaded
<1> QED BY <1>1, InitFresh, StepFresh, AlwaysTypes, PTL DEF Spec

-------------------------------------------------------------------------------
(* A page never steps back once a robot's state came over its socket.      *)

WireRises ==
  /\ \A m, n \in DOMAIN wire :
       m < n /\ wire[m].id = wire[n].id => wire[m].temp <= wire[n].temp
  /\ \A n \in DOMAIN wire : wire[n].temp <= stored[wire[n].id]

HeardIsOld ==
  /\ heard # {} => Loaded
  /\ \A i \in heard :
       /\ shown[i] <= stored[i]
       /\ \A n \in DOMAIN wire : wire[n].id = i => shown[i] <= wire[n].temp

RiseInv == (\A i \in Robots : stored[i] <= latest) /\ WireRises /\ HeardIsOld

LEMMA InitRise == Init => RiseInv
BY DEF Init, Zero, RiseInv, WireRises, HeardIsOld

\* The wire empty and nothing shown anew.
LEMMA WireCut ==
  ASSUME RiseInv, wire' = <<>>, UNCHANGED <<stored, latest>>,
         heard' = {} \/ UNCHANGED <<heard, shown, fetch>>
  PROVE  RiseInv'
BY DEF RiseInv, WireRises, HeardIsOld, Loaded

LEMMA AnnounceRise ==
  ASSUME Types, RiseInv, Announce PROVE RiseInv'
<1>1. UNCHANGED <<stored, latest, heard, shown, fetch>>
  BY DEF Announce
<1>2. CASE wire' = wire
  BY <1>1, <1>2 DEF RiseInv, WireRises, HeardIsOld, Loaded
<1>3. CASE wire' # wire
  <2>1. /\ DOMAIN wire = 1..Len(wire) /\ Len(wire) \in Nat
        /\ DOMAIN wire' = 1..(Len(wire) + 1)
        /\ \A n \in DOMAIN wire : wire'[n] = wire[n]
        /\ wire'[Len(wire) + 1].id = unannounced
        /\ wire'[Len(wire) + 1].temp = stored[unannounced]
    BY <1>3, AnnounceWire
  <2>2. \A n \in DOMAIN wire' : n \in DOMAIN wire \/ n = Len(wire) + 1
    BY <2>1
  <2>3. unannounced \in Robots /\ \A i \in Robots : stored[i] \in Nat
    BY DEF Announce, Types, BackendTypes
  <2>4. WireRises'
    <3>1. \A m, n \in DOMAIN wire' : m < n => m \in DOMAIN wire
      BY <2>1
    <3>2. \A m, n \in DOMAIN wire' :
            m < n /\ wire'[m].id = wire'[n].id => wire'[m].temp <= wire'[n].temp
      BY <2>1, <2>2, <3>1 DEF RiseInv, WireRises
    <3>3. \A n \in DOMAIN wire' : wire'[n].temp <= stored[wire'[n].id]
      BY <2>1, <2>2, <2>3 DEF RiseInv, WireRises
    <3> QED BY <1>1, <3>2, <3>3 DEF WireRises
  <2>5. HeardIsOld'
    BY <1>1, <2>1, <2>2 DEF RiseInv, HeardIsOld, Loaded
  <2> QED BY <1>1, <2>4, <2>5 DEF RiseInv
<1> QED BY <1>2, <1>3

LEMMA HandleRise ==
  ASSUME Types, RiseInv, HandleStatus
  PROVE  RiseInv' /\ \A i \in heard : shown'[i] >= shown[i]
<1>1. /\ DOMAIN wire = 1..Len(wire) /\ Len(wire) \in Nat \ {0}
      /\ DOMAIN wire' = 1..(Len(wire) - 1)
      /\ \A n \in DOMAIN wire' : wire'[n] = wire[n + 1]
      /\ wire[1].id \in Robots /\ wire[1].temp \in 1..MaxStates
      /\ ApplyStatus(wire[1])
  BY HandleWire
<1>2. UNCHANGED <<stored, latest, fetch>>
  BY DEF HandleStatus, backendVars
<1>3. \A n \in DOMAIN wire' : n + 1 \in DOMAIN wire /\ n + 1 > 1 /\ wire'[n] = wire[n + 1]
  BY <1>1
<1>4. WireRises'
  <2>1. \A m, n \in DOMAIN wire' : m < n => m + 1 < n + 1
    BY <1>1
  <2> QED BY <1>2, <1>3, <2>1 DEF RiseInv, WireRises
<1>5. shown \in [Robots -> 0..MaxStates] /\ heard \subseteq Robots
  BY DEF Types, PageTypes, PastTypes
<1>6. CASE Loaded
  <2>1. /\ shown' = [shown EXCEPT ![wire[1].id] = wire[1].temp]
        /\ heard' = heard \cup {wire[1].id}
    BY <1>1, <1>6 DEF ApplyStatus
  <2>2. \A i \in Robots : shown'[i] = IF i = wire[1].id THEN wire[1].temp ELSE shown[i]
    BY <1>5, <2>1
  <2>3. 1 \in DOMAIN wire
    BY <1>1
  <2>4. ASSUME NEW i \in heard'
        PROVE  /\ shown'[i] <= stored[i]
               /\ \A n \in DOMAIN wire' : wire'[n].id = i => shown'[i] <= wire'[n].temp
    <3>1. CASE i = wire[1].id
      <4>1. shown'[i] = wire[1].temp
        BY <1>1, <2>2, <3>1
      <4>2. wire[1].temp <= stored[i]
        BY <2>3, <3>1 DEF RiseInv, WireRises
      <4>3. ASSUME NEW n \in DOMAIN wire', wire'[n].id = i
            PROVE  wire[1].temp <= wire'[n].temp
        <5>1. n + 1 \in DOMAIN wire /\ 1 < n + 1 /\ wire'[n] = wire[n + 1]
          BY <1>1
        <5> QED BY <2>3, <3>1, <4>3, <5>1 DEF RiseInv, WireRises
      <4> QED BY <4>1, <4>2, <4>3
    <3>2. CASE i # wire[1].id
      <4>1. i \in heard /\ shown'[i] = shown[i]
        BY <1>5, <2>1, <2>2, <3>2
      <4> QED BY <1>3, <4>1 DEF RiseInv, HeardIsOld
    <3> QED BY <3>1, <3>2
  <2>5. HeardIsOld'
    BY <1>2, <1>6, <2>4 DEF HeardIsOld, Loaded
  <2>6. ASSUME NEW i \in heard PROVE shown'[i] >= shown[i]
    <3>1. i = wire[1].id => shown[i] <= wire[1].temp
      BY <2>3 DEF RiseInv, HeardIsOld
    <3>2. shown[i] \in Nat /\ wire[1].temp \in Nat
      BY <1>1, <1>5
    <3> QED BY <1>5, <2>2, <3>1, <3>2
  <2> QED BY <1>2, <1>4, <2>5, <2>6 DEF RiseInv
<1>7. CASE ~Loaded
  <2>1. UNCHANGED <<shown, heard>> /\ heard = {}
    BY <1>1, <1>7 DEF ApplyStatus, RiseInv, HeardIsOld
  <2>2. HeardIsOld'
    BY <2>1 DEF HeardIsOld
  <2> QED BY <1>2, <1>4, <2>1, <2>2 DEF RiseInv
<1> QED BY <1>6, <1>7

LEMMA StepRise ==
  Types /\ RiseInv /\ [Next]_vars =>
    RiseInv' /\ \A i \in heard : session' = session => shown'[i] >= shown[i]
<1> SUFFICES ASSUME Types, RiseInv, [Next]_vars
             PROVE  RiseInv' /\ \A i \in heard : session' = session => shown'[i] >= shown[i]
  OBVIOUS
<1>0. \A i \in heard : shown[i] >= shown[i]
  BY DEF Types, PageTypes, PastTypes
<1>1. CASE Announce
  <2>1. shown' = shown
    BY <1>1 DEF Announce
  <2> QED BY <1>0, <1>1, <2>1, AnnounceRise
<1>2. CASE HandleStatus
  BY <1>2, HandleRise
<1>3. ASSUME NEW i \in Robots, StoreState(i)
      PROVE  RiseInv' /\ shown' = shown
  <2>1. /\ latest' = latest + 1 /\ stored' = [stored EXCEPT ![i] = latest']
        /\ UNCHANGED <<pageVars, pastVars>>
    BY <1>3 DEF StoreState
  <2>2. stored \in [Robots -> 0..MaxStates] /\ latest \in Nat /\ heard \subseteq Robots
    BY DEF Types, BackendTypes, PastTypes
  <2>3. \A j \in Robots : stored'[j] <= latest' /\ stored[j] <= stored'[j]
    BY <2>1, <2>2 DEF RiseInv
  <2>4. /\ \A j \in Robots : stored[j] \in Nat /\ stored'[j] \in Nat
        /\ \A j \in heard : shown[j] \in Nat
        /\ \A n \in DOMAIN wire : wire[n].id \in Robots /\ wire[n].temp \in Nat
    BY <2>1, <2>2, WireEntries DEF Types, PageTypes, PastTypes
  <2>5. WireRises'
    <3>1. \A n \in DOMAIN wire : wire[n].temp <= stored[wire[n].id]
      BY DEF RiseInv, WireRises
    <3>2. \A n \in DOMAIN wire : wire[n].temp <= stored'[wire[n].id]
      BY <2>3, <2>4, <3>1
    <3> QED BY <2>1, <3>2 DEF RiseInv, WireRises, pageVars
  <2>6. HeardIsOld'
    <3>1. \A j \in heard : shown[j] <= stored'[j]
      BY <2>2, <2>3, <2>4 DEF RiseInv, HeardIsOld
    <3> QED BY <2>1, <3>1 DEF RiseInv, HeardIsOld, Loaded, pageVars, pastVars
  <2> QED BY <2>1, <2>3, <2>5, <2>6 DEF RiseInv, pageVars
<1>4. CASE Reload
  <2>1. /\ session' = session + 1 /\ wire' = <<>> /\ heard' = {}
        /\ UNCHANGED <<stored, latest>>
    BY <1>4 DEF Reload, backendVars
  <2>2. session' # session
    BY <2>1 DEF Types, PageTypes
  <2> QED BY <2>1, <2>2, WireCut
<1>5. CASE Disconnect
  <2>1. wire' = <<>> /\ UNCHANGED <<stored, latest, heard, shown, fetch>>
    BY <1>5 DEF Disconnect, backendVars
  <2> QED BY <1>0, <2>1, WireCut
<1>8. CASE WireIsCut
  <2>1. /\ UNCHANGED <<stored, latest, heard, shown, fetch>>
        /\ DOMAIN wire' \subseteq DOMAIN wire /\ \A n \in DOMAIN wire' : wire'[n] = wire[n]
    BY <1>8, CutWire DEF WireIsCut, backendVars, pastVars, Types
  <2> QED BY <1>0, <2>1 DEF RiseInv, WireRises, HeardIsOld, Loaded
<1>6. CASE Mount \/ AnswerGet \/ GetSucceeds \/ GetFails
  <2>1. heard = {}
    BY <1>6 DEF Mount, AnswerGet, GetSucceeds, GetFails, Loaded, RiseInv, HeardIsOld
  <2>2. UNCHANGED <<stored, latest, wire, heard>>
    BY <1>6 DEF Mount, AnswerGet, GetSucceeds, GetFails, backendVars, pastVars
  <2> QED BY <2>1, <2>2 DEF RiseInv, WireRises, HeardIsOld
<1>7. CASE Connect \/ LoseConnection \/ MotorStep \/ UNCHANGED vars
  <2>1. UNCHANGED <<stored, latest, wire, heard, shown, fetch>>
    BY <1>7 DEF Connect, LoseConnection, vars, backendVars, pageVars, pastVars,
                MotorStep, SetSpeed, PutBreaks, CommandSucceeds, CommandFails, Drive,
                PutStep, SendEngineMessage, SendEngineFails, PutFails, AnswerPut
  <2> QED BY <1>0, <2>1 DEF RiseInv, WireRises, HeardIsOld, Loaded
<1> QED BY <1>0, <1>1, <1>2, <1>3, <1>4, <1>5, <1>6, <1>7, <1>8
        DEF Next, BackendStep, PageStep

\* Once a robot's state has come over the socket, no later one is older.
THEOREM PageMovesForward == Spec => ShownMovesForward
<1>1. Types /\ RiseInv /\ [Next]_vars =>
        [\A i \in heard : session' = session => shown'[i] >= shown[i]]_vars
  BY StepRise
<1>2. Types /\ RiseInv /\ [Next]_vars => RiseInv'
  BY StepRise
<1> QED BY <1>1, <1>2, InitRise, AlwaysTypes, PTL DEF Spec, ShownMovesForward

-------------------------------------------------------------------------------
(* What the page waits for comes.                                          *)

\* How the page's own state can go on: it is loaded again once its socket is
\* closed, and its GET goes one way.
LEMMA PageGoesOn ==
  ASSUME Types, FreshInv, [Next]_vars
  PROVE  /\ session' = session \/ session' > session
         /\ conn = "closed" /\ session' = session => conn' = "closed"
         /\ session' = session =>
              /\ fetch = "none" => fetch' \in {"none", "asked"}
              /\ fetch = "asked" => fetch' \in {"asked", "answered", "failed"}
              /\ fetch = "answered" => fetch' \in {"answered", "loaded", "failed"}
              /\ fetch \in {"loaded", "failed"} => fetch' = fetch
<1>0. session \in Nat
  BY DEF Types, PageTypes
<1>1. CASE BackendStep \/ MotorStep \/ UNCHANGED vars
  <2>1. UNCHANGED <<session, fetch, conn>>
    BY <1>1 DEF vars, pageVars, BackendStep, Announce, StoreState, MotorStep, SetSpeed,
       PutBreaks, CommandSucceeds, CommandFails, Drive, PutStep, SendEngineMessage,
       SendEngineFails, PutFails, AnswerPut
  <2>2. QED
    BY <2>1
<1>2. CASE Reload
  BY <1>0, <1>2 DEF Reload
<1>3. CASE Mount
  BY <1>3 DEF Mount, FreshInv
<1>4. CASE AnswerGet \/ GetSucceeds \/ GetFails
  BY <1>4 DEF AnswerGet, GetSucceeds, GetFails
<1>5. CASE Connect \/ LoseConnection \/ WireIsCut \/ Disconnect \/ HandleStatus
  BY <1>5 DEF Connect, LoseConnection, WireIsCut, Disconnect, HandleStatus
<1> QED BY <1>1, <1>2, <1>3, <1>4, <1>5 DEF Next, PageStep

\* For any robots and bounds: a page that heard of its socket's loss is loaded again, and
\* each loading gets an answer to its GET unless the next one comes first; no
\* message and no command stands in the way of either (websocket-actions.ts:22-26,
\* robot-page.tsx:27-38).
THEOREM PageAlwaysComesBack == FairSpec /\ []RequestsAreServed => PageComesBack
<1> DEFINE H == FairSpec /\ []RequestsAreServed
           I == Types /\ FreshInv
<1>1. FairSpec => /\ [][Next]_vars /\ []I
                  /\ WF_vars(Mount) /\ WF_vars(AnswerGet) /\ WF_vars(GetSucceeds \/ GetFails)
                  /\ WF_vars(Reload)
  BY AlwaysTypes, InitFresh, StepFresh, PTL DEF FairSpec, Spec, Fairness
<1>2. I /\ [Next]_vars => I'
  BY StepTypes, StepFresh
<1>3. ASSUME NEW s \in 1..(MaxSessions - 1) PROVE H => Reloaded(s)
  <2> DEFINE R == I /\ session = s /\ conn = "closed"
             G == session > s
             Can == R => ENABLED <<Reload>>_vars
  <2>1. R /\ [Next]_vars => (R' \/ G')
    BY <1>2, PageGoesOn
  <2>2. R /\ <<Reload>>_vars => G'
    BY DEF Reload, Types, PageTypes
  <2>3. RequestsAreServed => Can
    <3>1. s < MaxSessions
      OBVIOUS
    <3>2. QED
      BY <3>1 DEF RequestsAreServed
  <2>4. I /\ session = s /\ conn = "closed" => R
    OBVIOUS
  <2> HIDE DEF R, G, I
  <2>5. H => (R ~> G)
    BY <1>1, <2>1, <2>2, <2>3, PTL DEF Can
  <2>6. QED
    BY <1>1, <2>4, <2>5, PTL DEF Reloaded, G
<1>4. ASSUME NEW s \in 1..MaxSessions PROVE H => Answers(s)
  <2> DEFINE P == I /\ session = s
             N == P /\ fetch = "none"
             A == P /\ fetch = "asked"
             D == P /\ fetch = "answered"
             G == fetch \in {"loaded", "failed"} \/ session > s
             CanMount == N => ENABLED <<Mount>>_vars
             CanAnswer == A => ENABLED <<AnswerGet>>_vars
             CanArrive == D => ENABLED <<GetSucceeds \/ GetFails>>_vars
  <2>1. P /\ [Next]_vars => P' \/ G'
    BY <1>2, PageGoesOn
  <2>2. N /\ [Next]_vars => (N' \/ A' \/ G') /\ (<<Mount>>_vars => A' \/ G')
    BY <2>1, PageGoesOn DEF Mount
  <2>3. A /\ [Next]_vars => (A' \/ D' \/ G') /\ (<<AnswerGet>>_vars => D' \/ G')
    BY <2>1, PageGoesOn DEF AnswerGet
  <2>4. D /\ [Next]_vars => (D' \/ G') /\ (<<GetSucceeds \/ GetFails>>_vars => G')
    BY <2>1, PageGoesOn DEF GetSucceeds, GetFails
  <2>5. RequestsAreServed => CanMount /\ CanAnswer /\ CanArrive
    BY DEF RequestsAreServed
  <2>6. I /\ session = s => N \/ A \/ D \/ G
    BY DEF Types, PageTypes
  <2> HIDE DEF P, N, A, D, G, I
  <2>7. H => (D ~> G)
    BY <1>1, <2>4, <2>5, PTL DEF CanArrive
  <2>8. H => (A ~> D \/ G)
    BY <1>1, <2>3, <2>5, PTL DEF CanAnswer
  <2>9. H => (N ~> A \/ G)
    BY <1>1, <2>2, <2>5, PTL DEF CanMount
  <2>10. QED
    BY <1>1, <2>6, <2>7, <2>8, <2>9, PTL DEF Answers, G
<1> QED BY <1>3, <1>4 DEF PageComesBack

\* The command that the page waits for is its own: those of earlier loadings
\* have smaller numbers.
LastIsMine == \A p \in puts : reply = "waiting" /\ p.number = issued => Mine(p)

LEMMA StepMine ==
  Types /\ OrderInv /\ LastIsMine /\ [Next]_vars => LastIsMine'
<1> SUFFICES ASSUME Types, OrderInv, LastIsMine, [Next]_vars PROVE LastIsMine'
  OBVIOUS
<1>1. CASE SetSpeed
  <2> DEFINE new == [session |-> session, number |-> issued + 1]
  <2>1. /\ issued' = issued + 1 /\ session' = session
        /\ \A p \in puts' : p \in puts \/ p = new
    BY <1>1 DEF SetSpeed, pageVars
  <2>2. \A p \in puts : p.number <= issued /\ p.number \in Nat
    BY EngineEntries DEF Types, OrderInv, Handed
  <2>3. issued \in Nat
    BY DEF Types, MotorTypes
  <2>4. \A p \in puts : p.number # issued'
    BY <2>1, <2>2, <2>3
  <2>5. \A p \in puts' : p.number = issued' => p.session = session'
    BY <2>1, <2>4
  <2> QED BY <2>5 DEF LastIsMine, Mine
<1>2. CASE Reload
  BY <1>2 DEF Reload, LastIsMine
<1>3. CASE ~SetSpeed /\ ~Reload
  <2>1. UNCHANGED <<session, issued>> /\ puts' \subseteq puts
    BY <1>3 DEF Next, BackendStep, PageStep, vars, pageVars, motorVars, Announce, StoreState,
       Mount, AnswerGet, GetSucceeds, GetFails, Connect, LoseConnection, WireIsCut,
       Disconnect, HandleStatus, MotorStep,
       PutBreaks, CommandSucceeds, CommandFails, Drive, PutStep, SendEngineMessage,
       SendEngineFails, PutFails, AnswerPut
  <2>2. reply' = "waiting" => reply = "waiting"
    BY <1>3 DEF Next, BackendStep, PageStep, vars, pageVars, motorVars, Announce, StoreState,
       Mount, AnswerGet, GetSucceeds, GetFails, Connect, LoseConnection, WireIsCut,
       Disconnect, HandleStatus, MotorStep,
       PutBreaks, CommandSucceeds, CommandFails, Drive, PutStep, SendEngineMessage,
       SendEngineFails, PutFails, AnswerPut
  <2> QED BY <2>1, <2>2 DEF LastIsMine, Mine
<1> QED BY <1>1, <1>2, <1>3

\* For a motor queue of any capacity: the page hears of each command it waits
\* for, or is loaded anew.  The robot process makes room again and again, the
\* kernel does not let the command's handler starve for it, and the answer goes
\* to the page that waits (robots-actions.ts:157-169, robots.go:89-118).
THEOREM EveryCommandIsAnswered == FairSpec /\ []RequestsAreServed => CommandsAreAnswered
<1> SUFFICES ASSUME NEW n \in 1..MaxCommands
             PROVE  FairSpec /\ []RequestsAreServed => IsAnswered(n)
  BY DEF CommandsAreAnswered
<1> DEFINE I == Types /\ OrderInv /\ LastIsMine
           W == Waits(n)
           Room == Len(engine) - driven < EngineQueue
           Send == W /\ Room => CanSend(n)
           Make == W /\ ~Room => ENABLED <<Drive>>_vars
<1>1. I /\ W /\ <<Sends(n)>>_vars => ~W'
  <2>1. SUFFICES ASSUME I, W, NEW s \in 1..MaxSessions,
                        SendEngineMessage([session |-> s, number |-> n])
                 PROVE  ~W'
    BY DEF Sends
  <2> DEFINE p == [session |-> s, number |-> n]
  <2>2. p \in puts /\ AnswerPut(p) /\ p.number = n
    BY <2>1 DEF SendEngineMessage
  <2> HIDE DEF p
  <2>3. Mine(p) /\ reply = "waiting"
    BY <2>1, <2>2 DEF LastIsMine, Waits
  <2>4. reply' = "ok"
    BY <2>2, <2>3 DEF AnswerPut
  <2>5. QED
    BY <2>4 DEF Waits
<1>2. I /\ ~Room /\ <<Drive>>_vars => Room'
  <2>1. SUFFICES ASSUME I, Drive PROVE Room'
    OBVIOUS
  <2>2. Len(engine) \in Nat /\ driven \in Nat /\ Len(engine) - driven <= EngineQueue
    BY <2>1, EngineEntries DEF Types, MotorTypes
  <2>3. driven' = driven + 1 /\ engine' = engine
    BY <2>1 DEF Drive
  <2>4. QED
    BY <2>2, <2>3
<1>3. RequestsAreServed => Send /\ Make
  BY DEF RequestsAreServed
<1>4. SendsAreFair => SendIsFair(n)
  BY DEF SendsAreFair
<1>5. Init => I
  BY InitTypes, InitOrder DEF Init, LastIsMine
<1>6. I /\ [Next]_vars => I'
  BY StepTypes, StepOrder, StepMine
<1>7. FairSpec => [][Next]_vars /\ []I /\ WF_vars(Drive) /\ SendIsFair(n)
  BY <1>4, <1>5, <1>6, PTL DEF FairSpec, Spec, Fairness
<1> HIDE DEF I, W, Room
<1>8. FairSpec /\ []RequestsAreServed => [](W => <>(Room \/ ~W))
  BY <1>2, <1>3, <1>7, PTL DEF Make
<1>9. FairSpec /\ []RequestsAreServed => (W ~> ~W)
  BY <1>1, <1>3, <1>7, <1>8, PTL DEF Send, SendIsFair, CanSend
<1>10. QED
  BY <1>9, PTL DEF IsAnswered, W
===============================================================================
