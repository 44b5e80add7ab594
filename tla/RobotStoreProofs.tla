--------------------------- MODULE RobotStoreProofs ---------------------------
(***************************************************************************)
(* Proofs about RobotStore for any robots, clients, motor settings, queue  *)
(* capacity and amount of telemetry.                                       *)
(***************************************************************************)
EXTENDS RobotStore, TLAPS

\* While the service is not up its goroutine and its requests do not exist,
\* and nothing has been announced or edited.
NothingRunsWhenDown ==
  proc # "serving" =>
    /\ rpc = "opening" /\ edited = {}
    /\ \A i \in Ids : shown[i] = 0

\* A row that InitRobots has saved is there for as long as the service runs.
DeviceIsStored ==
  Serving => Stored(device) \/ "save" \in failed

\* Between UpdateRobot's Get and Update the row is still there, and the copy
\* has its motor setting unless a client wrote the row meanwhile.
HeldIsCurrent ==
  rpc = "updating" =>
    /\ Stored(msg.id)
    /\ held.Temperature = msg.temp
    /\ ~raced => held.Motor = db[msg.id].Motor

\* AnnouncedIsStored, between the steps of UpdateRobot as well: what is about
\* to be announced is stored, and only its robot may be ahead of the viewers.
AnnouncementFollowsStore ==
  /\ rpc = "announcing" /\ msg.id \notin edited =>
       Stored(msg.id) /\ db[msg.id].Temperature = msg.temp
  /\ \A i \in Ids \ edited : shown[i] # 0 =>
       /\ Stored(i)
       /\ db[i].Temperature = shown[i] \/ (rpc = "announcing" /\ msg.id = i)

\* What InitRobots has left of the previous table.
TableIsRebuilt ==
  /\ proc = "clearing" /\ "clear" \notin failed =>
       {i \in Ids : Stored(i)} \subseteq {1} \cup doomed
  /\ StartupTable

Core ==
  /\ NothingRunsWhenDown
  /\ DeviceIsStored
  /\ OwnTelemetryIsSafe
  /\ HeldIsCurrent
  /\ AnnouncementFollowsStore
  /\ TableIsRebuilt

IInv == TypeOK /\ Core

-------------------------------------------------------------------------------
LEMMA IdleShape == Idle.which = <<>>
  BY DEF Idle

\* A record with one field replaced is still a record, hence not Absent.
LEMMA RecordUpdate ==
  ASSUME NEW rec \in Records, NEW f \in Fields, NEW other \in Records
  PROVE  [rec EXCEPT ![f] = other[f]] \in Records
  BY DEF Records, Fields

LEMMA RecordIsStored == \A rec \in Records : rec # Absent
  BY AbsentAssumption

LEMMA TypeInit == Init => TypeOK
<1> SUFFICES ASSUME Init PROVE TypeOK
  OBVIOUS
<1>1. sent \in 0..MaxInfo /\ shown \in [Ids -> 0..MaxInfo]
  BY StoreBoundsAssumption DEF Init
<1>2. mq \in Seq(Messages) /\ Len(mq) <= QueueSize
  BY StoreBoundsAssumption DEF Init
<1>3. /\ db \in [Ids -> Records \cup {Absent}]
      /\ msg \in Infos \cup {Other} /\ held = Absent /\ rpc = "opening"
  BY DEF Init
<1>4. /\ proc = "down" /\ cause = "none" /\ device = 0 /\ doomed = {}
      /\ failed = {} /\ request = [r \in Requests |-> Idle] /\ reply = "ok"
      /\ raced = FALSE /\ edited = {}
  BY DEF Init
<1>5. QED
  BY <1>1, <1>2, <1>3, <1>4 DEF TypeOK

-------------------------------------------------------------------------------
(* Type correctness, one lemma per group of actions. *)

Causes == {"none", "killed", "own robot missing", "no such robot",
           "database failed"}

LEMMA QueueType ==
  ASSUME TypeOK
  PROVE  mq \in Seq(Messages) /\ Len(mq) \in Nat /\ Len(mq) <= QueueSize
<1>1. mq \in Seq(Messages) /\ Len(mq) <= QueueSize
  BY DEF TypeOK
<1>2. Len(mq) \in Nat
  BY <1>1
<1>3. QED
  BY <1>1, <1>2

LEMMA TypeGoDown ==
  ASSUME TypeOK, NEW why \in Causes, GoDown(why), UNCHANGED <<db, sent>>,
         mq' \in Seq(Messages), Len(mq') <= QueueSize
  PROVE  TypeOK'
<1>1. /\ proc' = "down" /\ cause' \in Causes /\ doomed' = {} /\ rpc' = "opening"
      /\ msg' = Other /\ held' = Absent /\ device' = device /\ failed' = failed
      /\ reply' = "ok"
      /\ request' = [r \in Requests |-> Idle] /\ raced' = FALSE /\ edited' = {}
  BY DEF GoDown
<1>2. shown' \in [Ids -> 0..MaxInfo]
  BY StoreBoundsAssumption DEF GoDown
<1>3. QED
  BY <1>1, <1>2 DEF TypeOK, Causes

LEMMA TypeProcess ==
  ASSUME TypeOK, ProcessStep
  PROVE  TypeOK'
<1> USE DEF procVars, queueVars, loopVars, httpVars, pastVars
<1>1. ASSUME NEW d \in Devices, Start(d)
      PROVE  TypeOK'
  BY <1>1 DEF Start, TypeOK
<1>2. ASSUME NEW i \in Ids, DeleteOld(i)
      PROVE  TypeOK'
  BY <1>2 DEF DeleteOld, TypeOK
<1>3. CASE SaveDevice
  <2>1. Fresh \in Records
    BY MotorsAssumption, StoreBoundsAssumption DEF Fresh, Records
  <2>2. /\ db' \in [Ids -> Records \cup {Absent}]
        /\ failed' \subseteq {"clear", "save"}
    BY <1>3, <2>1 DEF SaveDevice, TypeOK
  <2>3. QED
    BY <1>3, <2>2 DEF SaveDevice, TypeOK
<1>4. CASE Killed
  <2>1. mq' \in Seq(Messages) /\ Len(mq') <= QueueSize
    BY <1>4 DEF Killed, TypeOK
  <2>2. QED
    BY <1>4, <2>1, TypeGoDown DEF Killed, Causes
<1>5. QED
  BY <1>1, <1>2, <1>3, <1>4 DEF ProcessStep

LEMMA TypeDevice ==
  ASSUME TypeOK, DeviceStep
  PROVE  TypeOK'
<1> USE DEF procVars, loopVars, httpVars, pastVars
<1>1. ASSUME NEW m \in Messages, HasSpace, mq' = Append(mq, m)
      PROVE  mq' \in Seq(Messages) /\ Len(mq') <= QueueSize
  <2>1. mq \in Seq(Messages) /\ Len(mq) \in Nat /\ Len(mq) < QueueSize
    BY <1>1, QueueType DEF HasSpace
  <2>2. QED
    BY <1>1, <2>1, StoreBoundsAssumption
<1>2. ASSUME NEW i \in Ids \cup {0}, SendInfo(i)
      PROVE  TypeOK'
  <2>1. sent + 1 \in 1..MaxInfo /\ sent' \in 0..MaxInfo
    <3>1. sent \in 0..MaxInfo /\ sent < MaxInfo /\ sent' = sent + 1
      BY <1>2 DEF SendInfo, TypeOK
    <3>2. QED
      BY <3>1, StoreBoundsAssumption
  <2>2. [kind |-> "info", id |-> i, temp |-> sent + 1] \in Messages
    BY <2>1 DEF Messages, Infos
  <2>3. mq' \in Seq(Messages) /\ Len(mq') <= QueueSize
    BY <1>1, <1>2, <2>2 DEF SendInfo
  <2>4. QED
    BY <1>2, <2>1, <2>3 DEF SendInfo, TypeOK
<1>3. ASSUME NEW m \in {Short, Other}, SendOdd(m)
      PROVE  TypeOK'
  <2>1. mq' \in Seq(Messages) /\ Len(mq') <= QueueSize
    BY <1>1, <1>3 DEF SendOdd, Messages
  <2>2. QED
    BY <1>3, <2>1 DEF SendOdd, TypeOK
<1>4. QED
  BY <1>2, <1>3 DEF DeviceStep

\* What the loop decodes is the message received or the one before it.
LEMMA DecodedType ==
  ASSUME TypeOK, Received
  PROVE  /\ Decoded \in Infos \cup {Other}
         /\ Decoded.kind = "info" => Decoded \in Infos
         /\ mq' \in Seq(Messages) /\ Len(mq') <= QueueSize
<1>1. mq \in Seq(Messages) /\ mq # <<>> /\ mq' = Tail(mq)
  BY DEF TypeOK, Received
<1>2. Head(mq) \in Messages /\ mq' \in Seq(Messages) /\ Len(mq') = Len(mq) - 1
  BY <1>1
<1>3. Len(mq') <= QueueSize
  BY <1>2, QueueType, StoreBoundsAssumption
<1>4. Decoded \in Infos \cup {Other}
  BY <1>2 DEF Decoded, TypeOK, Messages
<1>5. Decoded.kind = "info" => Decoded \in Infos
  BY <1>4 DEF Other
<1>6. QED
  BY <1>2, <1>3, <1>4, <1>5

LEMMA TypeLoop ==
  ASSUME TypeOK, LoopStep
  PROVE  TypeOK'
<1> USE DEF procVars, queueVars, loopVars, httpVars, pastVars
<1>1. CASE OpenQueue
  BY <1>1 DEF OpenQueue, TypeOK
<1>2. CASE ReceiveOther
  BY <1>2, DecodedType DEF ReceiveOther, Received, TypeOK
<1>3. CASE ReceiveInfo
  <2>1. Decoded \in Infos /\ Received
    BY <1>3, DecodedType DEF ReceiveInfo
  <2>2. Decoded.id \in Ids /\ Decoded.temp \in 0..MaxInfo
    BY <1>3, <2>1, StoreBoundsAssumption DEF ReceiveInfo, Stored, Infos
  <2>3. db[Decoded.id] \in Records
    BY <1>3, <2>2 DEF ReceiveInfo, Stored, TypeOK
  <2>4. held' \in Records
    BY <1>3, <2>2, <2>3 DEF ReceiveInfo, Records
  <2>5. QED
    BY <1>3, <2>1, <2>2, <2>4, DecodedType DEF ReceiveInfo, Received, TypeOK
<1>4. CASE ReceiveUnknownRobot
  <2>1. mq' \in Seq(Messages) /\ Len(mq') <= QueueSize /\ sent' = sent
    BY <1>4, DecodedType DEF ReceiveUnknownRobot, Received
  <2>2. QED
    BY <1>4, <2>1, TypeGoDown DEF ReceiveUnknownRobot, Causes
<1>5. CASE StoreHeld
  <2>1. held \in Records /\ msg.id \in Ids
    BY <1>5 DEF StoreHeld, TypeOK, Infos
  <2>2. db' \in [Ids -> Records \cup {Absent}]
    BY <1>5, <2>1 DEF StoreHeld, TypeOK
  <2>3. QED
    BY <1>5, <2>2 DEF StoreHeld, TypeOK
<1>6. CASE StoreFails
  <2>1. mq' \in Seq(Messages) /\ Len(mq') <= QueueSize /\ sent' = sent
    BY <1>6 DEF StoreFails, TypeOK
  <2>2. QED
    BY <1>6, <2>1, TypeGoDown DEF StoreFails, Causes
<1>7. CASE Announce
  <2>1. msg.temp \in 0..MaxInfo
    <3>1. msg \in Infos
      BY <1>7 DEF Announce, TypeOK
    <3>2. QED
      BY <3>1, StoreBoundsAssumption DEF Infos
  <2>2. shown' \in [Ids -> 0..MaxInfo]
    BY <1>7, <2>1 DEF Announce, TypeOK
  <2>3. QED
    BY <1>7, <2>2 DEF Announce, TypeOK
<1>8. CASE GetFails
  <2>1. mq' \in Seq(Messages) /\ Len(mq') <= QueueSize /\ sent' = sent
    BY <1>8, DecodedType DEF GetFails, Received
  <2>2. QED
    BY <1>8, <2>1, TypeGoDown DEF GetFails, Causes
<1>9. QED
  BY <1>1, <1>2, <1>3, <1>4, <1>5, <1>6, <1>7, <1>8 DEF LoopStep

\* A whole record sent by a client is one the bucket can hold.
LEMMA ClientRecordType == ClientRecords \subseteq Records
  BY StoreBoundsAssumption DEF ClientRecords, Records

LEMMA TypeHttp ==
  ASSUME TypeOK, HttpStep
  PROVE  TypeOK'
<1> USE DEF procVars, queueVars, loopVars, pastVars
<1>1. ASSUME NEW i \in Ids \cup {0}, NEW rec \in ClientRecords, StoreWhole(i, rec)
      PROVE  TypeOK'
  <2>1. rec \in Records
    BY ClientRecordType
  <2>2. CASE i \in Ids
    BY <1>1, <2>1, <2>2 DEF StoreWhole, ClientWrote, TypeOK
  <2>3. CASE i \notin Ids
    BY <1>1, <2>3 DEF StoreWhole, TypeOK
  <2>4. QED
    BY <2>2, <2>3
<1>2. ASSUME NEW r \in Requests, NEW i \in Ids, NEW rec \in ClientRecords,
             NEW which \in WhichLists, BeginPut(r, i, rec, which)
      PROVE  TypeOK'
  <2>1. [which |-> which, id |-> i, data |-> rec] \in
          [which : Seq(Fields \cup {"unknown"}) \ {<<>>}, id : Ids,
           data : Records]
    BY ClientRecordType, WhichAssumption
  <2>2. QED
    BY <1>2, <2>1 DEF BeginPut, TypeOK
<1>3. ASSUME NEW r \in Requests, UpdateNextField(r)
      PROVE  TypeOK'
  <2> DEFINE q == request[r]
  <2>1. q \in [which : Seq(Fields \cup {"unknown"}) \ {<<>>}, id : Ids,
               data : Records]
    BY <1>3 DEF UpdateNextField, TypeOK
  <2>2. db[q.id] \in Records /\ q.id \in Ids /\ Head(q.which) \in Fields
    BY <1>3, <2>1 DEF UpdateNextField, Stored, TypeOK
  <2>3. [db[q.id] EXCEPT ![Head(q.which)] = q.data[Head(q.which)]] \in Records
    BY <2>1, <2>2, RecordUpdate
  <2>4. db' = [db EXCEPT ![q.id] =
                 [db[q.id] EXCEPT ![Head(q.which)] = q.data[Head(q.which)]]]
    BY <1>3 DEF UpdateNextField
  <2>5. db' \in [Ids -> Records \cup {Absent}]
    BY <2>2, <2>3, <2>4 DEF TypeOK
  <2>6. Tail(q.which) # <<>> =>
          [q EXCEPT !.which = Tail(q.which)] \in
            [which : Seq(Fields \cup {"unknown"}) \ {<<>>}, id : Ids,
             data : Records]
    <3>1. q.which \in Seq(Fields \cup {"unknown"}) /\ q.which # <<>>
      BY <2>1
    <3>2. Tail(q.which) \in Seq(Fields \cup {"unknown"})
      BY <3>1
    <3>3. QED
      BY <2>1, <3>2
  <2>7. /\ request' \in [Requests -> {Idle} \cup
                           [which : Seq(Fields \cup {"unknown"}) \ {<<>>},
                            id : Ids, data : Records]]
        /\ reply' \in {"ok", "failed"}
    BY <1>3, <2>6 DEF UpdateNextField, EndPut, TypeOK
  <2>8. /\ raced' \in BOOLEAN /\ edited' \subseteq Ids /\ shown' = shown
    BY <1>3, <2>2 DEF UpdateNextField, ClientWrote, TypeOK
  <2>9. UNCHANGED <<procVars, queueVars, loopVars>>
    BY <1>3 DEF UpdateNextField
  <2>10. QED
    BY <2>5, <2>7, <2>8, <2>9 DEF TypeOK
<1>4. ASSUME NEW r \in Requests, UpdateFieldFails(r)
      PROVE  TypeOK'
  BY <1>4 DEF UpdateFieldFails, EndPut, TypeOK
<1>5. CASE List \/ Refuse \/ \E i \in Ids : Delete(i)
  BY <1>5 DEF List, Refuse, Delete, TypeOK
<1>6. CASE SettingsUnreadable
  <2>1. mq' \in Seq(Messages) /\ Len(mq') <= QueueSize /\ sent' = sent
    BY <1>6 DEF SettingsUnreadable, TypeOK
  <2>2. QED
    BY <1>6, <2>1, TypeGoDown DEF SettingsUnreadable, Causes
<1>7. QED
  BY <1>1, <1>2, <1>3, <1>4, <1>5, <1>6 DEF HttpStep, PutAll, Post

LEMMA TypeStep == TypeOK /\ [Next]_vars => TypeOK'
<1>1. ASSUME TypeOK, UNCHANGED vars PROVE TypeOK'
  BY <1>1 DEF vars, procVars, queueVars, loopVars, httpVars, pastVars, TypeOK
<1>2. QED
  BY <1>1, TypeProcess, TypeDevice, TypeLoop, TypeHttp DEF Next

\* The backend's state is always well formed; in particular UpdateRobot holds
\* a record exactly between its Get and its Update (robots.go:172-185).
THEOREM StoreTypeCorrect == Spec => []TypeOK
  BY TypeInit, TypeStep, PTL DEF Spec
-------------------------------------------------------------------------------
(* The other conjuncts of the inductive invariant, action by action. *)

LEMMA CoreInit == Init => Core
  BY DEF Init, Core, NothingRunsWhenDown, DeviceIsStored, OwnTelemetryIsSafe,
         HeldIsCurrent, AnnouncementFollowsStore, TableIsRebuilt, StartupTable,
         Serving

CoreVars == <<proc, cause, device, doomed, failed, db, rpc, msg, held, shown, raced,
              edited>>

LEMMA CoreFrame ==
  ASSUME Core, UNCHANGED CoreVars
  PROVE  Core'
  BY DEF CoreVars, Core, NothingRunsWhenDown, DeviceIsStored,
         OwnTelemetryIsSafe, HeldIsCurrent, AnnouncementFollowsStore,
         TableIsRebuilt, StartupTable, Serving, Stored

\* A process that is down owes nothing, whatever it was doing.
LEMMA CoreGoDown ==
  ASSUME NEW why \in Causes, GoDown(why),
         why = "own robot missing" => "save" \in failed
  PROVE  Core'
  BY DEF GoDown, Causes, Core, NothingRunsWhenDown, DeviceIsStored,
         OwnTelemetryIsSafe, HeldIsCurrent, AnnouncementFollowsStore,
         TableIsRebuilt, StartupTable, Serving, Stored

LEMMA CoreProcess ==
  ASSUME IInv, ProcessStep
  PROVE  Core'
<1> USE DEF IInv, procVars, queueVars, loopVars, httpVars, pastVars
<1>1. ASSUME NEW d \in Devices, Start(d)
      PROVE  Core'
  BY <1>1
  DEF Start, Core, NothingRunsWhenDown, DeviceIsStored, OwnTelemetryIsSafe,
      HeldIsCurrent, AnnouncementFollowsStore, TableIsRebuilt, StartupTable,
      Serving, Stored
<1>2. ASSUME NEW i \in Ids, DeleteOld(i)
      PROVE  Core'
  <2>1. /\ proc' = "clearing" /\ rpc' = "opening" /\ edited' = {}
        /\ cause' = cause /\ failed \subseteq failed'
        /\ \A j \in Ids : shown'[j] = 0
    BY <1>2 DEF DeleteOld, Core, NothingRunsWhenDown
  <2>2. "clear" \notin failed' =>
          {j \in Ids : Stored(j)'} \subseteq {1} \cup doomed'
    BY <1>2 DEF DeleteOld, Core, TableIsRebuilt, Stored, TypeOK
  <2>3. QED
    BY <2>1, <2>2
    DEF Core, NothingRunsWhenDown, DeviceIsStored, OwnTelemetryIsSafe,
        HeldIsCurrent, AnnouncementFollowsStore, TableIsRebuilt, StartupTable,
        Serving
<1>3. CASE SaveDevice
  <2>1. /\ proc' = "serving" /\ rpc' = "opening" /\ edited' = {}
        /\ cause' = cause /\ device' = device /\ failed \subseteq failed'
        /\ \A j \in Ids : shown'[j] = 0
    BY <1>3 DEF SaveDevice, Core, NothingRunsWhenDown
  <2>2. Fresh # Absent
    BY MotorsAssumption, StoreBoundsAssumption, AbsentAssumption
    DEF Fresh, Records
  <2>3. DeviceIsStored'
    BY <1>3, <2>2 DEF SaveDevice, DeviceIsStored, Stored, TypeOK
  <2>4. "clear" \notin failed' =>
          {j \in Ids : Stored(j)'} \subseteq {1, device'} \cup edited'
    BY <1>3 DEF SaveDevice, Core, TableIsRebuilt, Stored, TypeOK
  <2>5. QED
    BY <2>1, <2>3, <2>4
    DEF Core, NothingRunsWhenDown, OwnTelemetryIsSafe, HeldIsCurrent,
        AnnouncementFollowsStore, TableIsRebuilt, StartupTable, Serving
<1>4. CASE Killed
  BY <1>4, CoreGoDown DEF Killed, Causes
<1>5. QED
  BY <1>1, <1>2, <1>3, <1>4 DEF ProcessStep

LEMMA CoreLoop ==
  ASSUME IInv, LoopStep
  PROVE  Core'
<1> USE DEF IInv, procVars, queueVars, loopVars, httpVars, pastVars
<1>1. CASE OpenQueue \/ ReceiveOther
  BY <1>1
  DEF OpenQueue, ReceiveOther, Received, Core, NothingRunsWhenDown,
      DeviceIsStored, OwnTelemetryIsSafe, HeldIsCurrent,
      AnnouncementFollowsStore, TableIsRebuilt, StartupTable, Serving, Stored
<1>2. CASE ReceiveInfo
  <2>1. Decoded \in Infos
    BY <1>2, DecodedType DEF ReceiveInfo
  <2>2. db[Decoded.id] \in Records
    BY <1>2, <2>1 DEF ReceiveInfo, Stored, TypeOK, Infos
  <2>3. HeldIsCurrent'
    BY <1>2, <2>1, <2>2 DEF ReceiveInfo, Received, HeldIsCurrent, Stored, Records
  <2>4. QED
    BY <1>2, <2>3
    DEF ReceiveInfo, Received, Core, NothingRunsWhenDown, DeviceIsStored,
        OwnTelemetryIsSafe, AnnouncementFollowsStore, TableIsRebuilt,
        StartupTable, Serving, Stored
<1>3. CASE ReceiveUnknownRobot
  <2>1. Decoded \in Infos
    BY <1>3, DecodedType DEF ReceiveUnknownRobot
  <2>2. CASE Decoded.id # device
    BY <1>3, <2>2, CoreGoDown DEF ReceiveUnknownRobot, Causes
  <2>3. CASE Decoded.id = device
    <3>1. "save" \in failed
      BY <1>3, <2>1, <2>3
      DEF ReceiveUnknownRobot, Received, Core, DeviceIsStored, Infos
    <3>2. QED
      BY <1>3, <3>1, CoreGoDown DEF ReceiveUnknownRobot, Causes
  <2>4. QED
    BY <2>2, <2>3
<1>4. CASE StoreHeld
  <2>1. held \in Records /\ msg.id \in Ids /\ held # Absent
    BY <1>4, RecordIsStored DEF StoreHeld, TypeOK, Infos
  <2>2. /\ db'[msg.id] = held
        /\ \A i \in Ids \ {msg.id} : db'[i] = db[i]
    BY <1>4, <2>1 DEF StoreHeld, TypeOK
  <2>3. Stored(msg.id) /\ held.Temperature = msg.temp
    BY <1>4 DEF StoreHeld, Core, HeldIsCurrent
  <2>4. /\ \A i \in Ids : Stored(i)' <=> Stored(i)
        /\ device' = device /\ (Stored(device)' <=> Stored(device))
    BY <1>4, <2>1, <2>2, <2>3 DEF StoreHeld, Stored
  <2>5. AnnouncementFollowsStore'
    BY <1>4, <2>1, <2>2, <2>3, <2>4
    DEF StoreHeld, Core, AnnouncementFollowsStore
  <2>6. QED
    BY <1>4, <2>4, <2>5
    DEF StoreHeld, Core, NothingRunsWhenDown, DeviceIsStored,
        OwnTelemetryIsSafe, HeldIsCurrent, TableIsRebuilt, StartupTable, Serving
<1>5. CASE StoreFails
  BY <1>5, CoreGoDown DEF StoreFails, Causes
<1>6. CASE Announce
  <2>1. AnnouncementFollowsStore'
    BY <1>6 DEF Announce, Core, AnnouncementFollowsStore, Stored, TypeOK
  <2>2. QED
    BY <1>6, <2>1
    DEF Announce, Core, NothingRunsWhenDown, DeviceIsStored,
        OwnTelemetryIsSafe, HeldIsCurrent, TableIsRebuilt, StartupTable,
        Serving, Stored
<1>7. CASE GetFails
  BY <1>7, CoreGoDown DEF GetFails, Causes
<1>8. QED
  BY <1>1, <1>2, <1>3, <1>4, <1>5, <1>6, <1>7 DEF LoopStep

\* A client's write that leaves a row where it was or makes one, and that is
\* marked for what it wrote.
LEMMA CoreClientWrite ==
  ASSUME IInv, Serving, NEW i \in Ids, NEW row \in BOOLEAN, ClientWrote(i, row),
         db'[i] # Absent, \A j \in Ids \ {i} : db'[j] = db[j],
         Stored(i) \/ row,
         row \/ db'[i].Temperature = db[i].Temperature,
         UNCHANGED <<procVars, loopVars>>
  PROVE  Core'
<1> USE DEF IInv, procVars, loopVars, Stored
<1>1. /\ shown' = shown /\ edited \subseteq edited'
      /\ row => i \in edited'
      /\ raced' = (raced \/ (rpc = "updating" /\ msg.id = i))
  BY DEF ClientWrote
<1>2. HeldIsCurrent'
  <2>1. rpc = "updating" => msg.id \in Ids
    BY DEF TypeOK, Infos
  <2>2. QED
    BY <1>1, <2>1 DEF Core, HeldIsCurrent
<1>3. AnnouncementFollowsStore'
  <2>1. rpc = "announcing" => msg.id \in Ids
    BY DEF TypeOK, Infos
  <2>2. QED
    BY <1>1, <2>1 DEF Core, AnnouncementFollowsStore
<1>4. TableIsRebuilt'
  BY <1>1 DEF Core, TableIsRebuilt, StartupTable, Serving
<1>5. QED
  BY <1>1, <1>2, <1>3, <1>4
  DEF Core, NothingRunsWhenDown, DeviceIsStored, OwnTelemetryIsSafe, Serving

LEMMA CoreHttp ==
  ASSUME IInv, HttpStep
  PROVE  Core'
<1> USE DEF IInv
<1>1. ASSUME NEW i \in Ids \cup {0}, NEW rec \in ClientRecords, StoreWhole(i, rec)
      PROVE  Core'
  <2>1. CASE i \in Ids
    <3>1. rec # Absent
      BY ClientRecordType, RecordIsStored
    <3>2. /\ db'[i] # Absent /\ \A j \in Ids \ {i} : db'[j] = db[j]
          /\ ClientWrote(i, TRUE) /\ Serving /\ UNCHANGED <<procVars, loopVars>>
      BY <1>1, <2>1, <3>1 DEF StoreWhole, TypeOK
    <3>3. QED
      BY <2>1, <3>2, CoreClientWrite
  <2>2. CASE i \notin Ids
    BY <1>1, <2>2, CoreFrame
    DEF StoreWhole, CoreVars, procVars, loopVars, pastVars
  <2>3. QED
    BY <2>1, <2>2
<1>2. ASSUME NEW r \in Requests, UpdateNextField(r)
      PROVE  Core'
  <2> DEFINE q == request[r]
             f == Head(q.which)
  <2>1. q \in [which : Seq(Fields \cup {"unknown"}) \ {<<>>}, id : Ids,
               data : Records]
    BY <1>2 DEF UpdateNextField, TypeOK
  <2>2. db[q.id] \in Records /\ q.id \in Ids /\ f \in Fields
    BY <1>2, <2>1 DEF UpdateNextField, Stored, TypeOK
  <2>3. /\ db' = [db EXCEPT ![q.id] = [db[q.id] EXCEPT ![f] = q.data[f]]]
        /\ ClientWrote(q.id, f = "Temperature")
        /\ Serving /\ Stored(q.id) /\ UNCHANGED <<procVars, loopVars>>
    BY <1>2 DEF UpdateNextField
  <2>4. [db[q.id] EXCEPT ![f] = q.data[f]] \in Records
    BY <2>1, <2>2, RecordUpdate
  <2>5. /\ db'[q.id] = [db[q.id] EXCEPT ![f] = q.data[f]]
        /\ \A j \in Ids \ {q.id} : db'[j] = db[j]
    BY <2>2, <2>3 DEF TypeOK
  <2>6. db'[q.id] # Absent
    BY <2>4, <2>5, RecordIsStored
  <2>7. f # "Temperature" => db'[q.id].Temperature = db[q.id].Temperature
    BY <2>2, <2>5 DEF Records
  <2>8. (f = "Temperature") \in BOOLEAN
    OBVIOUS
  <2>9. QED
    BY <2>2, <2>3, <2>5, <2>6, <2>7, <2>8, CoreClientWrite
<1>3. CASE \/ \E r \in Requests, i \in Ids, rec \in ClientRecords,
                 which \in WhichLists : BeginPut(r, i, rec, which)
           \/ \E r \in Requests : UpdateFieldFails(r)
           \/ List \/ Refuse \/ \E i \in Ids : Delete(i)
  BY <1>3, CoreFrame
  DEF BeginPut, UpdateFieldFails, List, Refuse, Delete, CoreVars, procVars,
      loopVars, pastVars
<1>4. CASE SettingsUnreadable
  BY <1>4, CoreGoDown DEF SettingsUnreadable, Causes
<1>5. QED
  BY <1>1, <1>2, <1>3, <1>4 DEF HttpStep, PutAll, Post

LEMMA StepInv == IInv /\ [Next]_vars => IInv'
<1> SUFFICES ASSUME IInv, [Next]_vars PROVE Core'
  BY TypeStep DEF IInv
<1>1. CASE DeviceStep \/ UNCHANGED vars
  BY <1>1, CoreFrame
  DEF DeviceStep, SendInfo, SendOdd, vars, CoreVars, procVars, loopVars,
      pastVars, IInv
<1>2. QED
  BY <1>1, CoreProcess, CoreLoop, CoreHttp DEF Next

LEMMA StoreInv == Spec => []IInv
<1>1. Init => IInv
  BY TypeInit, CoreInit DEF IInv
<1>2. QED
  BY <1>1, StepInv, PTL DEF Spec

-------------------------------------------------------------------------------
(* The properties. *)

\* The telemetry of the device the backend was started for ends it only when
\* its row could not be saved at the start; a saved one stays (robots.go:174-177).
THEOREM OwnTelemetrySafe == Spec => []OwnTelemetryIsSafe
<1>1. IInv => OwnTelemetryIsSafe
  BY DEF IInv, Core
<1>2. QED
  BY <1>1, StoreInv, PTL

\* However many starts were cut off, a service that could clear the table starts
\* from the rows of this device and of robot 1 only (cmd/robots.go:15-40).
THEOREM StartupTableHolds == Spec => []StartupTable
<1>1. IInv => StartupTable
  BY DEF IInv, Core, TableIsRebuilt
<1>2. QED
  BY <1>1, StoreInv, PTL

\* Between two messages, what viewers were told is what the database holds
\* (robots.go:180-184).
THEOREM AnnouncedStored == Spec => []AnnouncedIsStored
<1>1. IInv => AnnouncedIsStored
  BY DEF IInv, Core, AnnouncementFollowsStore, AnnouncedIsStored
<1>2. QED
  BY <1>1, StoreInv, PTL

\* Of all steps only StoreHeld goes from updating to announcing.
LEMMA OnlyStoreHeldAnnounces ==
  ASSUME [Next]_vars, rpc = "updating", rpc' = "announcing"
  PROVE  StoreHeld
<1>1. CASE ProcessStep
  BY <1>1 DEF ProcessStep, Start, DeleteOld, SaveDevice, Killed, GoDown, loopVars
<1>2. CASE DeviceStep \/ HttpStep \/ UNCHANGED vars
  BY <1>2 DEF DeviceStep, SendInfo, SendOdd, HttpStep, PutAll, Post, StoreWhole,
              BeginPut, UpdateNextField, UpdateFieldFails, Delete, List, Refuse,
              SettingsUnreadable, GoDown, vars, loopVars
<1>3. CASE LoopStep
  BY <1>3 DEF LoopStep, OpenQueue, Received, ReceiveOther, ReceiveInfo,
              ReceiveUnknownRobot, GetFails, StoreFails, Announce, GoDown
<1>4. QED
  BY <1>1, <1>2, <1>3 DEF Next

LEMMA StoreKeepsMotor ==
  ASSUME IInv, [Next]_vars, rpc = "updating", rpc' = "announcing", ~raced,
         NEW i \in Ids, Stored(i)
  PROVE  db'[i].Motor = db[i].Motor
<1>1. StoreHeld
  BY OnlyStoreHeldAnnounces
<1>2. msg.id \in Ids /\ held.Motor = db[msg.id].Motor
  BY DEF IInv, TypeOK, Core, HeldIsCurrent, Infos
<1>3. db' = [db EXCEPT ![msg.id] = held] /\ db \in [Ids -> Records \cup {Absent}]
  BY <1>1 DEF StoreHeld, IInv, TypeOK
<1>4. QED
  BY <1>2, <1>3

\* Telemetry undoes a motor setting only when a client wrote that robot
\* between UpdateRobot's read and its write (robots.go:174-181).
THEOREM MotorIsKept == Spec => UpdateKeepsMotor
<1> DEFINE Kept == rpc = "updating" /\ rpc' = "announcing" /\ ~raced =>
                     \A i \in Ids : Stored(i) => db'[i].Motor = db[i].Motor
<1>1. IInv /\ [Next]_vars => [Kept]_vars
  BY StoreKeepsMotor
<1>2. QED
  BY <1>1, StoreInv, PTL DEF Spec, UpdateKeepsMotor

===============================================================================
