----------------------------- MODULE ToyIpcProofs -----------------------------
(***************************************************************************)
(* Proofs about ToyIpc for any capacity of the queues and any platform.    *)
(***************************************************************************)
EXTENDS ToyIpc, FiniteSetTheorems, TLAPS

\* The parts of TypeOK: the queues, the counters, and where everyone is.
Queues ==
  /\ monitorQ \in Seq(MonitorTypes) /\ Len(monitorQ) <= QueueSize
  /\ cameraQ \in Seq(CameraTypes) /\ Len(cameraQ) <= QueueSize

Counters ==
  /\ ahead \in [Fields -> Int] /\ field \in 0..SampleFields
  /\ printed \in 0..SampleFields

Places ==
  /\ shm \in Created
  /\ sensor \in {"sleeping", "filling", "sending"}
  /\ command \in Sending \cup {"prompt", "busy", "ended"}
  /\ monitor \in {"waiting", "printing", "dumping"}
  /\ camera \in CameraTypes \cup {"starting", "waiting"}
  /\ engine \in {"starting", "running"}
  /\ inputUp \in BOOLEAN /\ serverUp \in BOOLEAN

\* The counters inside the two loops over the fields.
LoopsInBounds ==
  /\ sensor = "filling" => field < SampleFields
  /\ monitor = "printing" => printed < SampleFields

\* The messages about a sample that wait in a queue, and whether the sensor
\* thread has stored a field of the sample it is at.
SampleType == "sensor data"
Announcing(q) == {n \in 1..Len(q) : q[n] = SampleType}
StoredNow(f) == IF sensor = "sending" \/ (sensor = "filling" /\ f <= field) THEN 1 ELSE 0

\* A field is ahead of the monitor by the messages on their way to it and the
\* store for the one that is still to be sent.
AheadIsOutstanding ==
  shm = "mapped" =>
    \A f \in Fields : ahead[f] = Cardinality(Announcing(monitorQ)) + StoredNow(f)

IInv == Queues /\ Counters /\ Places /\ LoopsInBounds /\ AheadIsOutstanding

-------------------------------------------------------------------------------
LEMMA IpcInit == Init => IInv
<1> SUFFICES ASSUME Init PROVE IInv
  OBVIOUS
<1>1. Queues
  <2>1. monitorQ = <<>> /\ cameraQ = <<>>
    BY DEF Init
  <2>2. QED
    BY <2>1, QueueAssumption DEF Queues
<1>2. Counters
  <2>1. ahead = [f \in Fields |-> 0] /\ field = 0 /\ printed = 0
    BY DEF Init
  <2>2. QED
    BY <2>1 DEF Counters, SampleFields
<1>3. Places
  BY DEF Init, Places
<1>4. LoopsInBounds
  BY DEF Init, LoopsInBounds
<1>5. AheadIsOutstanding
  <2>1. monitorQ = <<>> /\ sensor = "sleeping" /\ \A f \in Fields : ahead[f] = 0
    BY DEF Init
  <2>2. Announcing(monitorQ) = {}
    BY <2>1 DEF Announcing
  <2>3. Cardinality(Announcing(monitorQ)) = 0
    BY <2>2, FS_EmptySet
  <2>4. QED
    BY <2>1, <2>3 DEF AheadIsOutstanding, StoredNow
<1>6. QED
  BY <1>1, <1>2, <1>3, <1>4, <1>5 DEF IInv

\* A message put into a queue that has room, and one taken from its head.
LEMMA QueueGrows ==
  ASSUME NEW S, NEW q \in Seq(S), NEW e \in S, HasRoom(q)
  PROVE  /\ Append(q, e) \in Seq(S) /\ Len(Append(q, e)) <= QueueSize
         /\ Len(q) \in Nat /\ Len(Append(q, e)) = Len(q) + 1
         /\ Append(q, e)[Len(q) + 1] = e
         /\ \A n \in 1..Len(q) : Append(q, e)[n] = q[n]
<1>1. Append(q, e) \in Seq(S) /\ Len(Append(q, e)) = Len(q) + 1
  OBVIOUS
<1>2. Len(q) \in Nat /\ Len(q) + 1 <= QueueSize
  BY QueueAssumption DEF HasRoom
<1>3. Append(q, e)[Len(q) + 1] = e /\ \A n \in 1..Len(q) : Append(q, e)[n] = q[n]
  BY <1>2
<1>4. QED
  BY <1>1, <1>2, <1>3

LEMMA QueueShrinks ==
  ASSUME NEW S, NEW q \in Seq(S), q # <<>>, Len(q) <= QueueSize
  PROVE  /\ Tail(q) \in Seq(S) /\ Len(Tail(q)) <= QueueSize /\ Head(q) \in S
         /\ Head(q) = q[1] /\ Len(q) \in Nat \ {0} /\ Len(Tail(q)) = Len(q) - 1
         /\ \A n \in 1..Len(Tail(q)) : Tail(q)[n] = q[n + 1]
<1>1. Tail(q) \in Seq(S) /\ Len(Tail(q)) = Len(q) - 1 /\ Len(q) \in Nat \ {0}
  OBVIOUS
<1>2. \A n \in 1..Len(Tail(q)) : Tail(q)[n] = q[n + 1]
  BY <1>1
<1>3. Head(q) \in S /\ Head(q) = q[1]
  BY <1>1
<1>4. QED
  BY <1>1, <1>2, <1>3, QueueAssumption

-------------------------------------------------------------------------------
(* How many messages about a sample a queue holds. *)

LEMMA AnnouncingFinite ==
  ASSUME NEW q \in Seq(MonitorTypes)
  PROVE  /\ IsFiniteSet(Announcing(q)) /\ Cardinality(Announcing(q)) \in Nat
         /\ Cardinality(Announcing(q)) <= Len(q)
<1>1. Len(q) \in Nat
  OBVIOUS
<1>2. 1 \in Int /\ Len(q) \in Int /\ (1 > Len(q) => Len(q) = 0)
  BY <1>1
<1>3. IsFiniteSet(1..Len(q)) /\ Cardinality(1..Len(q)) = IF 1 > Len(q) THEN 0 ELSE Len(q) - 1 + 1
  BY ONLY <1>2, FS_Interval
<1>4. Cardinality(1..Len(q)) = Len(q)
  BY <1>1, <1>3
<1>5. Announcing(q) \in SUBSET (1..Len(q))
  BY DEF Announcing
<1>6. IsFiniteSet(Announcing(q)) /\ Cardinality(Announcing(q)) <= Cardinality(1..Len(q))
  BY ONLY <1>3, <1>5, FS_Subset
<1>7. Cardinality(Announcing(q)) \in Nat
  BY ONLY <1>6, FS_CardinalityType
<1>8. QED
  BY <1>4, <1>6, <1>7

\* A position more at the end, and one less at the front.
LEMMA PositionsGrow ==
  ASSUME NEW q, NEW r, NEW len \in Nat, NEW e,
         \A n \in 1..len : r[n] = q[n], r[len + 1] = e
  PROVE  {n \in 1..len + 1 : r[n] = SampleType} =
           IF e = SampleType THEN {n \in 1..len : q[n] = SampleType} \cup {len + 1}
                                ELSE {n \in 1..len : q[n] = SampleType}
OBVIOUS

LEMMA PositionsShift ==
  ASSUME NEW q, NEW r, NEW len \in Nat \ {0},
         \A n \in 1..len - 1 : r[n] = q[n + 1]
  PROVE  ExistsBijection({n \in 1..len - 1 : r[n] = SampleType},
                         {n \in 1..len : q[n] = SampleType} \ {1})
<1> DEFINE R == {n \in 1..len - 1 : r[n] = SampleType}
           Q == {n \in 1..len : q[n] = SampleType} \ {1}
           shift == [n \in R |-> n + 1]
<1>1. \A n \in R : n \in Nat /\ n + 1 \in Q
  OBVIOUS
<1>2. \A k \in Q : k - 1 \in R /\ k \in Nat
  OBVIOUS
<1> HIDE DEF R, Q
<1>3. shift \in [R -> Q]
  BY <1>1
<1>4. \A m, n \in R : shift[m] = shift[n] => m = n
  BY <1>1
<1>5. \A k \in Q : \E n \in R : shift[n] = k
  <2> SUFFICES ASSUME NEW k \in Q PROVE shift[k - 1] = k /\ k - 1 \in R
    OBVIOUS
  <2>1. k - 1 \in R /\ k \in Nat
    BY <1>2
  <2>2. QED
    BY <2>1
<1> HIDE DEF shift
<1>6. shift \in Bijection(R, Q)
  BY <1>3, <1>4, <1>5 DEF Bijection, Injection, Surjection, IsInjective
<1>7. QED
  BY <1>6 DEF ExistsBijection, R, Q

LEMMA AnnouncingGrows ==
  ASSUME NEW q \in Seq(MonitorTypes), NEW e \in MonitorTypes, HasRoom(q)
  PROVE  Cardinality(Announcing(Append(q, e))) =
           Cardinality(Announcing(q)) + (IF e = SampleType THEN 1 ELSE 0)
<1> DEFINE A == Append(q, e)
<1>1. /\ Len(q) \in Nat /\ Len(A) = Len(q) + 1 /\ A[Len(q) + 1] = e
      /\ \A n \in 1..Len(q) : A[n] = q[n]
  BY QueueGrows
<1> HIDE DEF A
<1>2. {n \in 1..Len(q) + 1 : A[n] = SampleType} =
        IF e = SampleType THEN Announcing(q) \cup {Len(q) + 1} ELSE Announcing(q)
  BY <1>1, PositionsGrow DEF Announcing
<1>3. Announcing(A) = IF e = SampleType THEN Announcing(q) \cup {Len(q) + 1}
                                           ELSE Announcing(q)
  BY <1>1, <1>2 DEF Announcing
<1>4. Len(q) + 1 \notin Announcing(q)
  BY <1>1 DEF Announcing
<1>5. IsFiniteSet(Announcing(q)) /\ Cardinality(Announcing(q)) \in Nat
  BY AnnouncingFinite
<1>6. Cardinality(Announcing(q) \cup {Len(q) + 1}) = Cardinality(Announcing(q)) + 1
  BY ONLY <1>4, <1>5, FS_AddElement
<1>7. Cardinality(Announcing(A)) =
        Cardinality(Announcing(q)) + (IF e = SampleType THEN 1 ELSE 0)
  BY ONLY <1>3, <1>5, <1>6
<1>8. QED
  BY <1>7 DEF A

LEMMA AnnouncingShrinks ==
  ASSUME NEW q \in Seq(MonitorTypes), q # <<>>, Len(q) <= QueueSize
  PROVE  Cardinality(Announcing(Tail(q))) =
           Cardinality(Announcing(q)) - (IF Head(q) = SampleType THEN 1 ELSE 0)
<1> DEFINE T == Tail(q)
<1>1. /\ Len(q) \in Nat \ {0} /\ Len(T) = Len(q) - 1 /\ Head(q) = q[1]
      /\ \A n \in 1..Len(T) : T[n] = q[n + 1]
      /\ T \in Seq(MonitorTypes)
  BY QueueShrinks
<1>2. /\ IsFiniteSet(Announcing(q)) /\ Cardinality(Announcing(q)) \in Nat
      /\ IsFiniteSet(Announcing(T))
  BY <1>1, AnnouncingFinite
<1> HIDE DEF T
<1>3. \A n \in 1..Len(q) - 1 : T[n] = q[n + 1]
  BY <1>1
<1>4. ExistsBijection({n \in 1..Len(q) - 1 : T[n] = SampleType}, Announcing(q) \ {1})
  BY ONLY <1>1, <1>3, PositionsShift DEF Announcing
<1>5. Announcing(T) = {n \in 1..Len(q) - 1 : T[n] = SampleType}
  BY <1>1 DEF Announcing
<1>6. ExistsBijection(Announcing(T), Announcing(q) \ {1})
  BY ONLY <1>4, <1>5
<1>7. Cardinality(Announcing(q) \ {1}) = Cardinality(Announcing(T))
  BY ONLY <1>2, <1>6, FS_Bijection
<1>8. Cardinality(Announcing(q) \ {1}) =
        IF 1 \in Announcing(q) THEN Cardinality(Announcing(q)) - 1
                               ELSE Cardinality(Announcing(q))
  BY ONLY <1>2, FS_RemoveElement
<1>9. 1 \in Announcing(q) <=> Head(q) = SampleType
  BY <1>1 DEF Announcing
<1>10. Cardinality(Announcing(T)) =
        Cardinality(Announcing(q)) - (IF Head(q) = SampleType THEN 1 ELSE 0)
  BY ONLY <1>2, <1>7, <1>8, <1>9
<1>11. QED
  BY <1>10 DEF T

-------------------------------------------------------------------------------
LEMMA SensorStep == IInv /\ SensorThread => IInv'
<1> SUFFICES ASSUME IInv, SensorThread PROVE IInv'
  OBVIOUS
<1> USE DEF IInv
<1>1. CASE SensorWakes
  <2>1. /\ field' = 0 /\ UNCHANGED <<ahead, monitorQ, cameraQ>>
        /\ sensor = "sleeping"
        /\ sensor' = IF shm = "mapped" THEN "filling" ELSE "sending"
        /\ UNCHANGED <<shm, command, inputUp, monitor, printed, camera, engine,
                       serverUp>>
    BY <1>1 DEF SensorWakes, SensorFrame, serverVars
  <2>2. Queues' /\ Counters' /\ LoopsInBounds'
    BY <2>1 DEF Queues, Counters, LoopsInBounds, SampleFields
  <2>3. Places'
    BY <2>1 DEF Places
  <2>4. AheadIsOutstanding'
    <3>1. shm = "mapped" => \A f \in Fields : StoredNow(f) = 0 /\ StoredNow(f)' = 0
      BY <2>1 DEF StoredNow, Fields
    <3>2. QED
      BY <2>1, <3>1 DEF AheadIsOutstanding
  <2>5. QED
    BY <2>2, <2>3, <2>4
<1>2. CASE FillField
  <2>1. /\ sensor = "filling" /\ field' = field + 1
        /\ ahead' = [ahead EXCEPT ![field + 1] = @ + 1]
        /\ sensor' = IF field' = SampleFields THEN "sending" ELSE "filling"
        /\ UNCHANGED <<monitorQ, cameraQ>>
        /\ UNCHANGED <<shm, command, inputUp, monitor, printed, camera, engine,
                       serverUp>>
    BY <1>2 DEF FillField, SensorFrame, serverVars
  <2>2. Queues' /\ Counters' /\ LoopsInBounds'
    BY <2>1 DEF Queues, Counters, LoopsInBounds, SampleFields, Fields
  <2>3. Places'
    BY <2>1 DEF Places
  <2>4. AheadIsOutstanding'
    <3>1. field \in 0..SampleFields - 1 /\ ahead \in [Fields -> Int]
      BY <2>1 DEF Counters, LoopsInBounds, SampleFields
    <3>2. \A f \in Fields :
            /\ StoredNow(f) = IF f <= field THEN 1 ELSE 0
            /\ StoredNow(f)' = IF f <= field + 1 THEN 1 ELSE 0
      BY <2>1, <3>1 DEF StoredNow, Fields, SampleFields
    <3>3. \A f \in Fields : ahead'[f] = ahead[f] + (IF f = field + 1 THEN 1 ELSE 0)
      BY <2>1, <3>1 DEF Fields, SampleFields
    <3>4. Cardinality(Announcing(monitorQ)) \in Nat
      BY AnnouncingFinite DEF Queues
    <3>5. QED
      BY <2>1, <3>1, <3>2, <3>3, <3>4 DEF AheadIsOutstanding, Fields, SampleFields
  <2>5. QED
    BY <2>2, <2>3, <2>4
<1>3. CASE SensorSends
  <2>1. /\ HasRoom(monitorQ) /\ monitorQ' = Append(monitorQ, "sensor data")
        /\ sensor = "sending" /\ sensor' = "sleeping"
        /\ UNCHANGED <<ahead, field, cameraQ>>
        /\ UNCHANGED <<shm, command, inputUp, monitor, printed, camera, engine,
                       serverUp>>
    BY <1>3 DEF SensorSends, SensorFrame, serverVars
  <2>2. monitorQ \in Seq(MonitorTypes) /\ "sensor data" \in MonitorTypes
    BY DEF Queues, MonitorTypes
  <2>3. Queues'
    BY <2>1, <2>2, QueueGrows DEF Queues
  <2>4. Counters' /\ LoopsInBounds' /\ Places'
    BY <2>1 DEF Counters, LoopsInBounds, Places
  <2>5. AheadIsOutstanding'
    <3>1. Cardinality(Announcing(monitorQ')) = Cardinality(Announcing(monitorQ)) + 1
      BY <2>1, <2>2, AnnouncingGrows DEF SampleType
    <3>2. \A f \in Fields : StoredNow(f) = 1 /\ StoredNow(f)' = 0
      BY <2>1 DEF StoredNow
    <3>3. Cardinality(Announcing(monitorQ)) \in Nat
      BY <2>2, AnnouncingFinite
    <3>4. UNCHANGED <<shm, ahead>>
      BY <2>1
    <3>5. QED
      BY <3>1, <3>2, <3>3, <3>4 DEF AheadIsOutstanding
  <2>6. QED
    BY <2>3, <2>4, <2>5
<1>4. QED
  BY <1>1, <1>2, <1>3 DEF SensorThread

\* A step that leaves the sensor thread, the segment and the number of messages
\* about it alone.
LEMMA OutstandingKept ==
  ASSUME AheadIsOutstanding, UNCHANGED <<shm, ahead, sensor, field>>,
         Cardinality(Announcing(monitorQ')) = Cardinality(Announcing(monitorQ))
  PROVE  AheadIsOutstanding'
BY DEF AheadIsOutstanding, StoredNow

LEMMA CommandStep == IInv /\ CommandThread => IInv'
<1> SUFFICES ASSUME IInv, CommandThread PROVE IInv'
  OBVIOUS
<1> USE DEF IInv
<1>1. ASSUME NEW type \in CameraTypes, SendToCamera(type), command' \in Sending \cup {"prompt"}
      PROVE  IInv'
  <2>1. /\ HasRoom(cameraQ) /\ cameraQ' = Append(cameraQ, type)
        /\ UNCHANGED <<shm, ahead, sensor, field, inputUp, monitorQ, monitor,
                       printed, camera, engine, serverUp>>
    BY <1>1 DEF SendToCamera, CommandFrame, serverVars
  <2>2. Queues'
    BY <2>1, QueueGrows DEF Queues
  <2>3. Counters' /\ LoopsInBounds' /\ Places'
    BY <1>1, <2>1 DEF Counters, LoopsInBounds, Places
  <2>4. AheadIsOutstanding'
    BY <2>1, OutstandingKept
  <2>5. QED
    BY <2>2, <2>3, <2>4
<1>2. CASE MqCamera \/ DumpCamera
  BY <1>1, <1>2 DEF MqCamera, DumpCamera, CameraTypes, Sending
<1>3. CASE DumpMonitor
  <2>1. /\ HasRoom(monitorQ) /\ monitorQ' = Append(monitorQ, "dump")
        /\ command' = "prompt"
        /\ UNCHANGED <<shm, ahead, sensor, field, inputUp, cameraQ, monitor,
                       printed, camera, engine, serverUp>>
    BY <1>3 DEF DumpMonitor, CommandFrame, serverVars
  <2>2. monitorQ \in Seq(MonitorTypes) /\ "dump" \in MonitorTypes
    BY DEF Queues, MonitorTypes
  <2>3. Queues'
    BY <2>1, <2>2, QueueGrows DEF Queues
  <2>4. Counters' /\ LoopsInBounds' /\ Places'
    BY <2>1 DEF Counters, LoopsInBounds, Places
  <2>5. AheadIsOutstanding'
    <3>1. Cardinality(Announcing(monitorQ)) \in Nat
      BY <2>2, AnnouncingFinite
    <3>2. Cardinality(Announcing(Append(monitorQ, "dump"))) =
            Cardinality(Announcing(monitorQ)) + 0
      BY <2>1, <2>2, AnnouncingGrows DEF SampleType
    <3>3. Cardinality(Announcing(monitorQ')) = Cardinality(Announcing(monitorQ))
      BY <2>1, <3>1, <3>2
    <3>4. QED
      BY <2>1, <3>3, OutstandingKept
  <2>6. QED
    BY <2>3, <2>4, <2>5
<1>4. QED
  BY <1>2, <1>3 DEF CommandThread

LEMMA MonitorStep == IInv /\ MonitorThread => IInv'
<1> SUFFICES ASSUME IInv, MonitorThread PROVE IInv'
  OBVIOUS
<1> USE DEF IInv
<1>1. ASSUME NEW type \in MonitorTypes, MonitorReceives(type)
      PROVE  /\ Queues'
             /\ Cardinality(Announcing(monitorQ)) \in Nat
             /\ Cardinality(Announcing(monitorQ')) =
                  Cardinality(Announcing(monitorQ)) - (IF type = "sensor data" THEN 1 ELSE 0)
             /\ UNCHANGED <<shm, sensor, field, command, inputUp>>
  <2>1. /\ monitorQ # <<>> /\ Head(monitorQ) = type /\ monitorQ' = Tail(monitorQ)
        /\ cameraQ' = cameraQ /\ UNCHANGED <<shm, sensor, field, command, inputUp>>
    BY <1>1 DEF MonitorReceives, inputVars
  <2>2. monitorQ \in Seq(MonitorTypes) /\ Len(monitorQ) <= QueueSize
    BY DEF Queues
  <2>3. Queues'
    BY <2>1, <2>2, QueueShrinks DEF Queues
  <2>4. QED
    BY <2>1, <2>2, <2>3, AnnouncingFinite, AnnouncingShrinks DEF SampleType
<1>2. ASSUME ReceivesSample
      PROVE  /\ Queues' /\ AheadIsOutstanding' /\ ahead' \in [Fields -> Int]
             /\ UNCHANGED <<shm, sensor, field, command, inputUp>>
  <2>1. /\ MonitorReceives("sensor data") /\ "sensor data" \in MonitorTypes
        /\ ahead' = IF shm = "mapped" THEN [f \in Fields |-> ahead[f] - 1] ELSE ahead
    BY <1>2 DEF ReceivesSample, MonitorTypes
  <2>2. /\ Queues' /\ UNCHANGED <<shm, sensor, field, command, inputUp>>
        /\ Cardinality(Announcing(monitorQ)) \in Nat
        /\ Cardinality(Announcing(monitorQ')) = Cardinality(Announcing(monitorQ)) - 1
    BY <1>1, <2>1
  <2>3. ahead \in [Fields -> Int]
    BY DEF Counters
  <2>4. AheadIsOutstanding'
    <3>1. \A f \in Fields : StoredNow(f)' = StoredNow(f) /\ StoredNow(f) \in Nat
      BY <2>2 DEF StoredNow
    <3>2. shm = "mapped" => \A f \in Fields : ahead'[f] = ahead[f] - 1
      BY <2>1
    <3>3. QED
      BY <2>2, <3>1, <3>2 DEF AheadIsOutstanding
  <2>5. ahead' \in [Fields -> Int]
    <3>1. [f \in Fields |-> ahead[f] - 1] \in [Fields -> Int]
      BY ONLY <2>3
    <3>2. QED
      BY <2>1, <2>3, <3>1
  <2>6. QED
    BY <2>2, <2>4, <2>5
<1>3. CASE MonitorReceivesSample
  <2>1. /\ ReceivesSample
        /\ monitor' = "printing" /\ printed' = 0
        /\ UNCHANGED <<camera, engine, serverUp>>
    BY <1>3 DEF MonitorReceivesSample
  <2>2. /\ Queues' /\ AheadIsOutstanding' /\ ahead' \in [Fields -> Int]
        /\ UNCHANGED <<shm, sensor, field, command, inputUp>>
    BY <2>1, <1>2
  <2>3. Counters' /\ LoopsInBounds' /\ Places'
    BY <2>1, <2>2 DEF Counters, LoopsInBounds, Places, SampleFields
  <2>4. QED
    BY <2>2, <2>3
<1>4. CASE AttachFails
  <2>1. ReceivesSample /\ ServerEnds
    BY <1>4 DEF AttachFails
  <2>2. /\ Queues' /\ AheadIsOutstanding' /\ ahead' \in [Fields -> Int]
        /\ UNCHANGED <<shm, sensor, field, command, inputUp>>
    BY <2>1, <1>2
  <2>3. /\ monitor' = "waiting" /\ printed' = 0 /\ serverUp' = FALSE
        /\ camera' = "starting" /\ engine' = "starting"
    BY <2>1 DEF ServerEnds
  <2>4. Counters' /\ LoopsInBounds'
    BY <2>2, <2>3 DEF Counters, LoopsInBounds, SampleFields
  <2>5. Places'
    BY <2>2, <2>3 DEF Places
  <2>6. QED
    BY <2>2, <2>4, <2>5
<1>5. CASE PrintField
  <2>1. /\ monitor = "printing" /\ printed' = printed + 1
        /\ monitor' = IF printed' = SampleFields THEN "waiting" ELSE "printing"
        /\ UNCHANGED <<monitorQ, cameraQ>>
        /\ UNCHANGED <<shm, ahead, sensor, field, command, inputUp, camera,
                       engine, serverUp>>
    BY <1>5 DEF PrintField, ServerFrame, inputVars
  <2>2. Counters' /\ LoopsInBounds'
    BY <2>1 DEF Counters, LoopsInBounds, SampleFields
  <2>3. Places' /\ Queues'
    BY <2>1 DEF Places, Queues
  <2>4. AheadIsOutstanding'
    BY <2>1, OutstandingKept
  <2>5. QED
    BY <2>2, <2>3, <2>4
<1>6. CASE MonitorReceivesDump
  <2>1. /\ MonitorReceives("dump") /\ "dump" \in MonitorTypes
        /\ monitor' = "dumping" /\ UNCHANGED <<printed, ahead, camera, engine, serverUp>>
    BY <1>6 DEF MonitorReceivesDump, MonitorTypes
  <2>2. Counters' /\ LoopsInBounds' /\ Places'
    BY <1>1, <2>1 DEF Counters, LoopsInBounds, Places
  <2>3. AheadIsOutstanding'
    <3>1. /\ Cardinality(Announcing(monitorQ)) \in Nat
          /\ Cardinality(Announcing(monitorQ')) = Cardinality(Announcing(monitorQ)) - 0
          /\ UNCHANGED <<shm, ahead, sensor, field>>
      BY <1>1, <2>1
    <3>2. Cardinality(Announcing(monitorQ')) = Cardinality(Announcing(monitorQ))
      BY ONLY <3>1
    <3>3. QED
      BY <3>1, <3>2, OutstandingKept
  <2>4. QED
    BY <1>1, <2>1, <2>2, <2>3
<1>7. CASE DumpState
  <2>1. /\ monitor' = "waiting" /\ UNCHANGED <<monitorQ, cameraQ>>
        /\ UNCHANGED <<shm, ahead, sensor, field, command, inputUp, camera,
                       printed, engine, serverUp>>
    BY <1>7 DEF DumpState, ServerFrame, inputVars
  <2>2. Counters' /\ LoopsInBounds' /\ Places' /\ Queues'
    BY <2>1 DEF Counters, LoopsInBounds, Places, Queues
  <2>3. AheadIsOutstanding'
    BY <2>1, OutstandingKept
  <2>4. QED
    BY <2>2, <2>3
<1>8. QED
  BY <1>3, <1>4, <1>5, <1>6, <1>7 DEF MonitorThread

\* The steps that leave the sensor, the segment and the monitor's queue alone.
LEMMA OtherThreadStep ==
  ASSUME IInv, Places', printed' \in 0..SampleFields,
         monitor' = "printing" => printed' < SampleFields,
         cameraQ' \in Seq(CameraTypes), Len(cameraQ') <= QueueSize,
         UNCHANGED <<shm, ahead, sensor, field, monitorQ>>
  PROVE  IInv'
<1>1. Queues' /\ Counters' /\ LoopsInBounds'
  BY DEF IInv, Queues, Counters, LoopsInBounds
<1>2. AheadIsOutstanding'
  BY OutstandingKept DEF IInv
<1>3. QED
  BY <1>1, <1>2 DEF IInv

\* The end of the server, with whatever queues it leaves.
LEMMA ServerEndStep ==
  ASSUME IInv, ServerEnds,
         UNCHANGED <<shm, ahead, sensor, field, command, inputUp, monitorQ, cameraQ>>
  PROVE  IInv'
<1>1. Places' /\ printed' = 0 /\ monitor' = "waiting"
  BY DEF IInv, Places, ServerEnds
<1>2. cameraQ' \in Seq(CameraTypes) /\ Len(cameraQ') <= QueueSize
  BY DEF IInv, Queues
<1>3. QED
  BY <1>1, <1>2, OtherThreadStep DEF SampleFields

LEMMA CameraStep == IInv /\ CameraThread => IInv'
<1> SUFFICES ASSUME IInv, CameraThread PROVE IInv'
  OBVIOUS
<1>1. ASSUME Places', cameraQ' \in Seq(CameraTypes), Len(cameraQ') <= QueueSize,
             UNCHANGED <<shm, ahead, sensor, field, monitorQ, monitor, printed>>
      PROVE  IInv'
  BY <1>1, OtherThreadStep DEF IInv, Counters, LoopsInBounds
<1> USE DEF IInv
<1>2. CASE CameraStarts /\ ~HasCameraModule
  BY <1>2, ServerEndStep DEF CameraStarts, ServerFrame, inputVars
<1>3. CASE CameraHandles \/ (CameraStarts /\ HasCameraModule)
  <2>1. /\ UNCHANGED <<shm, ahead, sensor, field, command, inputUp, monitorQ,
                       cameraQ, monitor, printed, engine, serverUp>>
        /\ camera' = "waiting"
    BY <1>3 DEF CameraStarts, CameraHandles, ServerFrame, inputVars
  <2>2. Places'
    BY <2>1 DEF Places
  <2>3. cameraQ' \in Seq(CameraTypes) /\ Len(cameraQ') <= QueueSize
    BY <2>1 DEF Queues
  <2>4. QED
    BY <1>1, <2>1, <2>2, <2>3
<1>4. CASE CameraReceives
  <2>1. /\ cameraQ # <<>> /\ cameraQ' = Tail(cameraQ) /\ camera' = Head(cameraQ)
        /\ UNCHANGED <<shm, ahead, sensor, field, command, inputUp, monitorQ,
                       monitor, printed, engine, serverUp>>
    BY <1>4 DEF CameraReceives, ServerFrame, inputVars
  <2>2. /\ cameraQ' \in Seq(CameraTypes) /\ Len(cameraQ') <= QueueSize
        /\ camera' \in CameraTypes
    BY <2>1, QueueShrinks DEF Queues
  <2>3. Places'
    BY <2>1, <2>2 DEF Places
  <2>4. QED
    BY <1>1, <2>1, <2>2, <2>3
<1>5. QED
  BY <1>2, <1>3, <1>4, PlatformAssumption DEF CameraThread, CameraStarts

LEMMA StepInv == IInv /\ [Next]_vars => IInv'
<1> SUFFICES ASSUME IInv, [Next]_vars PROVE IInv'
  OBVIOUS
<1>1. CASE AlarmInReceive \/ (EngineStarts /\ ~MayRunRealTime)
  BY <1>1, ServerEndStep DEF AlarmInReceive, EngineStarts, ServerFrame, inputVars
<1>2. CASE \/ EngineStarts /\ MayRunRealTime
           \/ EndOfInput \/ Mincore \/ UNCHANGED vars
           \/ \E next \in Commands : ReadCommand(next)
  <2>1. /\ UNCHANGED <<shm, ahead, sensor, field, monitorQ, cameraQ, monitor,
                       printed, camera, serverUp>>
        /\ command' \in {command} \cup Sending \cup {"busy", "ended"}
        /\ engine' = engine \/ engine' = "running"
        /\ inputUp' = inputUp \/ inputUp' = FALSE
    BY <1>2 DEF EngineStarts, ServerFrame, EndOfInput, Mincore, InputEnds,
                ReadCommand, CommandFrame, vars, inputVars, serverVars, Commands,
                Sending
  <2>2. Places'
    BY <2>1 DEF IInv, Places
  <2>3. cameraQ' \in Seq(CameraTypes) /\ Len(cameraQ') <= QueueSize
    BY <2>1 DEF IInv, Queues
  <2>4. QED
    BY <2>1, <2>2, <2>3, OtherThreadStep DEF IInv, Counters, LoopsInBounds
<1>3. QED
  BY <1>1, <1>2, SensorStep, CommandStep, MonitorStep, CameraStep, PlatformAssumption
     DEF Next, EngineStarts

LEMMA IpcInv == Spec => []IInv
  BY IpcInit, StepInv, PTL DEF Spec

-------------------------------------------------------------------------------
\* Every state keeps its type: in particular no send ever overfills a queue.
THEOREM IpcTypeCorrect == Spec => []TypeOK
<1>1. IInv => TypeOK
  BY DEF IInv, Queues, Counters, Places, TypeOK
<1>2. QED
  BY <1>1, IpcInv, PTL

\* Whatever the capacity of its queue, the monitor prints no field that is older
\* than the sample it was told of, nor one that is more than QueueSize + 1 samples
\* newer (input.c:121-129, system_server.c:185-192).
THEOREM PrintedAreAnnounced == Spec => []PrintedIsAnnounced
<1>1. IInv => PrintedIsAnnounced
  <2> SUFFICES ASSUME IInv, shm = "mapped", NEW f \in Fields
               PROVE  ahead[f] \in 0..QueueSize + 1
    BY DEF PrintedIsAnnounced
  <2>1. monitorQ \in Seq(MonitorTypes) /\ Len(monitorQ) <= QueueSize /\ Len(monitorQ) \in Nat
    BY DEF IInv, Queues
  <2>2. /\ Cardinality(Announcing(monitorQ)) \in Nat
        /\ Cardinality(Announcing(monitorQ)) <= Len(monitorQ)
    BY <2>1, AnnouncingFinite
  <2>3. StoredNow(f) \in 0..1
    BY DEF StoredNow
  <2>4. ahead[f] = Cardinality(Announcing(monitorQ)) + StoredNow(f)
    BY DEF IInv, AheadIsOutstanding
  <2>5. QED
    BY <2>1, <2>2, <2>3, <2>4, QueueAssumption
<1>2. QED
  BY <1>1, IpcInv, PTL

-------------------------------------------------------------------------------
(* What must go on. *)

Up == serverUp /\ inputUp

\* What the steps of everybody else leave alone.
LEMMA MonitorKeeps ==
  ASSUME [Next]_vars, ~MonitorThread, ~HasRoom(monitorQ)
  PROVE  UNCHANGED <<monitor, printed, monitorQ>> \/ ~Up'
BY DEF Up, Next, SensorThread, SensorWakes, FillField, SensorSends, SensorFrame,
   CommandThread, MqCamera, DumpCamera, SendToCamera, DumpMonitor, CommandFrame,
   CameraThread, CameraStarts, CameraReceives, CameraHandles, EngineStarts, AlarmInReceive,
   ServerEnds,
   EndOfInput, Mincore, InputEnds, ReadCommand, serverVars, vars

\* A monitor thread with a full queue finishes what it is at and takes the next
\* message, unless one of the processes ends.
LEMMA MonitorGoesOn ==
  ASSUME IInv, Up, ~HasRoom(monitorQ), [Next]_vars
  PROVE  /\ MonitorCanRun
         /\ MonitorThread =>
              \/ HasRoom(monitorQ)' \/ ~Up'
              \/ /\ UNCHANGED monitorQ
                 /\ \/ monitor = "dumping" /\ monitor' = "waiting"
                    \/ /\ monitor = "printing" /\ printed' = printed + 1
                       /\ monitor' = IF printed + 1 = SampleFields THEN "waiting"
                                                                   ELSE "printing"
         /\ ~MonitorThread => UNCHANGED <<monitor, printed, monitorQ>> \/ ~Up'
<1>1. monitorQ \in Seq(MonitorTypes) /\ Len(monitorQ) = QueueSize /\ monitorQ # <<>>
  BY QueueAssumption DEF IInv, Queues, HasRoom
<1>2. MonitorCanRun
  BY <1>1 DEF MonitorCanRun, Up
<1>3. ASSUME MonitorReceivesSample \/ AttachFails \/ MonitorReceivesDump
      PROVE  HasRoom(monitorQ)'
  <2>1. monitorQ' = Tail(monitorQ)
    BY <1>3 DEF MonitorReceivesSample, AttachFails, ReceivesSample, MonitorReceivesDump,
       MonitorReceives
  <2>2. QED
    BY <1>1, <2>1, QueueAssumption DEF HasRoom
<1>4. PrintField =>
        /\ UNCHANGED monitorQ /\ monitor = "printing" /\ printed' = printed + 1
        /\ monitor' = IF printed + 1 = SampleFields THEN "waiting" ELSE "printing"
  BY DEF PrintField
<1>5. DumpState => UNCHANGED monitorQ /\ monitor = "dumping" /\ monitor' = "waiting"
  BY DEF DumpState
<1>6. QED
  BY <1>2, <1>3, <1>4, <1>5, MonitorKeeps DEF MonitorThread

\* So while both processes live the monitor's queue has room again and again.
LEMMA MonitorMakesRoom ==
  FairSpec /\ []BlockedOnlyByQueues => []<>(HasRoom(monitorQ) \/ ~Up)
<1> DEFINE Full == IInv /\ Up /\ ~HasRoom(monitorQ)
           W == Full /\ monitor = "waiting"
           D == Full /\ monitor = "dumping"
           P0 == Full /\ monitor = "printing" /\ printed = 0
           P1 == Full /\ monitor = "printing" /\ printed = 1
           P2 == Full /\ monitor = "printing" /\ printed = 2
           H == HasRoom(monitorQ) \/ ~Up
           Can == MonitorCanRun => ENABLED <<MonitorThread>>_vars
<1>1. W /\ [Next]_vars =>
        (W' \/ H') /\ (<<MonitorThread>>_vars => H') /\ MonitorCanRun
  BY StepInv, MonitorGoesOn DEF HasRoom
<1>2. D /\ [Next]_vars =>
        (D' \/ W' \/ H') /\ (<<MonitorThread>>_vars => ~D') /\ MonitorCanRun
  BY StepInv, MonitorGoesOn DEF HasRoom
<1>3. P2 /\ [Next]_vars =>
        (P2' \/ W' \/ H') /\ (<<MonitorThread>>_vars => ~P2') /\ MonitorCanRun
  BY StepInv, MonitorGoesOn DEF HasRoom, SampleFields
<1>4. P1 /\ [Next]_vars =>
        (P1' \/ P2' \/ H') /\ (<<MonitorThread>>_vars => ~P1') /\ MonitorCanRun
  BY StepInv, MonitorGoesOn DEF HasRoom, SampleFields
<1>5. P0 /\ [Next]_vars =>
        (P0' \/ P1' \/ H') /\ (<<MonitorThread>>_vars => ~P0') /\ MonitorCanRun
  BY StepInv, MonitorGoesOn DEF HasRoom, SampleFields
<1>6. BlockedOnlyByQueues => Can
  BY DEF BlockedOnlyByQueues
<1>7. IInv => H \/ W \/ D \/ P0 \/ P1 \/ P2
  BY DEF IInv, Places, Counters, LoopsInBounds, SampleFields
<1>8. FairSpec => [][Next]_vars /\ []IInv /\ WF_vars(MonitorThread)
  BY IpcInv, PTL DEF FairSpec, Spec, Fairness
<1> HIDE DEF W, D, P0, P1, P2, H, Can
<1>9. FairSpec /\ []BlockedOnlyByQueues => (W ~> H)
  BY <1>1, <1>6, <1>8, PTL DEF Can
<1>10. FairSpec /\ []BlockedOnlyByQueues => (D ~> W \/ H)
  BY <1>2, <1>6, <1>8, PTL DEF Can
<1>11. FairSpec /\ []BlockedOnlyByQueues => (P2 ~> W \/ H)
  BY <1>3, <1>6, <1>8, PTL DEF Can
<1>12. FairSpec /\ []BlockedOnlyByQueues => (P1 ~> P2 \/ H)
  BY <1>4, <1>6, <1>8, PTL DEF Can
<1>13. FairSpec /\ []BlockedOnlyByQueues => (P0 ~> P1 \/ H)
  BY <1>5, <1>6, <1>8, PTL DEF Can
<1>14. FairSpec /\ []BlockedOnlyByQueues => []<>H
  BY <1>7, <1>8, <1>9, <1>10, <1>11, <1>12, <1>13, PTL
<1>15. QED
  BY <1>14, PTL DEF H

\* The same of the camera thread, which also has to start.
LEMMA CameraKeeps ==
  ASSUME [Next]_vars, ~CameraThread, ~HasRoom(cameraQ)
  PROVE  UNCHANGED <<camera, cameraQ>> \/ ~Up'
BY DEF Up, Next, SensorThread, SensorWakes, FillField, SensorSends, SensorFrame,
   CommandThread, MqCamera, DumpCamera, SendToCamera, DumpMonitor, CommandFrame,
   MonitorThread, MonitorReceivesSample, AttachFails, ReceivesSample, MonitorReceivesDump,
   MonitorReceives, PrintField,
   DumpState, ServerFrame, EngineStarts, AlarmInReceive, ServerEnds, EndOfInput, Mincore,
   InputEnds, ReadCommand,
   serverVars, vars

LEMMA CameraGoesOn ==
  ASSUME IInv, Up, ~HasRoom(cameraQ), [Next]_vars
  PROVE  /\ CameraCanRun
         /\ CameraThread =>
              \/ HasRoom(cameraQ)' \/ ~Up'
              \/ UNCHANGED cameraQ /\ camera # "waiting" /\ camera' = "waiting"
         /\ ~CameraThread => UNCHANGED <<camera, cameraQ>> \/ ~Up'
<1>1. cameraQ \in Seq(CameraTypes) /\ Len(cameraQ) = QueueSize /\ cameraQ # <<>>
  BY QueueAssumption DEF IInv, Queues, HasRoom
<1>2. CameraCanRun
  BY <1>1 DEF CameraCanRun, Up
<1>3. ASSUME CameraReceives PROVE HasRoom(cameraQ)'
  <2>1. cameraQ' = Tail(cameraQ)
    BY <1>3 DEF CameraReceives
  <2>2. QED
    BY <1>1, <2>1, QueueAssumption DEF HasRoom
<1>4. CameraStarts => \/ ~Up'
                      \/ UNCHANGED cameraQ /\ camera # "waiting" /\ camera' = "waiting"
  BY DEF CameraStarts, ServerEnds, Up
<1>5. CameraHandles => UNCHANGED cameraQ /\ camera # "waiting" /\ camera' = "waiting"
  BY DEF CameraHandles, CameraTypes
<1>6. QED
  BY <1>2, <1>3, <1>4, <1>5, CameraKeeps DEF CameraThread

LEMMA CameraMakesRoom ==
  FairSpec /\ []BlockedOnlyByQueues => []<>(HasRoom(cameraQ) \/ ~Up)
<1> DEFINE Full == IInv /\ Up /\ ~HasRoom(cameraQ)
           W == Full /\ camera = "waiting"
           B == Full /\ camera # "waiting"
           H == HasRoom(cameraQ) \/ ~Up
           Can == CameraCanRun => ENABLED <<CameraThread>>_vars
<1>1. W /\ [Next]_vars =>
        (W' \/ H') /\ (<<CameraThread>>_vars => H') /\ CameraCanRun
  BY StepInv, CameraGoesOn DEF HasRoom
<1>2. B /\ [Next]_vars =>
        (B' \/ W' \/ H') /\ (<<CameraThread>>_vars => ~B') /\ CameraCanRun
  BY StepInv, CameraGoesOn DEF HasRoom
<1>3. BlockedOnlyByQueues => Can
  BY DEF BlockedOnlyByQueues
<1>4. IInv => H \/ W \/ B
  OBVIOUS
<1>5. FairSpec => [][Next]_vars /\ []IInv /\ WF_vars(CameraThread)
  BY IpcInv, PTL DEF FairSpec, Spec, Fairness
<1> HIDE DEF W, B, H, Can
<1>6. FairSpec /\ []BlockedOnlyByQueues => (W ~> H)
  BY <1>1, <1>3, <1>5, PTL DEF Can
<1>7. FairSpec /\ []BlockedOnlyByQueues => (B ~> W \/ H)
  BY <1>2, <1>3, <1>5, PTL DEF Can
<1>8. FairSpec /\ []BlockedOnlyByQueues => []<>H
  BY <1>4, <1>5, <1>6, <1>7, PTL
<1>9. QED
  BY <1>8, PTL DEF H

\* A step of the sensor thread takes it on; everybody else leaves it alone.
LEMMA SensorGoesOn ==
  ASSUME IInv, [Next]_vars
  PROVE  /\ SensorThread =>
              \/ sensor = "sleeping" /\ sensor' # "sleeping"
              \/ /\ sensor = "filling" /\ field' = field + 1
                 /\ sensor' = IF field + 1 = SampleFields THEN "sending" ELSE "filling"
              \/ sensor = "sending" /\ sensor' = "sleeping"
         /\ ~SensorThread => UNCHANGED <<sensor, field>>
<1>1. SensorThread =>
        \/ sensor = "sleeping" /\ sensor' # "sleeping"
        \/ /\ sensor = "filling" /\ field' = field + 1
           /\ sensor' = IF field + 1 = SampleFields THEN "sending" ELSE "filling"
        \/ sensor = "sending" /\ sensor' = "sleeping"
  BY DEF SensorThread, SensorWakes, FillField, SensorSends
<1>2. ~SensorThread => UNCHANGED <<sensor, field>>
  BY DEF Next, CommandThread, MqCamera, DumpCamera, SendToCamera, DumpMonitor, CommandFrame,
     MonitorThread, MonitorReceivesSample, AttachFails, ReceivesSample, MonitorReceivesDump,
     MonitorReceives, PrintField,
     DumpState, ServerFrame, inputVars, CameraThread, CameraStarts, CameraReceives,
     CameraHandles, EngineStarts, AlarmInReceive, ServerEnds, EndOfInput, Mincore, InputEnds,
     ReadCommand, vars
<1>3. QED
  BY <1>1, <1>2

\* For queues of any capacity: while both processes live the sensor thread comes
\* back to its sleep.  It writes three fields and waits for nobody, and its send
\* waits for a queue that has room again and again (input.c:115-131,
\* system_server.c:167-202).
THEOREM SensorGoesOnSampling ==
  FairSpec /\ []BlockedOnlyByQueues => SensorKeepsSampling
<1> DEFINE F0 == IInv /\ Up /\ sensor = "filling" /\ field = 0
           F1 == IInv /\ Up /\ sensor = "filling" /\ field = 1
           F2 == IInv /\ Up /\ sensor = "filling" /\ field = 2
           S == IInv /\ Up /\ sensor = "sending"
           R == HasRoom(monitorQ)
           G == sensor = "sleeping" \/ ~Up
           Can == SensorCanRun => ENABLED <<SensorThread>>_vars
<1>1. S /\ [Next]_vars => (S' \/ G') /\ (<<SensorThread>>_vars => G')
  BY StepInv, SensorGoesOn
<1>2. F2 /\ [Next]_vars => (F2' \/ S' \/ G') /\ (<<SensorThread>>_vars => ~F2')
  BY StepInv, SensorGoesOn DEF SampleFields
<1>3. F1 /\ [Next]_vars => (F1' \/ F2' \/ G') /\ (<<SensorThread>>_vars => ~F1')
  BY StepInv, SensorGoesOn DEF SampleFields
<1>4. F0 /\ [Next]_vars => (F0' \/ F1' \/ G') /\ (<<SensorThread>>_vars => ~F0')
  BY StepInv, SensorGoesOn DEF SampleFields
<1>5. (F0 \/ F1 \/ F2 => SensorCanRun) /\ (S /\ R => SensorCanRun)
  BY DEF SensorCanRun, Up
<1>6. BlockedOnlyByQueues => Can
  BY DEF BlockedOnlyByQueues
<1>7. IInv => G \/ S \/ F0 \/ F1 \/ F2
  BY DEF IInv, Places, Counters, LoopsInBounds, SampleFields
<1>8. FairSpec => [][Next]_vars /\ []IInv /\ SF_vars(SensorThread)
  BY IpcInv, PTL DEF FairSpec, Spec, Fairness
<1>9. FairSpec /\ []BlockedOnlyByQueues => []<>(R \/ ~Up)
  BY MonitorMakesRoom, PTL
<1>10. S => Up
  OBVIOUS
<1>11. ~Up => ~serverUp \/ ~inputUp
  BY DEF Up
<1> HIDE DEF F0, F1, F2, S, R, G, Can
<1>12. FairSpec /\ []BlockedOnlyByQueues => (S ~> G)
  BY <1>1, <1>5, <1>6, <1>8, <1>9, <1>10, PTL DEF Can
<1>13. FairSpec /\ []BlockedOnlyByQueues => (F2 ~> S \/ G)
  BY <1>2, <1>5, <1>6, <1>8, PTL DEF Can
<1>14. FairSpec /\ []BlockedOnlyByQueues => (F1 ~> F2 \/ G)
  BY <1>3, <1>5, <1>6, <1>8, PTL DEF Can
<1>15. FairSpec /\ []BlockedOnlyByQueues => (F0 ~> F1 \/ G)
  BY <1>4, <1>5, <1>6, <1>8, PTL DEF Can
<1>16. FairSpec /\ []BlockedOnlyByQueues => []<>G
  BY <1>7, <1>8, <1>12, <1>13, <1>14, <1>15, PTL
<1>17. QED
  BY <1>11, <1>16, PTL DEF SensorKeepsSampling, G

\* A sending command gets on with its own step only.
LEMMA CommandGoesOn ==
  ASSUME IInv, [Next]_vars, command \in Sending
  PROVE  /\ CommandThread =>
              command' = IF command = "dump camera" THEN "dump monitor" ELSE "prompt"
         /\ ~CommandThread => UNCHANGED command
<1>1. CommandThread =>
        command' = IF command = "dump camera" THEN "dump monitor" ELSE "prompt"
  BY DEF CommandThread, MqCamera, DumpCamera, DumpMonitor
<1>2. ~CommandThread => UNCHANGED command
  BY DEF Next, SensorThread, SensorWakes, FillField, SensorSends, SensorFrame,
     MonitorThread, MonitorReceivesSample, AttachFails, ReceivesSample, MonitorReceivesDump,
     MonitorReceives, PrintField,
     DumpState, ServerFrame, inputVars, CameraThread, CameraStarts, CameraReceives,
     CameraHandles, EngineStarts, AlarmInReceive, ServerEnds, EndOfInput, Mincore, InputEnds,
     ReadCommand, Sending, vars
<1>3. QED
  BY <1>1, <1>2

\* For queues of any capacity: while both processes live a command that sends,
\* to the camera, to the monitor, or to one after the other, gets back to the
\* prompt, for each queue has room again and again (input.c:198-216, 259-274).
THEOREM SendingReturns ==
  FairSpec /\ []BlockedOnlyByQueues => CommandsReturn
<1> DEFINE M == IInv /\ Up /\ command = "dump monitor"
           D == IInv /\ Up /\ command = "dump camera"
           C == IInv /\ Up /\ command \in {"send picture", "send dump", "send unknown"}
           RM == HasRoom(monitorQ)
           RC == HasRoom(cameraQ)
           G == command = "prompt" \/ ~Up
           Can == CommandCanRun => ENABLED <<CommandThread>>_vars
<1>1. M /\ [Next]_vars => (M' \/ G') /\ (<<CommandThread>>_vars => G')
  BY StepInv, CommandGoesOn DEF Sending
<1>2. D /\ [Next]_vars => (D' \/ M' \/ G') /\ (<<CommandThread>>_vars => ~D')
  BY StepInv, CommandGoesOn DEF Sending
<1>3. C /\ [Next]_vars => (C' \/ G') /\ (<<CommandThread>>_vars => G')
  BY StepInv, CommandGoesOn DEF Sending
<1>4. (M /\ RM => CommandCanRun) /\ (C /\ RC => CommandCanRun) /\ (D /\ RC => CommandCanRun)
  BY DEF CommandCanRun, Up, Sending
<1>5. BlockedOnlyByQueues => Can
  BY DEF BlockedOnlyByQueues
<1>6. IInv /\ command \in Sending => M \/ D \/ C \/ ~Up
  BY DEF Sending
<1>7. FairSpec => [][Next]_vars /\ []IInv /\ SF_vars(CommandThread)
  BY IpcInv, PTL DEF FairSpec, Spec, Fairness
<1>8. FairSpec /\ []BlockedOnlyByQueues => []<>(RM \/ ~Up) /\ []<>(RC \/ ~Up)
  BY MonitorMakesRoom, CameraMakesRoom, PTL
<1>9. (M => Up) /\ (D => Up) /\ (C => Up) /\ (~Up => G)
  OBVIOUS
<1>10. G => command = "prompt" \/ ~serverUp \/ ~inputUp
  BY DEF Up
<1> HIDE DEF M, D, C, RM, RC, G, Can
<1>11. FairSpec /\ []BlockedOnlyByQueues => (M ~> G)
  BY <1>1, <1>4, <1>5, <1>7, <1>8, <1>9, PTL DEF Can
<1>12. FairSpec /\ []BlockedOnlyByQueues => (D ~> M \/ G)
  BY <1>2, <1>4, <1>5, <1>7, <1>8, <1>9, PTL DEF Can
<1>13. FairSpec /\ []BlockedOnlyByQueues => (C ~> G)
  BY <1>3, <1>4, <1>5, <1>7, <1>8, <1>9, PTL DEF Can
<1>14. QED
  BY <1>6, <1>7, <1>9, <1>10, <1>11, <1>12, <1>13, PTL DEF CommandsReturn

\* The reader is gone and the queue is full.
SensorIsStuck == ~serverUp /\ sensor = "sending" /\ ~HasRoom(monitorQ)
CommandIsStuck ==
  /\ ~serverUp /\ command \in Sending
  /\ ~HasRoom(IF command = "dump monitor" THEN monitorQ ELSE cameraQ)

\* Then the sender is blocked for good: nobody restarts the server, nobody else
\* receives, and a thread in mq_send cannot come to the end of its input either.
\* It is the step behind OrphanedSensorStops that holds for any capacity
\* (main.c:33-36, input.c:129, 268-272).
THEOREM OrphansStayStuck ==
  Spec => [][/\ SensorIsStuck => SensorIsStuck'
             /\ CommandIsStuck => CommandIsStuck']_vars
<1>1. ASSUME [Next]_vars, ~serverUp
      PROVE  /\ ~serverUp'
             /\ ~HasRoom(monitorQ) => UNCHANGED monitorQ
             /\ ~HasRoom(cameraQ) => UNCHANGED cameraQ
  <2>1. CASE SensorThread
    <3>1. /\ UNCHANGED <<serverUp, cameraQ>>
          /\ UNCHANGED monitorQ \/ HasRoom(monitorQ)
      BY <2>1 DEF SensorThread, SensorWakes, FillField, SensorSends, SensorFrame, serverVars
    <3>2. QED
      BY <1>1, <3>1
  <2>2. CASE CommandThread
    <3>1. /\ UNCHANGED serverUp
          /\ UNCHANGED monitorQ \/ HasRoom(monitorQ)
          /\ UNCHANGED cameraQ \/ HasRoom(cameraQ)
      BY <2>2 DEF CommandThread, MqCamera, DumpCamera, SendToCamera, DumpMonitor,
         CommandFrame, serverVars
    <3>2. QED
      BY <1>1, <3>1
  <2>3. ~MonitorThread /\ ~CameraThread /\ ~EngineStarts /\ ~AlarmInReceive
    BY <1>1 DEF MonitorThread, MonitorReceivesSample, AttachFails, ReceivesSample,
       MonitorReceivesDump, MonitorReceives, PrintField, DumpState, CameraThread,
       CameraStarts, CameraReceives, CameraHandles, EngineStarts, AlarmInReceive, ServerEnds
  <2>4. CASE EndOfInput \/ Mincore \/ (\E next \in Commands : ReadCommand(next))
    BY <1>1, <2>4 DEF EndOfInput, Mincore, InputEnds, ReadCommand, CommandFrame, serverVars
  <2>5. CASE UNCHANGED vars
    BY <1>1, <2>5 DEF vars, serverVars
  <2>6. QED
    BY <1>1, <2>1, <2>2, <2>3, <2>4, <2>5 DEF Next
<1>2. ASSUME [Next]_vars, SensorIsStuck PROVE SensorIsStuck'
  <2>1. sensor' = "sending"
    BY <1>2 DEF SensorIsStuck, Next, SensorThread, SensorWakes, FillField, SensorSends,
       CommandThread, MqCamera, DumpCamera, SendToCamera, DumpMonitor, CommandFrame,
       MonitorThread, MonitorReceivesSample, AttachFails, ReceivesSample, MonitorReceivesDump,
       MonitorReceives,
       PrintField, DumpState, CameraThread, CameraStarts, CameraReceives, CameraHandles,
       EngineStarts, AlarmInReceive, ServerEnds, EndOfInput, Mincore, InputEnds, ReadCommand,
       vars, inputVars
  <2>2. QED
    BY <1>1, <1>2, <2>1 DEF SensorIsStuck, HasRoom
<1>3. ASSUME [Next]_vars, CommandIsStuck PROVE CommandIsStuck'
  <2>1. command' = command
    BY <1>3 DEF CommandIsStuck, Next, SensorThread, SensorWakes, FillField, SensorSends,
       SensorFrame, CommandThread, MqCamera, DumpCamera, SendToCamera, DumpMonitor, Sending,
       MonitorThread, MonitorReceivesSample, AttachFails, ReceivesSample, MonitorReceivesDump,
       MonitorReceives,
       PrintField, DumpState, CameraThread, CameraStarts, CameraReceives, CameraHandles,
       EngineStarts, AlarmInReceive, ServerEnds, EndOfInput, Mincore, InputEnds, ReadCommand,
       vars, inputVars
  <2>2. QED
    BY <1>1, <1>3, <2>1 DEF CommandIsStuck, HasRoom
<1>4. QED
  BY <1>2, <1>3, PTL DEF Spec
===============================================================================
