--------------------------- MODULE SensorDriverProofs ---------------------------
(***************************************************************************)
(* Theorems about SensorDriver: types, what the kernel module holds at     *)
(* each place of its loading and unloading, and that a stored value is     *)
(* measured over, for any number of loads and open files.                  *)
(***************************************************************************)
EXTENDS SensorDriver, TLAPS

\* The types that the other parts need; flags are kept apart, for they are
\* conditions elsewhere.
Things ==
  /\ module \in Loading \cup Unloading \cup {"unloaded", "loaded"}
  /\ held \subseteq Resources
  /\ loads \in 0..MaxLoads /\ opens \in 0..MaxOpens
  /\ notify \in {"unset", "stored", "measured"}
  /\ oops \in {"none", "load", "unload", "timer", "work", "file"}

Flags == {toy_kobj, failed, pending, queued, running, late} \subseteq BOOLEAN

\* Resources come and go in the order of loading and unloading.
InOrder ==
  /\ "timer" \in held => module \in {"queue", "loaded", "drain", "cancel"}
  /\ "queue" \in held => module \in {"loaded", "drain"}
  /\ "kobj" \in held => module \in {"timer", "queue", "loaded", "drain", "cancel", "put"}
  /\ module \in {"kobj", "timer", "queue", "loaded"} \cup Unloading => "client" \in held

\* The pointer is set exactly by the step that adds the object.
KobjThere ==
  /\ module \in {"class", "device", "cdev", "client", "calibrate", "kobj"} => ~toy_kobj
  /\ module \in {"timer", "queue", "loaded", "drain"} /\ toy_kobj => "kobj" \in held

\* There is work only while there is a queue, but for what the timer queued after
\* the queue was destroyed.
WorkInQueue ==
  /\ queued \/ running => late \/ module \in {"loaded", "drain"}
  /\ late => module \in {"cancel", "put", "release", "unloaded"}

FilesKeepModule == opens > 0 => module \notin Unloading

IInv ==
  /\ Things
  /\ oops = "none" =>
       InOrder /\ KobjThere /\ WorkInQueue /\ FilesKeepModule /\ ExitLeavesNothing

USE DriverAssumption

\* A step of the load, for the parts that speak of places and resources.
LEMMA LoadStepKeeps ==
  ASSUME IInv, NEW at, NEW next, NEW gains,
         LoadStep(at, next, gains),
         UNCHANGED toy_kobj,
         \/ at = "class" /\ next = "device" /\ gains = {{}, {"class"}}
         \/ at = "device" /\ next = "cdev"
              /\ gains = {{}} \cup {{"device"} : c \in held \cap {"class"}}
         \/ at = "cdev" /\ next = "client" /\ gains = {{}, {"cdev"}}
         \/ at = "client" /\ next = "calibrate"
              /\ gains = {{}, {"driver"}, {"client", "driver"}}
         \/ at = "timer" /\ next = "queue" /\ gains = {{"timer"}}
         \/ at = "queue" /\ next = "loaded" /\ gains = {{}, {"queue"}}
  PROVE  IInv'
<1> DEFINE new == held' \ held
<1>1. /\ module = at /\ module' = next /\ held \subseteq held'
      /\ oops = "none" /\ oops' = "none"
      /\ UNCHANGED <<failed, loads, opens, pending, queued, running, late, notify, toy_kobj>>
  BY DEF LoadStep, Runs, work
<1>2. /\ new \subseteq {"class", "device", "cdev", "client", "driver", "timer", "queue"}
      /\ "timer" \in new => next = "queue"
      /\ "queue" \in new => next = "loaded"
  BY DEF LoadStep
<1>3. Things'
  BY <1>1, <1>2 DEF IInv, Things, Resources, Loading, Unloading
<1>4. InOrder'
  BY <1>1, <1>2 DEF IInv, InOrder, Unloading
<1>5. KobjThere' /\ WorkInQueue' /\ FilesKeepModule' /\ ExitLeavesNothing'
  BY <1>1 DEF IInv, KobjThere, WorkInQueue, FilesKeepModule, ExitLeavesNothing, Unloading
<1> QED BY <1>3, <1>4, <1>5 DEF IInv

LEMMA LoadKeeps == IInv /\ LoadNext => IInv'
<1> SUFFICES ASSUME IInv, LoadNext PROVE IInv' OBVIOUS
<1>1. CASE Load
  <2>1. /\ oops = "none" /\ oops' = "none" /\ held = {} /\ opens = 0 /\ opens' = 0
        /\ loads < MaxLoads /\ loads' = loads + 1 /\ notify' = "unset"
        /\ ~queued' /\ ~running' /\ late' = FALSE /\ toy_kobj' = FALSE
        /\ \/ module' = "class" /\ held' = {"region"}
           \/ module' = "unloaded" /\ held' = {}
    BY <1>1 DEF Load, Runs
  <2>2. Things'
    BY <2>1 DEF IInv, Things, Resources, Loading, Unloading
  <2>3. InOrder' /\ KobjThere'
    BY <2>1 DEF InOrder, KobjThere, Unloading
  <2>4. WorkInQueue' /\ FilesKeepModule' /\ ExitLeavesNothing'
    BY <2>1 DEF WorkInQueue, FilesKeepModule, ExitLeavesNothing
  <2> QED BY <2>2, <2>3, <2>4 DEF IInv
<1>2. CASE CreateClass BY <1>2, LoadStepKeeps DEF CreateClass
<1>3. CASE CreateDevice BY <1>3, LoadStepKeeps DEF CreateDevice
<1>4. CASE AddCdev BY <1>4, LoadStepKeeps DEF AddCdev
<1>5. CASE MakeClient BY <1>5, LoadStepKeeps DEF MakeClient
<1>6. CASE StartTimer BY <1>6, LoadStepKeeps DEF StartTimer
<1>7. CASE CreateQueue BY <1>7, LoadStepKeeps DEF CreateQueue
<1>8. CASE Calibrate
  <2>1. /\ oops = "none" /\ module = "calibrate" /\ module' = "kobj"
        /\ oops' \in {"none", "load"} /\ (oops' = "none" => "client" \in held)
        /\ UNCHANGED <<held, toy_kobj, loads, opens, queued, running, late, notify>>
    BY <1>8 DEF Calibrate, Runs, work
  <2>2. Things'
    BY <2>1 DEF IInv, Things, Loading, Unloading
  <2>3. oops' = "none" => InOrder' /\ KobjThere'
    BY <2>1 DEF IInv, InOrder, KobjThere, Unloading
  <2>4. WorkInQueue' /\ FilesKeepModule' /\ ExitLeavesNothing'
    BY <2>1 DEF IInv, WorkInQueue, FilesKeepModule, ExitLeavesNothing, Unloading
  <2> QED BY <2>2, <2>3, <2>4 DEF IInv
<1>9. CASE AddKobj
  <2>1. /\ module = "kobj" /\ module' = "timer" /\ oops = "none" /\ oops' = "none"
        /\ UNCHANGED <<failed, loads, opens, queued, running, late, notify>>
        /\ \/ toy_kobj' = TRUE /\ held' = held \cup {"kobj"}
           \/ toy_kobj' = toy_kobj /\ held' = held
    BY <1>9 DEF AddKobj, LoadStep, Runs, work
  <2>2. Things'
    BY <2>1 DEF IInv, Things, Resources, Loading, Unloading
  <2>3. InOrder'
    BY <2>1 DEF IInv, InOrder, Unloading
  <2>4. KobjThere'
    BY <2>1 DEF IInv, KobjThere
  <2>5. WorkInQueue' /\ FilesKeepModule' /\ ExitLeavesNothing'
    BY <2>1 DEF IInv, WorkInQueue, FilesKeepModule, ExitLeavesNothing, Unloading
  <2> QED BY <2>2, <2>3, <2>4, <2>5 DEF IInv
<1>10. ASSUME AddDriverFails \/ AddKobjFails PROVE IInv'
  <2>1. /\ module \in {"client", "kobj"} /\ module' = "unloaded" /\ failed' = TRUE
        /\ oops = "none" /\ oops' \in {"none", "load"}
        /\ UNCHANGED <<toy_kobj, loads, opens, queued, running, late, notify>>
        /\ held' \subseteq held \cup {"client"}
        /\ held' \cap {"region", "class", "device"} = {}
    BY <1>10 DEF AddDriverFails, AddKobjFails, LoadFails, Runs, work, RegErrorReleases
  <2>2. Things'
    BY <2>1 DEF IInv, Things, Resources
  <2>3. InOrder' /\ KobjThere'
    BY <2>1 DEF IInv, InOrder, KobjThere, Unloading
  <2>4. WorkInQueue' /\ FilesKeepModule'
    BY <2>1 DEF IInv, WorkInQueue, FilesKeepModule, Unloading
  <2>5. ExitLeavesNothing'
    <3>1. held \cap {"timer", "queue", "kobj"} = {} /\ held \subseteq Resources
      BY <2>1 DEF IInv, Things, InOrder
    <3> QED BY <2>1, <3>1 DEF ExitLeavesNothing, Resources
  <2> QED BY <2>2, <2>3, <2>4, <2>5 DEF IInv
<1> QED
  BY <1>1, <1>2, <1>3, <1>4, <1>5, <1>6, <1>7, <1>8, <1>9, <1>10 DEF LoadNext

LEMMA UnloadKeeps == IInv /\ UnloadNext => IInv'
<1> SUFFICES ASSUME IInv, UnloadNext PROVE IInv' OBVIOUS
<1>1. /\ oops = "none" /\ oops' \in {"none", "unload"}
      /\ UNCHANGED <<toy_kobj, failed, loads, opens, notify, queued, running, late>>
      /\ held' \subseteq held
  BY DEF UnloadNext, Unload, DestroyQueue, CancelTimer, PutKobj, Release,
         UnloadStep, Runs, work, files
<1>2. \/ module = "loaded" /\ module' = "drain" /\ held' = held /\ opens = 0
      \/ module = "drain" /\ module' = "cancel" /\ held' = held \ {"queue"}
           /\ ~queued /\ ~running
      \/ module = "cancel" /\ module' = "put" /\ held' = held \ {"timer"}
      \/ module = "put" /\ module' = "release" /\ held' = held \ {"kobj"}
      \/ module = "release" /\ module' = "unloaded"
           /\ held' = held \ {"client", "driver", "cdev", "device", "class", "region"}
  BY DEF UnloadNext, Unload, DestroyQueue, CancelTimer, PutKobj, Release, UnloadStep
<1>3. Things'
  BY <1>1, <1>2 DEF IInv, Things, Loading, Unloading
<1>4. InOrder'
  BY <1>1, <1>2 DEF IInv, InOrder, Unloading
<1>5. KobjThere'
  BY <1>1, <1>2 DEF IInv, KobjThere
<1>6. WorkInQueue'
  BY <1>1, <1>2 DEF IInv, WorkInQueue
<1>7. FilesKeepModule'
  BY <1>1, <1>2 DEF IInv, FilesKeepModule, Things, Unloading
<1>8. ExitLeavesNothing'
  <2>1. module' = "unloaded" => module = "release"
    BY <1>2
  <2>2. module = "release" => held' = {}
    BY <1>1, <1>2 DEF IInv, Things, InOrder, Resources
  <2> QED BY <2>1, <2>2 DEF ExitLeavesNothing
<1> QED BY <1>3, <1>4, <1>5, <1>6, <1>7, <1>8 DEF IInv

\* Timer, work, files and attributes change no place and no resource.
LEMMA RunningKeeps ==
  IInv /\ (TimerFires \/ WorkStarts \/ Measures \/ Open \/ Read \/ Close \/ Store)
    => IInv'
<1> SUFFICES ASSUME IInv,
                    TimerFires \/ WorkStarts \/ Measures \/ Open \/ Read \/ Close \/ Store
             PROVE  IInv'
  OBVIOUS
<1>1. /\ oops = "none" /\ oops' \in {"none", "timer", "work", "file"}
      /\ UNCHANGED <<module, held, toy_kobj, failed, loads>>
      /\ notify' \in {notify, "measured", "stored"}
  <2>1. CASE TimerFires BY <2>1 DEF TimerFires, Runs, files
  <2>2. CASE WorkStarts BY <2>2 DEF WorkStarts, WorkRuns, Runs, files
  <2>3. CASE Measures BY <2>3 DEF Measures, WorkRuns, Runs
  <2>4. CASE Open \/ Read \/ Close BY <2>4 DEF Open, Read, Close, Runs, FileFrame
  <2>5. CASE Store BY <2>5 DEF Store, Runs
  <2> QED BY <2>1, <2>2, <2>3, <2>4, <2>5
<1>2. /\ opens' \in 0..MaxOpens
      /\ opens' > 0 => opens > 0 \/ module \notin Unloading
  <2>1. \/ opens' = opens
        \/ opens' = opens + 1 /\ opens < MaxOpens /\ module \notin Unloading
        \/ opens' = opens - 1 /\ opens > 0
    BY DEF TimerFires, WorkStarts, Measures, Open, Read, Close, Store, files
  <2>2. opens \in 0..MaxOpens
    BY DEF IInv, Things
  <2> QED BY <2>1, <2>2
<1>3. \/ late' = late /\ (queued' \/ running' => queued \/ running \/ "queue" \in held)
      \/ module = "cancel" /\ (queued' => late')
           /\ (late' <=> late \/ queued') /\ running' = running
  BY DEF TimerFires, WorkStarts, Measures, Open, Read, Close, Store, FileFrame, work
<1>4. Things'
  BY <1>1, <1>2 DEF IInv, Things
<1>5. InOrder' /\ KobjThere' /\ ExitLeavesNothing'
  BY <1>1 DEF IInv, InOrder, KobjThere, ExitLeavesNothing
<1>6. WorkInQueue'
  BY <1>1, <1>3 DEF IInv, WorkInQueue, InOrder
<1>7. FilesKeepModule'
  BY <1>1, <1>2 DEF IInv, FilesKeepModule
<1> QED BY <1>4, <1>5, <1>6, <1>7 DEF IInv

LEMMA StepInv == IInv /\ [Next]_vars => IInv'
<1> SUFFICES ASSUME IInv, [Next]_vars PROVE IInv' OBVIOUS
<1>1. CASE Next
  BY <1>1, LoadKeeps, UnloadKeeps, RunningKeeps DEF Next
<1>2. CASE UNCHANGED vars
  BY <1>2 DEF vars, IInv, Things, InOrder, KobjThere, WorkInQueue,
              FilesKeepModule, ExitLeavesNothing
<1> QED BY <1>1, <1>2

LEMMA Inductive == Spec => []IInv
<1>1. Init => IInv
  BY DEF Init, IInv, Things, InOrder, KobjThere, WorkInQueue, FilesKeepModule,
         ExitLeavesNothing, Unloading, Resources
<1> QED BY <1>1, StepInv, PTL DEF Spec

LEMMA StepFlags == Flags /\ [Next]_vars => Flags'
<1> SUFFICES ASSUME Flags, [Next]_vars PROVE Flags' OBVIOUS
<1>1. toy_kobj' \in {toy_kobj, TRUE, FALSE} /\ failed' \in {failed, TRUE, FALSE}
  BY DEF Next, vars, LoadNext, UnloadNext, Load, CreateClass, CreateDevice, AddCdev,
         MakeClient, AddDriverFails, Calibrate, AddKobj, AddKobjFails, StartTimer,
         CreateQueue, LoadStep, LoadFails, Unload, DestroyQueue, CancelTimer,
         PutKobj, Release, UnloadStep, TimerFires, WorkStarts, Measures, Open,
         Read, Close, Store, FileFrame
<1>2. pending' \in {pending, TRUE, FALSE} /\ queued' \in BOOLEAN \cup {queued}
      /\ running' \in {running, TRUE, FALSE} /\ late' \in BOOLEAN \cup {late}
  BY DEF Next, vars, work, LoadNext, UnloadNext, Load, CreateClass, CreateDevice,
         AddCdev, MakeClient, AddDriverFails, Calibrate, AddKobj, AddKobjFails,
         StartTimer, CreateQueue, LoadStep, LoadFails, Unload, DestroyQueue,
         CancelTimer, PutKobj, Release, UnloadStep, TimerFires, WorkStarts,
         Measures, Open, Read, Close, Store, FileFrame
<1> QED BY <1>1, <1>2 DEF Flags

LEMMA FlagsAreBoolean == Spec => []Flags
<1>1. Init => Flags
  BY DEF Init, Flags
<1> QED BY <1>1, StepFlags, PTL DEF Spec

\* The type invariant, for any number of loads and open files.
THEOREM DriverTypeCorrect == Spec => []TypeOK
<1>1. IInv /\ Flags => TypeOK
  BY DEF IInv, Things, Flags, TypeOK
<1> QED BY <1>1, Inductive, FlagsAreBoolean, PTL

\* However often it is loaded and whatever fails, an unloaded module leaves
\* nothing behind (sensor.c:279-301).
THEOREM NothingIsLeft == Spec => []ExitLeavesNothing
<1>1. IInv => ExitLeavesNothing
  BY DEF IInv, ExitLeavesNothing
<1> QED BY <1>1, Inductive, PTL

\* The measurement and the files of a module have what they use, for any number
\* of loads and files; only work that the timer queued between the ends of queue
\* and timer may not (sensor.c:109, 174-191, 283-295).
THEOREM NobodyUsesWhatIsGone == Spec => []UsersHaveTheirObjects
<1>1. IInv => UsersHaveTheirObjects
  BY DEF IInv, InOrder, KobjThere, WorkInQueue, FilesKeepModule,
         UsersHaveTheirObjects, Unloading
<1> QED BY <1>1, Inductive, PTL

-------------------------------------------------------------------------------
\* A driver whose calls all did their work stays whole until it is gone, and only
\* the timer's step between the two calls that end queue and timer, or the work
\* that this step queued, can bring the kernel down; for any number of loads and
\* files (sensor.c:208-221, 265-301).
THEOREM WholeDriverIsSafe == Spec => WholeIsSafe
<1>1. ASSUME IInv, Next, Whole, oops = "none"
      PROVE  \/ oops' = "none" /\ (Whole' \/ module' = "unloaded")
             \/ oops' = "timer" /\ module = "cancel"
             \/ oops' = "work" /\ late
  <2>1. /\ InOrder /\ WorkInQueue /\ FilesKeepModule /\ KobjThere
        /\ module \in {"loaded", "drain"} \cup {"cancel", "put", "release"}
        /\ {"client", "driver", "cdev", "device", "class", "region"} \subseteq held
    BY <1>1 DEF IInv, Whole, Resources
  <2>2. ~LoadNext
    BY <2>1 DEF LoadNext, Load, CreateClass, CreateDevice, AddCdev, MakeClient,
       AddDriverFails, Calibrate, AddKobj, AddKobjFails, StartTimer, CreateQueue, LoadStep,
       LoadFails
  <2>3. CASE UnloadNext
    BY <1>1, <2>1, <2>3 DEF UnloadNext, Unload, DestroyQueue, CancelTimer, PutKobj, Release,
       UnloadStep, Runs, Whole, Resources
  <2>4. CASE UNCHANGED <<module, held>> /\ oops' = "none"
    BY <1>1, <2>4 DEF Whole
  <2>5. CASE TimerFires
    BY <1>1, <2>1, <2>4, <2>5 DEF TimerFires, Runs, Whole, Resources
  <2>6. CASE WorkStarts \/ Measures
    BY <1>1, <2>1, <2>4, <2>6 DEF WorkStarts, Measures, WorkRuns, Runs, Whole, Resources,
       WorkInQueue
  <2>7. CASE Open \/ Read \/ Close \/ Store
    BY <1>1, <2>1, <2>4, <2>7 DEF Open, Read, Close, Store, FileFrame, Runs
  <2>8. QED
    BY <1>1, <2>2, <2>3, <2>5, <2>6, <2>7 DEF Next
<1>2. IInv /\ [Next]_vars =>
        [Whole /\ oops = "none" =>
           \/ oops' = "none" /\ (Whole' \/ module' = "unloaded")
           \/ oops' = "timer" /\ module = "cancel"
           \/ oops' = "work" /\ late]_vars
  BY <1>1
<1> QED BY <1>2, Inductive, PTL DEF Spec, WholeIsSafe

-------------------------------------------------------------------------------
\* What a step does to a module that stays loaded, as far as the measurement
\* goes: work stays in the queue until the worker takes it, runs until it has
\* measured, and only an expiry queues it.
LEMMA LoadedGoesOn ==
  ASSUME Flags, Flags', [Next]_vars,
         module = "loaded", oops = "none", module' = "loaded", oops' = "none"
  PROVE  /\ notify = "stored" => notify' \in {"stored", "measured"}
         /\ running => running' \/ notify' = "measured"
         /\ queued => queued' \/ running'
         /\ ~queued /\ ~running => ~running'
         /\ <<TimerFires>>_vars => queued'
         /\ WorkStarts \/ Measures => IF running THEN notify' = "measured" ELSE running'
<1>1. CASE LoadNext \/ UnloadNext
  BY <1>1 DEF LoadNext, UnloadNext, Load, CreateClass, CreateDevice, AddCdev, MakeClient,
     AddDriverFails, Calibrate, AddKobj, AddKobjFails, StartTimer, CreateQueue, LoadStep,
     LoadFails, Unload, DestroyQueue, CancelTimer, PutKobj, Release, UnloadStep
<1>2. CASE UNCHANGED vars
  BY <1>2 DEF Flags, vars, work, WorkStarts, Measures
<1>3. CASE TimerFires /\ ~UNCHANGED vars
  <2>1. /\ IF pending THEN queued' = queued /\ late' = late ELSE queued' = TRUE /\ late' = late
        /\ UNCHANGED <<module, held, toy_kobj, failed, loads, running, opens, notify>>
        /\ pending' = TRUE
    BY <1>3 DEF TimerFires, files, Runs
  <2>2. queued'
    BY <1>3, <2>1 DEF vars, Flags
  <2>3. ~WorkStarts /\ ~Measures
    BY <2>1, <2>2 DEF WorkStarts, Measures
  <2>4. QED
    BY <2>1, <2>2, <2>3
<1>4. CASE WorkStarts
  BY <1>4 DEF Flags, WorkStarts, TimerFires, files
<1>5. CASE Measures
  BY <1>5 DEF Flags, Measures, TimerFires, WorkStarts, files
<1>6. CASE Open \/ Read \/ Close \/ Store
  <2>1. UNCHANGED <<pending, queued, running>> /\ notify' \in {notify, "stored"}
    BY <1>6 DEF Open, Read, Close, Store, FileFrame, work
  <2>2. ~WorkStarts /\ ~Measures
    BY <2>1 DEF WorkStarts, Measures
  <2>3. QED
    BY <1>6, <2>1, <2>2 DEF TimerFires, files, vars, Open, Read, Close, Store, FileFrame
<1>7. QED
  BY <1>1, <1>2, <1>3, <1>4, <1>5, <1>6 DEF Next

\* While the module stays loaded a stored value is measured over, for any number
\* of loads and files: an expiry queues the work, the worker takes it and ends
\* it, and nothing takes either back (sensor.c:174-194, 265-277).
THEOREM StoredIsMeasured == Spec /\ []MeasurementToCome => MeasuredAgain
<1> DEFINE P == Flags /\ module = "loaded" /\ notify = "stored" /\ oops = "none"
           S0 == P /\ ~queued /\ ~running
           S1 == P /\ queued /\ ~running
           S2 == P /\ running
           G == notify = "measured" \/ module # "loaded" \/ oops # "none"
           CanFire == S0 => ENABLED <<TimerFires>>_vars
           CanWork == S1 \/ S2 => ENABLED <<WorkStarts \/ Measures>>_vars
<1>1. S0 /\ [Next]_vars => (S0' \/ S1' \/ G') /\ (<<TimerFires>>_vars => S1' \/ G')
  BY LoadedGoesOn, StepFlags
<1>2. S1 /\ [Next]_vars => (S1' \/ S2' \/ G') /\ (<<WorkStarts \/ Measures>>_vars => S2' \/ G')
  BY LoadedGoesOn, StepFlags
<1>3. S2 /\ [Next]_vars => (S2' \/ G') /\ (<<WorkStarts \/ Measures>>_vars => G')
  BY LoadedGoesOn, StepFlags
<1>4. MeasurementToCome => CanFire /\ CanWork
  BY DEF MeasurementToCome
<1>5. Flags /\ module = "loaded" /\ notify = "stored" => S0 \/ S1 \/ S2 \/ G
  OBVIOUS
<1>6. Spec => /\ [][Next]_vars /\ []Flags
              /\ WF_vars(TimerFires) /\ WF_vars(WorkStarts \/ Measures)
  BY FlagsAreBoolean, PTL DEF Spec
<1> HIDE DEF P, S0, S1, S2, G
<1>7. Spec /\ []MeasurementToCome => (S2 ~> G)
  BY <1>3, <1>4, <1>6, PTL DEF CanWork
<1>8. Spec /\ []MeasurementToCome => (S1 ~> S2 \/ G)
  BY <1>2, <1>4, <1>6, PTL DEF CanWork
<1>9. Spec /\ []MeasurementToCome => (S0 ~> S1 \/ G)
  BY <1>1, <1>4, <1>6, PTL DEF CanFire
<1>10. QED
  BY <1>5, <1>6, <1>7, <1>8, <1>9, PTL DEF MeasuredAgain, G
===============================================================================
