-------------------------------- MODULE ToyIpc --------------------------------
(***************************************************************************)
(* How the input process feeds the system server: the sensor thread and    *)
(* the command thread of ui/input.c, the monitor, camera and engine        *)
(* threads of system/system_server.c, the bounded message queues main.c    *)
(* creates between them, and the System V segment that holds the sensor    *)
(* sample (shared_memory.c).                                               *)
(*                                                                         *)
(* A queue outlives its readers: nothing restarts a process that died, and *)
(* a send to a full queue blocks.                                          *)
(***************************************************************************)
EXTENDS Integers, Sequences

CONSTANTS QueueSize,       \* NUM_MESSAGES
          HasCameraModule, \* hw_get_camera_module finds the library
          MayRunRealTime   \* sched_setscheduler and setaffinity are allowed

ASSUME QueueAssumption == QueueSize \in Nat \ {0}
ASSUME PlatformAssumption == HasCameraModule \in BOOLEAN /\ MayRunRealTime \in BOOLEAN

SampleFields == 3  \* temp, press, humidity
Fields == 1..SampleFields
CameraTypes == {"take picture", "dump", "unknown"}
MonitorTypes == {"sensor data", "dump"}

VARIABLES
  shm,       \* toy_shm_create: mapped, no segment, or segment but no mapping
  ahead,     \* of each field: how often it was stored, less the messages about
             \* a sample that the monitor has taken
  sensor,    \* sensor_thread: sleeping, filling, or in mq_send
  field,     \* fields it has written of the current sample
  command,   \* command_thread: what it is doing or sending
  monitorQ,  \* /monitor_queue
  cameraQ,   \* /camera_queue
  monitor,   \* monitor_thread
  printed,   \* fields it has printed of the current sample
  camera,    \* camera_service_thread
  engine,    \* engine_thread
  inputUp,   \* the input process
  serverUp   \* the system server

inputVars  == <<shm, sensor, field, command, inputUp>>
serverVars == <<monitor, printed, camera, engine, serverUp>>
vars == <<inputVars, ahead, monitorQ, cameraQ, serverVars>>

Sending == {"send picture", "send dump", "send unknown", "dump camera",
            "dump monitor"}

\* Commands that reach another thread, or never come back to the prompt.
Commands == {"send picture", "send dump", "send unknown", "dump camera", "busy",
             "ended"}

\* What toy_shm_create leaves: shmget may fail, then shmat.
Created == {"mapped", "no segment", "no mapping"}

Init ==
  /\ shm \in Created
  /\ ahead = [f \in Fields |-> 0]
  /\ sensor = "sleeping" /\ field = 0
  /\ command = "prompt"
  /\ monitorQ = <<>> /\ cameraQ = <<>>
  /\ monitor = "waiting" /\ printed = 0
  /\ camera = "starting" /\ engine = "starting"
  /\ inputUp = TRUE /\ serverUp = TRUE

HasRoom(q) == Len(q) < QueueSize

-------------------------------------------------------------------------------
(* The sensor thread. *)

SensorFrame == UNCHANGED <<shm, command, inputUp, cameraQ, serverVars>>

SensorWakes ==
  /\ inputUp /\ sensor = "sleeping"
  /\ sensor' = IF shm = "mapped" THEN "filling" ELSE "sending"
  /\ field' = 0
  /\ UNCHANGED <<ahead, monitorQ>> /\ SensorFrame

\* Mutant: the message is sent before the sample is complete.
FillFieldSendingEarly ==
  /\ inputUp /\ sensor = "filling"
  /\ field' = field + 1
  /\ ahead' = [ahead EXCEPT ![field + 1] = @ + 1]
  /\ sensor' = "sending"
  /\ UNCHANGED monitorQ /\ SensorFrame

FillField ==
  /\ inputUp /\ sensor = "filling"
  /\ field' = field + 1
  /\ ahead' = [ahead EXCEPT ![field + 1] = @ + 1]
  /\ sensor' = IF field' = SampleFields THEN "sending" ELSE "filling"
  /\ UNCHANGED monitorQ /\ SensorFrame

\* Mutant: when the queue is full the sample is skipped.
SensorSendsOrSkips ==
  /\ inputUp /\ sensor = "sending"
  /\ monitorQ' = IF HasRoom(monitorQ) THEN Append(monitorQ, "sensor data")
                                      ELSE monitorQ
  /\ sensor' = "sleeping"
  /\ UNCHANGED <<ahead, field>> /\ SensorFrame

SensorSends ==
  /\ inputUp /\ sensor = "sending" /\ HasRoom(monitorQ)
  /\ monitorQ' = Append(monitorQ, "sensor data")
  /\ sensor' = "sleeping"
  /\ UNCHANGED <<ahead, field>> /\ SensorFrame

-------------------------------------------------------------------------------
(* The command thread: toy_loop and the commands that concern other threads. *)

CommandFrame == UNCHANGED <<shm, ahead, sensor, field, serverVars>>

\* "mq camera n", "dump", "busy" (an endless loop, like a "sh" that lost its
\* shell, see ProcessTree) or "exit" (the thread ends, the process goes on).
\* Any other command is back at the prompt.
ReadCommand(next) ==
  /\ inputUp /\ command = "prompt"
  /\ next \in Commands
  /\ command' = next
  /\ UNCHANGED <<inputUp, monitorQ, cameraQ>> /\ CommandFrame

\* The process ends, sensor thread and all.
InputEnds ==
  /\ inputUp /\ command = "prompt"
  /\ inputUp' = FALSE
  /\ UNCHANGED <<command, monitorQ, cameraQ>> /\ CommandFrame

\* getline fails at the end of stdin, and toy_read_line exits.
EndOfInput == InputEnds

\* The seccomp filter input() loads denies mincore: the command's assert fails.
Mincore == InputEnds

SendToCamera(type) ==
  /\ inputUp /\ HasRoom(cameraQ)
  /\ cameraQ' = Append(cameraQ, type)
  /\ UNCHANGED <<inputUp, monitorQ>> /\ CommandFrame

\* toy_message_queue.
MqCamera ==
  \/ /\ command = "send picture" /\ SendToCamera("take picture")
     /\ command' = "prompt"
  \/ /\ command = "send dump" /\ SendToCamera("dump")
     /\ command' = "prompt"
  \/ /\ command = "send unknown" /\ SendToCamera("unknown")
     /\ command' = "prompt"

\* toy_dump_state: the camera first, then the monitor.
DumpCamera ==
  /\ command = "dump camera" /\ SendToCamera("dump")
  /\ command' = "dump monitor"

DumpMonitor ==
  /\ inputUp /\ command = "dump monitor" /\ HasRoom(monitorQ)
  /\ monitorQ' = Append(monitorQ, "dump")
  /\ command' = "prompt"
  /\ UNCHANGED <<inputUp, cameraQ>> /\ CommandFrame

-------------------------------------------------------------------------------
(* The system server. *)

ServerFrame == UNCHANGED <<inputVars, ahead>>

\* The process ends, and its threads with it: where they were is forgotten.
ServerEnds ==
  /\ serverUp /\ serverUp' = FALSE
  /\ monitor' = "waiting" /\ printed' = 0
  /\ camera' = "starting" /\ engine' = "starting"

MonitorReceives(type) ==
  /\ serverUp /\ monitor = "waiting"
  /\ monitorQ # <<>> /\ Head(monitorQ) = type
  /\ monitorQ' = Tail(monitorQ)
  /\ UNCHANGED <<cameraQ, inputVars>>

ReceivesSample ==
  /\ MonitorReceives("sensor data")
  /\ ahead' = IF shm = "mapped" THEN [f \in Fields |-> ahead[f] - 1] ELSE ahead

\* The monitor makes a mapping of its own of the segment the message names.
MonitorReceivesSample ==
  /\ ReceivesSample /\ shm # "no segment"
  /\ monitor' = "printing" /\ printed' = 0
  /\ UNCHANGED <<camera, engine, serverUp>>

\* toy_shm_attach answers -1, which the monitor dereferences: the id was -1, as
\* there is no segment, or shmat fails.
AttachFails == ReceivesSample /\ ServerEnds

PrintField ==
  /\ serverUp /\ monitor = "printing"
  /\ printed' = printed + 1
  /\ monitor' = IF printed' = SampleFields THEN "waiting" ELSE "printing"
  /\ UNCHANGED <<monitorQ, cameraQ, camera, engine, serverUp>> /\ ServerFrame

MonitorReceivesDump ==
  /\ MonitorReceives("dump")
  /\ monitor' = "dumping"
  /\ UNCHANGED <<printed, ahead, camera, engine, serverUp>>

\* Mutant: the monitor thread returns after a dump.
DumpStateReturnsThread ==
  /\ serverUp /\ monitor = "dumping"
  /\ monitor' = "ended"
  /\ UNCHANGED <<monitorQ, cameraQ, printed, camera, engine, serverUp>>
  /\ ServerFrame

\* dumpstate() returns.
DumpState ==
  /\ serverUp /\ monitor = "dumping"
  /\ monitor' = "waiting"
  /\ UNCHANGED <<monitorQ, cameraQ, printed, camera, engine, serverUp>>
  /\ ServerFrame

\* The camera thread asserts that it found its module.
CameraStarts ==
  /\ serverUp /\ camera = "starting"
  /\ IF HasCameraModule
       THEN camera' = "waiting" /\ UNCHANGED <<monitor, printed, engine, serverUp>>
       ELSE ServerEnds
  /\ UNCHANGED <<monitorQ, cameraQ>> /\ ServerFrame

CameraReceives ==
  /\ serverUp /\ camera = "waiting" /\ cameraQ # <<>>
  /\ cameraQ' = Tail(cameraQ)
  /\ camera' = Head(cameraQ)
  /\ UNCHANGED <<monitorQ, monitor, printed, engine, serverUp>> /\ ServerFrame

\* take_picture, dump, or the message for an unknown type.
CameraHandles ==
  /\ serverUp /\ camera \in CameraTypes
  /\ camera' = "waiting"
  /\ UNCHANGED <<monitorQ, cameraQ, monitor, printed, engine, serverUp>>
  /\ ServerFrame

\* A thread that may not become real-time ends the process with exit().
EngineStarts ==
  /\ serverUp /\ engine = "starting"
  /\ IF MayRunRealTime
       THEN engine' = "running" /\ UNCHANGED <<monitor, printed, camera, serverUp>>
       ELSE ServerEnds
  /\ UNCHANGED <<monitorQ, cameraQ>> /\ ServerFrame

\* The alarm of SystemTimer finds a thread in mq_receive (that of the watchdog,
\* to which nobody sends, is always there), and an assert aborts the process.
AlarmInReceive == ServerEnds /\ UNCHANGED <<monitorQ, cameraQ>> /\ ServerFrame

-------------------------------------------------------------------------------
SensorThread == SensorWakes \/ FillField \/ SensorSends

CommandThread == MqCamera \/ DumpCamera \/ DumpMonitor

MonitorThread == MonitorReceivesSample \/ AttachFails \/ PrintField
                   \/ MonitorReceivesDump \/ DumpState

CameraThread == CameraStarts \/ CameraReceives \/ CameraHandles

Next ==
  \/ SensorThread \/ CommandThread \/ MonitorThread \/ CameraThread
  \/ EngineStarts \/ AlarmInReceive \/ EndOfInput \/ Mincore
  \/ \E next \in Commands : ReadCommand(next)

Spec == Init /\ [][Next]_vars

\* Threads run when they can; a blocked mq_send is served in its turn when the
\* queue has room again, so the senders are strongly fair.  Commands come from
\* a person, who may type none.
Fairness ==
  /\ SF_vars(SensorThread) /\ SF_vars(CommandThread)
  /\ WF_vars(MonitorThread) /\ WF_vars(CameraThread) /\ WF_vars(EngineStarts)

FairSpec == Spec /\ Fairness

-------------------------------------------------------------------------------
(* Properties *)

TypeOK ==
  /\ shm \in Created
  /\ ahead \in [Fields -> Int] /\ field \in 0..SampleFields
  /\ sensor \in {"sleeping", "filling", "sending"}
  /\ command \in Sending \cup {"prompt", "busy", "ended"}
  /\ monitorQ \in Seq(MonitorTypes) /\ Len(monitorQ) <= QueueSize
  /\ cameraQ \in Seq(CameraTypes) /\ Len(cameraQ) <= QueueSize
  /\ monitor \in {"waiting", "printing", "dumping"}
  /\ printed \in 0..SampleFields
  /\ camera \in CameraTypes \cup {"starting", "waiting"}
  /\ engine \in {"starting", "running"}
  /\ inputUp \in BOOLEAN /\ serverUp \in BOOLEAN

\* The segment is shared without a lock, and what the monitor prints may be
\* put together from several samples.  But no field is older than the sample
\* whose message made it look, as that is sent after the last store; and none
\* is more than QueueSize + 1 samples newer, as a sensor thread that got further
\* ahead would be blocked in mq_send (input.c:121-129, system_server.c:185-192).
PrintedIsAnnounced ==
  shm = "mapped" /\ monitor = "printing" =>
    \A f \in Fields : ahead[f] \in 0..QueueSize + 1

\* When a thread in mq_send or mq_receive, or about to take a step, can go on.
SensorCanRun == inputUp /\ (sensor = "sending" => HasRoom(monitorQ))
CommandCanRun ==
  /\ inputUp /\ command \in Sending
  /\ HasRoom(IF command = "dump monitor" THEN monitorQ ELSE cameraQ)
MonitorCanRun == serverUp /\ (monitor = "waiting" => monitorQ # <<>>)
CameraCanRun == serverUp /\ (camera = "waiting" => cameraQ # <<>>)

\* What the liveness theorems assume of the threads: these guards are those of
\* their steps.  It holds by the definitions.  Nothing but the end of its
\* process, a full queue it sends to, or an empty one it receives from holds a
\* thread up (input.c:115-131, 198-216, 259-274, system_server.c:167-202, 289-331).
BlockedOnlyByQueues ==
  /\ SensorCanRun <=> ENABLED <<SensorThread>>_vars
  /\ CommandCanRun <=> ENABLED <<CommandThread>>_vars
  /\ MonitorCanRun <=> ENABLED <<MonitorThread>>_vars
  /\ CameraCanRun <=> ENABLED <<CameraThread>>_vars

\* While both processes live, a command that sends a message, "dump" with its
\* two messages included, gets back to the prompt (input.c:198-216, 259-274).
CommandsReturn ==
  command \in Sending ~> command = "prompt" \/ ~serverUp \/ ~inputUp

\* While both processes live the sensor thread keeps sampling.
SensorKeepsSampling ==
  []<>(sensor = "sleeping") \/ <>(~serverUp) \/ <>(~inputUp)

\* Once the system server is gone the sensor thread stops for good: nobody
\* restarts the reader, the queue fills up and mq_send blocks (input.c:129).
OrphanedSensorStops ==
  <>(~serverUp) /\ []inputUp => <>[](sensor = "sending")
===============================================================================
