----------------------------- MODULE SensorDriver -----------------------------
(***************************************************************************)
(* The life of the kernel module of drivers/sensor/sensor.c: loading it    *)
(* with every call that may fail, the high-resolution timer that queues    *)
(* the measurement, the work that measures, the character device and the   *)
(* sysfs attributes, and unloading it.                                     *)
(*                                                                         *)
(* What the kernel does after an oops is not modelled: the model stops.    *)
(* Readings are abstracted to where they come from.  The kernel's calls    *)
(* do what those of the versions do that have default_attrs and a          *)
(* class_create with an owner.                                             *)
(***************************************************************************)
EXTENDS Integers

CONSTANTS
  MaxLoads,  \* bound: times the module is loaded
  MaxOpens   \* bound: open files of the device

ASSUME DriverAssumption == MaxLoads \in Nat /\ MaxOpens \in Nat

Resources == {"region", "class", "device", "cdev", "client", "driver", "kobj",
              "timer", "queue"}

Loading == {"class", "device", "cdev", "client", "calibrate", "kobj", "timer",
            "queue"}
Unloading == {"drain", "cancel", "put", "release"}

VARIABLES
  module,    \* what k_module_init or k_module_exit does next
  held,      \* what is registered, made or started
  toy_kobj,  \* the pointer is set
  failed,    \* the last load returned -1
  loads,     \* loads so far
  opens,     \* open files
  pending,   \* the work's pending bit
  queued,    \* the work is in the queue
  running,   \* workqueue_fn runs
  late,      \* the timer queued the work after its queue was destroyed
  notify,    \* where the value of the attribute comes from
  oops       \* who made the kernel stop

vars == <<module, held, toy_kobj, failed, loads, opens, pending, queued,
          running, late, notify, oops>>
work == <<pending, queued, running, late>>
files == <<opens, notify>>

\* Runs(who, bad): the kernel is up, and bad says that who brings it down.
Runs(who, bad) == oops = "none" /\ oops' = IF bad THEN who ELSE "none"

Init ==
  /\ module = "unloaded" /\ held = {} /\ toy_kobj = FALSE /\ failed = FALSE
  /\ loads = 0 /\ opens = 0 /\ notify = "unset" /\ oops = "none"
  /\ pending = FALSE /\ queued = FALSE /\ running = FALSE /\ late = FALSE

-------------------------------------------------------------------------------
(* k_module_init *)

\* A step of the load that leads from one place to the next, and gains what is
\* in one of the sets.
LoadStep(at, next, gains) ==
  /\ Runs("load", FALSE)
  /\ module = at /\ module' = next
  /\ \E g \in gains : held' = held \cup g
  /\ UNCHANGED <<failed, loads, opens, work, notify>>

\* Variables of the module are new with every load.  It is not loaded on top of
\* what a failed load, or work of an unloaded module, left behind.
Load ==
  /\ Runs("load", FALSE)
  /\ module = "unloaded" /\ held = {} /\ opens = 0 /\ loads < MaxLoads
  /\ ~queued /\ ~running
  /\ loads' = loads + 1 /\ toy_kobj' = FALSE /\ notify' = "unset"
  /\ pending' = FALSE /\ UNCHANGED <<queued, running>> /\ late' = FALSE
  /\ \/ module' = "class" /\ held' = {"region"} /\ failed' = FALSE
     \/ UNCHANGED <<module, held>> /\ failed' = TRUE
  /\ UNCHANGED opens

\* class_create and device_create answer with error pointers, never with NULL,
\* and device_create takes one for a class: the load goes on without.
CreateClass == LoadStep("class", "device", {{}, {"class"}}) /\ UNCHANGED toy_kobj

CreateDevice ==
  /\ LoadStep("device", "cdev", {{}} \cup {{"device"} : c \in held \cap {"class"}})
  /\ UNCHANGED toy_kobj

\* The errors of cdev_add are none of them -1.
AddCdev == LoadStep("cdev", "client", {{}, {"cdev"}}) /\ UNCHANGED toy_kobj

\* reg_error: device_destroy looks into the class, error pointer or not.
LoadFails ==
  /\ Runs("load", "class" \notin held)
  /\ module' = "unloaded" /\ failed' = TRUE
  /\ UNCHANGED <<loads, opens, work, notify>>

RegErrorReleases == {"region", "class", "device"}

\* No adapter; a client that cannot be made is an error pointer, so the driver
\* is added for it as well.
MakeClient ==
  LoadStep("client", "calibrate", {{}, {"driver"}, {"client", "driver"}})
    /\ UNCHANGED toy_kobj

AddDriverFails ==
  /\ module = "client" /\ LoadFails
  /\ held' \in {(held \cup g) \ RegErrorReleases : g \in {{}, {"client"}}}
  /\ UNCHANGED toy_kobj

\* The identification is read and printed only, and no answer is looked at.
Calibrate ==
  /\ Runs("load", "client" \notin held)
  /\ module = "calibrate" /\ module' = "kobj"
  /\ UNCHANGED <<held, toy_kobj, failed, loads, opens, work, notify>>

\* Without memory the load goes on.
AddKobj ==
  \/ LoadStep("kobj", "timer", {{"kobj"}}) /\ toy_kobj' = TRUE
  \/ LoadStep("kobj", "timer", {{}}) /\ UNCHANGED toy_kobj

AddKobjFails ==
  /\ module = "kobj" /\ LoadFails
  /\ held' = held \ RegErrorReleases
  /\ UNCHANGED toy_kobj

StartTimer == LoadStep("timer", "queue", {{"timer"}}) /\ UNCHANGED toy_kobj

CreateQueue == LoadStep("queue", "loaded", {{}, {"queue"}}) /\ UNCHANGED toy_kobj

-------------------------------------------------------------------------------
(* k_module_exit *)

UnloadStep(at, next, bad, gone) ==
  /\ Runs("unload", bad)
  /\ module = at /\ module' = next
  /\ held' = held \ gone
  /\ UNCHANGED <<toy_kobj, failed, loads, files, work>>

\* Mutant: the object behind the attributes is freed first.
KobjFreedFirst ==
  /\ opens = 0
  /\ UnloadStep("loaded", "drain", "queue" \notin held, {"kobj"})

\* Mutant: the file operations have no owner, and open files do not keep the
\* module.
UnloadWhileOpen == UnloadStep("loaded", "drain", "queue" \notin held, {})

\* destroy_workqueue begins to drain.  An open file holds a reference.
Unload ==
  /\ opens = 0
  /\ UnloadStep("loaded", "drain", "queue" \notin held, {})

\* Mutant: the queue goes without its work being waited for.
DestroyQueueUndrained == UnloadStep("drain", "cancel", FALSE, {"queue"})

DestroyQueue ==
  /\ ~queued /\ ~running
  /\ UnloadStep("drain", "cancel", FALSE, {"queue"})

\* Mutant: the timer is left to itself.
TimerNotCancelled == UnloadStep("cancel", "put", FALSE, {})

CancelTimer == UnloadStep("cancel", "put", FALSE, {"timer"})

PutKobj == UnloadStep("put", "release", FALSE, {"kobj"})

Release ==
  UnloadStep("release", "unloaded", "class" \notin held,
             {"client", "driver", "cdev", "device", "class", "region"})

-------------------------------------------------------------------------------
(* Timer, work, files, attributes. *)

\* Mutant: HRTIMER_NORESTART.
TimerFiresOnce ==
  /\ "timer" \in held /\ "queue" \in held /\ module # "drain"
  /\ Runs("timer", FALSE)
  /\ pending' = TRUE /\ queued' = TRUE /\ held' = held \ {"timer"}
  /\ UNCHANGED <<module, toy_kobj, failed, loads, running, late, files>>

\* sensor_timer_callback restarts itself.  Work that is pending is not looked at
\* any further; a queue that is being drained drops new work, which stays
\* pending; no queue at all is NULL.  A destroyed queue is memory that is freed
\* by and by: it may still take the work, drop it, or be anything by now.
TimerFires ==
  /\ "timer" \in held
  /\ pending' = TRUE
  /\ \/ pending /\ Runs("timer", FALSE) /\ UNCHANGED <<queued, late>>
     \/ /\ ~pending /\ "queue" \in held /\ Runs("timer", FALSE)
        /\ queued' = (module # "drain") /\ UNCHANGED late
     \/ ~pending /\ "queue" \notin held /\ Runs("timer", TRUE) /\ UNCHANGED <<queued, late>>
     \/ /\ ~pending /\ module = "cancel" /\ Runs("timer", FALSE)
        /\ queued' \in BOOLEAN /\ late' = (late \/ queued')
  /\ UNCHANGED <<module, held, toy_kobj, failed, loads, running, files>>

\* Work that its queue did not live to see: the worker, the function and what
\* it uses may be gone or not.
WorkRuns(bad) ==
  \/ ~late /\ Runs("work", bad)
  \/ late /\ \E b \in BOOLEAN : Runs("work", b)

\* Mutant: the pending bit stays set, and no expiry queues the work again.
WorkStartsPending ==
  /\ WorkRuns(FALSE)
  /\ queued /\ ~running
  /\ queued' = FALSE /\ running' = TRUE
  /\ UNCHANGED <<module, held, toy_kobj, failed, loads, pending, late, files>>

\* The pending bit is cleared before the function is called.
WorkStarts ==
  /\ WorkRuns(FALSE)
  /\ queued /\ ~running
  /\ pending' = FALSE /\ queued' = FALSE /\ running' = TRUE
  /\ UNCHANGED <<module, held, toy_kobj, failed, loads, late, files>>

\* workqueue_fn
Measures ==
  /\ WorkRuns(~({"client", "kobj"} \subseteq held))
  /\ running /\ running' = FALSE /\ notify' = "measured"
  /\ UNCHANGED <<module, held, toy_kobj, failed, loads, opens, pending, queued, late>>

FileFrame == UNCHANGED <<module, held, toy_kobj, failed, loads, work, notify>>

\* The device can be opened as soon as it was added, with the load still going on.  What a
\* failed load leaves of it lies in memory that is gone.
Open ==
  /\ "cdev" \in held /\ module \notin Unloading /\ opens < MaxOpens
  /\ Runs("file", module = "unloaded")
  /\ opens' = opens + 1
  /\ FileFrame

Read ==
  /\ opens > 0
  /\ Runs("file", module = "unloaded" \/ "client" \notin held)
  /\ UNCHANGED opens /\ FileFrame

Close ==
  /\ opens > 0
  /\ Runs("file", module = "unloaded")
  /\ opens' = opens - 1
  /\ FileFrame

\* store of the notify attribute.
Store ==
  /\ Runs("store", FALSE) /\ "kobj" \in held
  /\ notify' = "stored"
  /\ UNCHANGED <<module, held, toy_kobj, failed, loads, opens, work>>

-------------------------------------------------------------------------------
LoadNext ==
  \/ Load \/ CreateClass \/ CreateDevice \/ AddCdev \/ MakeClient \/ AddDriverFails
  \/ Calibrate \/ AddKobj \/ AddKobjFails \/ StartTimer \/ CreateQueue

UnloadNext == Unload \/ DestroyQueue \/ CancelTimer \/ PutKobj \/ Release

Next ==
  \/ LoadNext \/ UnloadNext
  \/ TimerFires \/ WorkStarts \/ Measures
  \/ Open \/ Read \/ Close \/ Store

\* A started timer expires, and the queue's worker runs.
Spec == Init /\ [][Next]_vars /\ WF_vars(TimerFires) /\ WF_vars(WorkStarts \/ Measures)

-------------------------------------------------------------------------------
(* Properties *)

TypeOK ==
  /\ module \in Loading \cup Unloading \cup {"unloaded", "loaded"}
  /\ held \subseteq Resources
  /\ loads \in 0..MaxLoads /\ opens \in 0..MaxOpens
  /\ {toy_kobj, failed, pending, queued, running, late} \subseteq BOOLEAN
  /\ notify \in {"unset", "stored", "measured"}
  /\ oops \in {"none", "load", "unload", "timer", "work", "file"}

\* Whatever failed while it was loaded, and whatever the timer did meanwhile, a
\* module that was unloaded leaves nothing behind.  A load that returned -1 leaves
\* what reg_error forgets, the character device, the client and the driver, but no
\* timer, queue or object into memory that is gone (sensor.c:270-276, 279-301).
ExitLeavesNothing ==
  module = "unloaded" /\ oops = "none" =>
    held \subseteq (IF failed THEN {"cdev", "client", "driver"} ELSE {})

\* The measurement, queued or running, and, once the module is loaded, the files
\* have the client and the object they use, however unloading interleaves with
\* them: the queue is drained before anything goes and files keep the module.
\* The one way for work to outlive them, and the module, is an expiry after the
\* queue was destroyed and before the timer was cancelled (sensor.c:109,
\* 174-191, 283-295).
UsersHaveTheirObjects ==
  oops = "none" =>
    /\ (queued \/ running) /\ ~late => "client" \in held /\ (toy_kobj => "kobj" \in held)
    /\ opens > 0 /\ module \in Unloading \cup {"loaded"} => "client" \in held
    /\ opens > 0 => module \notin Unloading

\* Everything was made, and is there up to what unloading has given back.
Whole ==
  \/ module \in {"loaded", "drain"} /\ held = Resources
  \/ module = "cancel" /\ held = Resources \ {"queue"}
  \/ module = "put" /\ held = Resources \ {"queue", "timer"}
  \/ module = "release" /\ held = Resources \ {"queue", "timer", "kobj"}

\* When every call of the load did its work, those whose failure goes unnoticed
\* too, nothing that files, work, timer and attributes do brings the kernel down
\* from the end of the load to the end of the unloading, but for the timer's
\* expiry between destroy_workqueue and hrtimer_cancel: it may itself, or the
\* work it queued there does, at any later point (sensor.c:208-221, 265-301).
WholeIsSafe ==
  [][Whole /\ oops = "none" =>
       \/ oops' = "none" /\ (Whole' \/ module' = "unloaded")
       \/ oops' = "timer" /\ module = "cancel"
       \/ oops' = "work" /\ late]_vars

\* As long as the module is loaded the next measurement is on its way: its work is
\* queued or running and the worker can go on, or the timer runs and its expiry
\* queues the work.  The pending bit is never left set without work in the
\* queue, which no expiry would get over (sensor.c:174-194, 265-277).
MeasurementToCome ==
  module = "loaded" /\ oops = "none" =>
    IF queued \/ running THEN ENABLED <<WorkStarts \/ Measures>>_vars
                         ELSE ENABLED <<TimerFires>>_vars

\* A value stored into the notify attribute gives way to a measurement while
\* the module stays loaded (sensor.c:184, 188-194).
MeasuredAgain ==
  module = "loaded" /\ notify = "stored"
    ~> notify = "measured" \/ module # "loaded" \/ oops # "none"
===============================================================================
