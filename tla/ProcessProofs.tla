----------------------------- MODULE ProcessProofs -----------------------------
(***************************************************************************)
(* Proofs about the processes of the C program: the timer and the          *)
(* descriptors of the system server (SystemTimer, SystemServer), and the   *)
(* tree of processes and the shell of "sh" (ProcessTree).  The first hold  *)
(* for any set of threads the alarm may reach, any number of alarms,       *)
(* descriptors, directories, processes and files, the second for any       *)
(* number of shells.                                                       *)
(***************************************************************************)
EXTENDS SystemServer, ProcessTree, FiniteSetTheorems, TLAPS

-------------------------------------------------------------------------------
(* The timer. *)

TimerInv == TypeOK /\ TicksConserved

LEMMA TimerInit == Init => TimerInv
<1> SUFFICES ASSUME Init PROVE TimerInv
  OBVIOUS
<1>1. delivered \in 0..MaxAlarms /\ sem \in Nat /\ timer \in Nat
  BY MaxAlarmsAssumption DEF Init
<1>2. TicksConserved
  BY DEF Init, TicksConserved, InFlight
<1>3. QED
  BY <1>1, <1>2 DEF Init, TimerInv, TypeOK

\* Wherever the alarm lands it adds one to the semaphore and takes nothing
\* from the timer thread: cutting its sleep short leaves the tick in flight.
LEMMA AlarmKeepsCount ==
  ASSUME TimerInv, Alarm
  PROVE  TimerInv'
<1>1. /\ delivered' = delivered + 1 /\ sem' = sem + 1 /\ timer' = timer
      /\ delivered < MaxAlarms /\ pending' = FALSE
  BY DEF Alarm, AlarmInMain, AlarmInTimer, AlarmInRead, AlarmUnnoticed,
         AlarmInReceive, HandlerRuns
<1>2. timerPc' \in {timerPc, "counting"}
      /\ (timerPc' = timerPc \/ timerPc = "sleeping")
  BY DEF Alarm, AlarmInMain, AlarmInTimer, AlarmInRead, AlarmUnnoticed,
         AlarmInReceive
<1>3. /\ up' \in BOOLEAN /\ disk' \in BOOLEAN /\ calling' \subseteq Loopers
      /\ mainPc' \in {"waiting", "testing", "left"}
  BY DEF Alarm, AlarmInMain, AlarmInTimer, AlarmInRead, AlarmUnnoticed,
         AlarmInReceive, TimerInv, TypeOK
<1>4. TypeOK'
  <2>1. delivered' \in 0..MaxAlarms /\ sem' \in Nat /\ timer' \in Nat
    BY <1>1, MaxAlarmsAssumption DEF TimerInv, TypeOK
  <2>2. timerPc' \in {"waiting", "sleeping", "counting"}
    BY <1>2 DEF TimerInv, TypeOK
  <2>3. pending' \in BOOLEAN
    BY <1>1
  <2>4. QED
    BY <1>3, <2>1, <2>2, <2>3 DEF TypeOK
<1>5. TicksConserved'
  BY <1>1, <1>2 DEF TimerInv, TypeOK, TicksConserved, InFlight
<1>6. QED
  BY <1>4, <1>5 DEF TimerInv

LEMMA TimerThreadKeepsCount ==
  ASSUME TimerInv, TimerThread
  PROVE  TimerInv'
<1> USE MaxAlarmsAssumption DEF TimerInv, TypeOK, TicksConserved, InFlight
<1>1. CASE TakePost
  BY <1>1 DEF TakePost
<1>2. CASE SleepEnds
  BY <1>2 DEF SleepEnds
<1>3. CASE Tick
  BY <1>3 DEF Tick
<1>4. QED
  BY <1>1, <1>2, <1>3 DEF TimerThread

LEMMA TimerStep == TimerInv /\ [Next]_vars => TimerInv'
<1> SUFFICES ASSUME TimerInv, [Next]_vars PROVE TimerInv'
  OBVIOUS
<1>1. CASE Alarm
  BY <1>1, AlarmKeepsCount
<1>2. CASE TimerThread
  BY <1>2, TimerThreadKeepsCount
<1>3. CASE Expire
  BY <1>3 DEF Expire, TimerInv, TypeOK, TicksConserved, InFlight
<1>4. CASE TestLoop
  BY <1>4 DEF TestLoop, TimerInv, TypeOK, TicksConserved, InFlight
<1>5. ASSUME NEW t \in Loopers, CallReturns(t) \/ CallAgain(t)
      PROVE  TimerInv'
  BY <1>5 DEF CallReturns, CallAgain, TimerInv, TypeOK, TicksConserved, InFlight
<1>6. CASE UNCHANGED vars
  BY <1>6 DEF vars, TimerInv, TypeOK, TicksConserved, InFlight
<1>7. QED
  BY <1>1, <1>2, <1>3, <1>4, <1>5, <1>6 DEF Next

\* The timer's state is always well formed; in particular the semaphore is
\* never taken below zero (system_server.c:124-137).
THEOREM TimerTypeCorrect == Spec => []TypeOK
<1>1. TimerInv => TypeOK
  BY DEF TimerInv
<1>2. QED
  BY <1>1, TimerInit, TimerStep, PTL DEF Spec

\* Alarms are neither lost nor counted twice, for any choice of the threads
\* they interrupt (system_server.c:52-72, 124-137).
THEOREM TicksAreConserved == Spec => []TicksConserved
<1>1. TimerInv => TicksConserved
  BY DEF TimerInv
<1>2. QED
  BY <1>1, TimerInit, TimerStep, PTL DEF Spec

\* What a step does to the timer thread: its own steps go once around, and an
\* alarm only cuts its sleep short.  Alarms are not taken back.
LEMMA TimerGoesOn ==
  ASSUME TimerInv, [Next]_vars
  PROVE  /\ delivered' >= delivered /\ (~up => ~up')
         /\ TimerThread =>
              /\ timerPc = "waiting" => timerPc' = "sleeping" /\ timer' = timer
              /\ timerPc = "sleeping" => timerPc' = "counting" /\ timer' = timer
              /\ timerPc = "counting" => timer' = timer + 1
         /\ ~TimerThread =>
              /\ timer' = timer
              /\ timerPc' \in {timerPc, "counting"}
              /\ timerPc' = timerPc \/ timerPc = "sleeping"
<1> USE DEF TimerInv, TypeOK
<1>1. CASE TimerThread
  BY <1>1 DEF TimerThread, TakePost, SleepEnds, Tick
<1>2. CASE ~TimerThread /\ Alarm
  BY <1>2 DEF Alarm, AlarmInMain, AlarmInTimer, AlarmInRead, AlarmUnnoticed,
     AlarmInReceive, HandlerRuns
<1>3. CASE ~TimerThread /\ ~Alarm
  BY <1>3 DEF Next, Expire, TestLoop, CallReturns, CallAgain, vars
<1>4. QED
  BY <1>1, <1>2, <1>3

\* For any threads the alarm may reach, and any number of alarms: an alarm that
\* was delivered becomes a tick, for its post stays in the semaphore until the
\* timer thread takes it, and the thread comes around however often its sleep is
\* cut short (system_server.c:52-72, 124-137).
THEOREM EveryAlarmTicks == FairSpec /\ []AlarmsHaveTheirThread => AlarmsAreCounted
<1> SUFFICES ASSUME NEW n \in 0..MaxAlarms
             PROVE  FairSpec /\ []AlarmsHaveTheirThread => IsCounted(n)
  BY DEF AlarmsAreCounted
<1> DEFINE P == TimerInv /\ up /\ timer = n /\ delivered > n
           W == P /\ timerPc = "waiting"
           S == P /\ timerPc = "sleeping"
           C == P /\ timerPc = "counting"
           G == timer > n \/ ~up
           Can == P => ENABLED <<TimerThread>>_vars
<1>1. P /\ [Next]_vars => P' \/ G'
  <2>1. SUFFICES ASSUME P, [Next]_vars PROVE P' \/ G'
    OBVIOUS
  <2>2. TimerInv' /\ delivered' >= delivered /\ timer' \in {timer, timer + 1}
    BY <2>1, TimerStep, TimerGoesOn DEF TimerInv, TypeOK
  <2>3. delivered' > n /\ (timer' = n \/ timer' > n) /\ up' \in BOOLEAN
    BY <2>1, <2>2 DEF TimerInv, TypeOK
  <2>4. QED
    BY <2>2, <2>3
<1>2. ASSUME P, [Next]_vars
      PROVE  /\ timerPc = "waiting" => (W' \/ S' \/ G') /\ (TimerThread => S' \/ G')
             /\ timerPc = "sleeping" => (S' \/ C' \/ G') /\ (TimerThread => C' \/ G')
  <2>1. TimerInv /\ (P' \/ G')
    BY <1>1, <1>2
  <2>2. CASE TimerThread
    BY <1>2, <2>1, <2>2, TimerGoesOn
  <2>3. CASE ~TimerThread
    BY <1>2, <2>1, <2>3, TimerGoesOn
  <2>4. QED
    BY <2>2, <2>3
<1>3. C /\ [Next]_vars => (C' \/ G') /\ (<<TimerThread>>_vars => G')
  BY <1>1, TimerGoesOn DEF TimerInv, TypeOK
<1>4. /\ W /\ [Next]_vars => (W' \/ S' \/ G') /\ (<<TimerThread>>_vars => S' \/ G')
      /\ S /\ [Next]_vars => (S' \/ C' \/ G') /\ (<<TimerThread>>_vars => C' \/ G')
  BY <1>2
<1>5. AlarmsHaveTheirThread => Can
  BY DEF AlarmsHaveTheirThread
<1>6. TimerInv /\ timer = n /\ delivered > n => W \/ S \/ C \/ G
  BY DEF TimerInv, TypeOK
<1>7. (W => P) /\ (S => P) /\ (C => P)
  OBVIOUS
<1>8. FairSpec => [][Next]_vars /\ []TimerInv /\ WF_vars(TimerThread)
  BY TimerInit, TimerStep, PTL DEF FairSpec, Spec, Fairness
<1> HIDE DEF P, W, S, C, G
<1>9. FairSpec /\ []AlarmsHaveTheirThread => (C ~> G)
  BY <1>3, <1>5, <1>7, <1>8, PTL DEF Can
<1>10. FairSpec /\ []AlarmsHaveTheirThread => (S ~> C \/ G)
  BY <1>4, <1>5, <1>7, <1>8, PTL DEF Can
<1>11. FairSpec /\ []AlarmsHaveTheirThread => (W ~> S \/ G)
  BY <1>4, <1>5, <1>7, <1>8, PTL DEF Can
<1>12. QED
  BY <1>6, <1>8, <1>9, <1>10, <1>11, PTL DEF IsCounted, G

-------------------------------------------------------------------------------
(* The system server with its descriptors. *)

LEMMA ServerStepsTimer == [ServerNext]_serverVars => [Next]_vars
<1> SUFFICES ASSUME [ServerNext]_serverVars PROVE [Next]_vars
  OBVIOUS
<1>1. {"disk", "monitor"} \subseteq Loopers
  BY DEF Loopers, QueueThreads
<1>2. CASE OtherThreads
  BY <1>2 DEF OtherThreads, Next
<1>3. CASE DiskEvent \/ ReadEventsAgain \/ DiskStep
  BY <1>1, <1>3 DEF DiskEvent, ReadEventsAgain, DiskStep, OpenDirectory,
     SkipDirectory, Next
<1>5. CASE SampleMessage \/ DumpMessage \/ ReceiveAgain
  BY <1>1, <1>5 DEF SampleMessage, DumpMessage, ReceiveAgain, Next
<1>6. CASE DumpStep
  BY <1>6 DEF DumpStep, OpenFile, FileMissing, CloseFile, OpenProc, ProcMissing,
     CloseProc, OpenTask, TaskMissing, CloseTask, DumpEnds
<1>7. CASE UNCHANGED serverVars
  BY <1>7 DEF serverVars
<1>8. QED
  BY <1>2, <1>3, <1>5, <1>6, <1>7 DEF ServerNext

\* While a dump is under way its thread is away from its queue.
AwayFromQueue == place # "none" => "monitor" \notin calling

ServerInv == ServerTypeOK /\ TicksConserved /\ AwayFromQueue /\ DescriptorsAccounted

\* The part of it that a step of the timer's own variables leaves alone.
DumpInv ==
  /\ open \in 0..Descriptors /\ leaked \in 0..Descriptors
  /\ walk \in 0..MaxDirs
  /\ place \in {"none", "before", "process", "threads", "closing", "after"}
  /\ procs \in 0..MaxProcs /\ files \in 0..MaxFiles /\ reading \in BOOLEAN
  /\ place \in {"process", "threads"} => procs > 0
  /\ reading => files > 0
  /\ files > 0 => place # "none"
  /\ DescriptorsAccounted

LEMMA ServerInvParts ==
  ServerInv <=> TimerInv /\ DumpInv /\ AwayFromQueue
BY DEF ServerInv, ServerTypeOK, TimerInv, DumpInv, AwayFromQueue

LEMMA ServerStarts == ServerInit => ServerInv
<1> SUFFICES ASSUME ServerInit PROVE ServerInv
  OBVIOUS
<1>1. TimerInv
  BY TimerInit DEF ServerInit
<1>2. /\ open = 0 /\ leaked = 0 /\ walk = 0
      /\ place = "none" /\ procs = 0 /\ files = 0 /\ reading = FALSE
  BY DEF ServerInit
<1>3. DumpInv
  <2>1. Held = 0
    BY <1>2 DEF Held
  <2>2. open = leaked + Held
    BY <1>2, <2>1
  <2>3. reading \in BOOLEAN /\ ~reading
    BY <1>2
  <2>4. QED
    BY <1>2, <2>2, <2>3, ServerBounds DEF DumpInv, DescriptorsAccounted
<1>4. AwayFromQueue
  BY DEF ServerInit, AwayFromQueue
<1>5. QED
  BY <1>1, <1>3, <1>4, ServerInvParts

LEMMA DiskKeepsDump ==
  ASSUME DumpInv, DiskEvent \/ ReadEventsAgain \/ DiskStep
  PROVE  DumpInv'
<1> USE ServerBounds DEF DumpInv, DescriptorsAccounted, Held, dumpVars, diskVars
<1>1. CASE DiskEvent
  BY <1>1 DEF DiskEvent
<1>2. CASE ReadEventsAgain
  BY <1>2 DEF ReadEventsAgain
<1>3. CASE OpenDirectory
  <2>1. /\ open' = open + 1 /\ leaked' = leaked + 1 /\ walk' = walk - 1
        /\ open < Descriptors /\ walk > 0 /\ UNCHANGED <<place, procs, files, reading>>
    BY <1>3 DEF OpenDirectory, TakesOne
  <2>2. Held' = Held /\ Held \in 0..3
    BY <2>1
  <2>3. open' = leaked' + Held'
    BY <2>1, <2>2
  <2>4. open' \in 0..Descriptors /\ leaked' \in 0..Descriptors /\ walk' \in 0..MaxDirs
    BY <2>1, <2>2
  <2>5. QED
    BY <2>1, <2>3, <2>4
<1>4. CASE SkipDirectory
  BY <1>4 DEF SkipDirectory
<1>5. QED
  BY <1>1, <1>2, <1>3, <1>4 DEF DiskStep

LEMMA NextProcessKeeps ==
  ASSUME DumpInv, NEW left \in 0..MaxProcs, NextProcess(left)
  PROVE  /\ place' \in {"process", "closing"}
         /\ procs' \in 0..MaxProcs /\ files' \in 0..MaxFiles
         /\ place' = "process" => procs' > 0
BY ServerBounds DEF NextProcess

LEMMA DumpKeepsDump ==
  ASSUME DumpInv, SampleMessage \/ DumpMessage \/ ReceiveAgain \/ DumpStep, AwayFromQueue
  PROVE  DumpInv'
<1> USE ServerBounds DEF DumpInv, DescriptorsAccounted, Held, dumpVars, diskVars
<1>1. CASE SampleMessage \/ ReceiveAgain
  BY <1>1 DEF SampleMessage, ReceiveAgain
<1>2. CASE DumpMessage
  BY <1>2 DEF DumpMessage, CallReturns, AwayFromQueue
<1>3. CASE OpenFile
  <2>1. /\ UNCHANGED <<leaked, walk, place, procs, files>>
        /\ open' = open + 1 /\ open < Descriptors /\ files > 0
    BY <1>3 DEF OpenFile, TakesOne
  <2>2. ~reading /\ reading' /\ reading' \in BOOLEAN
    BY <1>3, Zenon DEF OpenFile
  <2>3. Held' = Held + 1
    BY <2>1, <2>2
  <2>4. QED
    BY <2>1, <2>2, <2>3
<1>4. CASE FileMissing
  <2>1. /\ UNCHANGED <<leaked, walk, place, procs, open>>
        /\ files' = files - 1 /\ files > 0
    BY <1>4 DEF FileMissing
  <2>2. ~reading /\ ~reading' /\ reading' \in BOOLEAN
    BY <1>4, Zenon DEF FileMissing
  <2>3. Held' = Held
    BY <2>1, <2>2
  <2>4. QED
    BY <2>1, <2>2, <2>3
<1>5. CASE CloseFile
  <2>1. /\ UNCHANGED <<leaked, walk, place, procs>>
        /\ files' = files - 1 /\ open' = open - 1
    BY <1>5 DEF CloseFile, GivesBack
  <2>2. reading /\ ~reading' /\ reading' \in BOOLEAN
    BY <1>5, Zenon DEF CloseFile
  <2>3. Held' = Held - 1 /\ Held \in 1..3
    BY <2>1, <2>2
  <2>4. QED
    BY <2>1, <2>2, <2>3
<1>6. CASE OpenProc
  <2>1. PICK n \in 0..MaxProcs : NextProcess(n)
    BY <1>6 DEF OpenProc
  <2>2. /\ place' \in {"process", "closing"}
        /\ procs' \in 0..MaxProcs /\ files' \in 0..MaxFiles
        /\ place' = "process" => procs' > 0
    BY <2>1, NextProcessKeeps
  <2>3. /\ place = "before" /\ files = 0 /\ open < Descriptors /\ open' = open + 1
        /\ UNCHANGED <<leaked, walk, reading>>
    BY <1>6 DEF OpenProc, PlaceDone, TakesOne
  <2>4. QED
    BY <2>2, <2>3
<1>7. CASE TaskMissing \/ CloseTask
  <2>1. /\ place \in {"process", "threads"} /\ files = 0 /\ NextProcess(procs - 1)
        /\ UNCHANGED <<leaked, walk, reading>>
        /\ open' = IF place = "threads" THEN open - 1 ELSE open
    BY <1>7 DEF TaskMissing, CloseTask, PlaceDone, GivesBack
  <2>2. /\ place' \in {"process", "closing"}
        /\ procs' \in 0..MaxProcs /\ files' \in 0..MaxFiles
        /\ place' = "process" => procs' > 0
    BY <2>1, NextProcessKeeps
  <2>3. QED
    BY <2>1, <2>2
<1>8. CASE ProcMissing \/ OpenTask
  BY <1>8 DEF ProcMissing, OpenTask, PlaceDone, TakesOne
<1>9. CASE CloseProc \/ DumpEnds
  BY <1>9 DEF CloseProc, DumpEnds, PlaceDone, GivesBack
<1>10. QED
  BY <1>1, <1>2, <1>3, <1>4, <1>5, <1>6, <1>7, <1>8, <1>9 DEF DumpStep

LEMMA KeepsAway ==
  ASSUME AwayFromQueue, DumpInv, [ServerNext]_serverVars
  PROVE  AwayFromQueue'
<1> USE DEF AwayFromQueue
<1>1. CASE OtherThreads
  <2>1. place' = place
    BY <1>1 DEF OtherThreads, dumpVars
  <2>2. "monitor" \notin calling => "monitor" \notin calling'
    BY <1>1 DEF OtherThreads, Expire, Alarm, AlarmInMain, AlarmInTimer, AlarmInRead,
       AlarmUnnoticed, AlarmInReceive, TimerThread, TakePost, SleepEnds, Tick,
       TestLoop, CallReturns, CallAgain
  <2>3. QED
    BY <2>1, <2>2
<1>2. CASE DiskEvent \/ ReadEventsAgain
  BY <1>2 DEF DiskEvent, ReadEventsAgain, CallReturns, CallAgain, dumpVars
<1>3. CASE DiskStep
  BY <1>3 DEF DiskStep, OpenDirectory, SkipDirectory, dumpVars, vars
<1>4. CASE SampleMessage \/ DumpMessage \/ ReceiveAgain
  BY <1>4 DEF SampleMessage, DumpMessage, ReceiveAgain, CallReturns, CallAgain,
     dumpVars
<1>5. CASE DumpStep
  <2>1. calling' = calling
    BY <1>5 DEF DumpStep, OpenFile, FileMissing, CloseFile, OpenProc, ProcMissing,
       CloseProc, OpenTask, TaskMissing, CloseTask, DumpEnds, vars
  <2>2. place # "none"
    BY <1>5 DEF DumpStep, OpenFile, FileMissing, CloseFile, OpenProc, ProcMissing,
       CloseProc, OpenTask, TaskMissing, CloseTask, DumpEnds, PlaceDone, DumpInv
  <2>3. QED
    BY <2>1, <2>2
<1>6. CASE UNCHANGED serverVars
  BY <1>6 DEF serverVars, vars, dumpVars
<1>7. QED
  BY <1>1, <1>2, <1>3, <1>4, <1>5, <1>6 DEF ServerNext

LEMMA ServerKeeps == ServerInv /\ [ServerNext]_serverVars => ServerInv'
<1> SUFFICES ASSUME ServerInv, [ServerNext]_serverVars PROVE ServerInv'
  OBVIOUS
<1>1. TimerInv /\ DumpInv /\ AwayFromQueue
  BY ServerInvParts
<1>2. TimerInv'
  BY <1>1, ServerStepsTimer, TimerStep
<1>3. DumpInv'
  <2>1. CASE OtherThreads \/ UNCHANGED serverVars
    BY <1>1, <2>1 DEF OtherThreads, serverVars, dumpVars, diskVars, DumpInv,
       DescriptorsAccounted, Held
  <2>2. CASE DiskEvent \/ ReadEventsAgain \/ DiskStep
    BY <1>1, <2>2, DiskKeepsDump
  <2>3. CASE SampleMessage \/ DumpMessage \/ ReceiveAgain \/ DumpStep
    BY <1>1, <2>3, DumpKeepsDump
  <2>4. QED
    BY <2>1, <2>2, <2>3 DEF ServerNext
<1>4. AwayFromQueue'
  BY <1>1, KeepsAway
<1>5. QED
  BY <1>2, <1>3, <1>4
     DEF ServerInv, ServerTypeOK, TimerInv, DumpInv, AwayFromQueue

LEMMA ServerAlways == Server => []ServerInv
BY ServerStarts, ServerKeeps, PTL DEF Server

\* The server's variables never leave their types: no dump goes on at the queue,
\* none reads a file at a place that has none (system_server.c:167-202,
\* dump_state.c:27-116).
THEOREM ServerTypeCorrect == Server => []ServerTypeOK
<1>1. ServerInv => ServerTypeOK
  BY DEF ServerInv
<1>2. QED
  BY <1>1, ServerAlways, PTL

\* Whatever the two threads open and find missing, the descriptors in use are
\* those leaked by walks and those of the dump under way (dump_state.c:27-149,
\* 177-215, system_server.c:209-238).
THEOREM DumpsGiveBack == Server => []DescriptorsAccounted
<1>1. ServerInv => DescriptorsAccounted
  BY DEF ServerInv
<1>2. QED
  BY <1>1, ServerAlways, PTL

\* For any number of descriptors, once all of them are leaked none is taken or
\* given back any more (system_server.c:211).
THEOREM ExhaustedForGood == Server => ExhaustionLasts
<1>1. ServerInv /\ [ServerNext]_serverVars
        => [leaked = Descriptors => open' = open]_serverVars
  <2> SUFFICES ASSUME ServerInv, ServerNext, leaked = Descriptors
               PROVE  open' = open
    BY DEF serverVars
  <2>1. /\ open = leaked + Held /\ open \in 0..Descriptors
        /\ place \in {"none", "before", "process", "threads", "closing", "after"}
        /\ reading \in BOOLEAN
    BY DEF ServerInv, ServerTypeOK, DescriptorsAccounted
  <2>2. open = Descriptors /\ ~reading
        /\ place \notin {"process", "threads", "closing"}
    BY <2>1, ServerBounds DEF Held
  <2>3. CASE OtherThreads \/ DiskEvent \/ ReadEventsAgain \/ SampleMessage
               \/ DumpMessage \/ ReceiveAgain
    BY <2>3 DEF OtherThreads, DiskEvent, ReadEventsAgain, SampleMessage,
       DumpMessage, ReceiveAgain
  <2>4. CASE DiskStep
    BY <2>2, <2>4, ServerBounds DEF DiskStep, OpenDirectory, SkipDirectory, TakesOne
  <2>5. CASE DumpStep
    BY <2>2, <2>5, ServerBounds DEF DumpStep, OpenFile, FileMissing, CloseFile,
       OpenProc, ProcMissing, CloseProc, OpenTask, TaskMissing, CloseTask, DumpEnds,
       PlaceDone, TakesOne, GivesBack
  <2>6. QED
    BY <2>3, <2>4, <2>5 DEF ServerNext
<1>2. QED
  BY <1>1, ServerAlways, PTL DEF Server, ExhaustionLasts

-------------------------------------------------------------------------------
(* What a dump has still to do, in steps, when all goes well: the files at hand *)
(* are opened and closed, a process takes its command line, its task directory  *)
(* and the files of its threads, and after /proc come the last files.           *)

FileWork == 2 * files - (IF reading THEN 1 ELSE 0)
ThreadWork == 2 * MaxFiles + 1
ProcessWork == 3 + ThreadWork
LastWork == 1 + ThreadWork
RestWork(n) == n * ProcessWork

PlaceWork ==
  CASE place = "none"    -> 0
    [] place = "before"  -> 1 + RestWork(MaxProcs) + LastWork
    [] place = "process" -> 1 + ThreadWork + RestWork(procs - 1) + LastWork
    [] place = "threads" -> 1 + RestWork(procs - 1) + LastWork
    [] place = "closing" -> LastWork
    [] place = "after"   -> 1

WorkLeft == FileWork + PlaceWork

DumpWork == 2 * MaxFiles + 1 + RestWork(MaxProcs) + LastWork

\* The work grows with the processes that are left, by the same for each.
LEMMA ProcessesAddUp ==
  /\ ThreadWork \in Nat /\ ProcessWork \in Nat /\ LastWork \in Nat
  /\ \A n \in Nat : RestWork(n) \in Nat
  /\ \A n \in Nat : n > 0 => RestWork(n) = ProcessWork + RestWork(n - 1)
  /\ \A n \in Nat : n <= MaxProcs => RestWork(n) <= RestWork(MaxProcs)
<1>1. ThreadWork \in Nat /\ ProcessWork \in Nat /\ LastWork \in Nat
  BY ServerBounds DEF ThreadWork, ProcessWork, LastWork
<1>2. ASSUME NEW w \in Nat, NEW n \in Nat
      PROVE  /\ n * w \in Nat
             /\ n > 0 => n * w = w + (n - 1) * w
             /\ \A m \in Nat : n <= m => n * w <= m * w
  OBVIOUS
<1>3. QED
  BY <1>1, <1>2, ServerBounds DEF RestWork

\* A step of the dump leaves less to do.
LEMMA DumpStepWorks ==
  ASSUME ServerTypeOK, DumpStep
  PROVE  WorkLeft' < WorkLeft
<1>1. /\ MaxFiles \in Nat /\ MaxProcs \in Nat /\ procs \in 0..MaxProcs
      /\ files \in 0..MaxFiles /\ reading \in BOOLEAN /\ (reading => files > 0)
      /\ place \in {"process", "threads"} => procs > 0
      /\ place \in {"none", "before", "process", "threads", "closing", "after"}
  BY ServerBounds DEF ServerTypeOK
<1>2. /\ ThreadWork = 2 * MaxFiles + 1 /\ ProcessWork = 3 + ThreadWork
      /\ LastWork = 1 + ThreadWork
  BY DEF ThreadWork, ProcessWork, LastWork
<1>3. /\ \A n \in Nat : RestWork(n) \in Nat
      /\ \A n \in Nat : n > 0 => RestWork(n) = ProcessWork + RestWork(n - 1)
      /\ \A n \in Nat : n <= MaxProcs => RestWork(n) <= RestWork(MaxProcs)
  BY ProcessesAddUp
<1>4. /\ place = "none" => PlaceWork = 0
      /\ place = "before" => PlaceWork = (1 + RestWork(MaxProcs) + LastWork)
      /\ place = "process" =>
           PlaceWork = (1 + ThreadWork + RestWork(procs - 1) + LastWork)
      /\ place = "threads" => PlaceWork = (1 + RestWork(procs - 1) + LastWork)
      /\ place = "closing" => PlaceWork = LastWork
      /\ place = "after" => PlaceWork = 1
  BY DEF PlaceWork
<1>5. /\ place' = "none" => PlaceWork' = 0
      /\ place' = "before" => PlaceWork' = (1 + RestWork(MaxProcs) + LastWork)
      /\ place' = "process" =>
           PlaceWork' = (1 + ThreadWork + RestWork(procs' - 1) + LastWork)
      /\ place' = "threads" => PlaceWork' = (1 + RestWork(procs' - 1) + LastWork)
      /\ place' = "closing" => PlaceWork' = LastWork
      /\ place' = "after" => PlaceWork' = 1
  BY DEF PlaceWork
<1>6. FileWork = 2 * files - (IF reading THEN 1 ELSE 0)
      /\ FileWork' = 2 * files' - (IF reading' THEN 1 ELSE 0)
  BY DEF FileWork
<1>0. WorkLeft = FileWork + PlaceWork /\ WorkLeft' = FileWork' + PlaceWork'
  BY DEF WorkLeft
<1>7. CASE UNCHANGED <<place, procs>> /\ FileWork' < FileWork
  BY <1>1, <1>2, <1>3, <1>4, <1>5, <1>6, <1>0, <1>7
<1>8. CASE OpenFile \/ FileMissing \/ CloseFile
  <2>1. UNCHANGED <<place, procs>> /\ FileWork' < FileWork
    BY <1>1, <1>6, <1>8 DEF OpenFile, FileMissing, CloseFile
  <2>2. QED
    BY <1>7, <2>1
<1>9. CASE OpenProc \/ ProcMissing \/ CloseProc \/ DumpEnds
  <2>1. FileWork = 0 /\ reading' = FALSE /\ ~reading
    BY <1>1, <1>6, <1>9 DEF OpenProc, ProcMissing, CloseProc, DumpEnds, PlaceDone
  <2>2. QED
    BY <1>1, <1>2, <1>3, <1>4, <1>5, <1>6, <1>0, <1>9, <2>1
    DEF OpenProc, ProcMissing, CloseProc, DumpEnds, PlaceDone, NextProcess
<1>10. CASE OpenTask \/ TaskMissing \/ CloseTask
  <2>1. FileWork = 0 /\ reading' = FALSE /\ ~reading
    BY <1>1, <1>6, <1>10 DEF OpenTask, TaskMissing, CloseTask, PlaceDone
  <2>2. QED
    BY <1>1, <1>2, <1>3, <1>4, <1>5, <1>6, <1>0, <1>10, <2>1
    DEF OpenTask, TaskMissing, CloseTask, PlaceDone, NextProcess
<1>11. QED
  BY <1>8, <1>9, <1>10 DEF DumpStep
\* There is never more to do than a whole dump.
LEMMA WorkIsBounded == ServerTypeOK => WorkLeft \in 0..DumpWork
<1> SUFFICES ASSUME ServerTypeOK PROVE WorkLeft \in 0..DumpWork
  OBVIOUS
<1>1. /\ MaxFiles \in Nat /\ MaxProcs \in Nat /\ procs \in 0..MaxProcs
      /\ files \in 0..MaxFiles /\ reading \in BOOLEAN /\ (reading => files > 0)
      /\ place \in {"process", "threads"} => procs > 0
      /\ place \in {"none", "before", "process", "threads", "closing", "after"}
  BY ServerBounds DEF ServerTypeOK
<1>2. FileWork \in 0..(2 * MaxFiles)
  BY <1>1 DEF FileWork
<1>3. /\ ThreadWork = 2 * MaxFiles + 1 /\ ProcessWork = 3 + ThreadWork
      /\ LastWork = 1 + ThreadWork
  BY DEF ThreadWork, ProcessWork, LastWork
<1>4. PlaceWork \in 0..(1 + RestWork(MaxProcs) + LastWork)
  <2>1. place = "none" => PlaceWork = 0
    BY DEF PlaceWork
  <2>2. place = "before" => PlaceWork = 1 + RestWork(MaxProcs) + LastWork
    BY DEF PlaceWork
  <2>3. place = "process" =>
          PlaceWork = 1 + ThreadWork + RestWork(procs - 1) + LastWork
    BY DEF PlaceWork
  <2>4. place = "threads" => PlaceWork = 1 + RestWork(procs - 1) + LastWork
    BY DEF PlaceWork
  <2>5. /\ place = "closing" => PlaceWork = LastWork
        /\ place = "after" => PlaceWork = 1
    BY DEF PlaceWork
  <2>6. /\ ThreadWork \in Nat /\ LastWork \in Nat /\ RestWork(MaxProcs) \in Nat
        /\ LastWork = 1 + ThreadWork
    BY <1>1, <1>3, ProcessesAddUp
  <2>7. ASSUME procs > 0
        PROVE  /\ RestWork(procs - 1) \in Nat
               /\ 3 + ThreadWork + RestWork(procs - 1) <= RestWork(MaxProcs)
    <3>1. procs \in Nat /\ procs - 1 \in Nat /\ procs <= MaxProcs
      BY <1>1, <2>7
    <3>2. /\ RestWork(procs) = ProcessWork + RestWork(procs - 1)
          /\ RestWork(procs) <= RestWork(MaxProcs)
          /\ RestWork(procs - 1) \in Nat
      BY <2>7, <3>1, ProcessesAddUp
    <3>3. QED
      BY <1>3, <3>2
  <2>8. CASE place \in {"process", "threads"}
    BY <1>1, <2>3, <2>4, <2>6, <2>7, <2>8
  <2>9. QED
    BY <1>1, <2>1, <2>2, <2>5, <2>6, <2>8
<1>5. QED
  BY <1>1, <1>2, <1>4, ProcessesAddUp DEF WorkLeft, DumpWork

\* A dump is bounded: whatever opens and whatever fails, and however the alarms,
\* the disk thread and the other readers come between, every step of the monitor
\* thread inside dumpstate leaves less to do, and a message starts a dump only
\* when the last has ended.  The step behind DumpReturns (dump_state.c:283-314).
THEOREM DumpIsBounded ==
  Server => /\ [](WorkLeft \in 0..DumpWork)
            /\ [][place # "none" => WorkLeft' < WorkLeft \/ UNCHANGED dumpVars]_serverVars
<1>1. ServerInv => WorkLeft \in 0..DumpWork
  BY WorkIsBounded DEF ServerInv
<1>2. ServerInv /\ [ServerNext]_serverVars
        => [place # "none" => WorkLeft' < WorkLeft \/ UNCHANGED dumpVars]_serverVars
  <2> SUFFICES ASSUME ServerInv, ServerNext, place # "none"
               PROVE  WorkLeft' < WorkLeft \/ UNCHANGED dumpVars
    OBVIOUS
  <2>1. CASE DumpStep
    BY <2>1, DumpStepWorks DEF ServerInv
  <2>2. ~DumpMessage
    BY DEF ServerInv, AwayFromQueue, DumpMessage, CallReturns
  <2>3. CASE \/ OtherThreads \/ DiskEvent \/ ReadEventsAgain \/ DiskStep
             \/ SampleMessage \/ ReceiveAgain
    BY <2>3 DEF OtherThreads, DiskEvent, ReadEventsAgain, DiskStep, OpenDirectory,
                SkipDirectory, SampleMessage, ReceiveAgain
  <2>4. QED
    BY <2>1, <2>2, <2>3 DEF ServerNext
<1>3. QED
  BY <1>1, <1>2, ServerAlways, PTL DEF Server

-------------------------------------------------------------------------------
\* The walks and dumps take nothing from the timer: the server as a whole
\* behaves as SystemTimer says, so its alarms are conserved too
\* (system_server.c:52-137).
THEOREM ServerImplementsTimer == Server => Spec
<1>1. ServerInit => Init
  BY DEF ServerInit
<1>2. QED
  BY <1>1, ServerStepsTimer, PTL DEF Server, Spec

\* So the server with its descriptors counts every alarm as well.
THEOREM ServerTicks == FairServer /\ []AlarmsHaveTheirThread => AlarmsAreCounted
<1>1. FairServer => FairSpec
  BY ServerImplementsTimer, PTL DEF FairServer, FairSpec
<1>2. QED
  BY <1>1, EveryAlarmTicks, PTL

-------------------------------------------------------------------------------
(* The process tree. *)

Left(p) == {c \in Grouped(p) : Exists(c)}

\* Where the processes that run main's code can be, and that they live there.
TreePlaces ==
  /\ pc["main"] \in {"queues", "server", "web", "input", "gui", "waiting",
                     "returned", "ended"}
  /\ pc["input"] \in {"starting", "threads", "gui", "waiting", "returned", "ended"}
  /\ \A p \in Mains : pc[p] \notin {"starting", "returned", "ended"} => Alive(p)
  /\ pc["input"] = "starting" => command = "prompt"

\* While p waits, the children it has left to wait for are no more than the waits it has
\* left, unless none is left at all; before, it has not waited.
Accounted(p) ==
  /\ pc[p] \notin {"waiting", "returned", "ended"} => waits[p] = 0
  /\ pc[p] = "waiting" =>
       waits[p] < WaitCalls
         /\ (Gone(p) \/ waits[p] + Cardinality(Left(p)) <= WaitCalls)
  /\ pc[p] = "returned" => Gone(p)

\* Nobody but the handler takes the shell away from toy_shell.
OnlyHandlerSteals ==
  WaitsForShell /\ life["shell"] = "gone" => stolen

TreeInv == /\ TreeTypeOK /\ TreePlaces /\ OnlyHandlerSteals
           /\ \A p \in Mains : Accounted(p)

\* main makes four children, and waits four times.
LEMMA FewChildren ==
  ASSUME NEW p \in Mains
  PROVE  /\ IsFiniteSet(Children(p)) /\ Cardinality(Children(p)) <= WaitCalls
         /\ Children(p) \subseteq Procs
<1>1. CASE p = "main"
  <2> DEFINE one == {} \cup {"server"}
             two == one \cup {"web"}
             three == two \cup {"input"}
             four == three \cup {"gui"}
  <2>1. IsFiniteSet(one) /\ Cardinality(one) = 1
    BY FS_EmptySet, FS_AddElement
  <2>2. IsFiniteSet(two) /\ Cardinality(two) = 2
    BY <2>1, FS_AddElement
  <2>3. IsFiniteSet(three) /\ Cardinality(three) = 3
    BY <2>2, FS_AddElement
  <2>4. IsFiniteSet(four) /\ Cardinality(four) = 4
    BY <2>3, FS_AddElement
  <2>5. Children(p) = four
    BY <1>1 DEF Children
  <2>6. QED
    BY <2>4, <2>5, <1>1 DEF WaitCalls, Children, Procs, Mains
<1>2. CASE p = "input"
  <2> DEFINE one == {} \cup {"gui2"}
             two == one \cup {"shell"}
  <2>1. IsFiniteSet(one) /\ Cardinality(one) = 1
    BY FS_EmptySet, FS_AddElement
  <2>2. IsFiniteSet(two) /\ Cardinality(two) = 2
    BY <2>1, FS_AddElement
  <2>3. Children(p) = two
    BY <1>2 DEF Children
  <2>4. QED
    BY <2>2, <2>3, <1>2 DEF WaitCalls, Children, Procs, Mains
<1>3. QED
  BY <1>1, <1>2 DEF Mains

\* What is left of the children can be counted, and the count follows the set.
LEMMA CountLeft ==
  ASSUME NEW p \in Mains, NEW S \in SUBSET Children(p)
  PROVE  /\ IsFiniteSet(S) /\ Cardinality(S) \in 0..WaitCalls
         /\ Cardinality(S) = 0 => S = {}
<1>1. IsFiniteSet(S) /\ Cardinality(S) <= Cardinality(Children(p))
  BY FewChildren, FS_Subset
<1>2. Cardinality(S) \in Nat /\ Cardinality(Children(p)) \in Nat
  BY <1>1, FewChildren, FS_CardinalityType
<1>3. Cardinality(S) = 0 => S = {}
  BY <1>1, FS_EmptySet
<1>4. QED
  BY <1>1, <1>2, <1>3, FewChildren DEF WaitCalls

LEMMA LeftIsCounted ==
  ASSUME NEW p \in Mains
  PROVE  /\ Cardinality(Left(p)) \in 0..WaitCalls
         /\ Cardinality(Left(p)') \in 0..WaitCalls
         /\ Cardinality(Left(p)') = 0 => Gone(p)'
<1>1. Left(p) \in SUBSET Children(p) /\ Left(p)' \in SUBSET Children(p)
  BY DEF Left, Grouped
<1>2. QED
  BY <1>1, CountLeft DEF Left, Gone

LEMMA CountShrinks ==
  ASSUME NEW p \in Mains, Left(p)' \subseteq Left(p)
  PROVE  /\ Cardinality(Left(p)') \in Nat
         /\ Cardinality(Left(p)') <= Cardinality(Left(p))
         /\ \A c \in Left(p) : c \notin Left(p)'
              => Cardinality(Left(p)') <= Cardinality(Left(p)) - 1
<1>1. IsFiniteSet(Left(p)) /\ Cardinality(Left(p)) \in Nat
  <2>1. Left(p) \in SUBSET Children(p)
    BY DEF Left, Grouped
  <2>2. QED
    BY <2>1, CountLeft DEF WaitCalls
<1>2. /\ IsFiniteSet(Left(p)') /\ Cardinality(Left(p)') <= Cardinality(Left(p))
  BY <1>1, FS_Subset
<1>3. Cardinality(Left(p)') \in Nat
  BY <1>2, FS_CardinalityType
<1>4. ASSUME NEW c \in Left(p), c \notin Left(p)'
      PROVE  Cardinality(Left(p)') <= Cardinality(Left(p)) - 1
  <2>1. Left(p)' \in SUBSET (Left(p) \ {c})
    BY <1>4
  <2>2. IsFiniteSet(Left(p) \ {c}) /\ Cardinality(Left(p) \ {c}) = Cardinality(Left(p)) - 1
    BY <1>1, <1>4, FS_RemoveElement
  <2>3. QED
    BY <2>1, <2>2, FS_Subset
<1>5. QED
  BY <1>2, <1>3, <1>4

\* An ending process brings nobody into being.
LEMMA DeadStayDead ==
  ASSUME NEW p \in Procs, Dies(p), life[p] \notin {"none", "gone"}
  PROVE  \A c \in Procs : Exists(c)' => Exists(c)
BY DEF Dies, Exists

\* Only before it waits does a process get new children.
LEMMA NoNewChildren ==
  ASSUME TreeInv, TreeNext, NEW p \in Mains, pc[p] \in {"waiting", "returned"}
  PROVE  Left(p)' \subseteq Left(p)
<1> SUFFICES ASSUME NEW c \in Children(p), Exists(c)' PROVE Exists(c)
  BY DEF Left, Grouped, Children
<1> USE DEF Exists
<1>1. c \in Procs /\ life \in [Procs -> {"none", "alive", "stopped", "paused", "zombie", "gone"}]
      /\ \/ p = "main" /\ c \in {"server", "web", "input", "gui"}
         \/ p = "input" /\ c \in {"gui2", "shell"}
  <2>1. c \in Procs
    BY FewChildren
  <2>2. \/ p = "main" /\ c \in {"server", "web", "input", "gui"}
        \/ p = "input" /\ c \in {"gui2", "shell"}
    <3>1. CASE p = "main"
      BY <3>1 DEF Children
    <3>2. CASE p = "input"
      BY <3>2 DEF Children
    <3>3. QED
      BY <3>1, <3>2 DEF Mains
  <2>3. QED
    BY <2>1, <2>2 DEF TreeInv, TreeTypeOK
<1>2. CASE CreateQueues \/ CreateSystemServer \/ CreateWebServer \/ CreateInput
  <2>1. p = "input"
    BY <1>2 DEF CreateQueues, CreateSystemServer, CreateWebServer, CreateInput, At, Mains
  <2>2. c \in {"gui2", "shell"}
    BY <1>1, <2>1
  <2>3. CASE Dies("main")
    BY <2>3, <2>2, <1>1 DEF Dies
  <2>4. CASE ~Dies("main")
    BY <2>4, <2>2, <1>1, <1>2 DEF CreateQueues, CreateSystemServer, CreateWebServer,
       CreateInput,
       Forks
  <2>5. QED BY <2>3, <2>4
<1>3. CASE InputRuns \/ InputFails
  BY <1>3 DEF InputRuns, InputFails
<1>4. ASSUME NEW q \in Procs, Ends(q) PROVE Exists(c)
  <2>1. Dies(q) /\ life[q] \notin {"none", "gone"}
    BY <1>4 DEF Ends
  <2>2. QED
    BY <2>1, <1>1, DeadStayDead
<1>5. ASSUME NEW q \in Mains, SignalHandler(q) PROVE Exists(c)
  BY <1>1, <1>5 DEF SignalHandler
<1>6. ASSUME NEW q \in Mains, MainStep(q) PROVE Exists(c)
  <2>1. CASE CreateGui(q)
    <3>1. q # p
      BY <2>1 DEF CreateGui, At
    <3>2. c # IF q = "main" THEN "gui" ELSE "gui2"
      BY <1>1, <3>1 DEF Mains
    <3>3. QED
      BY <2>1, <3>2, <1>1 DEF CreateGui, Forks
  <2>2. CASE WaitFails(q)
    BY <2>2 DEF WaitFails
  <2>3. CASE Returned(q)
    BY <2>3, <1>1, DeadStayDead DEF Returned, At, Alive, Mains, Procs
  <2>4. ASSUME NEW d \in Procs, WaitReaps(q, d) PROVE Exists(c)
    BY <2>4, <1>1 DEF WaitReaps
  <2>5. QED
    BY <1>6, <2>1, <2>2, <2>3, <2>4 DEF MainStep
<1>7. CASE Shell
  <2>1. c # "shell"
    BY <1>1, <1>7 DEF Shell, At
  <2>2. QED
    BY <2>1, <1>1, <1>7 DEF Shell
<1>8. CASE ShellStops \/ ShellContinues
  BY <1>1, <1>8 DEF ShellStops, ShellContinues
<1>9. CASE ShellLoop
  BY <1>1, <1>9 DEF ShellLoop, ShellStopSeen, ShellEndSeen, ShellLost
<1>10. QED
  BY <1>2, <1>3, <1>4, <1>5, <1>6, <1>7, <1>8, <1>9 DEF TreeNext

LEMMA TreeTypeKeeps == TreeInv /\ [TreeNext]_treeVars => TreeTypeOK'
<1> SUFFICES ASSUME TreeInv, [TreeNext]_treeVars PROVE TreeTypeOK'
  OBVIOUS
<1> USE MaxShellsAssumption DEF TreeTypeOK
<1>1. /\ TreeTypeOK
      /\ \A p \in Mains : /\ pc[p] = "waiting" => waits[p] < WaitCalls
                          /\ p \in Procs
  BY DEF TreeInv, Accounted, Mains, Procs
<1>2. \A p \in Procs : Dies(p) =>
        /\ life' \in [Procs -> {"none", "alive", "stopped", "paused", "zombie", "gone"}]
        /\ sigchld' \in [Mains -> BOOLEAN]
  BY <1>1 DEF Dies
<1>3. ASSUME NEW p \in Mains, NEW c \in Procs, NEW next \in {"web", "input", "gui", "waiting"},
             Forks(p, c, next)
      PROVE  TreeTypeOK'
  BY <1>1, <1>3 DEF Forks, Goes, shellVars
<1>4. CASE CreateQueues \/ (CreateWebServer /\ Dies("main"))
  BY <1>1, <1>2, <1>4 DEF CreateQueues, CreateWebServer, Goes, shellVars, Mains, Forks
<1>5. CASE CreateSystemServer \/ CreateInput \/ (CreateWebServer /\ ~Dies("main"))
  BY <1>3, <1>5 DEF CreateSystemServer, CreateInput, CreateWebServer, Mains, Procs
<1>6. CASE InputRuns \/ InputFails
  BY <1>1, <1>6 DEF InputRuns, InputFails, Goes, shellVars
<1>7. ASSUME NEW p \in Procs, Ends(p) PROVE TreeTypeOK'
  BY <1>1, <1>2, <1>7 DEF Ends, shellVars
<1>8. ASSUME NEW p \in Mains, SignalHandler(p) PROVE TreeTypeOK'
  BY <1>1, <1>8 DEF SignalHandler, mainVars
<1>9. ASSUME NEW p \in Mains, MainStep(p) PROVE TreeTypeOK'
  <2>1. CASE CreateGui(p)
    BY <1>3, <2>1 DEF CreateGui, Procs, Mains
  <2>2. ASSUME WaitReturns(p), UNCHANGED sigchld,
               life' = life \/ \E c \in Procs : life' = [life EXCEPT ![c] = "gone"]
        PROVE  TreeTypeOK'
    <3>1. life' \in [Procs -> {"none", "alive", "stopped", "paused", "zombie", "gone"}]
      BY <1>1, <2>2
    <3>2. /\ waits[p] \in 0..WaitCalls /\ waits[p] < WaitCalls
          /\ waits' = [waits EXCEPT ![p] = waits[p] + 1]
          /\ pc' = [pc EXCEPT ![p] = IF waits'[p] = WaitCalls THEN "returned" ELSE "waiting"]
          /\ UNCHANGED <<command, status, shells, stolen>>
      BY <1>1, <2>2 DEF WaitReturns, Goes, At, shellVars
    <3>3. waits[p] + 1 \in 0..WaitCalls
      BY <3>2 DEF WaitCalls
    <3>4. QED
      BY <1>1, <2>2, <3>1, <3>2, <3>3
  <2>3. CASE Returned(p)
    BY <1>1, <1>2, <2>3 DEF Returned, mainVars, shellVars
  <2>4. QED
    BY <1>9, <2>1, <2>2, <2>3 DEF MainStep, WaitFails, WaitReaps
<1>10. CASE Shell
  <2>1. /\ shells \in 0..MaxShells /\ shells < MaxShells /\ shells' = shells + 1
        /\ command' = "shell" /\ stolen' = FALSE /\ status' \in {"exited", "stopped"}
        /\ life' = [life EXCEPT !["shell"] = "alive"]
        /\ UNCHANGED <<pc, waits, sigchld>>
    BY <1>1, <1>10 DEF Shell, mainVars
  <2>2. shells' \in 0..MaxShells
    BY <2>1
  <2>3. QED
    BY <1>1, <2>1, <2>2
<1>11. CASE ShellStops \/ ShellContinues
  BY <1>1, <1>11 DEF ShellStops, ShellContinues, mainVars, shellVars
<1>12. CASE ShellLoop
  BY <1>1, <1>12 DEF ShellLoop, ShellStopSeen, ShellEndSeen, ShellLost, ShellFrame,
     mainVars
<1>13. CASE UNCHANGED treeVars
  BY <1>1, <1>13 DEF treeVars
<1>14. QED
  BY <1>4, <1>5, <1>6, <1>7, <1>8, <1>9, <1>10, <1>11, <1>12, <1>13 DEF TreeNext

\* What a step does to the program counter and the waits of one process.
LEMMA MainMoves ==
  ASSUME TreeInv, TreeNext, NEW p \in Mains
  PROVE  \/ pc'[p] = "ended" /\ Dies(p)
         \/ UNCHANGED <<pc[p], waits[p]>>
         \/ /\ pc[p] \notin {"waiting", "returned", "ended"} /\ Alive(p)
            /\ pc'[p] \notin {"returned", "ended"} /\ waits'[p] = waits[p]
            /\ p = "main" => pc[p] \in {"queues", "server", "web", "input", "gui"}
                 /\ pc'[p] \in {"server", "web", "input", "gui", "waiting"}
            /\ p = "input" => pc'[p] \in {"threads", "gui", "waiting"}
         \/ MainStep(p) /\ WaitReturns(p)
<1>1. /\ pc \in [Mains -> {"queues", "server", "web", "input", "gui", "waiting",
                          "returned", "ended", "starting", "threads"}]
      /\ waits \in [Mains -> 0..WaitCalls] /\ TreePlaces
  BY DEF TreeInv, TreeTypeOK
<1>2. CASE CreateQueues \/ CreateSystemServer \/ CreateWebServer \/ CreateInput
  BY <1>1, <1>2 DEF CreateQueues, CreateSystemServer, CreateWebServer, CreateInput,
     Forks, Goes, At, Mains
<1>3. CASE InputRuns \/ InputFails
  BY <1>1, <1>3 DEF InputRuns, InputFails, Goes, At, Mains
<1>4. ASSUME NEW q \in Procs, Ends(q)
      PROVE  (pc'[p] = "ended" /\ Dies(p)) \/ UNCHANGED <<pc[p], waits[p]>>
  BY <1>1, <1>4 DEF Ends
<1>5. ASSUME NEW q \in Mains, MainStep(q), ~(q = p /\ WaitReturns(p))
      PROVE  \/ UNCHANGED <<pc[p], waits[p]>>
             \/ pc[p] = "gui" /\ Alive(p) /\ pc'[p] = "waiting" /\ waits'[p] = waits[p]
  BY <1>1, <1>5 DEF MainStep, CreateGui, WaitFails, WaitReaps, WaitReturns, Returned,
     Forks, Goes, At, mainVars
<1>6. CASE Shell \/ ShellStops \/ ShellContinues \/ ShellLoop
            \/ \E q \in Mains : SignalHandler(q)
  BY <1>6 DEF Shell, ShellStops, ShellContinues, ShellLoop, ShellStopSeen, ShellEndSeen,
     ShellLost, ShellFrame, SignalHandler, mainVars
<1>7. QED
  BY <1>1, <1>2, <1>3, <1>4, <1>5, <1>6 DEF TreeNext, Mains

LEMMA AccountedKeeps ==
  ASSUME TreeInv, TreeNext, NEW p \in Mains
  PROVE  Accounted(p)'
<1>1. /\ Accounted(p) /\ waits \in [Mains -> 0..WaitCalls]
      /\ pc \in [Mains -> {"queues", "server", "web", "input", "gui", "waiting",
                          "returned", "ended", "starting", "threads"}]
  BY DEF TreeInv, TreeTypeOK
<1>2. Gone(p)' <=> Left(p)' = {}
  BY DEF Gone, Left
<1>3. Gone(p) <=> Left(p) = {}
  BY DEF Gone, Left
<1>4. CASE pc'[p] = "ended"
  BY <1>4 DEF Accounted
<1>5. CASE UNCHANGED <<pc[p], waits[p]>>
  <2>1. CASE pc[p] = "waiting"
    <3>1. Left(p)' \subseteq Left(p)
      BY <2>1, NoNewChildren
    <3>2. /\ Cardinality(Left(p)') \in Nat /\ Cardinality(Left(p)) \in 0..WaitCalls
          /\ Cardinality(Left(p)') <= Cardinality(Left(p))
      BY <3>1, CountShrinks, LeftIsCounted
    <3>3. /\ waits'[p] = waits[p] /\ waits[p] \in 0..WaitCalls /\ waits[p] < WaitCalls
          /\ Gone(p) \/ waits[p] + Cardinality(Left(p)) <= WaitCalls
      BY <1>1, <1>5, <2>1 DEF Accounted
    <3>4. Gone(p)' \/ waits'[p] + Cardinality(Left(p)') <= WaitCalls
      BY <1>2, <1>3, <3>1, <3>2, <3>3 DEF WaitCalls
    <3>5. QED
      BY <1>5, <2>1, <3>3, <3>4 DEF Accounted
  <2>2. CASE pc[p] = "returned"
    <3>1. Left(p)' \subseteq Left(p)
      BY <2>2, NoNewChildren
    <3>2. QED
      BY <1>1, <1>2, <1>3, <1>5, <2>2, <3>1 DEF Accounted
  <2>3. QED
    BY <1>1, <1>5, <2>1, <2>2 DEF Accounted
<1>6. CASE /\ pc[p] \notin {"waiting", "returned", "ended"}
           /\ pc'[p] \notin {"returned", "ended"} /\ waits'[p] = waits[p]
  <2>1. waits[p] = 0
    BY <1>1, <1>6 DEF Accounted
  <2>2. Cardinality(Left(p)') \in 0..WaitCalls
    BY LeftIsCounted
  <2>3. QED
    BY <1>6, <2>1, <2>2 DEF Accounted, WaitCalls
<1>7. CASE MainStep(p) /\ WaitReturns(p)
  <2>1. /\ pc[p] = "waiting" /\ waits[p] \in 0..WaitCalls /\ waits[p] < WaitCalls
        /\ waits'[p] = waits[p] + 1
        /\ pc'[p] = IF waits'[p] = WaitCalls THEN "returned" ELSE "waiting"
        /\ Gone(p) \/ waits[p] + Cardinality(Left(p)) <= WaitCalls
    BY <1>1, <1>7 DEF WaitReturns, At, Goes, Accounted
  <2>2. /\ Left(p)' \subseteq Left(p) /\ Cardinality(Left(p)) \in 0..WaitCalls
        /\ Cardinality(Left(p)') \in Nat
    BY <2>1, NoNewChildren, LeftIsCounted, CountShrinks
  <2>3. Gone(p) \/ Cardinality(Left(p)') <= Cardinality(Left(p)) - 1
    <3>1. CASE WaitFails(p)
      BY <3>1 DEF WaitFails, Gone
    <3>2. ASSUME NEW c \in Procs, WaitReaps(p, c)
          PROVE  Cardinality(Left(p)') <= Cardinality(Left(p)) - 1
      <4>1. c \in Left(p) /\ life'[c] = "gone"
        BY <3>2 DEF WaitReaps, Zombies, Left, Exists, TreeInv, TreeTypeOK
      <4>2. c \notin Left(p)'
        BY <4>1 DEF Left, Exists
      <4>3. QED
        BY <2>2, <4>1, <4>2, CountShrinks
    <3>3. ~CreateGui(p) /\ ~Returned(p)
      BY <2>1 DEF CreateGui, Returned, At
    <3>4. QED
      BY <1>7, <3>1, <3>2, <3>3 DEF MainStep
  <2>4. Gone(p)' \/ waits'[p] + Cardinality(Left(p)') <= WaitCalls
    BY <1>2, <1>3, <2>1, <2>2, <2>3 DEF WaitCalls
  <2>5. Cardinality(Left(p)') = 0 => Gone(p)'
    BY LeftIsCounted
  <2>6. QED
    BY <2>1, <2>2, <2>4, <2>5 DEF Accounted, WaitCalls
<1>8. QED
  BY <1>4, <1>5, <1>6, <1>7, MainMoves

\* The end of one process is nothing to another that is no zombie.
LEMMA OthersLiveOn ==
  ASSUME NEW q \in Procs, Dies(q), NEW p \in Procs, p # q, life[p] # "zombie"
  PROVE  life'[p] = life[p]
<1>1. life' = [r \in Procs |->
        IF r = q THEN (IF HasParent(q) THEN "zombie" ELSE "gone")
        ELSE IF r \in Children(q) /\ life[r] = "zombie" THEN "gone" ELSE life[r]]
  BY DEF Dies
<1>2. QED
  BY <1>1

LEMMA PlacesKeep == TreeInv /\ TreeNext => TreePlaces'
<1> SUFFICES ASSUME TreeInv, TreeNext PROVE TreePlaces'
  OBVIOUS
<1>1. /\ TreePlaces
      /\ life \in [Procs -> {"none", "alive", "stopped", "paused", "zombie", "gone"}]
      /\ pc \in [Mains -> {"queues", "server", "web", "input", "gui", "waiting",
                          "returned", "ended", "starting", "threads"}]
  BY DEF TreeInv, TreeTypeOK
<1>2. /\ pc'["main"] \in {"queues", "server", "web", "input", "gui", "waiting",
                         "returned", "ended"}
      /\ pc'["input"] \in {"starting", "threads", "gui", "waiting", "returned", "ended"}
  <2>1. "main" \in Mains /\ "input" \in Mains
    BY DEF Mains
  <2>2. ASSUME NEW p \in Mains, WaitReturns(p)
        PROVE  pc'[p] \in {"waiting", "returned"}
    BY <1>1, <2>2 DEF WaitReturns, Goes
  <2>3. QED
    BY <1>1, <2>1, <2>2, MainMoves DEF TreePlaces
<1>3. ASSUME NEW p \in Mains, pc'[p] \notin {"starting", "returned", "ended"}
      PROVE  life'[p] = "alive"
  <2>1. life[p] = "alive"
    <3>1. pc[p] \notin {"starting", "returned", "ended"} => Alive(p)
      BY <1>1 DEF TreePlaces
    <3>2. WaitReturns(p) => Alive(p)
      BY DEF WaitReturns, At
    <3>3. Alive(p)
      BY <1>3, <3>1, <3>2, MainMoves
    <3>4. QED
      BY <3>3 DEF Alive
  <2>2. p \in Procs /\ p # "shell"
    BY DEF Mains, Procs
  <2>3. ASSUME NEW q \in Procs, Dies(q), q # p PROVE life'[p] = "alive"
    BY <2>1, <2>2, <2>3, OthersLiveOn
  <2>4. ASSUME NEW q \in Procs, Ends(q) PROVE life'[p] = "alive"
    <3>1. q # p /\ Dies(q)
      BY <1>3, <2>4 DEF Ends
    <3>2. QED
      BY <2>3, <3>1
  <2>5. CASE CreateQueues \/ CreateSystemServer \/ CreateWebServer \/ CreateInput
    <3>1. CASE Dies("main") /\ Goes("main", "ended")
      BY <1>1, <1>3, <2>3, <3>1 DEF Goes, Procs, Mains
    <3>2. CASE life' = life \/ \E c \in Procs : life' = [life EXCEPT ![c] = "alive"]
      BY <1>1, <2>1, <2>2, <3>2
    <3>3. QED
      BY <2>5, <3>1, <3>2 DEF CreateQueues, CreateSystemServer, CreateWebServer,
         CreateInput, Forks, Procs, Mains
  <2>6. ASSUME NEW q \in Mains, SignalHandler(q) PROVE life'[p] = "alive"
    <3>1. p \notin Zombies(q)
      BY <2>1 DEF Zombies
    <3>2. QED
      BY <2>1, <2>2, <2>6, <3>1 DEF SignalHandler
  <2>7. CASE InputRuns \/ InputFails \/ Shell \/ ShellStops \/ ShellContinues \/ ShellLoop
    <3>1. life' = life \/ \E to \in {"alive", "stopped", "paused", "gone"} : life' = [life EXCEPT !["shell"] = to]
      BY <2>7 DEF InputRuns, InputFails, Shell, ShellStops, ShellContinues,
         ShellLoop, ShellStopSeen, ShellEndSeen, ShellLost
    <3>2. QED
      BY <1>1, <2>1, <2>2, <3>1
  <2>8. ASSUME NEW q \in Mains, MainStep(q) PROVE life'[p] = "alive"
    <3>1. CASE CreateGui(q)
      <4>1. life' = life \/ \E c \in {"gui", "gui2"} : life' = [life EXCEPT ![c] = "alive"]
        BY <3>1 DEF CreateGui, Forks
      <4>2. QED
        BY <1>1, <2>1, <2>2, <4>1
    <3>2. CASE WaitFails(q)
      BY <2>1, <3>2 DEF WaitFails
    <3>3. ASSUME NEW c \in Procs, WaitReaps(q, c) PROVE life'[p] = "alive"
      BY <1>1, <2>1, <2>2, <3>3 DEF WaitReaps, Zombies
    <3>4. CASE Returned(q)
      BY <1>3, <2>3, <3>4 DEF Returned, At, mainVars, Procs, Mains
    <3>5. QED
      BY <2>8, <3>1, <3>2, <3>3, <3>4 DEF MainStep
  <2>9. QED
    BY <2>4, <2>5, <2>6, <2>7, <2>8 DEF TreeNext
<1>4. pc'["input"] = "starting" => command' = "prompt"
  <2>1. pc'["input"] = "starting" => pc["input"] = "starting"
    BY <1>1, MainMoves DEF Mains, WaitReturns, Goes
  <2>2. pc["input"] = "starting" => command' = command
    BY DEF TreeNext, InputRuns, InputFails, CreateQueues, CreateSystemServer, CreateWebServer,
       CreateInput, Ends, SignalHandler, MainStep, CreateGui, WaitFails, WaitReaps,
       WaitReturns, Returned, Forks, Shell, ShellStops, ShellContinues, ShellLoop,
       ShellStopSeen, ShellEndSeen, ShellLost, ShellFrame, WaitsForShell, At, shellVars
  <2>3. QED
    BY <1>1, <2>1, <2>2 DEF TreePlaces
<1>5. QED
  BY <1>2, <1>3, <1>4 DEF TreePlaces, Alive

\* Nobody but the handler takes the shell from toy_shell: a wait of main's code
\* is not run beside the threads, and while the input process lives it is the
\* shell's parent.
LEMMA ThievesAreSeen == TreeInv /\ TreeNext => OnlyHandlerSteals'
<1> SUFFICES ASSUME TreeInv, TreeNext, WaitsForShell', life'["shell"] = "gone"
             PROVE  stolen'
  BY DEF OnlyHandlerSteals
<1>1. /\ OnlyHandlerSteals /\ "shell" \in Procs /\ "input" \in Mains
      /\ life \in [Procs -> {"none", "alive", "stopped", "paused", "zombie", "gone"}]
      /\ pc \in [Mains -> {"queues", "server", "web", "input", "gui", "waiting",
                          "returned", "ended", "starting", "threads"}]
      /\ stolen \in BOOLEAN /\ TreePlaces
  BY DEF TreeInv, TreeTypeOK, Procs, Mains
<1>2. pc'["input"] = "threads" /\ command' = "shell"
  BY DEF WaitsForShell, At
<1>3. CASE Shell
  BY <1>1, <1>3 DEF Shell
<1>4. UNCHANGED command \/ Shell \/ ShellLoop
  BY DEF TreeNext, InputRuns, InputFails, CreateQueues, CreateSystemServer, CreateWebServer,
     CreateInput, Ends, SignalHandler, MainStep, CreateGui, WaitFails, WaitReaps,
     WaitReturns, Returned, Forks, ShellStops, ShellContinues, shellVars
<1>5. ASSUME ~Shell
      PROVE  pc["input"] = "threads" /\ command = "shell" /\ Alive("input") /\ WaitsForShell
  <2>1. command = "shell"
    BY <1>2, <1>4, <1>5 DEF ShellLoop, ShellStopSeen, ShellEndSeen, ShellLost, WaitsForShell
  <2>2. pc["input"] # "starting"
    BY <1>1, <2>1 DEF TreePlaces
  <2>3. ASSUME NEW p \in Mains, NEW there \in {"server", "web", "input", "gui", "waiting", "returned", "ended"}, Goes(p, there)
        PROVE  pc["input"] = "threads"
    BY <1>1, <1>2, <2>3 DEF Goes
  <2>4. UNCHANGED pc => pc["input"] = "threads"
    BY <1>2
  <2>5. ASSUME \/ CreateQueues \/ CreateSystemServer \/ CreateWebServer \/ CreateInput
               \/ InputFails \/ \E p \in Mains : MainStep(p) /\ ~Returned(p)
        PROVE  pc["input"] = "threads"
    <3>1. \E p \in Mains, there \in {"server", "web", "input", "gui", "waiting", "returned", "ended"} :
            Goes(p, there)
      BY <2>5 DEF CreateQueues, CreateSystemServer, CreateWebServer, CreateInput, Forks,
         InputFails, MainStep, CreateGui, WaitFails, WaitReaps, WaitReturns, Mains
    <3>2. QED
      BY <2>3, <3>1
  <2>6. ASSUME NEW q \in Procs, Ends(q) PROVE pc["input"] = "threads"
    BY <1>1, <1>2, <2>6 DEF Ends
  <2>7. InputRuns => pc["input"] = "starting"
    BY DEF InputRuns, At
  <2>8. pc["input"] = "threads"
    <3>1. \/ \E q \in Procs : Ends(q)
          \/ CreateQueues \/ CreateSystemServer \/ CreateWebServer \/ CreateInput
          \/ InputFails \/ InputRuns \/ \E p \in Mains : MainStep(p) /\ ~Returned(p)
          \/ UNCHANGED pc
      BY <1>5 DEF TreeNext, Returned, SignalHandler, ShellStops, ShellContinues, ShellLoop,
         ShellStopSeen, ShellEndSeen, ShellLost, ShellFrame, mainVars
    <3>2. QED
      BY <2>2, <2>4, <2>5, <2>6, <2>7, <3>1
  <2>9. QED
    BY <1>1, <2>1, <2>8 DEF TreePlaces, WaitsForShell, At
<1>6. CASE ~Shell /\ life["shell"] = "gone"
  <2>1. stolen
    BY <1>1, <1>5, <1>6 DEF OnlyHandlerSteals
  <2>2. QED
    BY <1>6, <2>1 DEF TreeNext, InputRuns, InputFails, CreateQueues, CreateSystemServer,
       CreateWebServer, CreateInput, Ends, SignalHandler, MainStep, CreateGui, WaitFails,
       WaitReaps, WaitReturns, Returned, Forks, ShellStops, ShellContinues, ShellLoop,
       ShellStopSeen, ShellEndSeen, ShellLost, ShellFrame, shellVars
<1>7. CASE ~Shell /\ life["shell"] # "gone"
  <2>1. ASSUME NEW q \in Procs, Dies(q) PROVE q = "input"
    <3>1. CASE q = "shell"
      <4>1. HasParent(q)
        BY <1>1, <1>5, <1>7, <3>1 DEF HasParent, Children
      <4>2. QED
        BY <1>1, <2>1, <3>1, <4>1 DEF Dies
    <3>2. CASE q # "shell" /\ q # "input"
      <4>1. "shell" \notin Children(q)
        BY <3>2 DEF Children
      <4>2. QED
        BY <1>1, <1>7, <2>1, <3>2, <4>1 DEF Dies
    <3>3. QED
      BY <3>1, <3>2
  <2>2. ASSUME NEW q \in Procs, Ends(q) PROVE stolen'
    <3>1. q = "input"
      BY <2>1, <2>2 DEF Ends
    <3>2. QED
      BY <1>1, <1>2, <2>2, <3>1 DEF Ends
  <2>3. ASSUME NEW q \in Mains, SignalHandler(q) PROVE stolen'
    BY <1>1, <1>7, <2>3 DEF SignalHandler
  <2>4. ASSUME NEW q \in Mains, MainStep(q) PROVE FALSE
    <3>1. q # "input"
      <4>1. pc["input"] = "threads"
        BY <1>5, <1>7
      <4>2. ~MainStep("input")
        BY <4>1 DEF MainStep, CreateGui, WaitFails, WaitReaps, WaitReturns, Returned, At
      <4>3. QED
        BY <2>4, <4>2
    <3>2. q = "main" /\ "main" \in Procs /\ "shell" \notin Children("main")
      BY <3>1 DEF Mains, Procs, Children
    <3>3. ~Returned("main")
      BY <2>1, <3>2 DEF Returned
    <3>4. CASE CreateGui("main")
      BY <1>1, <1>7, <3>4 DEF CreateGui, Forks
    <3>5. ASSUME NEW c \in Procs, WaitReaps("main", c) PROVE FALSE
      BY <1>1, <1>7, <3>2, <3>5 DEF WaitReaps, Zombies
    <3>6. QED
      BY <1>7, <2>4, <3>2, <3>3, <3>4, <3>5 DEF MainStep, WaitFails
  <2>5. CASE CreateQueues \/ CreateSystemServer \/ CreateWebServer \/ CreateInput
    <3>1. ~Dies("main")
      BY <2>1 DEF Procs, Mains
    <3>2. life' = life \/ \E c \in {"server", "web", "input"} : life' = [life EXCEPT ![c] = "alive"]
      BY <2>5, <3>1 DEF CreateQueues, CreateSystemServer, CreateWebServer, CreateInput, Forks
    <3>3. QED
      BY <1>1, <1>7, <3>2
  <2>6. CASE InputRuns \/ InputFails \/ ShellStops \/ ShellContinues
    BY <1>1, <1>7, <2>6 DEF InputRuns, InputFails, ShellStops, ShellContinues
  <2>7. CASE ShellLoop
    BY <1>1, <1>2, <1>7, <2>7 DEF ShellLoop, ShellStopSeen, ShellEndSeen, ShellLost
  <2>8. QED
    BY <1>7, <2>2, <2>3, <2>4, <2>5, <2>6, <2>7 DEF TreeNext
<1>8. QED
  BY <1>3, <1>6, <1>7

LEMMA TreeInvKeeps == TreeInv /\ [TreeNext]_treeVars => TreeInv'
<1>1. CASE TreeInv /\ TreeNext
  BY <1>1, TreeTypeKeeps, PlacesKeep, ThievesAreSeen, AccountedKeeps DEF TreeInv
<1>2. CASE TreeInv /\ UNCHANGED treeVars
  BY <1>2, TreeTypeKeeps DEF treeVars, TreeInv, TreePlaces, OnlyHandlerSteals, Accounted,
     Alive, WaitsForShell, At, Gone, Left, Exists
<1>3. QED
  BY <1>1, <1>2

LEMMA TreeInvFirst == TreeInit => TreeInv
<1> SUFFICES ASSUME TreeInit PROVE TreeInv
  OBVIOUS
<1>1. TreeTypeOK
  <2>1. /\ life \in [Procs -> {"none", "alive", "stopped", "paused", "zombie", "gone"}]
        /\ pc \in [Mains -> {"queues", "server", "web", "input", "gui", "waiting",
                             "returned", "ended", "starting", "threads"}]
    BY DEF TreeInit
  <2>2. waits \in [Mains -> 0..WaitCalls] /\ shells \in 0..MaxShells
    BY MaxShellsAssumption DEF TreeInit, WaitCalls
  <2>3. QED
    BY <2>1, <2>2 DEF TreeInit, TreeTypeOK
<1>2. TreePlaces
  BY DEF TreeInit, TreePlaces, Mains, Procs, Alive
<1>3. OnlyHandlerSteals
  BY DEF TreeInit, OnlyHandlerSteals, WaitsForShell, At, Mains
<1>4. \A p \in Mains : Accounted(p)
  BY DEF TreeInit, Accounted, Mains
<1>5. QED
  BY <1>1, <1>2, <1>3, <1>4 DEF TreeInv

\* The variables keep their types (main.c, input.c): a wait is never counted
\* beyond the fourth.
THEOREM TreeTypeCorrect == TreeSpec => []TreeTypeOK
<1>1. TreeInv => TreeTypeOK
  BY DEF TreeInv
<1>2. QED
  BY <1>1, TreeInvFirst, TreeInvKeeps, PTL DEF TreeSpec

\* main returns, and the input process behind it, only when no child is left:
\* four waits are as many as there are children, and one that finds none says
\* that none is left (main.c:33-36, 112-125).
THEOREM MainReturnsLast == TreeSpec => []ReturnsLast
<1>1. TreeInv => ReturnsLast
  BY DEF TreeInv, Accounted, ReturnsLast, Gone
<1>2. QED
  BY <1>1, TreeInvFirst, TreeInvKeeps, PTL DEF TreeSpec

-------------------------------------------------------------------------------
(* What must come to an end. *)

\* No child of main runs.
Quiet == \A c \in Children("main") : life[c] \in {"none", "zombie", "gone"}

\* main waits, has waited k times, and has nothing to wait for.
WaitsQuietly(k) == At("main", "waiting") /\ waits["main"] = k /\ Quiet

\* Nobody brings a child of main back while main waits.
LEMMA QuietStays ==
  ASSUME TreeInv, TreeNext, At("main", "waiting"), Quiet
  PROVE  life'["main"] = "gone" \/ (Alive("main")' /\ Quiet')
<1>1. /\ life \in [Procs -> {"none", "alive", "stopped", "paused", "zombie", "gone"}]
      /\ "main" \in Procs /\ pc["main"] = "waiting" /\ life["main"] = "alive"
      /\ Children("main") = {"server", "web", "input", "gui"}
      /\ Children("main") \subseteq Procs
  BY DEF TreeInv, TreeTypeOK, Procs, Mains, At, Alive, Children
<1> SUFFICES /\ life'["main"] \in {"alive", "gone"}
             /\ life'["main"] # "gone" =>
                  \A c \in Children("main") : life'[c] \in {"none", "zombie", "gone"}
  BY DEF Quiet, Alive
<1>2. ASSUME NEW x \in {"gui2", "shell"}, NEW to \in {"alive", "stopped", "paused", "gone"},
             life' = [life EXCEPT ![x] = to]
      PROVE  UNCHANGED life["main"] /\ \A c \in Children("main") : UNCHANGED life[c]
  BY <1>1, <1>2
<1>3. ASSUME NEW q \in Procs, Dies(q), life[q] = "alive" \/ life[q] \in {"stopped", "paused"}
      PROVE  /\ life'["main"] \in {"alive", "gone"}
             /\ life'["main"] # "gone" =>
                  \A c \in Children("main") : life'[c] \in {"none", "zombie", "gone"}
  <2>1. q = "main" => life'["main"] = "gone"
    BY <1>1, <1>3 DEF Dies, HasParent, Mains, Children
  <2>2. q # "main" => life'["main"] = "alive"
    BY <1>1, <1>3, OthersLiveOn
  <2>3. \A c \in Children("main") : c # q
    BY <1>3 DEF Quiet
  <2>4. \A c \in Children("main") : life'[c] \in {life[c], "gone"}
    BY <1>1, <1>3, <2>3 DEF Dies
  <2>5. QED
    BY <1>1, <2>1, <2>2, <2>4 DEF Quiet
<1>4. ~CreateQueues /\ ~CreateSystemServer /\ ~CreateWebServer /\ ~CreateInput
  BY <1>1 DEF CreateQueues, CreateSystemServer, CreateWebServer, CreateInput, At
<1>5. CASE InputRuns \/ InputFails
  BY <1>1, <1>5 DEF InputRuns, InputFails, Quiet
<1>6. CASE Shell \/ ShellStops \/ ShellContinues \/ ShellLoop
  <2>1. UNCHANGED life \/ \E to \in {"alive", "stopped", "paused", "gone"} :
          life' = [life EXCEPT !["shell"] = to]
    BY <1>6 DEF Shell, ShellStops, ShellContinues, ShellLoop, ShellStopSeen, ShellEndSeen,
       ShellLost
  <2>2. QED
    BY <1>1, <1>2, <2>1 DEF Quiet
<1>7. CASE \E q \in Procs : Ends(q)
  BY <1>3, <1>7 DEF Ends
<1>8. ASSUME NEW q \in Mains, SignalHandler(q)
      PROVE  \A c \in Procs : life'[c] \in {life[c], "gone"} /\ life'["main"] = "alive"
  BY <1>1, <1>8 DEF SignalHandler, Zombies
<1>9. ASSUME NEW q \in Mains, MainStep(q)
      PROVE  /\ life'["main"] \in {"alive", "gone"}
             /\ life'["main"] # "gone" =>
                  \A c \in Children("main") : life'[c] \in {"none", "zombie", "gone"}
  <2>1. CASE CreateGui(q)
    <3>1. q # "main"
      BY <1>1, <2>1 DEF CreateGui, At
    <3>2. UNCHANGED life \/ life' = [life EXCEPT !["gui2"] = "alive"]
      BY <2>1, <3>1 DEF CreateGui, Forks
    <3>3. QED
      BY <1>1, <1>2, <3>2 DEF Quiet
  <2>2. CASE WaitFails(q)
    BY <1>1, <2>2 DEF WaitFails, Quiet
  <2>3. ASSUME NEW c \in Procs, WaitReaps(q, c)
        PROVE  /\ life'["main"] = "alive"
               /\ \A d \in Children("main") : life'[d] \in {"none", "zombie", "gone"}
    <3>1. life[c] = "zombie" /\ life' = [life EXCEPT ![c] = "gone"]
      BY <2>3 DEF WaitReaps, Zombies
    <3>2. QED
      BY <1>1, <3>1 DEF Quiet
  <2>4. CASE Returned(q)
    <3>1. Dies(q) /\ life[q] = "alive" /\ q \in Procs
      BY <2>4 DEF Returned, At, Alive, Mains, Procs
    <3>2. QED
      BY <1>3, <3>1
  <2>5. QED
    BY <1>9, <2>1, <2>2, <2>3, <2>4 DEF MainStep
<1>10. QED
  BY <1>1, <1>4, <1>5, <1>6, <1>7, <1>8, <1>9 DEF TreeNext, Quiet

\* Each step leaves a quiet main where it is, or counts one wait, or ends it;
\* and its own step does not leave it there.
LEMMA QuietGoesOn ==
  ASSUME TreeInv, [TreeNext]_treeVars, NEW k \in 0..3, WaitsQuietly(k)
  PROVE  /\ \/ WaitsQuietly(k)'
            \/ k < 3 /\ WaitsQuietly(k + 1)'
            \/ k = 3 /\ At("main", "returned")'
            \/ life'["main"] = "gone"
         /\ <<MainStep("main")>>_treeVars => ~WaitsQuietly(k)'
         /\ CanStep("main")
<1>1. /\ pc["main"] = "waiting" /\ waits["main"] = k /\ Quiet /\ "main" \in Mains
      /\ pc \in [Mains -> {"queues", "server", "web", "input", "gui", "waiting",
                          "returned", "ended", "starting", "threads"}]
      /\ waits \in [Mains -> 0..WaitCalls] /\ Alive("main") /\ At("main", "waiting")
  BY DEF WaitsQuietly, At, Mains, TreeInv, TreeTypeOK
<1>2. \A j \in 0..4 : WaitsQuietly(j)' <=>
        /\ Alive("main")' /\ Quiet'
        /\ pc'["main"] = "waiting" /\ waits'["main"] = j
  BY DEF WaitsQuietly, At
<1>3. At("main", "returned")' <=> Alive("main")' /\ pc'["main"] = "returned"
  BY DEF At
<1>4. CanStep("main")
  BY <1>1 DEF CanStep, Quiet, Zombies, Gone, Grouped, Exists
<1>5. CASE TreeNext
  <2>1. life'["main"] = "gone" \/ (Alive("main")' /\ Quiet')
    BY <1>1, <1>5, QuietStays
  <2>2. Alive("main")' => life'["main"] # "gone"
    BY DEF Alive
  <2>3. pc'["main"] = "ended" /\ Dies("main") => life'["main"] = "gone"
    BY <1>1 DEF Dies, HasParent, Mains, Procs, Children
  <2>4. ASSUME MainStep("main") /\ WaitReturns("main")
        PROVE  /\ waits'["main"] = k + 1
               /\ pc'["main"] = IF k + 1 = WaitCalls THEN "returned" ELSE "waiting"
    BY <1>1, <2>4 DEF WaitReturns, Goes
  <2>5. MainStep("main") => WaitReturns("main")
    BY <1>1 DEF MainStep, CreateGui, WaitFails, WaitReaps, Returned, At
  <2>6. \/ life'["main"] = "gone"
        \/ pc'["main"] = "waiting" /\ waits'["main"] = k
        \/ k < 3 /\ pc'["main"] = "waiting" /\ waits'["main"] = k + 1
        \/ k = 3 /\ pc'["main"] = "returned"
    BY <1>1, <1>5, <2>3, <2>4, MainMoves DEF WaitCalls
  <2>7. MainStep("main") => ~WaitsQuietly(k)'
    BY <1>2, <2>4, <2>5
  <2>8. QED
    BY <1>2, <1>3, <1>4, <2>1, <2>2, <2>6, <2>7
<1>6. CASE UNCHANGED treeVars
  <2>1. WaitsQuietly(k)'
    BY <1>1, <1>6 DEF treeVars, WaitsQuietly, At, Alive, Quiet
  <2>2. QED
    BY <1>4, <1>6, <2>1
<1>7. QED
  BY <1>5, <1>6

LEMMA ReturnedGoes ==
  ASSUME TreeInv, [TreeNext]_treeVars, At("main", "returned")
  PROVE  /\ At("main", "returned")' \/ life'["main"] = "gone"
         /\ <<MainStep("main")>>_treeVars => life'["main"] = "gone"
         /\ CanStep("main")
<1>1. /\ life \in [Procs -> {"none", "alive", "stopped", "paused", "zombie", "gone"}]
      /\ "main" \in Procs /\ pc["main"] = "returned" /\ life["main"] = "alive"
      /\ "main" \in Mains
  BY DEF TreeInv, TreeTypeOK, Procs, Mains, At, Alive
<1>2. Dies("main") => life'["main"] = "gone"
  BY <1>1 DEF Dies, HasParent, Mains, Children
<1>3. MainStep("main") => Dies("main")
  BY <1>1 DEF MainStep, CreateGui, WaitFails, WaitReaps, WaitReturns, Returned, At
<1>4. TreeNext => life'["main"] \in {"alive", "gone"}
  <2>1. ASSUME NEW q \in Procs, Dies(q) PROVE life'["main"] \in {"alive", "gone"}
    BY <1>1, <1>2, <2>1, OthersLiveOn
  <2>2. ASSUME NEW q \in Procs, NEW to \in {"alive", "stopped", "paused", "gone"},
               life' = [life EXCEPT ![q] = to], to = "gone" \/ q # "main"
        PROVE  life'["main"] \in {"alive", "gone"}
    BY <1>1, <2>2
  <2>3. UNCHANGED life => life'["main"] \in {"alive", "gone"}
    BY <1>1
  <2>4. ~CreateQueues /\ ~CreateSystemServer /\ ~CreateWebServer /\ ~CreateInput
    BY <1>1 DEF CreateQueues, CreateSystemServer, CreateWebServer, CreateInput, At
  <2>5. CASE Shell \/ ShellStops \/ ShellContinues \/ ShellLoop
    <3>1. UNCHANGED life \/ \E to \in {"alive", "stopped", "paused", "gone"} :
            life' = [life EXCEPT !["shell"] = to]
      BY <2>5 DEF Shell, ShellStops, ShellContinues, ShellLoop, ShellStopSeen, ShellEndSeen,
         ShellLost
    <3>2. "shell" \in Procs
      BY DEF Procs
    <3>3. QED
      BY <2>2, <2>3, <3>1, <3>2
  <2>6. ASSUME NEW q \in Mains, SignalHandler(q) PROVE life'["main"] \in {"alive", "gone"}
    BY <1>1, <2>6 DEF SignalHandler
  <2>7. ASSUME NEW q \in Mains, MainStep(q) PROVE life'["main"] \in {"alive", "gone"}
    <3>1. CASE CreateGui(q)
      <4>1. q = "input"
        BY <1>1, <3>1 DEF CreateGui, At, Mains
      <4>2. UNCHANGED life \/ life' = [life EXCEPT !["gui2"] = "alive"]
        BY <3>1, <4>1 DEF CreateGui, Forks
      <4>3. "gui2" \in Procs
        BY DEF Procs
      <4>4. QED
        BY <2>2, <2>3, <4>2, <4>3
    <3>2. CASE Returned(q)
      BY <2>1, <3>2 DEF Returned, Mains, Procs
    <3>3. QED
      BY <2>2, <2>3, <2>7, <3>1, <3>2 DEF MainStep, WaitFails, WaitReaps
  <2>8. QED
    BY <2>1, <2>3, <2>4, <2>5, <2>6, <2>7 DEF TreeNext, InputRuns, InputFails, Ends
<1>5. TreeNext => (pc'["main"] = "returned" \/ life'["main"] = "gone")
  BY <1>1, <1>2, MainMoves DEF WaitReturns, At
<1>6. At("main", "returned")' \/ life'["main"] = "gone"
  BY <1>1, <1>4, <1>5 DEF At, Alive, treeVars
<1>7. QED
  BY <1>1, <1>2, <1>3, <1>6 DEF CanStep, At, Alive

\* Once no child runs, main ends: the waits that are left return one after the
\* other, by a zombie or by ECHILD, and nothing but its own steps can hold it
\* up.  That those are possible when CanStep says so is what
\* HeldUpOnlyByChildren assumes (main.c:33-36, 120-125).
THEOREM QuietMainEnds == FairTree /\ []HeldUpOnlyByChildren => MainEnds
<1> DEFINE W0 == TreeInv /\ WaitsQuietly(0)
           W1 == TreeInv /\ WaitsQuietly(1)
           W2 == TreeInv /\ WaitsQuietly(2)
           W3 == TreeInv /\ WaitsQuietly(3)
           R == TreeInv /\ At("main", "returned")
           G == life["main"] = "gone"
           Can == CanStep("main") => ENABLED <<MainStep("main")>>_treeVars
<1>1. W0 /\ [TreeNext]_treeVars =>
        (W0' \/ W1' \/ G') /\ (<<MainStep("main")>>_treeVars => ~W0') /\ CanStep("main")
  BY QuietGoesOn, TreeInvKeeps
<1>2. W1 /\ [TreeNext]_treeVars =>
        (W1' \/ W2' \/ G') /\ (<<MainStep("main")>>_treeVars => ~W1') /\ CanStep("main")
  BY QuietGoesOn, TreeInvKeeps
<1>3. W2 /\ [TreeNext]_treeVars =>
        (W2' \/ W3' \/ G') /\ (<<MainStep("main")>>_treeVars => ~W2') /\ CanStep("main")
  BY QuietGoesOn, TreeInvKeeps
<1>4. W3 /\ [TreeNext]_treeVars =>
        (W3' \/ R' \/ G') /\ (<<MainStep("main")>>_treeVars => ~W3') /\ CanStep("main")
  BY QuietGoesOn, TreeInvKeeps
<1>5. R /\ [TreeNext]_treeVars =>
        (R' \/ G') /\ (<<MainStep("main")>>_treeVars => G') /\ CanStep("main")
  BY ReturnedGoes, TreeInvKeeps
<1>6. HeldUpOnlyByChildren => Can
  BY DEF HeldUpOnlyByChildren, Mains
<1>7. FairTree => [][TreeNext]_treeVars /\ []TreeInv /\ WF_treeVars(MainStep("main"))
  BY TreeInvFirst, TreeInvKeeps, PTL DEF FairTree, TreeSpec, TreeFairness
<1>8. TreeInv /\ pc["main"] = "waiting"
        /\ (\A c \in Children("main") : life[c] \in {"none", "zombie", "gone"})
        => W0 \/ W1 \/ W2 \/ W3
  <2>1. SUFFICES ASSUME TreeInv, pc["main"] = "waiting", Quiet
                 PROVE  \E k \in 0..3 : WaitsQuietly(k)
    BY DEF Quiet
  <2>2. waits["main"] \in 0..3 /\ At("main", "waiting")
    BY <2>1 DEF TreeInv, TreeTypeOK, Accounted, TreePlaces, Mains, WaitCalls, At
  <2>3. QED
    BY <2>1, <2>2 DEF WaitsQuietly
<1> HIDE DEF W0, W1, W2, W3, R, G, Can
<1>9. FairTree /\ []HeldUpOnlyByChildren => (R ~> G)
  BY <1>5, <1>6, <1>7, PTL DEF Can
<1>10. FairTree /\ []HeldUpOnlyByChildren => (W3 ~> R \/ G)
  BY <1>4, <1>6, <1>7, PTL DEF Can
<1>11. FairTree /\ []HeldUpOnlyByChildren => (W2 ~> W3 \/ G)
  BY <1>3, <1>6, <1>7, PTL DEF Can
<1>12. FairTree /\ []HeldUpOnlyByChildren => (W1 ~> W2 \/ G)
  BY <1>2, <1>6, <1>7, PTL DEF Can
<1>13. FairTree /\ []HeldUpOnlyByChildren => (W0 ~> W1 \/ G)
  BY <1>1, <1>6, <1>7, PTL DEF Can
<1>14. FairTree /\ []HeldUpOnlyByChildren => (W0 \/ W1 \/ W2 \/ W3 ~> G)
  BY <1>9, <1>10, <1>11, <1>12, <1>13, PTL
<1>15. QED
  BY <1>7, <1>8, <1>14, PTL DEF MainEnds, G

\* A shell that has ended stays so for toy_shell: it is a zombie until the loop
\* or the handler takes it, and what the status says is not written again.
LEMMA EndedShell ==
  ASSUME TreeInv, TreeNext, WaitsForShell, life["shell"] \in {"zombie", "gone"},
         At("input", "threads")'
  PROVE  /\ ~ShellLoop =>
              /\ WaitsForShell' /\ UNCHANGED status
              /\ life'["shell"] \in {life["shell"], "gone"}
         /\ ShellLoop => command' = "prompt" /\ (life["shell"] = "gone" => status = "exited")
<1>1. /\ life \in [Procs -> {"none", "alive", "stopped", "paused", "zombie", "gone"}]
      /\ "shell" \in Procs /\ "input" \in Mains /\ "main" \in Mains
      /\ pc["input"] = "threads" /\ pc'["input"] = "threads" /\ command = "shell"
      /\ life["input"] = "alive" /\ life'["input"] = "alive"
      /\ pc \in [Mains -> {"queues", "server", "web", "input", "gui", "waiting",
                          "returned", "ended", "starting", "threads"}]
  BY DEF TreeInv, TreeTypeOK, Procs, Mains, WaitsForShell, At, Alive
<1>2. ShellLoop => command' = "prompt" /\ (life["shell"] = "gone" => status = "exited")
  BY <1>1 DEF ShellLoop, ShellStopSeen, ShellEndSeen, ShellLost
<1>3. ~Shell /\ ~ShellStops /\ ~ShellContinues /\ ~InputRuns /\ ~InputFails
  BY <1>1 DEF Shell, ShellStops, ShellContinues, InputRuns, InputFails, At
<1>4. ~ShellLoop => UNCHANGED <<command, status>>
  BY <1>3 DEF TreeNext, CreateQueues, CreateSystemServer, CreateWebServer, CreateInput,
     Forks, Ends, SignalHandler, MainStep, CreateGui, WaitFails, WaitReaps, WaitReturns,
     Returned, shellVars
<1> DEFINE Follows == life'["shell"] \in {life["shell"], "gone"}
<1>5. ASSUME NEW q \in Procs, Dies(q), q # "input", q # "shell" PROVE Follows
  BY <1>1, <1>5 DEF Dies, Children
<1>6. ASSUME NEW q \in Procs, Ends(q) PROVE Follows
  <2>1. q # "input" /\ q # "shell" /\ Dies(q)
    BY <1>1, <1>6 DEF Ends
  <2>2. QED
    BY <1>5, <2>1
<1>7. ASSUME NEW q \in Mains, SignalHandler(q) PROVE Follows
  BY <1>1, <1>7 DEF SignalHandler
<1>8. ASSUME NEW q \in Mains, MainStep(q) PROVE Follows
  <2>1. q = "main"
    BY <1>1, <1>8 DEF MainStep, CreateGui, WaitFails, WaitReaps, WaitReturns, Returned, At,
       Mains
  <2>2. CASE CreateGui(q)
    <3>1. UNCHANGED life \/ life' = [life EXCEPT !["gui"] = "alive"]
      BY <2>1, <2>2 DEF CreateGui, Forks
    <3>2. QED
      BY <1>1, <3>1
  <2>3. ASSUME NEW c \in Procs, WaitReaps(q, c) PROVE Follows
    BY <1>1, <2>3 DEF WaitReaps
  <2>4. CASE Returned(q)
    BY <1>5, <2>1, <2>4 DEF Returned, Mains, Procs
  <2>5. QED
    BY <1>8, <2>2, <2>3, <2>4 DEF MainStep, WaitFails
<1>9. CASE CreateQueues \/ CreateSystemServer \/ CreateWebServer \/ CreateInput
  <2>1. \/ UNCHANGED life
        \/ \E c \in {"server", "web", "input"} : life' = [life EXCEPT ![c] = "alive"]
        \/ Dies("main")
    BY <1>9 DEF CreateQueues, CreateSystemServer, CreateWebServer, CreateInput, Forks
  <2>2. Dies("main") => Follows
    BY <1>5 DEF Procs, Mains
  <2>3. Follows
    BY <1>1, <2>1, <2>2
  <2>4. QED
    BY <1>1, <1>2, <1>4, <2>3 DEF WaitsForShell
<1>10. QED
  BY <1>1, <1>2, <1>3, <1>4, <1>6, <1>7, <1>8, <1>9 DEF TreeNext, WaitsForShell

\* The handler has reaped the shell, and the status that is left says stopped.
LostShell == WaitsForShell /\ life["shell"] = "gone" /\ status = "stopped"

\* From then on "sh" never gets back to its prompt: only the end of the input
\* process ends the loop (input.c:298-318, main.c:112-118).
THEOREM LostForGood ==
  TreeSpec => [][LostShell => LostShell' \/ ~At("input", "threads")']_treeVars
<1>1. TreeInv /\ [TreeNext]_treeVars
        => [LostShell => LostShell' \/ ~At("input", "threads")']_treeVars
  BY EndedShell DEF LostShell
<1>2. QED
  BY <1>1, TreeInvFirst, TreeInvKeeps, PTL DEF TreeSpec

\* "sh" gets back to its prompt when the shell has ended, but for that case:
\* waitpid hands over a zombie, and when the handler was first, ECHILD and a
\* status that is no stop end the loop too (input.c:298-318).
THEOREM EndedShellReturns == FairTree /\ []HeldUpOnlyByChildren => ShellReturns
<1> DEFINE Z == TreeInv /\ WaitsForShell /\ life["shell"] = "zombie"
           E == TreeInv /\ WaitsForShell /\ life["shell"] = "gone" /\ status = "exited"
           G == command = "prompt" \/ (stolen /\ status = "stopped") \/ ~At("input", "threads")
           Can == CanLoop => ENABLED <<ShellLoop>>_treeVars
<1>1. TreeInv /\ WaitsForShell /\ life["shell"] = "gone" => E \/ G
  BY DEF TreeInv, TreeTypeOK, OnlyHandlerSteals
<1>2. Z /\ [TreeNext]_treeVars =>
        (Z' \/ E' \/ G') /\ (<<ShellLoop>>_treeVars => G') /\ CanLoop
  <2>1. SUFFICES ASSUME Z, [TreeNext]_treeVars
                 PROVE  (Z' \/ E' \/ G') /\ (<<ShellLoop>>_treeVars => G') /\ CanLoop
    OBVIOUS
  <2>2. CanLoop
    BY <2>1 DEF CanLoop
  <2>3. TreeInv'
    BY <2>1, TreeInvKeeps
  <2>4. TreeInv' /\ WaitsForShell' /\ life'["shell"] = "gone" => E' \/ G'
    BY DEF TreeInv, TreeTypeOK, OnlyHandlerSteals
  <2>5. CASE UNCHANGED treeVars
    BY <2>1, <2>2, <2>3, <2>5 DEF treeVars, WaitsForShell, At, Alive
  <2>6. CASE TreeNext
    BY <2>1, <2>2, <2>3, <2>4, <2>6, EndedShell
  <2>7. QED
    BY <2>1, <2>5, <2>6
<1>3. E /\ [TreeNext]_treeVars =>
        (E' \/ G') /\ (<<ShellLoop>>_treeVars => G') /\ CanLoop
  <2>1. SUFFICES ASSUME E, [TreeNext]_treeVars
                 PROVE  (E' \/ G') /\ (<<ShellLoop>>_treeVars => G') /\ CanLoop
    OBVIOUS
  <2>2. CanLoop /\ TreeInv'
    BY <2>1, TreeInvKeeps DEF CanLoop
  <2>3. CASE UNCHANGED treeVars
    BY <2>1, <2>2, <2>3 DEF treeVars, WaitsForShell, At, Alive
  <2>4. CASE TreeNext
    BY <2>1, <2>2, <2>4, EndedShell
  <2>5. QED
    BY <2>1, <2>3, <2>4
<1>4. HeldUpOnlyByChildren => Can
  BY DEF HeldUpOnlyByChildren
<1>5. FairTree => [][TreeNext]_treeVars /\ []TreeInv /\ WF_treeVars(ShellLoop)
  BY TreeInvFirst, TreeInvKeeps, PTL DEF FairTree, TreeSpec, TreeFairness
<1>6. TreeInv /\ command = "shell" /\ life["shell"] \in {"zombie", "gone"} => Z \/ E \/ G
  BY <1>1 DEF WaitsForShell
<1> HIDE DEF Z, E, G, Can
<1>7. FairTree /\ []HeldUpOnlyByChildren => (E ~> G)
  BY <1>3, <1>4, <1>5, PTL DEF Can
<1>8. FairTree /\ []HeldUpOnlyByChildren => (Z ~> E \/ G)
  BY <1>2, <1>4, <1>5, PTL DEF Can
<1>9. FairTree /\ []HeldUpOnlyByChildren => (Z \/ E \/ G ~> G)
  BY <1>7, <1>8, PTL
<1>10. QED
  BY <1>5, <1>6, <1>9, PTL DEF ShellReturns, G
===============================================================================
