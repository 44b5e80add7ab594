----------------------------- MODULE SystemTimer -----------------------------
(***************************************************************************)
(* The timer of the system server (system/system_server.c): a periodic     *)
(* SIGALRM whose handler posts a semaphore, a thread that turns each post  *)
(* into a tick of the global timer, and what the same signal does to the   *)
(* other threads, which all leave it unblocked and are nearly always       *)
(* inside a system call.  The handler is installed without SA_RESTART, so  *)
(* a call it interrupts fails with EINTR.                                  *)
(***************************************************************************)
EXTENDS Integers

CONSTANTS AlarmThreads, \* threads the kernel may deliver the alarm to
          MaxAlarms     \* bound: alarms delivered

QueueThreads == {"watchdog", "monitor", "camera"}

Threads == QueueThreads \cup {"main", "timer", "disk", "engine"}

ASSUME AlarmThreadsAssumption ==
  AlarmThreads \subseteq Threads /\ AlarmThreads # {}
ASSUME MaxAlarmsAssumption == MaxAlarms \in Nat

VARIABLES
  up,        \* the process has not been aborted by an assert
  pending,   \* a SIGALRM is pending; a second one merges with it
  delivered, \* alarms whose handler has run
  sem,       \* global_timer_sem
  timerPc,   \* timer_thread: in sem_wait, in sleep(1), or about to count
  timer,     \* the global timer
  calling,   \* threads inside the call they wait in
  disk,      \* disk_service_thread is still running
  mainPc     \* system_server(): in pthread_cond_wait, testing its loop's
             \* condition, or past the loop

vars == <<up, pending, delivered, sem, timerPc, timer, calling, disk, mainPc>>

\* What every thread but the timer's can be found doing in its loop.
Loopers == QueueThreads \cup {"disk"}

Init ==
  /\ up = TRUE /\ pending = FALSE /\ delivered = 0
  /\ sem = 0 /\ timerPc = "waiting" /\ timer = 0
  /\ calling = Loopers /\ disk = TRUE /\ mainPc = "waiting"

-------------------------------------------------------------------------------
\* The interval timer expires.
Expire ==
  /\ up /\ ~pending
  /\ pending' = TRUE
  /\ UNCHANGED <<up, delivered, sem, timerPc, timer, calling, disk, mainPc>>

\* timer_expire_signal_handler, in whichever thread the kernel chose.
HandlerRuns ==
  /\ up /\ pending /\ delivered < MaxAlarms
  /\ pending' = FALSE
  /\ delivered' = delivered + 1
  /\ sem' = sem + 1

\* The condition wait resumes, or wakes up spuriously.
AlarmInMain ==
  /\ "main" \in AlarmThreads
  /\ HandlerRuns
  /\ mainPc' \in {mainPc, "testing"}
  /\ UNCHANGED <<up, timerPc, timer, calling, disk>>

\* The engine thread goes back to sleep; a thread that is not inside its call
\* notices nothing.
AlarmUnnoticed(t) ==
  /\ t \in AlarmThreads \ {"timer", "main"}
  /\ t \in Loopers => t \notin calling
  /\ HandlerRuns
  /\ UNCHANGED <<up, timerPc, timer, calling, disk, mainPc>>

\* Mutant: the alarm that interrupts the sleep is taken as a tick by itself.
AlarmInTimerCounting ==
  /\ "timer" \in AlarmThreads
  /\ HandlerRuns
  /\ timerPc' = "counting"
  /\ UNCHANGED <<up, timer, calling, disk, mainPc>>

\* sem_wait fails with EINTR and is called again; sleep(1) is cut short.
AlarmInTimer ==
  /\ "timer" \in AlarmThreads
  /\ HandlerRuns
  /\ timerPc' = IF timerPc = "sleeping" THEN "counting" ELSE timerPc
  /\ UNCHANGED <<up, timer, calling, disk, mainPc>>

\* mq_receive fails with EINTR, and assert(ret >= 0) aborts the process.
AlarmInReceive(t) ==
  /\ t \in AlarmThreads \cap QueueThreads /\ t \in calling
  /\ HandlerRuns
  /\ up' = FALSE
  /\ UNCHANGED <<timerPc, timer, calling, disk, mainPc>>

\* read on the inotify descriptor fails with EINTR, and the thread returns.
AlarmInRead ==
  /\ "disk" \in AlarmThreads /\ disk /\ "disk" \in calling
  /\ HandlerRuns
  /\ disk' = FALSE
  /\ UNCHANGED <<up, timerPc, timer, calling, mainPc>>

-------------------------------------------------------------------------------
\* A message, or a new file, arrives; the thread handles it and calls again.
CallReturns(t) ==
  /\ up /\ t \in calling
  /\ t = "disk" => disk
  /\ calling' = calling \ {t}
  /\ UNCHANGED <<up, pending, delivered, sem, timerPc, timer, disk, mainPc>>

CallAgain(t) ==
  /\ up /\ t \in Loopers \ calling
  /\ calling' = calling \cup {t}
  /\ UNCHANGED <<up, pending, delivered, sem, timerPc, timer, disk, mainPc>>

\* Mutant: all the posts there are become one tick.
TakePostDraining ==
  /\ up /\ timerPc = "waiting" /\ sem > 0
  /\ sem' = 0
  /\ timerPc' = "sleeping"
  /\ UNCHANGED <<up, pending, delivered, timer, calling, disk, mainPc>>

TakePost ==
  /\ up /\ timerPc = "waiting" /\ sem > 0
  /\ sem' = sem - 1
  /\ timerPc' = "sleeping"
  /\ UNCHANGED <<up, pending, delivered, timer, calling, disk, mainPc>>

SleepEnds ==
  /\ up /\ timerPc = "sleeping"
  /\ timerPc' = "counting"
  /\ UNCHANGED <<up, pending, delivered, sem, timer, calling, disk, mainPc>>

\* system_timeout_handler, under timer_mutex.
Tick ==
  /\ up /\ timerPc = "counting"
  /\ timer' = timer + 1
  /\ timerPc' = "waiting"
  /\ UNCHANGED <<up, pending, delivered, sem, calling, disk, mainPc>>

\* system_loop_exit starts false; signal_exit, which would set it, is called
\* from nowhere.
system_loop_exit == FALSE

TestLoop ==
  /\ up /\ mainPc = "testing"
  /\ mainPc' = IF system_loop_exit THEN "left" ELSE "waiting"
  /\ UNCHANGED <<up, pending, delivered, sem, timerPc, timer, calling, disk>>

-------------------------------------------------------------------------------
TimerThread == TakePost \/ SleepEnds \/ Tick

Alarm == \/ AlarmInMain \/ AlarmInTimer \/ AlarmInRead
         \/ \E t \in Threads : AlarmUnnoticed(t) \/ AlarmInReceive(t)

Next == \/ Expire \/ Alarm \/ TimerThread \/ TestLoop
        \/ \E t \in Loopers : CallReturns(t) \/ CallAgain(t)

Spec == Init /\ [][Next]_vars

\* The interval timer keeps expiring, a pending signal is delivered, and the
\* timer and main threads run when they can.
Fairness == WF_vars(Expire) /\ WF_vars(Alarm) /\ WF_vars(TimerThread)
              /\ WF_vars(TestLoop)

FairSpec == Spec /\ Fairness

-------------------------------------------------------------------------------
(* Properties *)

InFlight == IF timerPc = "waiting" THEN 0 ELSE 1

TypeOK ==
  /\ up \in BOOLEAN /\ pending \in BOOLEAN /\ disk \in BOOLEAN
  /\ delivered \in 0..MaxAlarms /\ sem \in Nat /\ timer \in Nat
  /\ timerPc \in {"waiting", "sleeping", "counting"}
  /\ calling \subseteq Loopers
  /\ mainPc \in {"waiting", "testing", "left"}

\* No alarm is lost or counted twice, whichever thread it interrupts and
\* whatever it interrupts there: each is a post nobody took yet, the tick the
\* timer thread is at, or counted (system_server.c:52-72, 124-137).
TicksConserved == delivered = sem + InFlight + timer

\* What the liveness theorems assume of ENABLED, which tlapm does not reason
\* about; it follows from TicksConserved and is no property of its own.  As long as
\* an alarm is not counted, the timer thread is past sem_wait or finds a post
\* there (system_server.c:52-72, 124-137).
AlarmsHaveTheirThread == up /\ timer < delivered => ENABLED <<TimerThread>>_vars

IsCounted(n) == timer = n /\ delivered > n ~> timer > n \/ ~up

\* Unless an alarm hits a queue thread and the process is aborted, every alarm
\* becomes a tick of the global timer in the end: the one after the n that were
\* counted is counted next (system_server.c:124-137).
AlarmsAreCounted == \A n \in 0..MaxAlarms : IsCounted(n)

\* What the queue threads assert after mq_receive, "assert(ret >= 0)"
\* (system_server.c:154, 179, 310), stated of the process: no assert fails.
ReceiveNeverFails == up
===============================================================================
