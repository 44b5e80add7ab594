----------------------------- MODULE SystemServer -----------------------------
(***************************************************************************)
(* The descriptors of the system server.  SystemTimer says when a thread   *)
(* is out of the call it waits in; here is what two of them do then.  The  *)
(* disk thread walks the directory tree and opens one directory per level  *)
(* without ever closing one (get_directory_size, system_server.c); the     *)
(* monitor thread dumps the state of the whole machine, opening and        *)
(* closing files of /proc by the dozen (dump_state.c).  Both share the     *)
(* process's table of descriptors, and any open may find it full or the    *)
(* file gone.                                                              *)
(***************************************************************************)
EXTENDS SystemTimer

CONSTANTS Descriptors, \* descriptors free when the threads have started
          MaxDirs,     \* bound: directories under ./fs, itself included
          MaxProcs,    \* bound: processes in /proc
          MaxFiles     \* bound: files read at one place of a dump

ASSUME ServerBounds ==
  /\ Descriptors \in Nat
  /\ MaxDirs \in Nat \ {0} /\ MaxProcs \in Nat /\ MaxFiles \in Nat \ {0}

VARIABLES
  open,    \* descriptors taken by the two threads
  leaked,  \* those of them that nothing will ever close
  walk,    \* directories this walk may still come to
  place,   \* where dumpstate is: not running, at its files before or after
           \* the processes, at one of them, about to open its task directory,
           \* or at its threads
  procs,   \* processes readdir has still to give
  files,   \* files still to be read at this place
  reading  \* one of them is open

dumpVars   == <<place, procs, files, reading>>
diskVars   == <<leaked, walk>>
serverVars == <<vars, open, diskVars, dumpVars>>

ServerInit ==
  /\ Init
  /\ open = 0 /\ leaked = 0 /\ walk = 0
  /\ place = "none" /\ procs = 0 /\ files = 0 /\ reading = FALSE

TakesOne == open < Descriptors /\ open' = open + 1

GivesBack == open' = open - 1

-------------------------------------------------------------------------------
(* get_directory_size, called for every batch of new files. *)

DiskEvent ==
  /\ CallReturns("disk")
  /\ walk' \in 1..MaxDirs
  /\ UNCHANGED <<open, leaked, dumpVars>>

OpenDirectory ==
  /\ up /\ disk /\ walk > 0 /\ TakesOne
  /\ leaked' = leaked + 1 /\ walk' = walk - 1
  /\ UNCHANGED <<vars, dumpVars>>

\* opendir fails: the directory counts as empty, what is below it is not seen.
SkipDirectory ==
  /\ up /\ disk /\ walk > 0
  /\ walk' \in 0..(walk - 1)
  /\ UNCHANGED <<vars, open, leaked, dumpVars>>

ReadEventsAgain ==
  /\ walk = 0 /\ CallAgain("disk")
  /\ UNCHANGED <<open, diskVars, dumpVars>>

-------------------------------------------------------------------------------
(* monitor_thread, and dumpstate for one of its two messages. *)

SampleMessage ==
  /\ CallReturns("monitor")
  /\ UNCHANGED <<open, diskVars, dumpVars>>

DumpMessage ==
  /\ CallReturns("monitor")
  /\ place' = "before" /\ files' = MaxFiles
  /\ UNCHANGED <<open, diskVars, procs, reading>>

ReceiveAgain ==
  /\ place = "none" /\ CallAgain("monitor")
  /\ UNCHANGED <<open, diskVars, dumpVars>>

\* dump_file, the cmdline of a process, the comm of a thread, show_wchan: each
\* opens one file, reads it and closes it.
OpenFile ==
  /\ up /\ files > 0 /\ ~reading /\ TakesOne
  /\ reading' = TRUE
  /\ UNCHANGED <<vars, diskVars, place, procs, files>>

\* Mutant: a file that cannot be opened is tried again.
FileMissingRetried ==
  /\ up /\ files > 0 /\ ~reading
  /\ UNCHANGED <<vars, open, diskVars, dumpVars>>

\* The failure is printed, or "N/A" is put for the name.
FileMissing ==
  /\ up /\ files > 0 /\ ~reading
  /\ files' = files - 1
  /\ UNCHANGED <<vars, open, diskVars, place, procs, reading>>

\* Mutant: the file is left open when its read fails (show_wchan without its
\* out_close label).
CloseFileUnlessEmpty ==
  /\ up /\ reading
  /\ reading' = FALSE /\ files' = files - 1
  /\ open' \in {open, open - 1}
  /\ UNCHANGED <<vars, diskVars, place, procs>>

CloseFile ==
  /\ up /\ reading /\ GivesBack
  /\ reading' = FALSE /\ files' = files - 1
  /\ UNCHANGED <<vars, diskVars, place, procs>>

\* No file is being read, and none is left to read here.
PlaceDone(p) == up /\ place = p /\ files = 0

\* The next process that readdir gives, or closedir when there is none left.
NextProcess(left) ==
  /\ procs' = left
  /\ IF left > 0 THEN place' = "process" /\ files' = 1
                 ELSE place' = "closing" /\ files' = 0

\* __for_each_pid: opendir("/proc").
OpenProc ==
  /\ PlaceDone("before") /\ TakesOne
  /\ \E n \in 0..MaxProcs : NextProcess(n)
  /\ UNCHANGED <<vars, diskVars, reading>>

ProcMissing ==
  /\ PlaceDone("before")
  /\ place' = "after" /\ files' = MaxFiles
  /\ UNCHANGED <<vars, open, diskVars, procs, reading>>

\* for_each_tid_helper: opendir of the process's task directory.
OpenTask ==
  /\ PlaceDone("process") /\ TakesOne
  /\ place' = "threads" /\ files' \in 1..MaxFiles
  /\ UNCHANGED <<vars, diskVars, procs, reading>>

\* The process has ended meanwhile.
TaskMissing ==
  /\ PlaceDone("process")
  /\ NextProcess(procs - 1)
  /\ UNCHANGED <<vars, open, diskVars, reading>>

CloseTask ==
  /\ PlaceDone("threads") /\ GivesBack
  /\ NextProcess(procs - 1)
  /\ UNCHANGED <<vars, diskVars, reading>>

CloseProc ==
  /\ PlaceDone("closing") /\ GivesBack
  /\ place' = "after" /\ files' = MaxFiles
  /\ UNCHANGED <<vars, diskVars, procs, reading>>

DumpEnds ==
  /\ PlaceDone("after")
  /\ place' = "none"
  /\ UNCHANGED <<vars, open, diskVars, procs, files, reading>>

-------------------------------------------------------------------------------
(* The other threads, and the alarm, as they are. *)

OtherThreads ==
  /\ \/ Expire \/ Alarm \/ TimerThread \/ TestLoop
     \/ \E t \in Loopers \ {"disk", "monitor"} : CallReturns(t) \/ CallAgain(t)
  /\ UNCHANGED <<open, diskVars, dumpVars>>

DiskStep == OpenDirectory \/ SkipDirectory

DumpStep ==
  \/ OpenFile \/ FileMissing \/ CloseFile
  \/ OpenProc \/ ProcMissing \/ CloseProc
  \/ OpenTask \/ TaskMissing \/ CloseTask \/ DumpEnds

ServerNext ==
  \/ OtherThreads
  \/ DiskEvent \/ ReadEventsAgain \/ DiskStep
  \/ SampleMessage \/ DumpMessage \/ ReceiveAgain \/ DumpStep

Server == ServerInit /\ [][ServerNext]_serverVars

\* As for the timer; a thread in the middle of a walk or a dump runs.
FairServer ==
  /\ Server /\ Fairness
  /\ WF_serverVars(DiskStep) /\ WF_serverVars(DumpStep \/ ReceiveAgain)

-------------------------------------------------------------------------------
(* Properties *)

\* What the dump holds: a file, /proc, and the task directory of a process.
Held ==
  (IF reading THEN 1 ELSE 0)
    + (IF place \in {"process", "threads", "closing"} THEN 1 ELSE 0)
    + (IF place = "threads" THEN 1 ELSE 0)

ServerTypeOK ==
  /\ TypeOK
  /\ open \in 0..Descriptors /\ leaked \in 0..Descriptors
  /\ walk \in 0..MaxDirs
  /\ place \in {"none", "before", "process", "threads", "closing", "after"}
  /\ procs \in 0..MaxProcs /\ files \in 0..MaxFiles /\ reading \in BOOLEAN
  /\ place \in {"process", "threads"} => procs > 0
  /\ reading => files > 0
  /\ files > 0 => place # "none" /\ "monitor" \notin calling

\* However the two threads interleave, and wherever an open fails, a dump gives
\* back every descriptor it took: what is in use is what the walks of the disk
\* thread have leaked, and what the dump has open just now.  Between dumps only
\* the leak is left (dump_state.c:27-149, 177-215, system_server.c:209-238).
DescriptorsAccounted == open = leaked + Held

\* The leak is for good: once the walks have taken the last descriptor, nothing
\* in the process is opened again (system_server.c:211).
ExhaustionLasts == [][leaked = Descriptors => open' = open]_serverVars

\* A dump comes to its end and the monitor thread to its queue, even when not
\* one of its files can be opened, unless an alarm aborts the process first
\* (dump_state.c:283-314, system_server.c:160-202).
DumpReturns == place # "none" ~> "monitor" \in calling \/ ~up
===============================================================================
