------------------------------ MODULE ProcessTree ------------------------------
(***************************************************************************)
(* The processes of the robot's C program: main.c with its SIGCHLD handler *)
(* and its four waits, the processes it makes (create_* in system_server.c,*)
(* web_server.c, input.c and gui.c), and the shell that the "sh" command   *)
(* of the input process makes (toy_shell in input.c).                      *)
(*                                                                         *)
(* create_* return 0 whatever they did, or -1, so each wait of main is for *)
(* any child of main's own process group.  Nothing in the C code leaves    *)
(* that group; a program that is executed might.  The input process is     *)
(* forked without an exec: it inherits the handler, and when input()       *)
(* cannot set itself up and returns, the process goes on with main's code  *)
(* behind create_input.                                                    *)
(***************************************************************************)
EXTENDS Integers

CONSTANTS MaxShells,  \* bound: "sh" commands
          OwnGroup    \* executed programs that lead a process group of their own

ASSUME MaxShellsAssumption == MaxShells \in Nat
ASSUME OwnGroupAssumption == OwnGroup \subseteq {"web", "gui", "gui2", "shell"}

\* Processes that run main's code.  A browser that cannot be executed runs it
\* too, but has no children: its four waits fail and it ends.
Mains == {"main", "input"}

\* gui2 is the browser of an input process that fell back into main's code.
Procs == Mains \cup {"server", "web", "gui", "gui2", "shell"}

Children(p) == IF p = "main" THEN {"server", "web", "input", "gui"}
               ELSE IF p = "input" THEN {"gui2", "shell"} ELSE {}

WaitCalls == 4

VARIABLES
  life,     \* of each process; a paused one is stopped, and waitpid said so
  pc,       \* what a process that runs main's code does next
  waits,    \* how many of its waits have returned
  sigchld,  \* SIGCHLD is pending; further ones merge with it
  command,  \* command_thread: at its prompt, or waiting for the shell
  status,   \* toy_shell's status: what its loop makes of it
  shells,   \* "sh" commands so far
  stolen    \* the handler reaped the shell

treeVars == <<life, pc, waits, sigchld, command, status, shells, stolen>>
mainVars == <<pc, waits>>
shellVars == <<command, status, shells, stolen>>

Alive(p) == life[p] = "alive"

\* Zombies are nobody's once their parent is gone: init takes them.
Exists(p) == life[p] \notin {"none", "gone"}

TreeInit ==
  /\ life = [p \in Procs |-> IF p = "main" THEN "alive" ELSE "none"]
  /\ pc = [p \in Mains |-> IF p = "main" THEN "queues" ELSE "starting"]
  /\ waits = [p \in Mains |-> 0]
  /\ sigchld = [p \in Mains |-> FALSE]
  /\ command = "prompt" /\ status = "exited" /\ shells = 0 /\ stolen = FALSE

-------------------------------------------------------------------------------
(* Process ends and SIGCHLD. *)

HasParent(p) == \E q \in Mains : p \in Children(q) /\ Alive(q)

\* p ends: its parent is told, and its own zombies are taken by init.
Dies(p) ==
  /\ life' = [q \in Procs |->
       IF q = p THEN (IF HasParent(p) THEN "zombie" ELSE "gone")
       ELSE IF q \in Children(p) /\ life[q] = "zombie" THEN "gone"
       ELSE life[q]]
  /\ sigchld' = [q \in Mains |-> sigchld[q] \/ (p \in Children(q) /\ Alive(q))]

\* An assert, an exit(), a failed exec, a signal.
Ends(p) ==
  /\ life[p] \in {"alive", "stopped", "paused"}
  /\ Dies(p)
  /\ pc' = [q \in Mains |-> IF q = p THEN "ended" ELSE pc[q]]
  /\ UNCHANGED <<waits, shellVars>>

Zombies(p) == {c \in Children(p) : life[c] = "zombie"}

\* The children waitpid(0, ...) is for, leaving out the moment between the fork
\* and the program's own setpgid.
Grouped(p) == Children(p) \ OwnGroup

\* None of them is left, not even a zombie.
Gone(p) == \A c \in Grouped(p) : ~Exists(c)

\* Mutant: signal() without its restart flag, so the wait returns as well.
HandlerInterruptsWait(p) ==
  /\ Alive(p) /\ sigchld[p]
  /\ sigchld' = [sigchld EXCEPT ![p] = FALSE]
  /\ life' = [c \in Procs |-> IF c \in Zombies(p) THEN "gone" ELSE life[c]]
  /\ IF pc[p] = "waiting" /\ waits[p] < WaitCalls - 1
       THEN waits' = [waits EXCEPT ![p] = @ + 1]
       ELSE UNCHANGED waits
  /\ UNCHANGED <<pc, shellVars>>

\* signalHandler: it reaps every child there is to reap, of any group.  System calls it
\* interrupts are restarted.
SignalHandler(p) ==
  /\ Alive(p) /\ sigchld[p]
  /\ sigchld' = [sigchld EXCEPT ![p] = FALSE]
  /\ life' = [c \in Procs |-> IF c \in Zombies(p) THEN "gone" ELSE life[c]]
  /\ stolen' = (stolen \/ "shell" \in Zombies(p))
  /\ UNCHANGED <<mainVars, command, status, shells>>

-------------------------------------------------------------------------------
(* main. *)

At(p, here) == Alive(p) /\ pc[p] = here

Goes(p, there) == pc' = [pc EXCEPT ![p] = there]

\* Four queues; when one is not fresh, an assert ends main.
CreateQueues ==
  /\ At("main", "queues")
  /\ \/ Goes("main", "server") /\ UNCHANGED <<life, sigchld>>
     \/ Goes("main", "ended") /\ Dies("main")
  /\ UNCHANGED <<waits, shellVars>>

\* fork: a failure is only printed.
Forks(p, c, next) ==
  /\ life' \in {life, [life EXCEPT ![c] = "alive"]}
  /\ Goes(p, next)
  /\ UNCHANGED <<waits, sigchld, shellVars>>

CreateSystemServer == At("main", "server") /\ Forks("main", "server", "web")

\* mmap and clone; when clone fails, main exits.
CreateWebServer ==
  \/ At("main", "web") /\ Forks("main", "web", "input")
  \/ At("main", "web") /\ Dies("main") /\ Goes("main", "ended")
       /\ UNCHANGED <<waits, shellVars>>

CreateInput == At("main", "input") /\ Forks("main", "input", "gui")

CreateGui(p) ==
  /\ At(p, "gui")
  /\ Forks(p, IF p = "main" THEN "gui" ELSE "gui2", "waiting")

\* A wait of p returns, and what has become of p's children is left to the
\* action; after the last one p returns from main.
WaitReturns(p) ==
  /\ At(p, "waiting")
  /\ waits' = [waits EXCEPT ![p] = @ + 1]
  /\ Goes(p, IF waits'[p] = WaitCalls THEN "returned" ELSE "waiting")
  /\ UNCHANGED shellVars

\* The kernel hands the child to the wait before it runs the handler, or after
\* the handler took another.
WaitReaps(p, c) ==
  /\ WaitReturns(p) /\ c \in Zombies(p) \cap Grouped(p)
  /\ life' = [life EXCEPT ![c] = "gone"]
  /\ UNCHANGED sigchld

\* Mutant: a wait that finds no child is tried again.
WaitRetries(p) ==
  /\ WaitReturns(p) /\ Gone(p)
  /\ pc'[p] = "returned"
  /\ UNCHANGED <<life, sigchld>>

\* ECHILD.
WaitFails(p) ==
  /\ WaitReturns(p) /\ Gone(p)
  /\ UNCHANGED <<life, sigchld>>

\* Returning from main ends the process.
Returned(p) == At(p, "returned") /\ Dies(p) /\ UNCHANGED <<mainVars, shellVars>>

-------------------------------------------------------------------------------
(* The input process: its start, and "sh". *)

InputRuns ==
  /\ At("input", "starting") /\ Goes("input", "threads")
  /\ UNCHANGED <<life, waits, sigchld, shellVars>>

\* sigaction or one of the seccomp calls fails: input() returns.
InputFails ==
  /\ At("input", "starting") /\ Goes("input", "gui")
  /\ UNCHANGED <<life, waits, sigchld, shellVars>>

\* status is not initialised: what it holds may look like anything.  (When
\* fork fails the command just returns.)
Shell ==
  /\ At("input", "threads") /\ command = "prompt" /\ shells < MaxShells
  /\ life' = [life EXCEPT !["shell"] = "alive"]
  /\ command' = "shell" /\ shells' = shells + 1 /\ stolen' = FALSE
  /\ status' \in {"exited", "stopped"}
  /\ UNCHANGED <<mainVars, sigchld>>

\* The shell is stopped: its parent gets a SIGCHLD for that as well.
ShellStops ==
  /\ life["shell"] = "alive"
  /\ life' = [life EXCEPT !["shell"] = "stopped"]
  /\ sigchld' = [sigchld EXCEPT !["input"] = @ \/ Alive("input")]
  /\ UNCHANGED <<mainVars, shellVars>>

ShellContinues ==
  /\ life["shell"] \in {"stopped", "paused"}
  /\ life' = [life EXCEPT !["shell"] = "alive"]
  /\ sigchld' = [sigchld EXCEPT !["input"] = @ \/ Alive("input")]
  /\ UNCHANGED <<mainVars, shellVars>>

WaitsForShell == At("input", "threads") /\ command = "shell"

ShellFrame == UNCHANGED <<mainVars, sigchld, shells, stolen>>

\* waitpid with WUNTRACED reports a stop once, and the loop goes on.
ShellStopSeen ==
  /\ WaitsForShell /\ life["shell"] = "stopped"
  /\ life' = [life EXCEPT !["shell"] = "paused"]
  /\ status' = "stopped"
  /\ UNCHANGED command /\ ShellFrame

ShellEndSeen ==
  /\ WaitsForShell /\ life["shell"] = "zombie"
  /\ life' = [life EXCEPT !["shell"] = "gone"]
  /\ status' = "exited" /\ command' = "prompt"
  /\ ShellFrame

\* Mutant: the loop also goes on when waitpid fails.
ShellLostRetrying ==
  /\ WaitsForShell /\ life["shell"] = "gone"
  /\ UNCHANGED <<life, status, command>> /\ ShellFrame

\* ECHILD: the handler has reaped the shell.  waitpid leaves status alone, and
\* the loop looks at what was there; if that is a stop, it never ends.
ShellLost ==
  /\ WaitsForShell /\ life["shell"] = "gone" /\ status = "exited"
  /\ command' = "prompt"
  /\ UNCHANGED <<life, status>> /\ ShellFrame

-------------------------------------------------------------------------------
MainStep(p) ==
  \/ CreateGui(p) \/ WaitFails(p) \/ Returned(p)
  \/ \E c \in Procs : WaitReaps(p, c)

ShellLoop == ShellStopSeen \/ ShellEndSeen \/ ShellLost

TreeNext ==
  \/ CreateQueues \/ CreateSystemServer \/ CreateWebServer \/ CreateInput
  \/ InputRuns \/ InputFails
  \/ \E p \in Procs : Ends(p)
  \/ \E p \in Mains : SignalHandler(p) \/ MainStep(p)
  \/ Shell \/ ShellStops \/ ShellContinues \/ ShellLoop

TreeSpec == TreeInit /\ [][TreeNext]_treeVars

\* Processes and threads that can run do; nothing makes a process end.
TreeFairness ==
  /\ WF_treeVars(ShellLoop)
  /\ WF_treeVars(MainStep("main")) /\ WF_treeVars(MainStep("input"))
  /\ WF_treeVars(SignalHandler("main")) /\ WF_treeVars(SignalHandler("input"))

FairTree == TreeSpec /\ TreeFairness

-------------------------------------------------------------------------------
(* Properties *)

CanStep(p) ==
  \/ At(p, "gui") \/ At(p, "returned")
  \/ At(p, "waiting") /\ (Zombies(p) \cap Grouped(p) # {} \/ Gone(p))

CanLoop ==
  /\ WaitsForShell
  /\ \/ life["shell"] \in {"stopped", "zombie"}
     \/ life["shell"] = "gone" /\ status = "exited"

\* What the liveness theorems assume of ENABLED, which tlapm does not reason
\* about; it holds by the definitions and is no property of its own.  A process
\* in main's code is held up only by a wait while it has children to wait for and
\* none of them has ended; toy_shell only while the shell runs, or by the status
\* of a shell that somebody else reaped (main.c:109-125, input.c:298-318).
HeldUpOnlyByChildren ==
  /\ CanStep("main") <=> ENABLED <<MainStep("main")>>_treeVars
  /\ CanStep("input") <=> ENABLED <<MainStep("input")>>_treeVars
  /\ CanLoop <=> ENABLED <<ShellLoop>>_treeVars

TreeTypeOK ==
  /\ life \in [Procs -> {"none", "alive", "stopped", "paused", "zombie", "gone"}]
  /\ pc \in [Mains -> {"queues", "server", "web", "input", "gui", "waiting",
                       "returned", "ended", "starting", "threads"}]
  /\ waits \in [Mains -> 0..WaitCalls]
  /\ sigchld \in [Mains -> BOOLEAN]
  /\ command \in {"prompt", "shell"} /\ status \in {"exited", "stopped"}
  /\ shells \in 0..MaxShells /\ stolen \in BOOLEAN

\* Though each of main's waits is for any child and the handler takes children
\* away from them, main returns only after every child it waits for is gone: a
\* wait returns for one of the four, or because none is left.  It may leave
\* behind programs that lead a group of their own (main.c:33-36, 112-125).
ReturnsLast == \A p \in Mains : pc[p] = "returned" => Gone(p)

\* Once main waits and no child runs any more, it comes to its end, whoever
\* reaped them (main.c:33-36, 120-125).
MainEnds ==
  pc["main"] = "waiting" /\ (\A c \in Children("main") : life[c] \in {"none", "zombie", "gone"})
    ~> life["main"] = "gone"

\* "sh" gets back to the prompt when the shell is gone, unless the handler
\* reaped it and the status left from before, or never set, is that of a
\* stopped process: then toy_shell loops for ever (input.c:298-318).
ShellReturns ==
  command = "shell" /\ life["shell"] \in {"zombie", "gone"}
    ~> command = "prompt" \/ (stolen /\ status = "stopped") \/ ~At("input", "threads")
===============================================================================
