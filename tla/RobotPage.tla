------------------------------- MODULE RobotPage -------------------------------
(***************************************************************************)
(* The robot page of the browser (fe/src) with what it talks to: one REST  *)
(* request for the robots, a web socket for their states, and a REST       *)
(* request per motor command (api/src, be/pkg/api/robots.go).  The three   *)
(* travel on connections of their own, so nothing orders their answers.    *)
(*                                                                         *)
(* The backend's side is reduced to what WebSocketHub and RobotStore show: *)
(* a state is stored before it is announced, one at a time, and a          *)
(* registered connection carries every announcement in order.  States are  *)
(* numbered as they are stored.  A page is loaded anew after its socket    *)
(* closed; each loading is a session.  The JavaScript of a page runs one   *)
(* handler at a time, so each handler is a step.                           *)
(***************************************************************************)
EXTENDS Integers, Sequences

CONSTANTS Robots,       \* the rows of the robots table
          Nobody,       \* no robot
          MaxStates,    \* bound: states the device reports
          MaxSessions,  \* bound: times the page is loaded
          MaxCommands,  \* bound: motor commands
          EngineQueue   \* capacity of /mq_be_to_sys

ASSUME PageBounds ==
  /\ MaxStates \in Nat /\ MaxCommands \in Nat
  /\ MaxSessions \in Nat \ {0} /\ EngineQueue \in Nat \ {0}
ASSUME NobodyAssumption == Nobody \notin Robots

VARIABLES
  stored,     \* stored[i]: the temperature of i in the database
  latest,     \* the number of the last state stored
  unannounced, \* the robot whose new state is stored but not yet announced
  session,    \* how often the page has been loaded
  fetch,      \* its GET: not sent, asked, answered but not arrived, or done
  answer,     \* the robots as that answer has them
  shown,      \* RobotsState.current: shown[i] is robot i's state.temperature
  conn,       \* its web socket; "lost" when only the backend knows of the loss
  wire,       \* states written to the socket and not handled yet
  updating,   \* RobotsState.updating: the spinner hides the page
  reply,      \* the answer to its motor command
  issued,     \* motor commands ever issued
  puts,       \* motor commands in a handler of the backend
  engine,     \* motor commands ever put into /mq_be_to_sys
  driven,     \* how many of them the robot process has taken
  missed,     \* robots that changed after the answer was made, unseen by the page
  heard       \* robots whose state came over the socket since the page loaded

backendVars == <<stored, latest, unannounced>>
pageVars    == <<session, fetch, answer, shown, conn, wire>>
motorVars   == <<updating, reply, issued, puts, engine, driven>>
pastVars    == <<missed, heard>>
vars == <<backendVars, pageVars, motorVars, pastVars>>

Zero == [i \in Robots |-> 0]

Init ==
  /\ stored = Zero /\ latest = 0 /\ unannounced = Nobody
  /\ session = 1 /\ fetch = "none" /\ answer = Zero
  /\ shown = Zero /\ conn = "none" /\ wire = <<>>
  /\ updating = FALSE /\ reply = "none" /\ issued = 0
  /\ puts = {} /\ engine = <<>> /\ driven = 0
  /\ missed = {} /\ heard = {}

Loaded == fetch = "loaded"

\* The page's data is older than what the backend does from now on.
Answered == fetch \in {"answered", "loaded"}

\* Robots whose states may never reach the page, and that its answer lacks.
Unseen(robots) == IF Answered THEN missed \cup robots ELSE missed

OnTheWire == {wire[n].id : n \in DOMAIN wire}

-------------------------------------------------------------------------------
(* The backend: UpdateRobot, then BroadcastRobot through the hub. *)

StoreState(i) ==
  /\ unannounced = Nobody /\ latest < MaxStates
  /\ latest' = latest + 1
  /\ stored' = [stored EXCEPT ![i] = latest']
  /\ unannounced' = i
  /\ UNCHANGED <<pageVars, motorVars, pastVars>>

Announce ==
  /\ unannounced # Nobody
  /\ unannounced' = Nobody
  /\ \/ /\ conn \in {"open", "lost"}
        /\ wire' = Append(wire, [id |-> unannounced,
                                 temp |-> stored[unannounced]])
     \/ conn # "open" /\ UNCHANGED wire
  /\ missed' = IF conn # "open" THEN Unseen({unannounced}) ELSE missed
  /\ UNCHANGED <<stored, latest, session, fetch, answer, shown, conn, motorVars,
                 heard>>

-------------------------------------------------------------------------------
(* The page: componentDidMount, getRobotsAsync, the web socket's handlers. *)

\* componentDidMount: the GET is sent, then the socket is opened.
Mount ==
  /\ fetch = "none"
  /\ fetch' = "asked" /\ conn' = "connecting"
  /\ UNCHANGED <<backendVars, session, answer, shown, wire, motorVars, pastVars>>

\* robotsGetHandler: one read of the whole table.
AnswerGet ==
  /\ fetch = "asked"
  /\ fetch' = "answered" /\ answer' = stored
  /\ missed' = IF conn = "lost" THEN OnTheWire ELSE {}
  /\ UNCHANGED <<backendVars, session, shown, conn, wire, motorVars, heard>>

GetSucceeds ==
  /\ fetch = "answered"
  /\ fetch' = "loaded" /\ shown' = answer
  /\ UNCHANGED <<backendVars, session, answer, conn, wire, motorVars, pastVars>>

\* No robots, no retry: current stays empty, and the page asks again only for
\* a robot that is null, which an empty list does not give.
GetFails ==
  /\ fetch \in {"asked", "answered"}
  /\ fetch' = "failed"
  /\ UNCHANGED <<backendVars, session, answer, shown, conn, wire, motorVars,
                 pastVars>>

\* The upgrade, and the registration with the hub.
Connect ==
  /\ conn = "connecting"
  /\ conn' = "open"
  /\ UNCHANGED <<backendVars, session, fetch, answer, shown, wire, motorVars,
                 pastVars>>

\* The backend loses the connection and the page does not hear of it: no pings,
\* no deadlines.  What is on its way, and what is still written, may arrive.
LoseConnection ==
  /\ conn \in {"connecting", "open"}
  /\ conn' = "lost"
  /\ missed' = Unseen(OnTheWire)
  /\ UNCHANGED <<backendVars, session, fetch, answer, shown, wire, motorVars,
                 heard>>

\* ... or not.
WireIsCut ==
  /\ conn = "lost"
  /\ \E n \in 0..(Len(wire) - 1) : wire' = SubSeq(wire, 1, n)
  /\ UNCHANGED <<backendVars, session, fetch, answer, shown, conn, motorVars,
                 pastVars>>

\* The connection fails or is lost with what it carried; onclose runs.
Disconnect ==
  /\ conn \in {"connecting", "open", "lost"}
  /\ conn' = "closed" /\ wire' = <<>>
  /\ missed' = Unseen(OnTheWire)
  /\ UNCHANGED <<backendVars, session, fetch, answer, shown, motorVars, heard>>

\* Mutant: a page that never got its robots is not loaded again.
ReloadIfLoaded ==
  /\ conn = "closed" /\ session < MaxSessions /\ Loaded
  /\ session' = session + 1
  /\ fetch' = "none" /\ answer' = Zero /\ shown' = Zero
  /\ conn' = "none" /\ wire' = <<>>
  /\ updating' = FALSE /\ reply' = "none"
  /\ missed' = {} /\ heard' = {}
  /\ UNCHANGED <<backendVars, issued, puts, engine, driven>>

\* Five seconds later the page is loaded again; its requests are abandoned.
Reload ==
  /\ conn = "closed" /\ session < MaxSessions
  /\ session' = session + 1
  /\ fetch' = "none" /\ answer' = Zero /\ shown' = Zero
  /\ conn' = "none" /\ wire' = <<>>
  /\ updating' = FALSE /\ reply' = "none"
  /\ missed' = {} /\ heard' = {}
  /\ UNCHANGED <<backendVars, issued, puts, engine, driven>>

\* Mutant: the reducer sees the list as it was when the first state came.
ApplyStatusOnce(status) ==
  /\ shown' = IF Loaded /\ status.id \notin heard
                THEN [shown EXCEPT ![status.id] = status.temp]
                ELSE shown
  /\ heard' = IF Loaded THEN heard \cup {status.id} ELSE heard
  /\ missed' = IF Loaded THEN missed \ {status.id} ELSE missed

\* UPDATE_ROBOT_STATE maps over current, which is empty until the GET is done.
\* A connection that is lost may lack what came after.
ApplyStatus(status) ==
  IF Loaded
    THEN /\ shown' = [shown EXCEPT ![status.id] = status.temp]
         /\ heard' = heard \cup {status.id}
         /\ missed' = IF conn = "lost" THEN missed ELSE missed \ {status.id}
    ELSE /\ missed' = Unseen({status.id})
         /\ UNCHANGED <<shown, heard>>

\* Mutant: every message is handled in a task of its own, in any order.
HandleStatusUnordered ==
  \E n \in DOMAIN wire :
    /\ ApplyStatus(wire[n])
    /\ wire' = SubSeq(wire, 1, n - 1) \o SubSeq(wire, n + 1, Len(wire))
    /\ UNCHANGED <<backendVars, session, fetch, answer, conn, motorVars>>

HandleStatus ==
  /\ wire # <<>>
  /\ ApplyStatus(Head(wire))
  /\ wire' = Tail(wire)
  /\ UNCHANGED <<backendVars, session, fetch, answer, conn, motorVars>>

-------------------------------------------------------------------------------
(* Motor commands: setLeftMotorSpeedAsync and robotSetLeftSpeedHandler. *)

Mine(p) == p.session = session

\* Only a page that is shown takes input: the spinner hides it.
SetSpeed ==
  /\ Loaded /\ ~updating /\ issued < MaxCommands
  /\ updating' = TRUE /\ reply' = "waiting"
  /\ issued' = issued + 1
  /\ puts' = puts \cup {[session |-> session, number |-> issued + 1]}
  /\ UNCHANGED <<backendVars, pageVars, engine, driven, pastVars>>

\* Mutant: the answer is lost on its way to the page.
AnswerPutSilently(p) ==
  /\ puts' = puts \ {p}
  /\ UNCHANGED <<backendVars, pageVars, updating, reply, issued, driven, pastVars>>

\* The handler answers 200 whatever became of the message.
AnswerPut(p) ==
  /\ puts' = puts \ {p}
  /\ reply' = IF Mine(p) /\ reply = "waiting" THEN "ok" ELSE reply
  /\ UNCHANGED <<backendVars, pageVars, updating, issued, driven, pastVars>>

\* SendEngineMessage: a send to a full queue blocks.
SendEngineMessage(p) ==
  /\ p \in puts /\ Len(engine) - driven < EngineQueue
  /\ engine' = Append(engine, p)
  /\ AnswerPut(p)

\* The queue cannot be opened, or the send fails: logged.
SendEngineFails(p) ==
  /\ p \in puts
  /\ UNCHANGED engine
  /\ AnswerPut(p)

\* The request never reaches the handler, and the browser says so.
PutFails(p) ==
  /\ p \in puts
  /\ puts' = puts \ {p}
  /\ reply' = IF Mine(p) /\ reply = "waiting" THEN "failed" ELSE reply
  /\ UNCHANGED <<backendVars, pageVars, updating, issued, engine, driven, pastVars>>

\* The connection breaks while the handler works, or before its answer is in.
PutBreaks ==
  /\ reply \in {"waiting", "ok"}
  /\ reply' = "failed"
  /\ UNCHANGED <<backendVars, pageVars, updating, issued, puts, engine, driven,
                 pastVars>>

CommandSucceeds ==
  /\ reply = "ok"
  /\ reply' = "none" /\ updating' = FALSE
  /\ UNCHANGED <<backendVars, pageVars, issued, puts, engine, driven, pastVars>>

\* Mutant: the failure takes the spinner away.
CommandFailsShowing ==
  /\ reply = "failed"
  /\ reply' = "none" /\ updating' = FALSE
  /\ UNCHANGED <<backendVars, pageVars, issued, puts, engine, driven, pastVars>>

\* SET_LEFT_MOTOR_SPEED_FAILED leaves updating on.
CommandFails ==
  /\ reply = "failed"
  /\ reply' = "none" /\ updating' = TRUE
  /\ UNCHANGED <<backendVars, pageVars, issued, puts, engine, driven, pastVars>>

\* The robot process takes a command.
Drive ==
  /\ driven < Len(engine)
  /\ driven' = driven + 1
  /\ UNCHANGED <<backendVars, pageVars, updating, reply, issued, puts, engine,
                 pastVars>>

-------------------------------------------------------------------------------
BackendStep == Announce \/ \E i \in Robots : StoreState(i)

PageStep ==
  \/ Mount \/ AnswerGet \/ GetSucceeds \/ GetFails
  \/ Connect \/ LoseConnection \/ WireIsCut \/ Disconnect
  \/ Reload \/ HandleStatus

PutStep(p) == SendEngineMessage(p) \/ SendEngineFails(p) \/ PutFails(p)

AllPuts == [session : 1..MaxSessions, number : 1..MaxCommands]

MotorStep ==
  \/ SetSpeed \/ PutBreaks \/ CommandSucceeds \/ CommandFails \/ Drive
  \/ \E p \in AllPuts : PutStep(p)

Next == BackendStep \/ PageStep \/ MotorStep

Spec == Init /\ [][Next]_vars

\* The n-th command is sent, whichever loading of the page it is of.
Sends(n) ==
  \E s \in 1..MaxSessions : SendEngineMessage([session |-> s, number |-> n])

\* mq_send queues the handlers that are blocked and wakes them in order.
SendIsFair(n) == SF_vars(Sends(n))
SendsAreFair == \A n \in 1..MaxCommands : SendIsFair(n)

\* A request is answered or fails, a timer fires, a handler that can run does,
\* and the robot process keeps taking commands.
Fairness ==
  /\ WF_vars(Mount) /\ WF_vars(AnswerGet) /\ WF_vars(GetSucceeds \/ GetFails)
  /\ WF_vars(Reload) /\ WF_vars(HandleStatus)
  /\ WF_vars(CommandSucceeds \/ CommandFails) /\ WF_vars(Drive)
  /\ SendsAreFair

FairSpec == Spec /\ Fairness

-------------------------------------------------------------------------------
(* Properties *)

TypeOK ==
  /\ stored \in [Robots -> 0..MaxStates]
  /\ latest \in 0..MaxStates /\ unannounced \in Robots \cup {Nobody}
  /\ session \in 1..MaxSessions
  /\ fetch \in {"none", "asked", "answered", "loaded", "failed"}
  /\ answer \in [Robots -> 0..MaxStates]
  /\ shown \in [Robots -> 0..MaxStates]
  /\ conn \in {"none", "connecting", "open", "lost", "closed"}
  /\ wire \in Seq([id : Robots, temp : 1..MaxStates])
  /\ updating \in BOOLEAN /\ reply \in {"none", "waiting", "ok", "failed"}
  /\ reply # "none" => updating
  /\ issued \in 0..MaxCommands /\ puts \subseteq AllPuts
  /\ engine \in Seq(AllPuts)
  /\ driven \in 0..Len(engine) /\ Len(engine) - driven <= EngineQueue
  /\ missed \subseteq Robots /\ heard \subseteq Robots

\* When all that was announced has been handled, a loaded page shows what the
\* database holds, except for robots that changed after the answer to its GET
\* was made and while their states might not reach it: before the socket was
\* registered, before the answer arrived, or after either end lost the socket;
\* a page that does not know of the loss stays as it is
\* (robots-reducer.ts:33-66, 130-156, websocket-actions.ts:22-31).
FreshUnlessMissed ==
  Loaded /\ (conn = "open" => wire = <<>>) /\ unannounced = Nobody =>
    \A i \in Robots \ missed : shown[i] = stored[i]

\* The answer to the GET may be newer than the first states that come over the
\* socket, so a page may step back once; but when a robot's state has come
\* over the socket, no later one is older (robots-reducer.ts:130-156).
ShownMovesForward ==
  [][\A i \in heard : session' = session => shown'[i] >= shown[i]]_vars

\* Commands of one loading of the page reach the motor queue in the order in
\* which they were given, whatever handlers are blocked on a full queue and
\* whatever connections break meanwhile (robots-actions.ts:157-169,
\* robots-reducer.ts:157-186, robots.go:89-118).
CommandsInOrder ==
  \A m, n \in DOMAIN engine :
    m < n /\ engine[m].session = engine[n].session =>
      engine[m].number < engine[n].number

\* The page waits for the answer to the n-th command.
Waits(n) == issued = n /\ reply = "waiting"

CanSend(n) == ENABLED <<Sends(n)>>_vars

\* Nothing leaves the page waiting for nobody: its GET is with the backend or on
\* its way back, a socket that is closed has its timer running, and a command it
\* waits for is in a handler, where it can be sent or the robot process can make
\* room for it (robots-actions.ts:157-169, websocket-actions.ts:22-26,
\* robots.go:89-118).
RequestsAreServed ==
  /\ fetch = "none" => ENABLED <<Mount>>_vars
  /\ fetch = "asked" => ENABLED <<AnswerGet>>_vars
  /\ fetch = "answered" => ENABLED <<GetSucceeds \/ GetFails>>_vars
  /\ conn = "closed" /\ session < MaxSessions => ENABLED <<Reload>>_vars
  /\ \A n \in 1..MaxCommands :
       Waits(n) => IF Len(engine) - driven < EngineQueue
                     THEN CanSend(n) ELSE ENABLED <<Drive>>_vars

Reloaded(s) == session = s /\ conn = "closed" ~> session > s
Answers(s) == session = s ~> fetch \in {"loaded", "failed"} \/ session > s

\* A page that lost its socket is loaded again, and each loading gets an answer
\* to its GET, good or bad, unless the next one comes first
\* (websocket-actions.ts:22-26, robot-page.tsx:27-38).
PageComesBack ==
  /\ \A s \in 1..(MaxSessions - 1) : Reloaded(s)
  /\ \A s \in 1..MaxSessions : Answers(s)

IsAnswered(n) == Waits(n) ~> ~Waits(n)

\* While the robot process takes commands, the page hears of each of its own,
\* or is loaded anew (robots-actions.ts:157-169).
CommandsAreAnswered == \A n \in 1..MaxCommands : IsAnswered(n)
===============================================================================
