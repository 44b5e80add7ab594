----------------------------- MODULE RobotService -----------------------------
(***************************************************************************)
(* A robot page in front of the whole service: the telemetry goroutine     *)
(* stores a state and offers it to the hub, the hub writes it to every     *)
(* registered socket, and the page at the end of one of them shows it.     *)
(*                                                                         *)
(* WebSocketHub is extended with the store before it and a page behind it. *)
(* Any of the hub's clients may be the page's; a page that is loaded anew  *)
(* takes another one, and the rest belong to anybody.  RobotPage reduces   *)
(* the backend to one that announces a state to a connection in one step;  *)
(* here the hub with its range loop, blocked writes and late               *)
(* unregistrations is shown to do no more than that.                       *)
(***************************************************************************)
EXTENDS WebSocketHub

CONSTANTS Robots,      \* the rows of the robots table
          Nobody,      \* no robot
          MaxSessions  \* bound: times the page is loaded

ASSUME SessionsAssumption == MaxSessions \in Nat \ {0}
ASSUME RobotsAssumption == Nobody \notin Robots

VARIABLES
  stored,   \* stored[i]: the temperature of i in the database
  about,    \* about[n]: the robot the n-th state is about
  session,  \* how often the page has been loaded
  mine,     \* the connection of the page that is there
  fetch,    \* its GET
  answer,   \* the robots as that answer has them
  shown,    \* RobotsState.current
  closed,   \* onclose ran: the page knows that its socket is lost
  missed,   \* as in RobotPage
  heard     \* as in RobotPage

storeVars == <<stored, about>>
viewVars  == <<session, mine, fetch, answer, shown, closed, missed, heard>>
serviceVars == <<vars, storeVars, viewVars>>

-------------------------------------------------------------------------------
(* The page of RobotPage, seen through the hub. *)

StateOf(n) == [id |-> about[n], temp |-> n]

Registered == mine # NoClient /\ handler[mine] \notin {"none", "registering"}

PageConn ==
  IF fetch = "none" THEN "none"
  ELSE IF closed THEN "closed"
  ELSE IF mine # NoClient /\ peer[mine] = "gone" THEN "lost"
  ELSE IF Registered THEN "open" ELSE "connecting"

\* What is in the socket, and the state the hub has still to write to it.
Unread(c) ==
  [n \in 1..(Len(feed[c]) - got[c]) |-> StateOf(feed[c][got[c] + n])]

PageWire ==
  IF PageConn \notin {"open", "lost"} THEN <<>>
  ELSE Unread(mine) \o
         (IF WaitingForWrite(mine) THEN <<StateOf(taken)>> ELSE <<>>)

OnTheWire == {PageWire[n].id : n \in DOMAIN PageWire}

\* The robot of a state that is stored and not taken by the hub yet.
Unannounced == IF taken < Len(about) THEN about[Len(about)] ELSE Nobody

\* The page's motor commands take no part in this.
Page == INSTANCE RobotPage WITH
  MaxStates <- MaxMessages, MaxCommands <- 0, EngineQueue <- 1,
  latest <- Len(about), unannounced <- Unannounced,
  conn <- PageConn, wire <- PageWire,
  updating <- FALSE, reply <- "none", issued <- 0, puts <- {},
  engine <- <<>>, driven <- 0

NothingShown == [i \in Robots |-> 0]

ServiceInit ==
  /\ Init
  /\ stored = [i \in Robots |-> 0] /\ about = <<>>
  /\ session = 1 /\ mine = NoClient /\ fetch = "none"
  /\ answer = NothingShown /\ shown = NothingShown
  /\ closed = FALSE /\ missed = {} /\ heard = {}

-------------------------------------------------------------------------------
(* The telemetry goroutine: UpdateRobot, then BroadcastRobot. *)

\* Mutant: BroadcastRobot does not wait for the hub.
StoreStateAhead(i) ==
  /\ Len(about) < MaxMessages
  /\ about' = Append(about, i)
  /\ stored' = [stored EXCEPT ![i] = Len(about')]
  /\ UNCHANGED <<vars, viewVars>>

\* UpdateRobot is called again only when BroadcastRobot has returned.
StoreState(i) ==
  /\ taken = Len(about) /\ Len(about) < MaxMessages
  /\ about' = Append(about, i)
  /\ stored' = [stored EXCEPT ![i] = Len(about')]
  /\ UNCHANGED <<vars, viewVars>>

Offer == offered < Len(about) /\ OfferState /\ UNCHANGED <<storeVars, viewVars>>

\* States the page cannot be told of any more, and that its answer lacks.
Unseen(robots) ==
  IF fetch \in {"answered", "loaded"} THEN missed \cup robots ELSE missed

\* The hub takes the state for everyone who is in its map now.
Take ==
  /\ TakeBroadcast
  /\ missed' = IF PageConn = "open" THEN missed ELSE Unseen({about[taken']})
  /\ UNCHANGED <<storeVars, session, mine, fetch, answer, shown, closed, heard>>

-------------------------------------------------------------------------------
(* The connections. *)

PageDials(c) ==
  /\ fetch # "none" /\ ~closed /\ mine = NoClient
  /\ Upgrade(c)
  /\ mine' = c
  /\ UNCHANGED <<storeVars, session, fetch, answer, shown, closed, missed, heard>>

\* What the hub and its goroutines do for a connection by themselves.
HubServes(c) ==
  /\ \/ Register(c) \/ Unregister(c) \/ ReadError(c) \/ CloseSocket(c)
     \/ NextClient(c) \/ WriteOk(c) \/ WriteFails(c)
  /\ UNCHANGED <<storeVars, viewVars>>

HubMovesOn == EndBroadcast /\ UNCHANGED <<storeVars, viewVars>>

\* The other viewers, and connections a page has left behind.  Only they send
\* anything that is not a Message: the page sends nothing over its socket.
OthersAct(c) ==
  /\ c # mine
  /\ Upgrade(c) \/ BadMessage(c) \/ Receive(c) \/ ReceiveLate(c) \/ Leave(c)
  /\ UNCHANGED <<storeVars, viewVars>>

\* onmessage and handleStatusChanged.
PageReceives ==
  /\ PageConn \in {"open", "lost"}
  /\ Receive(mine) \/ ReceiveLate(mine)
  /\ Page!ApplyStatus(StateOf(feed[mine][got[mine] + 1]))
  /\ UNCHANGED <<storeVars, session, mine, fetch, answer, closed>>

\* The backend loses the page's connection: because the page closed it, or with
\* the page still taking it for open, when what it carries may not arrive.
BackendLosesPage ==
  /\ mine # NoClient /\ Leave(mine)
  /\ missed' = Unseen(OnTheWire)
  /\ UNCHANGED <<storeVars, session, mine, fetch, answer, shown, closed, heard>>

\* The dial fails, or onclose runs: the page hears no more from its socket.  The
\* backend may know already, come to know later, or never.
PageLosesSocket ==
  /\ PageConn \in {"connecting", "open", "lost"}
  /\ closed' = TRUE
  /\ missed' = Unseen(OnTheWire)
  /\ UNCHANGED <<vars, storeVars, session, mine, fetch, answer, shown, heard>>

-------------------------------------------------------------------------------
(* The page by itself: componentDidMount, the GET and its answer, and the  *)
(* timer that loads it anew.                                               *)

Mount ==
  /\ fetch = "none"
  /\ fetch' = "asked"
  /\ UNCHANGED <<vars, storeVars, session, mine, answer, shown, closed, missed,
                 heard>>

AnswerGet ==
  /\ fetch = "asked"
  /\ fetch' = "answered" /\ answer' = stored
  /\ missed' = IF PageConn = "lost" THEN OnTheWire ELSE {}
  /\ UNCHANGED <<vars, storeVars, session, mine, shown, closed, heard>>

GetSucceeds ==
  /\ fetch = "answered"
  /\ fetch' = "loaded" /\ shown' = answer
  /\ UNCHANGED <<vars, storeVars, session, mine, answer, closed, missed, heard>>

GetFails ==
  /\ fetch \in {"asked", "answered"}
  /\ fetch' = "failed"
  /\ UNCHANGED <<vars, storeVars, session, mine, answer, shown, closed, missed,
                 heard>>

Reload ==
  /\ closed /\ session < MaxSessions
  /\ session' = session + 1
  /\ mine' = NoClient /\ fetch' = "none" /\ closed' = FALSE
  /\ answer' = NothingShown /\ shown' = NothingShown
  /\ missed' = {} /\ heard' = {}
  /\ UNCHANGED <<vars, storeVars>>

-------------------------------------------------------------------------------
TelemetryStep == Offer \/ Take \/ HubMovesOn \/ \E i \in Robots : StoreState(i)

PageStep ==
  \/ PageReceives \/ PageLosesSocket \/ BackendLosesPage
  \/ Mount \/ AnswerGet \/ GetSucceeds \/ GetFails \/ Reload

ConnectionStep(c) == PageDials(c) \/ HubServes(c) \/ OthersAct(c)

ServiceNext ==
  \/ TelemetryStep \/ PageStep
  \/ \E c \in Clients : ConnectionStep(c)

EndToEnd == ServiceInit /\ [][ServiceNext]_serviceVars

-------------------------------------------------------------------------------
(* Properties *)

ServiceTypeOK ==
  /\ stored \in [Robots -> 0..MaxMessages]
  /\ about \in Seq(Robots) /\ Len(about) \in offered..(taken + 1)
  /\ Len(about) <= MaxMessages
  /\ session \in 1..MaxSessions /\ mine \in Clients \cup {NoClient}
  /\ fetch \in {"none", "asked", "answered", "loaded", "failed"}
  /\ answer \in [Robots -> 0..MaxMessages]
  /\ shown \in [Robots -> 0..MaxMessages]
  /\ closed \in BOOLEAN
  /\ missed \subseteq Robots /\ heard \subseteq Robots

\* A page is in want of a state only when its connection is lost at one end:
\* until then it is in the hub's map, its reader runs, no write to it has
\* failed, and every state the hub took since it was registered has been
\* handled or is on its way (hub.go:31-47, client.go:61-94).
OpenIsServed ==
  PageConn = "open" =>
    /\ mine \in clients \ broken /\ handler[mine] = "reading"
    /\ joined[mine] + got[mine] + Len(PageWire) = taken

\* What a page sees of the whole backend, whatever the hub's other clients do,
\* is what RobotPage supposes of it: a state is stored, then announced once, to
\* a socket that is registered by then, in order (robots.go:174-198,
\* hub.go:27-49).  So the properties of RobotPage hold end to end.
ImplementsPage == Page!Spec
===============================================================================
