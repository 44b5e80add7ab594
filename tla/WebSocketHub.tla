----------------------------- MODULE WebSocketHub -----------------------------
(***************************************************************************)
(* The web-socket service of the backend (be/pkg/robots): the hub          *)
(* goroutine of hub.go, the HTTP upgrade handler and the reader goroutine  *)
(* of every connection (websocket.go, client.go), the telemetry goroutine  *)
(* that hands states to the hub (broadcast.go) and the browsers at the far *)
(* end of the sockets.                                                     *)
(*                                                                         *)
(* All three hub channels are unbuffered, so a send on one of them and its *)
(* receipt by the hub's select are a single step, possible only while the  *)
(* hub is at its select.  The socket is a bounded buffer: a write returns  *)
(* when there is room for it, and fails once the connection is broken.     *)
(* Broadcast states are numbered in the order in which they are offered.   *)
(***************************************************************************)
EXTENDS Integers, Sequences

CONSTANTS Clients,      \* the connections ever made; one Client object each
          NoClient,     \* the hub is writing to nobody
          MaxMessages,  \* bound: states the telemetry goroutine offers
          SendBuffer    \* states a socket holds before a write blocks

ASSUME BoundsAssumption ==
  /\ MaxMessages \in Nat
  /\ SendBuffer \in Nat \ {0}
ASSUME NoClientAssumption == NoClient \notin Clients

VARIABLES
  clients,   \* Hub.clients
  hub,       \* where the hub goroutine is: its select, its range loop, Write
  todo,      \* clients the range loop has still to visit
  target,    \* the client being written to
  offered,   \* states the telemetry goroutine has put to the hub
  taken,     \* states the hub has received; one more is waiting if < offered
  handler,   \* where the goroutine serving each connection is
  peer,      \* the browser: reading, alive but not reading, or disconnected
  broken,    \* connections whose write error is sticky (gorilla's writeErr)
  feed,      \* feed[c]: the states written to c's socket
  got,       \* got[c]: how many of them the browser has received
  joined     \* joined[c]: states the hub had taken when c was registered

hubVars  == <<clients, hub, todo, target, taken>>
peerVars == <<peer, got>>
vars == <<clients, hub, todo, target, offered, taken, handler, peer, broken,
          feed, got, joined>>

HandlerState == {"none", "registering", "reading", "unregistering", "closing",
                 "closed"}

-------------------------------------------------------------------------------
(* What the definitions below speak of. *)

WaitingForWrite(c) == c \in todo \/ target = c

\* A send on c's socket is possible: it is open and no earlier write failed.
Writable(c) == handler[c] # "closed" /\ c \notin broken

HasRoom(c) == Len(feed[c]) - got[c] < SendBuffer

Disconnected(c) == handler[c] # "none" /\ peer[c] = "gone"

Init ==
  /\ clients = {}
  /\ hub = "select" /\ todo = {} /\ target = NoClient
  /\ offered = 0 /\ taken = 0
  /\ handler = [c \in Clients |-> "none"]
  /\ peer = [c \in Clients |-> "up"]
  /\ broken = {}
  /\ feed = [c \in Clients |-> <<>>]
  /\ got = [c \in Clients |-> 0]
  /\ joined = [c \in Clients |-> 0]

-------------------------------------------------------------------------------
(* The connection: ServeHTTP up to its send on register, then Read. *)

\* The upgrade succeeded.  (When it fails no Client exists.)
Upgrade(c) ==
  /\ handler[c] = "none"
  /\ handler' = [handler EXCEPT ![c] = "registering"]
  /\ UNCHANGED <<hubVars, peerVars, offered, broken, feed, joined>>

\* Mutant: the socket is closed before the hub is told.
ReadFailsClosingFirst(c) ==
  /\ handler[c] = "reading"
  /\ handler' = [handler EXCEPT ![c] = "closed"]
  /\ UNCHANGED <<hubVars, peerVars, offered, broken, feed, joined>>

\* ReadJSON fails: the connection is gone, or the browser sent something that
\* is not a Message.  A well-formed message changes nothing: the rule table
\* is empty.
ReadFails(c) ==
  /\ handler[c] = "reading"
  /\ handler' = [handler EXCEPT ![c] = "unregistering"]
  /\ UNCHANGED <<hubVars, peerVars, offered, broken, feed, joined>>

ReadError(c) == peer[c] = "gone" /\ ReadFails(c)

BadMessage(c) == peer[c] # "gone" /\ ReadFails(c)

CloseSocket(c) ==
  /\ handler[c] = "closing"
  /\ handler' = [handler EXCEPT ![c] = "closed"]
  /\ UNCHANGED <<hubVars, peerVars, offered, broken, feed, joined>>

-------------------------------------------------------------------------------
(* The hub goroutine: HubStart and, inside its range loop, Client.Write. *)

Register(c) ==
  /\ hub = "select" /\ handler[c] = "registering"
  /\ clients' = clients \cup {c}
  /\ handler' = [handler EXCEPT ![c] = "reading"]
  /\ joined' = [joined EXCEPT ![c] = taken]
  /\ UNCHANGED <<hub, todo, target, taken, peerVars, offered, broken, feed>>

\* Mutant: the reader returns from its send but the hub keeps the client.
UnregisterKeepingClient(c) ==
  /\ hub = "select" /\ handler[c] = "unregistering"
  /\ handler' = [handler EXCEPT ![c] = "closing"]
  /\ UNCHANGED <<hubVars, peerVars, offered, broken, feed, joined>>

Unregister(c) ==
  /\ hub = "select" /\ handler[c] = "unregistering"
  /\ clients' = clients \ {c}
  /\ handler' = [handler EXCEPT ![c] = "closing"]
  /\ UNCHANGED <<hub, todo, target, taken, peerVars, offered, broken, feed,
                 joined>>

TakeBroadcast ==
  /\ hub = "select" /\ taken < offered
  /\ hub' = "range"
  /\ taken' = taken + 1
  /\ todo' = clients
  /\ UNCHANGED <<clients, target, peerVars, offered, handler, broken, feed,
                 joined>>

\* The next key of the map: Go's order is arbitrary.
NextClient(c) ==
  /\ hub = "range" /\ c \in todo
  /\ hub' = "write"
  /\ target' = c
  /\ todo' = todo \ {c}
  /\ UNCHANGED <<clients, taken, peerVars, offered, handler, broken, feed,
                 joined>>

\* Mutant: the range loop ends as soon as one client has been written to.
EndBroadcastEarly ==
  /\ hub = "range"
  /\ hub' = "select"
  /\ todo' = {}
  /\ UNCHANGED <<clients, target, taken, peerVars, offered, handler, broken,
                 feed, joined>>

EndBroadcast ==
  /\ hub = "range" /\ todo = {}
  /\ hub' = "select"
  /\ UNCHANGED <<clients, todo, target, taken, peerVars, offered, handler,
                 broken, feed, joined>>

WriteReturns == hub' = "range" /\ target' = NoClient

\* Mutant: a write to a socket with a full buffer is dropped and reported as
\* done (a non-blocking send).
WriteOkDropping(c) ==
  /\ hub = "write" /\ target = c
  /\ Writable(c)
  /\ feed' = IF HasRoom(c) THEN [feed EXCEPT ![c] = Append(@, taken)] ELSE feed
  /\ WriteReturns
  /\ UNCHANGED <<clients, todo, taken, peerVars, offered, handler, broken,
                 joined>>

\* The bytes are in the socket's buffer; nothing says they will arrive.
WriteOk(c) ==
  /\ hub = "write" /\ target = c
  /\ Writable(c) /\ HasRoom(c)
  /\ feed' = [feed EXCEPT ![c] = Append(@, taken)]
  /\ WriteReturns
  /\ UNCHANGED <<clients, todo, taken, peerVars, offered, handler, broken,
                 joined>>

\* Mutant: a failed write is tried again.
WriteFailsRetrying(c) ==
  /\ hub = "write" /\ target = c
  /\ ~Writable(c) \/ peer[c] = "gone"
  /\ broken' = broken \cup {c}
  /\ UNCHANGED <<hubVars, peerVars, offered, handler, feed, joined>>

\* Mutant: a write to a full socket fails instead of waiting.
WriteFailsWhenFull(c) ==
  /\ hub = "write" /\ target = c
  /\ ~Writable(c) \/ peer[c] = "gone" \/ ~HasRoom(c)
  /\ broken' = broken \cup {c}
  /\ WriteReturns
  /\ UNCHANGED <<clients, todo, taken, peerVars, offered, handler, feed,
                 joined>>

\* The error is logged; the client stays in the map.
WriteFails(c) ==
  /\ hub = "write" /\ target = c
  /\ ~Writable(c) \/ peer[c] = "gone"
  /\ broken' = broken \cup {c}
  /\ WriteReturns
  /\ UNCHANGED <<clients, todo, taken, peerVars, offered, handler, feed,
                 joined>>

-------------------------------------------------------------------------------
(* The telemetry goroutine: BroadcastRobot blocks until the hub takes it. *)

OfferState ==
  /\ offered = taken /\ offered < MaxMessages
  /\ offered' = offered + 1
  /\ UNCHANGED <<hubVars, peerVars, handler, broken, feed, joined>>

-------------------------------------------------------------------------------
(* The browsers. *)

Connected(c) == handler[c] # "none" /\ peer[c] # "gone"

Receive(c) ==
  /\ Connected(c) /\ peer[c] = "up"
  /\ got[c] < Len(feed[c])
  /\ got' = [got EXCEPT ![c] = @ + 1]
  /\ UNCHANGED <<hubVars, peer, offered, handler, broken, feed, joined>>

\* What was on its way when the backend lost the connection may still come.
ReceiveLate(c) ==
  /\ Disconnected(c) /\ got[c] < Len(feed[c])
  /\ got' = [got EXCEPT ![c] = @ + 1]
  /\ UNCHANGED <<hubVars, peer, offered, handler, broken, feed, joined>>

\* A suspended tab or machine, a network path that drops packets.
Stall(c) ==
  /\ Connected(c) /\ peer[c] = "up"
  /\ peer' = [peer EXCEPT ![c] = "stalled"]
  /\ UNCHANGED <<hubVars, got, offered, handler, broken, feed, joined>>

Resume(c) ==
  /\ Connected(c) /\ peer[c] = "stalled"
  /\ peer' = [peer EXCEPT ![c] = "up"]
  /\ UNCHANGED <<hubVars, got, offered, handler, broken, feed, joined>>

\* The backend's kernel has the connection closed, reset or timed out.  The
\* browser may have closed it, or know nothing of it: no ping is ever sent.
Leave(c) ==
  /\ Connected(c)
  /\ peer' = [peer EXCEPT ![c] = "gone"]
  /\ UNCHANGED <<hubVars, got, offered, handler, broken, feed, joined>>

-------------------------------------------------------------------------------
ServiceStep(c) ==
  \/ Upgrade(c) \/ ReadError(c) \/ BadMessage(c) \/ CloseSocket(c)
  \/ Register(c) \/ Unregister(c)
  \/ NextClient(c) \/ WriteOk(c) \/ WriteFails(c)

PeerStep(c) ==
  Receive(c) \/ ReceiveLate(c) \/ Stall(c) \/ Resume(c) \/ Leave(c)

Next ==
  \/ TakeBroadcast \/ EndBroadcast \/ OfferState
  \/ \E c \in Clients : ServiceStep(c) \/ PeerStep(c)

Spec == Init /\ [][Next]_vars

\* A goroutine that can run does.  The three rendezvous are strongly fair: a
\* blocked sender keeps its place in the channel's queue, and select chooses
\* at random among the channels that are ready.
GoFairness ==
  /\ SF_vars(TakeBroadcast) /\ WF_vars(EndBroadcast)
  /\ \A c \in Clients :
       /\ SF_vars(Register(c)) /\ SF_vars(Unregister(c))
       /\ WF_vars(NextClient(c)) /\ WF_vars(WriteOk(c) \/ WriteFails(c))
       /\ WF_vars(ReadError(c)) /\ WF_vars(CloseSocket(c))

\* An assumption on the browsers, not on the code: what is sent is read in
\* the end, or the connection is seen to break.
PeersDrain ==
  \A c \in Clients : SF_vars(Receive(c)) /\ WF_vars(Resume(c))

ServiceSpec == Spec /\ GoFairness

DrainedSpec == ServiceSpec /\ PeersDrain

-------------------------------------------------------------------------------
(* Properties *)

TypeOK ==
  /\ clients \subseteq Clients
  /\ hub \in {"select", "range", "write"}
  /\ todo \subseteq Clients
  /\ target \in Clients \cup {NoClient}
  /\ taken \in Nat /\ offered \in taken..(taken + 1) /\ offered <= MaxMessages
  /\ handler \in [Clients -> HandlerState]
  /\ peer \in [Clients -> {"up", "stalled", "gone"}]
  /\ broken \subseteq Clients
  /\ feed \in [Clients -> Seq(Nat)]
  /\ got \in [Clients -> Nat]
  /\ joined \in [Clients -> Nat]

\* The hub never writes to a socket that Read has closed: Close comes after
\* the hub took the unregistration, and the hub takes none while it ranges
\* over the clients (hub.go:37-47, client.go:92-94).
NeverWritesToClosed == target # NoClient => handler[target] # "closed"

\* A client is in the hub's map exactly while a reader goroutine is running
\* for it that will take it out: no entry outlives its connection's reader
\* (hub.go:31-36, websocket.go:47-50, client.go:92-94).
EntryHasReader ==
  clients = {c \in Clients : handler[c] \in {"reading", "unregistering"}}

\* What the readers can rely on, both of the above: the hub knows them for as
\* long as they run, and touches no socket of one that has ended.
HubFollowsReaders == EntryHasReader /\ NeverWritesToClosed

\* Every registered client whose socket still takes writes has been written
\* every state the hub took since it was registered, in order, none twice and
\* none skipped, up to the one being broadcast (hub.go:37-47).
FeedIsComplete ==
  \A c \in Clients :
    /\ \A i \in 1..Len(feed[c]) : feed[c][i] = joined[c] + i
    /\ c \in clients \ broken =>
         joined[c] + Len(feed[c]) = taken - (IF WaitingForWrite(c) THEN 1 ELSE 0)

\* The hub, its goroutines and its sockets implement the lock-step feed.
Feed == INSTANCE StateFeed WITH
  Viewers   <- Clients,
  published <- taken,
  viewers   <- clients \ broken,
  position  <- [c \in Clients |-> joined[c] + Len(feed[c])]

ImplementsFeed == Feed!FeedSpec

\* While browsers drain their sockets, every state the telemetry goroutine
\* offers is taken, so BroadcastRobot returns (hub.go:24-26).
BroadcastReturns == \A n \in 1..MaxMessages : offered >= n ~> taken >= n

\* While browsers drain their sockets, a state the telemetry goroutine has put
\* to the hub comes to every browser that was registered before, unless that
\* connection ends first, whatever the other browsers do (hub.go:37-47,
\* client.go:61-79).
ViewersHear ==
  \A c \in Clients, n \in 1..MaxMessages :
    c \in clients /\ joined[c] < n /\ n <= offered
      ~> joined[c] + got[c] >= n \/ Disconnected(c) \/ handler[c] # "reading"

\* Both: a state that is offered leaves the telemetry goroutine and gets there.
StatesArrive == BroadcastReturns /\ ViewersHear

\* While browsers drain their sockets, a connection that breaks is taken out
\* of the hub's map and its socket is closed (client.go:82-94).
BrokenIsClosed ==
  \A c \in Clients : Disconnected(c) ~> handler[c] = "closed"

\* What writeWait says ("Time allowed to write a message to the peer",
\* client.go:40-41): a write does not last for ever, whatever the peer does.
WriteIsBounded == \A c \in Clients : target = c ~> target # c
===============================================================================
