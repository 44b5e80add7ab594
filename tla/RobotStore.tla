------------------------------ MODULE RobotStore ------------------------------
(***************************************************************************)
(* The robots of the backend: the bolt database and its storage layer      *)
(* (robots/storage.go, bolt/robots.go), the telemetry goroutine that reads *)
(* the message queue and updates a robot (robots.go), the REST handlers    *)
(* that read and write the same records concurrently (api/robots.go), and  *)
(* the rebuilding of the table at every start (cmd/robots.go).             *)
(*                                                                         *)
(* Every database call is one bolt transaction, hence one step; whatever   *)
(* is between two calls can be interleaved with.  The database and the     *)
(* message queue outlive the process; everything else dies with it.        *)
(*                                                                         *)
(* A record is reduced to the field telemetry writes (Temperature) and one *)
(* that only users write (Motor, for the four motor fields).  Temperatures *)
(* that come from the device are numbered in the order they were sent.     *)
(***************************************************************************)
EXTENDS Integers, Sequences, FiniteSets

CONSTANTS Ids,        \* robot ids that can be stored: storm refuses a zero id
          Devices,    \* values the id flag may have; 0 when it is not given
          Requests,   \* concurrent field-wise PUT requests
          Motors,     \* motor settings
          Factory,    \* the motor setting InitRobots stores
          WhichLists, \* the "which" lists clients send
          ClientTemps, \* temperatures in the records clients send
          Absent,     \* no such record
          MaxInfo,    \* bound: telemetry messages the device sends
          QueueSize   \* capacity of /mq_sys_to_be

ASSUME IdsAssumption ==
  /\ Ids \subseteq Nat \ {0}
  /\ Devices \subseteq Ids \cup {0}
ASSUME MotorsAssumption == Factory \in Motors
ASSUME StoreBoundsAssumption ==
  MaxInfo \in Nat /\ QueueSize \in Nat \ {0} /\ ClientTemps \subseteq 0..MaxInfo

Records == [Temperature : 0..MaxInfo, Motor : Motors]

ASSUME AbsentAssumption == Absent \notin Records

Fields == {"Temperature", "Motor"}

ASSUME WhichAssumption ==
  WhichLists \subseteq Seq(Fields \cup {"unknown"}) \ {<<>>}

\* The id is four bytes of the message, zero among them.
Infos == [kind : {"info"}, id : Ids \cup {0}, temp : 1..MaxInfo]
\* A message too short to decode, and one whose command is not INFO.
Short == [kind |-> "short"]
Other == [kind |-> "other"]
Messages == Infos \cup {Short, Other}

VARIABLES
  proc,     \* the backend process: down, rebuilding the table, or serving
  cause,    \* why it went down last
  device,   \* the id it was started with
  doomed,   \* robots InitRobots has still to delete
  failed,   \* what InitRobots could not do, clear the table or save its robot
  db,       \* the robots bucket
  sent,     \* telemetry messages sent so far
  mq,       \* /mq_sys_to_be
  rpc,      \* where the telemetry goroutine is
  msg,      \* its decode buffer, which outlives the loop's iterations
  held,     \* the record it read and changed but has not stored yet
  request,  \* the field-wise PUTs being served
  reply,    \* how the last HTTP request ended: a panic in a handler fails it
  shown,    \* shown[i]: the last temperature announced for i, 0 if none
  raced,    \* a client wrote the robot that is being updated, since the Get
  edited    \* robots whose row or temperature clients wrote since the start

procVars  == <<proc, cause, device, doomed, failed>>
queueVars == <<sent, mq>>
loopVars  == <<rpc, msg, held>>
httpVars  == <<request, reply>>
pastVars  == <<shown, raced, edited>>
vars == <<procVars, db, queueVars, loopVars, httpVars, pastVars>>

Stored(i) == i \in Ids /\ db[i] # Absent

Idle == [which |-> <<>>, id |-> 0, data |-> Absent]

Init ==
  /\ proc = "down" /\ cause = "none" /\ device = 0 /\ doomed = {} /\ failed = {}
  /\ db = [i \in Ids |-> Absent]
  /\ sent = 0 /\ mq = <<>>
  /\ rpc = "opening" /\ msg = Other /\ held = Absent
  /\ request = [r \in Requests |-> Idle] /\ reply = "ok"
  /\ shown = [i \in Ids |-> 0]
  /\ raced = FALSE /\ edited = {}

-------------------------------------------------------------------------------
(* Start, InitRobots, and the end of the process. *)

Serving == proc = "serving"

\* Mutant: only the device's own old row is deleted.
StartKeepingOthers(d) ==
  /\ proc = "down"
  /\ proc' = "clearing" /\ cause' = "none"
  /\ device' = d
  /\ doomed' = {i \in Ids : Stored(i) /\ i = d} /\ failed' = {}
  /\ UNCHANGED <<db, queueVars, loopVars, httpVars, pastVars>>

\* root.go up to InitRobots' Gets, whose error is dropped: a list that cannot
\* be read is taken for an empty one.
Start(d) ==
  /\ proc = "down"
  /\ proc' = "clearing" /\ cause' = "none"
  /\ device' = d
  /\ \/ doomed' = {i \in Ids : Stored(i)} /\ failed' = {}
     \/ doomed' = {} /\ failed' = {"clear"}
  /\ UNCHANGED <<db, queueVars, loopVars, httpVars, pastVars>>

\* One Delete per robot, in the order of their ids.  Storage.Delete refuses
\* id 1; that error and the database's are logged.
DeleteOld(i) ==
  /\ proc = "clearing" /\ i \in doomed
  /\ \A j \in doomed : i <= j
  /\ doomed' = doomed \ {i}
  /\ \/ /\ db' = IF i = 1 THEN db ELSE [db EXCEPT ![i] = Absent]
        /\ UNCHANGED failed
     \/ i # 1 /\ failed' = failed \cup {"clear"} /\ UNCHANGED db
  /\ UNCHANGED <<proc, cause, device, queueVars, loopVars, httpVars, pastVars>>

Fresh == [Temperature |-> 0, Motor |-> Factory]

\* The device's own robot is saved and the service starts.  A save without an
\* id fails, the database may fail any, and the error is only logged.
SaveDevice ==
  /\ proc = "clearing" /\ doomed = {}
  /\ proc' = "serving"
  /\ \/ /\ device \in Ids /\ db' = [db EXCEPT ![device] = Fresh]
        /\ UNCHANGED failed
     \/ failed' = failed \cup {"save"} /\ UNCHANGED db
  /\ UNCHANGED <<cause, device, doomed, queueVars, loopVars, httpVars, pastVars>>

\* What is lost with the process.
GoDown(why) ==
  /\ proc' = "down" /\ cause' = why
  /\ doomed' = {}
  /\ rpc' = "opening" /\ msg' = Other /\ held' = Absent
  /\ request' = [r \in Requests |-> Idle] /\ reply' = "ok"
  /\ shown' = [i \in Ids |-> 0] /\ raced' = FALSE /\ edited' = {}
  /\ UNCHANGED <<device, failed>>

\* SIGTERM (cleanupHandler), kill, or loss of power.
Killed ==
  /\ proc # "down"
  /\ GoDown("killed")
  /\ UNCHANGED <<db, queueVars>>

-------------------------------------------------------------------------------
(* The device's side of the message queue, which is not in this repository. *)

HasSpace == Len(mq) < QueueSize

SendInfo(i) ==
  /\ HasSpace /\ sent < MaxInfo
  /\ sent' = sent + 1
  /\ mq' = Append(mq, [kind |-> "info", id |-> i, temp |-> sent + 1])
  /\ UNCHANGED <<procVars, db, loopVars, httpVars, pastVars>>

SendOdd(m) ==
  /\ HasSpace /\ m \in {Short, Other}
  /\ mq' = Append(mq, m)
  /\ UNCHANGED <<procVars, db, sent, loopVars, httpVars, pastVars>>

-------------------------------------------------------------------------------
(* The telemetry goroutine: RecvMessageQ and UpdateRobot. *)

OpenQueue ==
  /\ Serving /\ rpc = "opening"
  /\ rpc' = "receiving"
  /\ UNCHANGED <<procVars, db, queueVars, msg, held, httpVars, pastVars>>

\* binary.Read leaves msg as it was when the message is too short, and the
\* loop goes on with it.
Decoded == IF Head(mq) = Short THEN msg ELSE Head(mq)

Received ==
  /\ Serving /\ rpc = "receiving" /\ mq # <<>>
  /\ mq' = Tail(mq)
  /\ UNCHANGED sent

ReceiveOther ==
  /\ Received
  /\ Decoded.kind # "info"
  /\ msg' = Decoded
  /\ UNCHANGED <<procVars, db, rpc, held, httpVars, pastVars>>

\* Mutant: the record is built from the message, not read from the database.
ReceiveInfoBlindly ==
  /\ Received
  /\ Decoded.kind = "info" /\ Stored(Decoded.id)
  /\ msg' = Decoded
  /\ held' = [Temperature |-> Decoded.temp, Motor |-> Factory]
  /\ rpc' = "updating"
  /\ raced' = FALSE
  /\ UNCHANGED <<procVars, db, httpVars, shown, edited>>

\* UpdateRobot up to its Update: Get, and the change to the copy.
ReceiveInfo ==
  /\ Received
  /\ Decoded.kind = "info" /\ Stored(Decoded.id)
  /\ msg' = Decoded
  /\ held' = [db[Decoded.id] EXCEPT !.Temperature = Decoded.temp]
  /\ rpc' = "updating"
  /\ raced' = FALSE
  /\ UNCHANGED <<procVars, db, httpVars, shown, edited>>

\* Get fails, and reporting the error dereferences a logger that is never
\* set: the goroutine's panic ends the process.
ReceiveUnknownRobot ==
  /\ Received
  /\ Decoded.kind = "info" /\ ~Stored(Decoded.id)
  /\ GoDown(IF Decoded.id = device THEN "own robot missing" ELSE "no such robot")
  /\ UNCHANGED db

\* The same when the database cannot be read.
GetFails ==
  /\ Received
  /\ Decoded.kind = "info"
  /\ GoDown("database failed")
  /\ UNCHANGED db

\* Update without fields saves the whole record.
StoreHeld ==
  /\ Serving /\ rpc = "updating"
  /\ db' = [db EXCEPT ![msg.id] = held]
  /\ rpc' = "announcing" /\ held' = Absent
  /\ UNCHANGED <<procVars, queueVars, msg, httpVars, pastVars>>

\* Mutant: the failure is logged and the new state announced all the same.
StoreFailsLogged ==
  /\ Serving /\ rpc = "updating"
  /\ rpc' = "announcing" /\ held' = Absent
  /\ UNCHANGED <<procVars, db, queueVars, msg, httpVars, pastVars>>

\* The database cannot be written: the same panic as for an unknown robot.
StoreFails ==
  /\ Serving /\ rpc = "updating"
  /\ GoDown("database failed")
  /\ UNCHANGED <<db, queueVars>>

\* BroadcastRobot returns.
Announce ==
  /\ Serving /\ rpc = "announcing"
  /\ rpc' = "receiving"
  /\ shown' = [shown EXCEPT ![msg.id] = msg.temp]
  /\ UNCHANGED <<procVars, db, queueVars, msg, held, httpVars, raced, edited>>

-------------------------------------------------------------------------------
(* The REST handlers. *)

ClientRecords == [Temperature : ClientTemps, Motor : Motors]

\* A client's write of robot i, seen by the history variables.
ClientWrote(i, row) ==
  /\ raced' = (raced \/ (rpc = "updating" /\ msg.id = i))
  /\ edited' = IF row THEN edited \cup {i} ELSE edited
  /\ UNCHANGED shown

\* Storage.Update without fields, and Storage.Save: insert or replace.
StoreWhole(i, rec) ==
  /\ Serving
  /\ IF i \in Ids
       THEN /\ db' = [db EXCEPT ![i] = rec]
            /\ reply' = "ok"
            /\ ClientWrote(i, TRUE)
       ELSE /\ reply' = "failed"
            /\ UNCHANGED <<db, pastVars>>
  /\ UNCHANGED <<procVars, queueVars, loopVars, request>>

PutAll(i, rec) == StoreWhole(i, rec)

Post(i, rec) == StoreWhole(i, rec)

BeginPut(r, i, rec, which) ==
  /\ Serving /\ request[r] = Idle
  /\ request' = [request EXCEPT ![r] = [which |-> which, id |-> i, data |-> rec]]
  /\ UNCHANGED <<procVars, db, queueVars, loopVars, reply, pastVars>>

EndPut(r, how) ==
  /\ request' = [request EXCEPT ![r] = Idle]
  /\ reply' = how

\* One UpdateField: a transaction of its own.
UpdateNextField(r) ==
  LET i     == request[r].id
      field == Head(request[r].which)
      rest  == Tail(request[r].which)
  IN /\ Serving /\ request[r] # Idle
     /\ field \in Fields /\ Stored(i)
     /\ db' = [db EXCEPT ![i][field] = request[r].data[field]]
     /\ ClientWrote(i, field = "Temperature")
     /\ IF rest = <<>>
          THEN EndPut(r, "ok")
          ELSE request' = [request EXCEPT ![r].which = rest] /\ UNCHANGED reply
     /\ UNCHANGED <<procVars, queueVars, loopVars>>

\* No such robot, or a failed transaction: an error.  No such field:
\* reflection panics, and the HTTP server ends the request.  What was already
\* stored stays.
UpdateFieldFails(r) ==
  /\ Serving /\ request[r] # Idle
  /\ EndPut(r, "failed")
  /\ UNCHANGED <<procVars, db, queueVars, loopVars, pastVars>>

\* Mutant: the id reaches the handler, and the row is deleted.
DeleteDeletes(i) ==
  /\ Serving
  /\ db' = IF i = 1 THEN db ELSE [db EXCEPT ![i] = Absent]
  /\ reply' = "ok"
  /\ UNCHANGED <<procVars, queueVars, loopVars, request, pastVars>>

\* DELETE and GET of one robot: the handlers' d.raw is never set, so the type
\* assertion panics before the database is reached.
Delete(i) ==
  /\ Serving
  /\ reply' = "failed"
  /\ UNCHANGED <<procVars, db, queueVars, loopVars, request, pastVars>>

\* The list of robots, in one read-only transaction.
List ==
  /\ Serving
  /\ reply' = "ok"
  /\ UNCHANGED <<procVars, db, queueVars, loopVars, request, pastVars>>

\* A body that cannot be decoded or is about something else, a POST with a
\* "which" list, or a transaction that fails.
Refuse ==
  /\ Serving
  /\ reply' = "failed"
  /\ UNCHANGED <<procVars, db, queueVars, loopVars, request, pastVars>>

\* Every request begins with reading the settings; when that fails, log.Fatalf
\* ends the process.
SettingsUnreadable ==
  /\ Serving
  /\ GoDown("database failed")
  /\ UNCHANGED <<db, queueVars>>

-------------------------------------------------------------------------------
ProcessStep ==
  \/ \E d \in Devices : Start(d)
  \/ \E i \in Ids : DeleteOld(i)
  \/ SaveDevice \/ Killed

DeviceStep ==
  \/ \E i \in Ids \cup {0} : SendInfo(i)
  \/ \E m \in {Short, Other} : SendOdd(m)

LoopStep ==
  \/ OpenQueue \/ ReceiveOther \/ ReceiveInfo \/ ReceiveUnknownRobot
  \/ GetFails \/ StoreHeld \/ StoreFails \/ Announce

HttpStep ==
  \/ \E i \in Ids \cup {0}, rec \in ClientRecords : PutAll(i, rec) \/ Post(i, rec)
  \/ \E r \in Requests, i \in Ids, rec \in ClientRecords, which \in WhichLists :
       BeginPut(r, i, rec, which)
  \/ \E r \in Requests : UpdateNextField(r) \/ UpdateFieldFails(r)
  \/ \E i \in Ids : Delete(i)
  \/ List \/ Refuse \/ SettingsUnreadable

Next == ProcessStep \/ DeviceStep \/ LoopStep \/ HttpStep

Spec == Init /\ [][Next]_vars

-------------------------------------------------------------------------------
(* Properties *)

TypeOK ==
  /\ proc \in {"down", "clearing", "serving"}
  /\ cause \in {"none", "killed", "own robot missing", "no such robot",
                "database failed"}
  /\ device \in Devices \cup {0}
  /\ doomed \subseteq Ids /\ failed \subseteq {"clear", "save"}
  /\ db \in [Ids -> Records \cup {Absent}]
  /\ sent \in 0..MaxInfo
  /\ mq \in Seq(Messages) /\ Len(mq) <= QueueSize
  /\ rpc \in {"opening", "receiving", "updating", "announcing"}
  /\ msg \in Infos \cup {Other}
  /\ held \in IF rpc = "updating" THEN Records ELSE {Absent}
  /\ rpc \in {"updating", "announcing"} => msg \in Infos /\ msg.id \in Ids
  /\ request \in [Requests -> {Idle} \cup
                    [which : Seq(Fields \cup {"unknown"}) \ {<<>>}, id : Ids,
                     data : Records]]
  /\ reply \in {"ok", "failed"}
  /\ shown \in [Ids -> 0..MaxInfo]
  /\ raced \in BOOLEAN /\ edited \subseteq Ids

\* Telemetry for a robot that is not stored takes the whole backend down
\* (robots.go:174-177, broadcast.go:16-20).  The telemetry of the device the
\* backend was started for does so only when InitRobots could not save its row,
\* which is logged and no more: once the row is there, nothing a client can do
\* removes it (cmd/robots.go:15-40, api/robots.go:78-85).
OwnTelemetryIsSafe == cause = "own robot missing" => "save" \in failed

\* However often and wherever earlier runs were cut off, a service whose start
\* could list and delete the old rows has the rows of this device and of robot
\* 1, which storage refuses to delete, and those clients wrote (cmd/
\* robots.go:15-40, storage.go:102-106).
StartupTable ==
  Serving /\ "clear" \notin failed =>
    {i \in Ids : Stored(i)} \subseteq {1, device} \cup edited

\* Between two messages, what viewers were last told of a robot is what the
\* database holds, unless a client wrote the temperature: a state is announced
\* only after it is stored (robots.go:180-184).
AnnouncedIsStored ==
  rpc = "receiving" =>
    \A i \in Ids \ edited :
      shown[i] # 0 => Stored(i) /\ db[i].Temperature = shown[i]

\* Storing telemetry writes back a whole record read earlier, yet it undoes a
\* motor setting only when a client wrote that robot between the read and the
\* write (robots.go:174-181).
UpdateKeepsMotor ==
  [][rpc = "updating" /\ rpc' = "announcing" /\ ~raced =>
       \A i \in Ids : Stored(i) => db'[i].Motor = db[i].Motor]_vars
===============================================================================
