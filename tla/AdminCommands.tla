----------------------------- MODULE AdminCommands -----------------------------
(***************************************************************************)
(* The backend's database file over its whole life: the first start of the *)
(* service with its quick setup (be/cmd/root.go), and the commands that    *)
(* make and change the configuration and the users (be/cmd/config_*.go,    *)
(* users_*.go) through the storage layers (be/pkg/settings, users, auth,   *)
(* storage/bolt); and the unix socket a service may listen on, which is a  *)
(* file that outlives it too.                                              *)
(*                                                                         *)
(* bolt locks the file, so one process has it open at a time and nothing   *)
(* interleaves.  But every save is a transaction of its own, and a process *)
(* can be killed between any two.  A command that fails ends at once:      *)
(* checkErr is log.Fatal.                                                  *)
(*                                                                         *)
(* A user is reduced to its id and its name, the settings to the           *)
(* authentication method, and the auther to the method it is for.          *)
(***************************************************************************)
EXTENDS Integers, Sequences

CONSTANTS Names,     \* user names
          Numeric,   \* those that read as numbers
          Admin,     \* the user every robot request is served for
          Absent,    \* no user, no settings, no auther
          MaxUsers,  \* bound: ids ever given
          Lists      \* the files "users import" is run on

Methods == {"json", "proxy", "noauth"}
Ids == 1..MaxUsers

ASSUME NamesAssumption ==
  Admin \in Names /\ Numeric \subseteq Names /\ Absent \notin Names \cup Methods
ASSUME MaxUsersAssumption == MaxUsers \in Nat \ {0}
ASSUME ListsAssumption == Lists \subseteq Seq([id : Nat, name : Names])

VARIABLES
  file,     \* the database file exists and is not empty
  method,   \* Settings.AuthMethod; Absent when no settings were saved
  auther,   \* the method the saved auther is for
  server,   \* the server settings were saved
  users,    \* the users bucket
  counter,  \* the last id the database gave
  cmd,      \* the command that is running
  step,     \* the save, or the entry of the list, it has come to
  wanted,   \* the method it is saving
  list,     \* the list "users import" works on
  flags,    \* its flags
  doomed,   \* users it has still to delete
  ended,    \* how the last command ended
  socketFile, \* the file of the unix socket exists
  onSocket,   \* the service that runs listens on it
  answers     \* the kinds of answers it has given to requests

configVars  == <<method, auther, server>>
userVars    == <<users, counter>>
commandVars == <<cmd, step, wanted, list, flags, doomed, ended>>
socketVars  == <<socketFile, onSocket, answers>>
vars == <<file, configVars, userVars, commandVars, socketVars>>

Stored(i) == i \in Ids /\ users[i] # Absent

Holders(n) == {i \in Ids : users[i] = n}

Init ==
  /\ file = FALSE
  /\ method = Absent /\ auther = Absent /\ server = FALSE
  /\ users = [i \in Ids |-> Absent] /\ counter = 0
  /\ cmd = "none" /\ step = 1 /\ wanted = "json"
  /\ list = <<>> /\ flags = {} /\ doomed = {} /\ ended = "none"
  /\ socketFile = FALSE /\ onSocket = FALSE /\ answers = {}

-------------------------------------------------------------------------------
(* How a command starts (python, dbExists) and ends (checkErr). *)

Idle == cmd = "none"

\* What a command that is over leaves behind in memory: nothing.
Over(how) ==
  /\ cmd' = "none" /\ ended' = how
  /\ step' = 1 /\ wanted' = "json" /\ list' = <<>> /\ flags' = {} /\ doomed' = {}

Done == Over("done")
Fails == Over("failed")

\* A command that needs a database fails when there is none, and makes none.
OpenExisting == file /\ UNCHANGED file

\* Opening the file saves the version: from here on it is not empty.
OpenFresh == ~file /\ file' = TRUE

\* The socket is closed by the kernel, its file is not removed.
Killed ==
  /\ ~Idle
  /\ Over("killed")
  /\ onSocket' = FALSE /\ answers' = {}
  /\ UNCHANGED <<file, configVars, userVars, socketFile>>

-------------------------------------------------------------------------------
(* Commands that save the configuration: quick setup, config init and      *)
(* config set, one save after another.                                     *)

\* Mutant: the server settings are saved before the rest.
OrderServerFirst ==
  [setup |-> <<"server", "auther", "settings", "admin">>,
   init  |-> <<"server", "settings", "auther">>,
   set   |-> <<"auther", "settings", "server">>]

Order ==
  [setup |-> <<"auther", "settings", "server", "admin">>,
   init  |-> <<"settings", "server", "auther">>,
   set   |-> <<"auther", "settings", "server">>]

Saving(what) == cmd \in DOMAIN Order /\ Order[cmd][step] = what

StartSaving(command, m) ==
  /\ cmd' = command /\ step' = 1 /\ wanted' = m
  /\ UNCHANGED <<configVars, userVars, list, flags, doomed, ended>>

\* Quick setup is the first part of a start.
NextSave ==
  IF step < Len(Order[cmd])
    THEN step' = step + 1 /\ UNCHANGED <<cmd, wanted, list, flags, doomed, ended>>
    ELSE IF cmd = "setup"
           THEN /\ cmd' = "starting" /\ step' = 1
                /\ UNCHANGED <<wanted, list, flags, doomed, ended>>
           ELSE Done

SaveAuther ==
  /\ Saving("auther")
  /\ auther' = wanted
  /\ NextSave /\ UNCHANGED <<file, method, server, userVars>>

SaveSettings ==
  /\ Saving("settings")
  /\ method' = wanted
  /\ NextSave /\ UNCHANGED <<file, auther, server, userVars>>

SaveServer ==
  /\ Saving("server")
  /\ server' = TRUE
  /\ NextSave /\ UNCHANGED <<file, method, auther, userVars>>

\* Without a database the service sets itself up first.
ServeFirst(m) ==
  /\ Idle /\ OpenFresh
  /\ m \in {"json", "noauth"}
  /\ StartSaving("setup", m)

\* With one it needs the server settings.
ServeAgain ==
  /\ Idle /\ OpenExisting
  /\ IF server
       THEN cmd' = "starting" /\ UNCHANGED <<step, wanted, list, flags, doomed, ended>>
       ELSE Fails
  /\ UNCHANGED <<configVars, userVars>>

\* Mutant: a socket file that is there already is taken over.
ListenOver(unix) ==
  /\ cmd = "starting"
  /\ socketFile' = (socketFile \/ unix) /\ onSocket' = unix
  /\ cmd' = "serving" /\ answers' = {}
  /\ UNCHANGED <<file, configVars, userVars, step, wanted, list, flags, doomed,
                 ended>>

\* Where the service listens is for the flags and the saved settings to say.
\* A unix socket makes its file, which must not exist.
Listen(unix) ==
  /\ cmd = "starting"
  /\ unix => ~socketFile
  /\ socketFile' = (socketFile \/ unix) /\ onSocket' = unix
  /\ cmd' = "serving" /\ answers' = {}
  /\ UNCHANGED <<file, configVars, userVars, step, wanted, list, flags, doomed,
                 ended>>

\* The flags contradict each other, or the address is taken.
StartFails ==
  /\ cmd = "starting"
  /\ Fails /\ UNCHANGED <<file, configVars, userVars, socketVars>>

\* cleanupHandler: closing the listener removes the file of its socket.
Interrupted ==
  /\ cmd = "serving"
  /\ socketFile' = (socketFile /\ ~onSocket) /\ onSocket' = FALSE
  /\ answers' = {}
  /\ Done /\ UNCHANGED <<file, configVars, userVars>>

\* log.Fatal and panics, of whatever goroutine, run no deferred Close.
ServiceDies ==
  /\ cmd = "serving"
  /\ onSocket' = FALSE /\ answers' = {}
  /\ Fails /\ UNCHANGED <<file, configVars, userVars, socketFile>>

\* withUser looks the user "admin" up for the requests about robots: 500 when it
\* is missing, and when the read itself fails.  Past it, GET and DELETE of one
\* robot panic on d.raw, which nothing sets, and net/http drops the connection.
\* The requests to a motor ask for no user and read no database.
Kinds == {"served", "broken", "refused", "failed", "motor"}

Answers ==
  {"motor", "failed"} \cup
    (IF Holders(Admin) # {} THEN {"served", "broken"} ELSE {"refused"})

Request ==
  /\ cmd = "serving"
  /\ \E a \in Answers : answers' = answers \cup {a}
  /\ UNCHANGED <<file, configVars, userVars, commandVars, socketFile, onSocket>>

\* Mutant: "config init" also runs on a database that exists.
ConfigInitAgain(m, header) ==
  /\ Idle
  /\ file' = TRUE
  /\ IF m = "proxy" /\ ~header
       THEN Fails /\ UNCHANGED <<configVars, userVars>>
       ELSE StartSaving("init", m)

\* The flags are looked at after the file was opened: the proxy method without
\* its header panics and leaves an empty database behind.
ConfigInit(m, header) ==
  /\ Idle
  /\ \/ file /\ Fails /\ UNCHANGED <<file, configVars, userVars>>
     \/ /\ OpenFresh
        /\ IF m = "proxy" /\ ~header
             THEN Fails /\ UNCHANGED <<configVars, userVars>>
             ELSE StartSaving("init", m)

\* The header of a proxy comes from its flag or, when the method is not given
\* as a flag, from the stored auther.
HasHeader(m, given, header) ==
  m = "proxy" => header \/ (~given /\ auther = "proxy")

ConfigSet(m, given, header) ==
  /\ Idle /\ OpenExisting
  /\ given \/ m = method
  /\ IF method # Absent /\ server /\ auther # Absent /\ HasHeader(m, given, header)
       THEN StartSaving("set", m)
       ELSE Fails /\ UNCHANGED <<configVars, userVars>>

-------------------------------------------------------------------------------
(* Users: storage.go, bolt/users.go, and the commands.  Every user here is *)
(* one that Clean accepts; a list with another is refused before anything  *)
(* is written.                                                             *)

HasFreeId == counter < MaxUsers

\* A user saved without an id gets the next one; names are unique.
SaveNew(n) ==
  /\ Holders(n) = {}
  /\ users' = [users EXCEPT ![counter + 1] = n]
  /\ counter' = counter + 1

\* A user saved with an id takes that row.
SaveAs(i, n) ==
  /\ Holders(n) \subseteq {i}
  /\ users' = [users EXCEPT ![i] = n]
  /\ UNCHANGED counter

\* The last save of quick setup.  The name is a flag's; "admin" is its default.
SaveAdmin ==
  /\ Saving("admin") /\ HasFreeId
  /\ \E n \in Names : SaveNew(n)
  /\ NextSave /\ UNCHANGED <<file, configVars>>

UsersFail == Fails /\ UNCHANGED <<configVars, userVars>>

\* An empty name is noticed only now, after three saves.
AdminUnnamed == Saving("admin") /\ UsersFail /\ UNCHANGED file

UsersAdd(n) ==
  /\ Idle /\ OpenExisting /\ HasFreeId
  /\ IF method # Absent /\ server /\ Holders(n) = {}
       THEN SaveNew(n) /\ Done /\ UNCHANGED configVars
       ELSE UsersFail

\* Storage.Delete: never the first user.
Deletable(i) == i # 1

UsersRm(n) ==
  /\ Idle /\ OpenExisting /\ n \notin Numeric
  /\ \/ /\ \E i \in Holders(n) :
             Deletable(i) /\ users' = [users EXCEPT ![i] = Absent]
        /\ Done /\ UNCHANGED <<configVars, counter>>
     \/ (\A i \in Holders(n) : ~Deletable(i)) /\ UsersFail

\* "rm 2", "update 2", "find 2": whoever is meant, by id or by name, the
\* argument becomes a uint64, which neither GetBy nor Delete takes.
UsersById == Idle /\ OpenExisting /\ UsersFail

\* "find" and, for every name there is, "ls" and "export".
UsersFind(n) ==
  /\ Idle /\ OpenExisting /\ n \notin Numeric
  /\ IF Holders(n) # {} THEN Done ELSE Fails
  /\ UNCHANGED <<configVars, userVars>>

\* Mutant: the database is not locked, and a user is renamed under a service.
UsersUpdateUnlocked(n, new) ==
  /\ Idle \/ cmd = "serving"
  /\ OpenExisting /\ n \notin Numeric
  /\ \E i \in Holders(n) : SaveAs(i, new)
  /\ UNCHANGED <<configVars, commandVars>>

UsersUpdate(n, new) ==
  /\ Idle /\ OpenExisting /\ n \notin Numeric
  /\ \/ /\ \E i \in Holders(n) : SaveAs(i, new)
        /\ Done /\ UNCHANGED configVars
     \/ (\A i \in Holders(n) : ~(Holders(new) \subseteq {i})) /\ UsersFail

-------------------------------------------------------------------------------
(* users import. *)

Replace == "replace" \in flags
Overwrite == "overwrite" \in flags

UsersImport(l, f) ==
  /\ Idle /\ OpenExisting
  /\ cmd' = "import" /\ list' = l /\ flags' = f /\ step' = 1
  /\ doomed' = IF "replace" \in f THEN {i \in Ids : Stored(i)} ELSE {}
  /\ UNCHANGED <<configVars, userVars, wanted, ended>>

\* One user after another, in the order of their ids; the first refusal ends it.
DeleteOld(i) ==
  /\ cmd = "import" /\ i \in doomed
  /\ \A j \in doomed : i <= j
  /\ IF Deletable(i)
       THEN /\ users' = [users EXCEPT ![i] = Absent]
            /\ doomed' = doomed \ {i}
            /\ UNCHANGED <<counter, cmd, step, wanted, list, flags, ended>>
       ELSE Fails /\ UNCHANGED userVars
  /\ UNCHANGED <<file, configVars>>

Entry == list[step]

NextEntry ==
  IF step < Len(list)
    THEN step' = step + 1 /\ UNCHANGED <<cmd, wanted, list, flags, doomed, ended>>
    ELSE Done

Importing == cmd = "import" /\ doomed = {} /\ step <= Len(list)

\* The id is not in the database: the user is added under a new one.
ImportNew ==
  /\ Importing /\ ~Stored(Entry.id) /\ HasFreeId
  /\ SaveNew(Entry.name)
  /\ NextEntry /\ UNCHANGED <<file, configVars>>

\* The id is in the database: its row is replaced.
ImportOver ==
  /\ Importing /\ Stored(Entry.id) /\ Overwrite
  /\ SaveAs(Entry.id, Entry.name)
  /\ NextEntry /\ UNCHANGED <<file, configVars>>

\* Not allowed to overwrite, or the name is taken.
ImportFails ==
  /\ Importing
  /\ IF Stored(Entry.id)
       THEN ~Overwrite \/ ~(Holders(Entry.name) \subseteq {Entry.id})
       ELSE Holders(Entry.name) # {}
  /\ Fails /\ UNCHANGED <<file, configVars, userVars>>

ImportNothing ==
  /\ cmd = "import" /\ doomed = {} /\ list = <<>>
  /\ Done /\ UNCHANGED <<file, configVars, userVars>>

-------------------------------------------------------------------------------
ServeStep ==
  \/ StartFails \/ Request \/ Interrupted \/ ServiceDies
  \/ \E unix \in BOOLEAN : Listen(unix)

ConfigStep ==
  \/ \E m \in Methods : ServeFirst(m)
  \/ ServeAgain
  \/ \E m \in Methods, header \in BOOLEAN :
       \/ ConfigInit(m, header)
       \/ \E given \in BOOLEAN : ConfigSet(m, given, header)
  \/ SaveAuther \/ SaveSettings \/ SaveServer \/ SaveAdmin \/ AdminUnnamed

UserStep ==
  \/ \E n \in Names :
       \/ UsersAdd(n) \/ UsersRm(n) \/ UsersFind(n)
       \/ \E new \in Names : UsersUpdate(n, new)
  \/ UsersById

ImportStep ==
  \/ \E l \in Lists, f \in SUBSET {"replace", "overwrite"} : UsersImport(l, f)
  \/ \E i \in Ids : DeleteOld(i)
  \/ ImportNew \/ ImportOver \/ ImportFails \/ ImportNothing

Next ==
  \/ Killed \/ ServeStep
  \/ (ConfigStep \/ UserStep \/ ImportStep) /\ UNCHANGED socketVars

Spec == Init /\ [][Next]_vars

-------------------------------------------------------------------------------
(* Properties *)

ConfigTypeOK ==
  /\ file \in BOOLEAN /\ server \in BOOLEAN
  /\ method \in Methods \cup {Absent} /\ auther \in Methods \cup {Absent}

\* No id is stored that was not given out: the next one is always free.
UsersTypeOK ==
  /\ users \in [Ids -> Names \cup {Absent}] /\ counter \in 0..MaxUsers
  /\ \A i \in Ids : Stored(i) => i <= counter

CommandTypeOK ==
  /\ cmd \in {"none", "setup", "init", "set", "starting", "serving", "import"}
  /\ step \in Nat \ {0} /\ wanted \in Methods
  /\ list \in Lists \cup {<<>>}
  /\ flags \subseteq {"replace", "overwrite"} /\ doomed \subseteq Ids
  /\ ended \in {"none", "done", "failed", "killed"}
  /\ cmd \in DOMAIN Order => step <= Len(Order[cmd])

\* The types of the variables, and that the database never gives an id out
\* twice (bolt/users.go:70-76, users_import.go:69-71).
TypeOK ==
  /\ ConfigTypeOK /\ UsersTypeOK /\ CommandTypeOK
  /\ socketFile \in BOOLEAN /\ onSocket \in BOOLEAN
  /\ onSocket => socketFile /\ cmd = "serving"
  /\ answers \subseteq Kinds

\* A service that is up has settings to read, wherever the commands that made
\* its database were cut off: without them its first request would end the
\* process (root.go:83-98, config_init.go:52-57, api/data.go:37-40).
ServingHasSettings == cmd = "serving" => method # Absent /\ server

\* No command repairs a database whose making was cut off before the server
\* settings were saved: the service finds a database and skips quick setup,
\* "config init" refuses it and the other commands miss what they need
\* (utils.go:85-108, root.go:83-89, config_set.go:21-25).
HalfMadeStays == [](Idle /\ file /\ ~server => []~server)

\* A socket file that a killed or failed service has left is there for good:
\* every later service that is to listen on it fails to start, and none
\* removes it (root.go:110-116, 130-132, 161-166).
LeftoverBlocks == [](Idle /\ socketFile => [](socketFile /\ ~onSocket))

\* Both: what a run that was cut off or failed has left behind, in the database or
\* at the socket, no later run repairs.
DamageStays == HalfMadeStays /\ LeftoverBlocks

\* A service finds its user "admin" for every request that asks for it, or for
\* none, for as long as it runs: where setup was cut off or told another name, or
\* a command renamed or removed the user, only a command between two runs can
\* bring it back, as the database is locked.  Nothing is said of requests whose
\* read fails and of those to a motor, and a service that never finds its user
\* is steady too (api/auth.go:57-66, api/robots.go:65-107, root.go:330-355).
SameUser ==
  "refused" \in answers => {"served", "broken"} \cap answers = {}

\* Both: what a service can answer is settled when it starts.
ServiceIsSteady == ServingHasSettings /\ SameUser

DistinctEntries ==
  \A d, e \in DOMAIN list :
    d # e => list[d].id # list[e].id /\ list[d].name # list[e].name

\* "Import users from a file" (users_import.go:22): when the import of a list
\* without duplicates ends well, every user of the list is in the database.
ImportIsComplete ==
  [][cmd = "import" /\ DistinctEntries /\ Done =>
       \A e \in DOMAIN list : \E i \in Ids : users'[i] = list[e].name]_vars
===============================================================================
