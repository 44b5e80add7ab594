-------------------------- MODULE AdminCommandsProofs --------------------------
(***************************************************************************)
(* Proofs about AdminCommands, for any names, any number of users and any  *)
(* lists: the types, that a service that is up has its settings and finds  *)
(* its user always or never, and that a half-made database and a socket    *)
(* file left behind stay.                                                  *)
(***************************************************************************)
EXTENDS AdminCommands, TLAPS

USE NamesAssumption, MaxUsersAssumption, ListsAssumption

-------------------------------------------------------------------------------
(* What the ends and beginnings of commands do. *)

LEMMA SavingSteps ==
  ASSUME CommandTypeOK, cmd \in DOMAIN Order
  PROVE  /\ cmd \in {"setup", "init", "set"}
         /\ step \in 1..Len(Order[cmd])
         /\ Len(Order["setup"]) = 4 /\ Len(Order["init"]) = 3 /\ Len(Order["set"]) = 3
BY SMTT(20) DEF CommandTypeOK, Order

LEMMA OverTypes ==
  ASSUME NEW how \in {"done", "failed", "killed"}, Over(how)
  PROVE  CommandTypeOK' /\ cmd' = "none" /\ doomed' = {}
BY DEF Over, CommandTypeOK, Methods, Order

LEMMA StartSavingTypes ==
  ASSUME CommandTypeOK, NEW c \in DOMAIN Order, NEW m \in Methods, StartSaving(c, m)
  PROVE  CommandTypeOK'
BY DEF StartSaving, CommandTypeOK, Methods, Order

LEMMA NextSaveCases ==
  ASSUME CommandTypeOK, cmd \in DOMAIN Order, NextSave
  PROVE  /\ CommandTypeOK'
         /\ \/ cmd' = cmd /\ step' = step + 1 /\ step < Len(Order[cmd]) /\ doomed' = doomed
            \/ cmd = "setup" /\ step = 4 /\ cmd' = "starting" /\ doomed' = doomed
            \/ cmd' = "none" /\ doomed' = {}
<1>1. CASE step < Len(Order[cmd])
  <2>1. step' = step + 1 /\ UNCHANGED <<cmd, wanted, list, flags, doomed, ended>>
    BY <1>1 DEF NextSave
  <2>2. step' \in Nat \ {0} /\ (cmd' \in DOMAIN Order => step' <= Len(Order[cmd']))
    BY <1>1, <2>1, SavingSteps DEF CommandTypeOK
  <2> QED BY <1>1, <2>1, <2>2 DEF CommandTypeOK
<1>2. CASE ~(step < Len(Order[cmd])) /\ cmd = "setup"
  <2>1. cmd' = "starting" /\ step' = 1 /\ UNCHANGED <<wanted, list, flags, doomed, ended>>
    BY <1>2 DEF NextSave
  <2>2. step = 4
    <3>1. step \in 1..Len(Order["setup"]) /\ Len(Order["setup"]) = 4
      BY <1>2, SavingSteps, Zenon
    <3>2. ~(step < Len(Order["setup"]))
      BY <1>2, Zenon
    <3> QED BY <3>1, <3>2
  <2>3. "starting" \notin DOMAIN Order
    BY DEF Order
  <2>4. CommandTypeOK'
    BY <2>1, <2>3 DEF CommandTypeOK
  <2> QED BY <1>2, <2>1, <2>2, <2>4
<1>3. CASE ~(step < Len(Order[cmd])) /\ cmd # "setup"
  BY <1>3, OverTypes DEF NextSave, Done
<1> QED BY <1>1, <1>2, <1>3

LEMMA NextEntryTypes ==
  ASSUME CommandTypeOK, cmd = "import", NextEntry
  PROVE  /\ CommandTypeOK'
         /\ cmd' \in {"import", "none"}
         /\ doomed' \in {doomed, {}}
<1>1. CASE step < Len(list)
  <2>1. step' = step + 1 /\ UNCHANGED <<cmd, wanted, list, flags, doomed, ended>>
    BY <1>1 DEF NextEntry
  <2>2. step' \in Nat \ {0} /\ "import" \notin DOMAIN Order
    BY <2>1 DEF CommandTypeOK, Order
  <2> QED BY <2>1, <2>2 DEF CommandTypeOK
<1>2. CASE ~(step < Len(list))
  BY <1>2, OverTypes DEF NextEntry, Done
<1> QED BY <1>1, <1>2

-------------------------------------------------------------------------------
(* What the saves of a user do. *)

\* Once any user was saved, the first one is there for good.
FirstKept == counter > 0 => Stored(1)

\* So the users an import is to delete, if there are any, start with it.
FirstDoomed == doomed = {} \/ 1 \in doomed

UsersInv == UsersTypeOK /\ FirstKept

LEMMA UsersSame ==
  ASSUME UsersInv, UNCHANGED userVars
  PROVE  UsersInv' /\ \A i \in Ids : Stored(i) <=> Stored(i)'
BY DEF UsersInv, UsersTypeOK, FirstKept, Stored, userVars

LEMMA SaveNewKeeps ==
  ASSUME UsersInv, HasFreeId,
         NEW n \in Names, SaveNew(n)
  PROVE  /\ UsersInv'
         /\ \A i \in Ids : Stored(i) => Stored(i)'
<1>1. counter + 1 \in Ids /\ counter + 1 \in 0..MaxUsers /\ 1 \in Ids
  BY DEF UsersInv, UsersTypeOK, HasFreeId, Ids
<1>2. /\ users' = [users EXCEPT ![counter + 1] = n]
      /\ counter' = counter + 1
  BY DEF SaveNew
<1>3. users' \in [Ids -> Names \cup {Absent}]
  BY <1>1, <1>2 DEF UsersInv, UsersTypeOK
<1>4. \A i \in Ids : users'[i] = IF i = counter + 1 THEN n ELSE users[i]
  BY <1>1, <1>2 DEF UsersInv, UsersTypeOK
<1>5. n # Absent
  OBVIOUS
<1>6. \A i \in Ids : Stored(i) => Stored(i)'
  BY <1>4, <1>5 DEF Stored
<1>7. \A i \in Ids : Stored(i)' => i <= counter'
  BY <1>1, <1>2, <1>4 DEF Stored, UsersInv, UsersTypeOK, Ids
<1>8. Stored(1)'
  <2>1. CASE counter = 0
    BY <1>1, <1>4, <1>5, <2>1 DEF Stored
  <2>2. CASE counter > 0
    BY <1>1, <1>6, <2>2 DEF UsersInv, FirstKept
  <2> QED BY <2>1, <2>2 DEF UsersInv, UsersTypeOK
<1> QED BY <1>1, <1>2, <1>3, <1>6, <1>7, <1>8 DEF UsersInv, UsersTypeOK, FirstKept

LEMMA SaveAsKeeps ==
  ASSUME UsersInv,
         NEW j \in Ids, Stored(j), NEW n \in Names, SaveAs(j, n)
  PROVE  /\ UsersInv'
         /\ \A i \in Ids : Stored(i) => Stored(i)'
<1>1. users' = [users EXCEPT ![j] = n] /\ counter' = counter
  BY DEF SaveAs
<1>2. users' \in [Ids -> Names \cup {Absent}]
  BY <1>1 DEF UsersInv, UsersTypeOK
<1>3. \A i \in Ids : users'[i] = IF i = j THEN n ELSE users[i]
  BY <1>1 DEF UsersInv, UsersTypeOK
<1>4. \A i \in Ids : Stored(i) <=> Stored(i)'
  BY <1>3 DEF Stored
<1>5. 1 \in Ids
  BY DEF Ids
<1> QED BY <1>1, <1>2, <1>4, <1>5 DEF UsersInv, UsersTypeOK, FirstKept

\* Deleting any user but the first.
LEMMA RemoveKeeps ==
  ASSUME UsersInv,
         NEW j \in Ids, Deletable(j), users' = [users EXCEPT ![j] = Absent],
         UNCHANGED counter
  PROVE  UsersInv'
<1>1. users' \in [Ids -> Names \cup {Absent}]
  BY DEF UsersInv, UsersTypeOK
<1>2. \A i \in Ids : users'[i] = IF i = j THEN Absent ELSE users[i]
  BY DEF UsersInv, UsersTypeOK
<1>3. \A i \in Ids : Stored(i)' => Stored(i)
  BY <1>2 DEF Stored
<1>4. Stored(1) => Stored(1)'
  BY <1>2 DEF Stored, Deletable
<1> QED BY <1>1, <1>3, <1>4 DEF UsersInv, UsersTypeOK, FirstKept

LEMMA SequenceElement ==
  ASSUME NEW S, NEW q \in Seq(S), NEW i \in 1..Len(q)
  PROVE  q[i] \in S
OBVIOUS

LEMMA EntryTypes ==
  ASSUME CommandTypeOK, Importing
  PROVE  Entry.id \in Nat /\ Entry.name \in Names
<1> DEFINE E == [id : Nat, name : Names]
<1>1. step \in 1..Len(list)
  <2>1. list \in Seq(E)
    <3>1. list \in Lists \/ list = <<>>
      BY Zenon DEF CommandTypeOK
    <3>2. <<>> \in Seq(E)
      OBVIOUS
    <3> QED BY <3>1, <3>2, Zenon DEF ListsAssumption
  <2>2. Len(list) \in Nat
    BY <2>1
  <2>3. step \in Nat \ {0} /\ step <= Len(list)
    BY Zenon DEF CommandTypeOK, Importing
  <2> QED BY <2>2, <2>3
<1>2. list \in Lists
  <2>1. CASE list = <<>>
    BY <1>1, <2>1
  <2> QED BY <2>1, Zenon DEF CommandTypeOK
<1>3. list \in Seq(E)
  BY <1>2, Zenon DEF ListsAssumption
<1>4. list[step] \in E
  <2> HIDE DEF E
  <2> QED BY <1>1, <1>3, SequenceElement, Zenon
<1> QED BY <1>4 DEF Entry

-------------------------------------------------------------------------------
(* The types, and user 1. *)

IInv == ConfigTypeOK /\ UsersInv /\ CommandTypeOK /\ FirstDoomed

LEMMA InitIInv == Init => IInv
<1> SUFFICES ASSUME Init PROVE IInv
  OBVIOUS
<1>1. ConfigTypeOK
  BY DEF Init, ConfigTypeOK
<1>2. UsersTypeOK
  BY DEF Init, UsersTypeOK, Stored, Ids
<1>3. CommandTypeOK
  BY DEF Init, CommandTypeOK, Methods, Order
<1>4. FirstKept /\ FirstDoomed
  BY DEF Init, FirstKept, FirstDoomed
<1> QED BY <1>1, <1>2, <1>3, <1>4 DEF IInv, UsersInv

\* A command that ends without touching the users.
LEMMA OverKeeps ==
  ASSUME IInv, NEW how \in {"done", "failed", "killed"}, Over(how),
         UNCHANGED userVars, ConfigTypeOK'
  PROVE  IInv'
BY OverTypes, UsersSame DEF IInv, FirstDoomed

\* A save of the configuration.
LEMMA NextSaveKeeps ==
  ASSUME IInv, cmd \in DOMAIN Order, NextSave, UsersInv', ConfigTypeOK'
  PROVE  IInv'
<1>1. CommandTypeOK' /\ doomed' \in {doomed, {}}
  BY NextSaveCases DEF IInv
<1> QED BY <1>1 DEF IInv, FirstDoomed

LEMMA StartSavingKeeps ==
  ASSUME IInv, NEW c \in DOMAIN Order, NEW m \in Methods, StartSaving(c, m),
         file' \in BOOLEAN
  PROVE  IInv'
<1>1. CommandTypeOK' /\ doomed' = doomed
  BY StartSavingTypes DEF IInv, StartSaving
<1>2. UsersInv'
  BY UsersSame DEF IInv, StartSaving
<1>3. ConfigTypeOK'
  BY DEF IInv, ConfigTypeOK, StartSaving, configVars
<1> QED BY <1>1, <1>2, <1>3 DEF IInv, FirstDoomed

LEMMA ConfigSame ==
  ASSUME IInv, UNCHANGED configVars, file' \in BOOLEAN
  PROVE  ConfigTypeOK'
BY DEF IInv, ConfigTypeOK, configVars

LEMMA ConfigStepIInv == IInv /\ ConfigStep => IInv'
<1> SUFFICES ASSUME IInv, ConfigStep PROVE IInv'
  OBVIOUS
<1>0. file \in BOOLEAN
  BY DEF IInv, ConfigTypeOK
<1>1. ASSUME NEW m \in Methods, ServeFirst(m) PROVE IInv'
  <2>1. StartSaving("setup", m) /\ file' \in BOOLEAN /\ "setup" \in DOMAIN Order
    BY <1>1 DEF ServeFirst, OpenFresh, Order
  <2> QED BY <2>1, StartSavingKeeps
<1>2. CASE ServeAgain
  <2>1. file' \in BOOLEAN /\ UNCHANGED <<configVars, userVars>>
    BY <1>0, <1>2 DEF ServeAgain, OpenExisting
  <2>2. CASE server
    <3>1. cmd' = "starting" /\ UNCHANGED <<step, wanted, list, flags, doomed, ended>>
      BY <1>2, <2>2 DEF ServeAgain
    <3>2. CommandTypeOK'
      BY <3>1 DEF IInv, CommandTypeOK, Order
    <3>3. UsersInv'
      BY <2>1, UsersSame DEF IInv
    <3>4. ConfigTypeOK'
      BY <2>1, ConfigSame
    <3> QED BY <3>1, <3>2, <3>3, <3>4 DEF IInv, FirstDoomed
  <2>3. CASE ~server
    BY <1>2, <2>1, <2>3, ConfigSame, OverKeeps DEF ServeAgain, Fails
  <2> QED BY <2>2, <2>3
<1>3. ASSUME NEW m \in Methods, NEW header \in BOOLEAN, ConfigInit(m, header)
      PROVE  IInv'
  <2>1. file' \in BOOLEAN
    BY <1>0, <1>3 DEF ConfigInit, OpenFresh
  <2>2. \/ StartSaving("init", m)
        \/ Fails /\ UNCHANGED <<configVars, userVars>>
    BY <1>3 DEF ConfigInit
  <2>3. "init" \in DOMAIN Order
    BY DEF Order
  <2> QED BY <2>1, <2>2, <2>3, StartSavingKeeps, ConfigSame, OverKeeps DEF Fails
<1>4. ASSUME NEW m \in Methods, NEW header \in BOOLEAN, NEW given \in BOOLEAN,
             ConfigSet(m, given, header)
      PROVE  IInv'
  <2>1. file' \in BOOLEAN
    BY <1>0, <1>4 DEF ConfigSet, OpenExisting
  <2>2. \/ StartSaving("set", m)
        \/ Fails /\ UNCHANGED <<configVars, userVars>>
    BY <1>4 DEF ConfigSet
  <2>3. "set" \in DOMAIN Order
    BY DEF Order
  <2> QED BY <2>1, <2>2, <2>3, StartSavingKeeps, ConfigSame, OverKeeps DEF Fails
<1>5. CASE SaveAuther
  <2>1. ConfigTypeOK'
    BY <1>5 DEF SaveAuther, IInv, ConfigTypeOK, CommandTypeOK
  <2>2. cmd \in DOMAIN Order /\ NextSave /\ UNCHANGED userVars
    BY <1>5 DEF SaveAuther, Saving
  <2> QED BY <2>1, <2>2, UsersSame, NextSaveKeeps DEF IInv
<1>6. CASE SaveSettings
  <2>1. ConfigTypeOK'
    BY <1>6 DEF SaveSettings, IInv, ConfigTypeOK, CommandTypeOK
  <2>2. cmd \in DOMAIN Order /\ NextSave /\ UNCHANGED userVars
    BY <1>6 DEF SaveSettings, Saving
  <2> QED BY <2>1, <2>2, UsersSame, NextSaveKeeps DEF IInv
<1>7. CASE SaveServer
  <2>1. ConfigTypeOK'
    BY <1>7 DEF SaveServer, IInv, ConfigTypeOK
  <2>2. cmd \in DOMAIN Order /\ NextSave /\ UNCHANGED userVars
    BY <1>7 DEF SaveServer, Saving
  <2> QED BY <2>1, <2>2, UsersSame, NextSaveKeeps DEF IInv
<1>8. CASE SaveAdmin
  <2>1. ConfigTypeOK'
    BY <1>8 DEF SaveAdmin, IInv, ConfigTypeOK, configVars
  <2>2. /\ cmd \in DOMAIN Order /\ NextSave /\ HasFreeId
        /\ \E n \in Names : SaveNew(n)
    BY <1>8 DEF SaveAdmin, Saving
  <2>3. UsersInv'
    BY <2>2, SaveNewKeeps DEF IInv
  <2> QED BY <2>1, <2>2, <2>3, NextSaveKeeps
<1>9. CASE AdminUnnamed
  BY <1>0, <1>9, ConfigSame, OverKeeps DEF AdminUnnamed, UsersFail, Fails
<1> QED BY <1>1, <1>2, <1>3, <1>4, <1>5, <1>6, <1>7, <1>8, <1>9 DEF ConfigStep

LEMMA UserStepIInv == IInv /\ UserStep => IInv'
<1> SUFFICES ASSUME IInv, UserStep PROVE IInv'
  OBVIOUS
<1>0. file \in BOOLEAN
  BY DEF IInv, ConfigTypeOK
<1>1. ASSUME OpenExisting, UsersFail PROVE IInv'
  BY <1>0, <1>1, ConfigSame, OverKeeps DEF OpenExisting, UsersFail, Fails
\* A command that saves the users as it should and ends.
<1>2. ASSUME OpenExisting, Done, UNCHANGED configVars, UsersInv' PROVE IInv'
  <2>1. CommandTypeOK' /\ doomed' = {}
    BY <1>2, OverTypes DEF Done
  <2>2. ConfigTypeOK'
    BY <1>0, <1>2, ConfigSame DEF OpenExisting
  <2> QED BY <1>2, <2>1, <2>2 DEF IInv, FirstDoomed
<1>3. ASSUME NEW n \in Names, UsersAdd(n) PROVE IInv'
  <2>1. CASE SaveNew(n) /\ Done /\ UNCHANGED configVars
    BY <1>2, <1>3, <2>1, SaveNewKeeps DEF UsersAdd, IInv
  <2>2. CASE UsersFail
    BY <1>1, <1>3, <2>2 DEF UsersAdd
  <2> QED BY <1>3, <2>1, <2>2 DEF UsersAdd
<1>4. ASSUME NEW n \in Names, UsersRm(n) PROVE IInv'
  <2>1. CASE /\ \E i \in Holders(n) :
                  Deletable(i) /\ users' = [users EXCEPT ![i] = Absent]
             /\ Done /\ UNCHANGED <<configVars, counter>>
    <3>1. PICK i \in Holders(n) :
            Deletable(i) /\ users' = [users EXCEPT ![i] = Absent]
      BY <2>1
    <3>2. i \in Ids
      BY DEF Holders
    <3>3. UsersInv'
      BY <2>1, <3>1, <3>2, RemoveKeeps DEF IInv
    <3> QED BY <1>2, <1>4, <2>1, <3>3 DEF UsersRm
  <2>2. CASE UsersFail
    BY <1>1, <1>4, <2>2 DEF UsersRm
  <2> QED BY <1>4, <2>1, <2>2 DEF UsersRm
<1>5. ASSUME NEW n \in Names, NEW new \in Names, UsersUpdate(n, new) PROVE IInv'
  <2>1. CASE (\E i \in Holders(n) : SaveAs(i, new)) /\ Done /\ UNCHANGED configVars
    <3>1. PICK i \in Holders(n) : SaveAs(i, new)
      BY <2>1
    <3>2. i \in Ids /\ Stored(i)
      BY DEF Holders, Stored
    <3>3. UsersInv'
      BY <3>1, <3>2, SaveAsKeeps DEF IInv
    <3> QED BY <1>2, <1>5, <2>1, <3>3 DEF UsersUpdate
  <2>2. CASE UsersFail
    BY <1>1, <1>5, <2>2 DEF UsersUpdate
  <2> QED BY <1>5, <2>1, <2>2 DEF UsersUpdate
<1>6. CASE UsersById
  BY <1>1, <1>6 DEF UsersById
<1>7. ASSUME NEW n \in Names, UsersFind(n) PROVE IInv'
  <2>1. (Done \/ Fails) /\ UNCHANGED <<configVars, userVars>> /\ file' \in BOOLEAN
    BY <1>0, <1>7 DEF UsersFind, OpenExisting
  <2> QED BY <2>1, ConfigSame, OverKeeps DEF Done, Fails
<1> QED BY <1>3, <1>4, <1>5, <1>6, <1>7 DEF UserStep

\* The first of the users to delete is user 1, and it is refused.
LEMMA OldUsersStay ==
  ASSUME IInv, NEW i \in Ids, DeleteOld(i)
  PROVE  Fails /\ UNCHANGED <<file, configVars, userVars>>
<1>1. i \in doomed /\ \A j \in doomed : i <= j
  BY DEF DeleteOld
<1>2. 1 \in doomed
  BY <1>1 DEF IInv, FirstDoomed
<1>3. i = 1
  BY <1>1, <1>2 DEF Ids
<1>4. ~Deletable(i)
  BY <1>3 DEF Deletable
<1> QED BY <1>4 DEF DeleteOld

LEMMA ImportStepIInv == IInv /\ ImportStep => IInv'
<1> SUFFICES ASSUME IInv, ImportStep PROVE IInv'
  OBVIOUS
<1>0. file \in BOOLEAN
  BY DEF IInv, ConfigTypeOK
<1>1. ASSUME NEW l \in Lists, NEW f \in SUBSET {"replace", "overwrite"},
             UsersImport(l, f)
      PROVE  IInv'
  <2>1. /\ cmd' = "import" /\ list' = l /\ flags' = f /\ step' = 1
        /\ doomed' = IF "replace" \in f THEN {i \in Ids : Stored(i)} ELSE {}
        /\ UNCHANGED <<file, configVars, userVars, wanted, ended>>
    BY <1>1 DEF UsersImport, OpenExisting
  <2>2. doomed' \subseteq Ids
    BY <2>1
  <2>3. FirstDoomed'
    <3>1. CASE \A i \in Ids : ~Stored(i)
      BY <2>1, <3>1 DEF FirstDoomed
    <3>2. CASE \E i \in Ids : Stored(i)
      <4>1. PICK i \in Ids : Stored(i)
        BY <3>2
      <4>2. i <= counter /\ i > 0 /\ counter \in Nat
        BY <4>1 DEF IInv, UsersInv, UsersTypeOK, Ids
      <4>3. Stored(1) /\ 1 \in Ids
        BY <4>2 DEF IInv, UsersInv, FirstKept, Ids
      <4> QED BY <2>1, <4>3 DEF FirstDoomed
    <3> QED BY <3>1, <3>2
  <2>4. CommandTypeOK'
    BY <2>1, <2>2 DEF IInv, CommandTypeOK, Order
  <2>5. UsersInv' /\ ConfigTypeOK'
    BY <1>0, <2>1, UsersSame, ConfigSame DEF IInv
  <2> QED BY <2>3, <2>4, <2>5 DEF IInv
<1>2. ASSUME NEW i \in Ids, DeleteOld(i) PROVE IInv'
  BY <1>0, <1>2, OldUsersStay, ConfigSame, OverKeeps DEF Fails
\* An entry saved as it should be, and the next one.
<1>3. ASSUME Importing, NextEntry, UsersInv', UNCHANGED <<file, configVars>>
      PROVE  IInv'
  <2>1. CommandTypeOK' /\ doomed' \in {doomed, {}}
    BY <1>3, NextEntryTypes DEF Importing, IInv
  <2>2. ConfigTypeOK'
    BY <1>0, <1>3, ConfigSame
  <2> QED BY <1>3, <2>1, <2>2 DEF IInv, FirstDoomed
<1>4. CASE ImportNew
  <2>1. Entry.name \in Names
    BY <1>4, EntryTypes DEF ImportNew, IInv
  <2>2. UsersInv'
    BY <1>4, <2>1, SaveNewKeeps DEF ImportNew, IInv
  <2> QED BY <1>3, <1>4, <2>2 DEF ImportNew
<1>5. CASE ImportOver
  <2>1. Entry.id \in Ids /\ Entry.name \in Names
    BY <1>5, EntryTypes DEF ImportOver, Stored, IInv
  <2>2. UsersInv'
    BY <1>5, <2>1, SaveAsKeeps DEF ImportOver, IInv
  <2> QED BY <1>3, <1>5, <2>2 DEF ImportOver
<1>6. CASE ImportFails
  BY <1>0, <1>6, ConfigSame, OverKeeps DEF ImportFails, Fails
<1>7. CASE ImportNothing
  BY <1>0, <1>7, ConfigSame, OverKeeps DEF ImportNothing, Done
<1> QED BY <1>1, <1>2, <1>4, <1>5, <1>6, <1>7 DEF ImportStep

\* A start that goes on to serve: the command changes, nothing else.
LEMMA ServeStepIInv == IInv /\ ServeStep => IInv'
<1> SUFFICES ASSUME IInv, ServeStep PROVE IInv'
  OBVIOUS
<1>1. UNCHANGED <<file, configVars, userVars>> /\ file' \in BOOLEAN
  BY DEF ServeStep, StartFails, Request, Interrupted, ServiceDies, Listen, IInv, ConfigTypeOK
<1>2. UsersInv' /\ ConfigTypeOK'
  BY <1>1, UsersSame, ConfigSame DEF IInv
<1>5. CASE Request
  <2>1. UNCHANGED commandVars
    BY <1>5 DEF Request
  <2>2. CommandTypeOK' /\ FirstDoomed'
    BY <1>1, <2>1 DEF commandVars, IInv, CommandTypeOK, FirstDoomed
  <2> QED BY <1>2, <2>2 DEF IInv
<1>3. CASE StartFails \/ Interrupted \/ ServiceDies
  BY <1>1, <1>2, <1>3, OverKeeps DEF StartFails, Interrupted, ServiceDies, Done, Fails
<1>4. ASSUME NEW unix \in BOOLEAN, Listen(unix) PROVE IInv'
  <2>1. cmd' = "serving" /\ UNCHANGED <<step, wanted, list, flags, doomed, ended>>
    BY <1>4 DEF Listen
  <2>2. CommandTypeOK'
    BY <2>1 DEF IInv, CommandTypeOK, Order
  <2> QED BY <1>2, <2>1, <2>2 DEF IInv, FirstDoomed
<1> QED BY <1>3, <1>4, <1>5 DEF ServeStep

LEMMA StepIInv == IInv /\ [Next]_vars => IInv'
<1> SUFFICES ASSUME IInv, [Next]_vars PROVE IInv'
  OBVIOUS
<1>1. CASE Killed
  <2>1. Over("killed") /\ UNCHANGED <<file, configVars, userVars>> /\ file' \in BOOLEAN
    BY <1>1 DEF Killed, IInv, ConfigTypeOK
  <2> QED BY <2>1, ConfigSame, OverKeeps
<1>2. CASE UNCHANGED vars
  <2>1. UsersInv' /\ ConfigTypeOK'
    BY <1>2, UsersSame DEF vars, configVars, IInv, ConfigTypeOK
  <2>2. CommandTypeOK' /\ FirstDoomed'
    BY <1>2 DEF vars, commandVars, IInv, CommandTypeOK, FirstDoomed
  <2> QED BY <2>1, <2>2 DEF IInv
<1> QED BY <1>1, <1>2, ConfigStepIInv, UserStepIInv, ImportStepIInv, ServeStepIInv
           DEF Next

LEMMA AlwaysIInv == Spec => []IInv
BY InitIInv, StepIInv, PTL DEF Spec

-------------------------------------------------------------------------------
(* The socket.                                                             *)

SocketOK ==
  /\ socketFile \in BOOLEAN /\ onSocket \in BOOLEAN
  /\ onSocket => socketFile /\ cmd = "serving"
  /\ answers \subseteq Kinds

\* No command but the service itself runs while it serves.
LEMMA CommandsDoNotServe ==
  ASSUME ConfigStep \/ UserStep \/ ImportStep
  PROVE  cmd # "serving"
<1>0. "serving" \notin DOMAIN Order
  BY DEF Order
<1>1. CASE ConfigStep
  BY <1>0, <1>1 DEF ConfigStep, ServeFirst, ServeAgain, ConfigInit, ConfigSet, Idle,
               SaveAuther, SaveSettings, SaveServer, SaveAdmin, AdminUnnamed, Saving
<1>2. CASE UserStep
  BY <1>2 DEF UserStep, UsersAdd, UsersRm, UsersFind, UsersUpdate, UsersById, Idle
<1>3. CASE ImportStep
  BY <1>3 DEF ImportStep, UsersImport, DeleteOld, ImportNew, ImportOver, ImportFails,
              ImportNothing, Importing, Idle
<1> QED BY <1>1, <1>2, <1>3

LEMMA StepSocketOK == SocketOK /\ [Next]_vars => SocketOK'
<1> SUFFICES ASSUME SocketOK, [Next]_vars PROVE SocketOK'
  OBVIOUS
<1>1. CASE Killed
  BY <1>1 DEF Killed, SocketOK
<1>2. CASE StartFails
  BY <1>2 DEF StartFails, Fails, Over, socketVars, SocketOK
<1>3. CASE Interrupted \/ ServiceDies
  BY <1>3 DEF Interrupted, ServiceDies, SocketOK
<1>4. ASSUME NEW unix \in BOOLEAN, Listen(unix) PROVE SocketOK'
  BY <1>4 DEF Listen, SocketOK
<1>5. CASE (ConfigStep \/ UserStep \/ ImportStep) /\ UNCHANGED socketVars
  BY <1>5, CommandsDoNotServe DEF socketVars, SocketOK
<1>6. CASE UNCHANGED vars
  BY <1>6 DEF vars, commandVars, socketVars, SocketOK
<1>7. CASE Request
  <2>1. Answers \subseteq Kinds
    BY DEF Answers, Kinds
  <2> QED BY <1>7, <2>1 DEF Request, commandVars, SocketOK
<1> QED BY <1>1, <1>2, <1>3, <1>4, <1>5, <1>6, <1>7 DEF Next, ServeStep

LEMMA AlwaysSocketOK == Spec => []SocketOK
<1>1. Init => SocketOK
  BY DEF Init, SocketOK
<1> QED BY <1>1, StepSocketOK, PTL DEF Spec

\* Whatever commands are run and wherever they are killed, no id is given out
\* that is in use.
THEOREM TypeCorrect == Spec => []TypeOK
<1>1. IInv /\ SocketOK => TypeOK
  BY DEF IInv, UsersInv, SocketOK, TypeOK
<1> QED BY <1>1, AlwaysIInv, AlwaysSocketOK, PTL

\* A socket file nobody listens on.
Leftover == socketFile /\ ~onSocket

LEMMA StepLeftover == Leftover /\ [Next]_vars => Leftover'
<1> SUFFICES ASSUME Leftover, [Next]_vars PROVE Leftover'
  OBVIOUS
<1>1. CASE Killed \/ ServiceDies
  <2>1. socketFile' = socketFile /\ onSocket' = FALSE
    BY <1>1, Zenon DEF Killed, ServiceDies
  <2> QED BY <2>1, Zenon DEF Leftover
<1>4. CASE Interrupted
  <2>1. socketFile /\ ~onSocket
    BY DEF Leftover
  <2>2. (socketFile' = (socketFile /\ ~onSocket)) /\ ~onSocket'
    BY <1>4 DEF Interrupted
  <2>3. (socketFile /\ ~onSocket) = TRUE
    BY <2>1, Zenon
  <2> QED BY <2>2, <2>3 DEF Leftover
<1>2. ASSUME NEW unix \in BOOLEAN, Listen(unix) PROVE Leftover'
  BY <1>2 DEF Listen, Leftover
<1>3. CASE UNCHANGED socketVars
  BY <1>3 DEF socketVars, Leftover
<1>5. CASE StartFails
  BY <1>3, <1>5 DEF StartFails, socketVars
<1>6. CASE Request
  BY <1>6 DEF Request, Leftover
<1> QED BY <1>1, <1>2, <1>3, <1>4, <1>5, <1>6 DEF Next, ServeStep, vars

\* What a service that did not end well leaves at its socket stays there, and
\* keeps every later one from listening on it.
LEMMA LeftoverForGood == Spec => LeftoverBlocks
<1>1. SocketOK /\ Idle /\ socketFile => Leftover
  BY DEF SocketOK, Idle, Leftover
<1>2. Leftover => socketFile /\ ~onSocket
  BY DEF Leftover
<1> QED BY <1>1, <1>2, StepLeftover, AlwaysSocketOK, PTL DEF Spec, LeftoverBlocks

\* What was answered is what the users there are now would answer.
AnswerIsRight ==
  /\ answers # {} => cmd = "serving"
  /\ {"served", "broken"} \cap answers # {} => Holders(Admin) # {}
  /\ "refused" \in answers => Holders(Admin) = {}

LEMMA StepAnswerIsRight == AnswerIsRight /\ [Next]_vars => AnswerIsRight'
<1> SUFFICES ASSUME AnswerIsRight, [Next]_vars PROVE AnswerIsRight'
  OBVIOUS
<1>1. CASE answers' = {}
  BY <1>1 DEF AnswerIsRight
<1>2. CASE Request
  <2>1. cmd = "serving" /\ cmd' = cmd /\ users' = users
    BY <1>2 DEF Request, commandVars, userVars
  <2>2. Holders(Admin)' = Holders(Admin)
    BY <2>1 DEF Holders
  <2>3. PICK a \in Answers : answers' = answers \cup {a}
    BY <1>2 DEF Request
  <2> QED BY <2>1, <2>2, <2>3 DEF AnswerIsRight, Answers
<1>3. CASE StartFails
  <2>1. answers = {} /\ answers' = answers
    BY <1>3 DEF StartFails, socketVars, AnswerIsRight
  <2> QED BY <1>1, <2>1
<1>4. CASE (ConfigStep \/ UserStep \/ ImportStep) /\ UNCHANGED socketVars
  <2>1. answers = {} /\ answers' = answers
    BY <1>4, CommandsDoNotServe DEF socketVars, AnswerIsRight
  <2> QED BY <1>1, <2>1
<1>5. CASE UNCHANGED vars
  <2>1. answers' = answers /\ cmd' = cmd /\ users' = users
    BY <1>5 DEF vars, commandVars, userVars, socketVars
  <2>2. Holders(Admin)' = Holders(Admin)
    BY <2>1 DEF Holders
  <2> QED BY <2>1, <2>2 DEF AnswerIsRight
<1>6. CASE Killed \/ Interrupted \/ ServiceDies \/ \E unix \in BOOLEAN : Listen(unix)
  <2>1. answers' = {}
    BY <1>6 DEF Killed, Interrupted, ServiceDies, Listen
  <2> QED BY <1>1, <2>1
<1> QED BY <1>2, <1>3, <1>4, <1>5, <1>6 DEF Next, ServeStep

\* A service finds its user for every request that asks for it, or for none.
LEMMA UserStaysTheSame == Spec => []SameUser
<1>1. Init => AnswerIsRight
  BY DEF Init, AnswerIsRight
<1>2. AnswerIsRight => SameUser
  BY DEF AnswerIsRight, SameUser
<1> QED BY <1>1, <1>2, StepAnswerIsRight, PTL DEF Spec

-------------------------------------------------------------------------------
(* What is saved when. *)

\* The server settings are never there without the settings, and a command
\* that is saving has saved what comes before in its order.
SavedInOrder ==
  /\ server => method # Absent
  /\ cmd = "setup" => (step >= 3 => method # Absent) /\ (step >= 4 => server)
  /\ cmd = "init" => (step >= 2 => method # Absent)
  /\ cmd = "set" => method # Absent
  /\ cmd \in {"starting", "serving"} => server

LEMMA SavingWhere ==
  ASSUME CommandTypeOK
  PROVE  /\ Saving("auther") =>
              (cmd = "setup" /\ step = 1) \/ (cmd = "init" /\ step = 3) \/ (cmd = "set" /\ step = 1)
         /\ Saving("settings") =>
              (cmd = "setup" /\ step = 2) \/ (cmd = "init" /\ step = 1) \/ (cmd = "set" /\ step = 2)
         /\ Saving("server") =>
              (cmd = "setup" /\ step = 3) \/ (cmd = "init" /\ step = 2) \/ (cmd = "set" /\ step = 3)
         /\ Saving("admin") => cmd = "setup" /\ step = 4
<1>1. CASE cmd \notin DOMAIN Order
  BY <1>1 DEF Saving
<1>2. CASE cmd = "setup"
  <2>1. Order[cmd] = <<"auther", "settings", "server", "admin">> /\ step \in 1..4
    BY <1>2, SavingSteps DEF Order
  <2> QED BY <1>2, <2>1 DEF Saving
<1>3. CASE cmd = "init"
  <2>1. Order[cmd] = <<"settings", "server", "auther">> /\ step \in 1..3
    BY <1>3, SavingSteps DEF Order
  <2> QED BY <1>3, <2>1 DEF Saving
<1>4. CASE cmd = "set"
  <2>1. Order[cmd] = <<"auther", "settings", "server">> /\ step \in 1..3
    BY <1>4, SavingSteps DEF Order
  <2> QED BY <1>4, <2>1 DEF Saving
<1> QED BY <1>1, <1>2, <1>3, <1>4, SavingSteps

LEMMA InitSavedInOrder == Init => SavedInOrder
BY DEF Init, SavedInOrder

\* A command of another kind, or one that is over, needs nothing saved.
LEMMA IdleKeeps ==
  ASSUME SavedInOrder, cmd' \in {"none", "import"}, UNCHANGED configVars
  PROVE  SavedInOrder'
BY DEF SavedInOrder, configVars

LEMMA OrderDomain == DOMAIN Order = {"setup", "init", "set"} /\ Absent \notin Methods
BY DEF Order

LEMMA ConfigStepSaved == IInv /\ SavedInOrder /\ ConfigStep => SavedInOrder'
<1> SUFFICES ASSUME IInv, SavedInOrder, ConfigStep PROVE SavedInOrder'
  OBVIOUS
<1>0. CommandTypeOK /\ step \in Nat \ {0} /\ wanted # Absent
  BY OrderDomain DEF IInv, CommandTypeOK
<1>1. ASSUME NEW m \in Methods, ServeFirst(m) PROVE SavedInOrder'
  BY <1>1 DEF ServeFirst, StartSaving, SavedInOrder, configVars
<1>2. CASE ServeAgain
  BY <1>2 DEF ServeAgain, Fails, Over, SavedInOrder, configVars
<1>3. ASSUME NEW m \in Methods, NEW header \in BOOLEAN, ConfigInit(m, header)
      PROVE  SavedInOrder'
  BY <1>3 DEF ConfigInit, StartSaving, Fails, Over, SavedInOrder, configVars
<1>4. ASSUME NEW m \in Methods, NEW header \in BOOLEAN, NEW given \in BOOLEAN,
             ConfigSet(m, given, header)
      PROVE  SavedInOrder'
  BY <1>4 DEF ConfigSet, StartSaving, Fails, Over, SavedInOrder, configVars
<1>5. ASSUME cmd \in DOMAIN Order, NextSave
      PROVE  \/ cmd' = cmd /\ step' = step + 1
             \/ cmd = "setup" /\ step = 4 /\ cmd' = "starting"
             \/ cmd' = "none"
  BY <1>0, <1>5, NextSaveCases
<1>6. CASE SaveAuther
  <2>1. NextSave /\ Saving("auther") /\ UNCHANGED <<method, server>>
    BY <1>6 DEF SaveAuther
  <2>2. (cmd = "setup" /\ step = 1) \/ (cmd = "init" /\ step = 3) \/ (cmd = "set" /\ step = 1)
    BY <1>0, <2>1, SavingWhere
  <2> QED BY <1>5, <2>1, <2>2, OrderDomain DEF SavedInOrder
<1>7. CASE SaveSettings
  <2>1. NextSave /\ Saving("settings") /\ method' = wanted /\ UNCHANGED server
    BY <1>7 DEF SaveSettings
  <2>2. (cmd = "setup" /\ step = 2) \/ (cmd = "init" /\ step = 1) \/ (cmd = "set" /\ step = 2)
    BY <1>0, <2>1, SavingWhere
  <2> QED BY <1>0, <1>5, <2>1, <2>2, OrderDomain DEF SavedInOrder
<1>8. CASE SaveServer
  <2>1. NextSave /\ Saving("server") /\ server' = TRUE /\ UNCHANGED method
    BY <1>8 DEF SaveServer
  <2>2. (cmd = "setup" /\ step = 3) \/ (cmd = "init" /\ step = 2) \/ (cmd = "set" /\ step = 3)
    BY <1>0, <2>1, SavingWhere
  <2>3. method' # Absent
    BY <2>1, <2>2 DEF SavedInOrder
  <2> QED BY <1>5, <2>1, <2>2, <2>3, OrderDomain DEF SavedInOrder
<1>9. CASE SaveAdmin
  <2>1. NextSave /\ Saving("admin") /\ UNCHANGED <<method, server>>
    BY <1>9 DEF SaveAdmin, configVars
  <2>2. cmd = "setup" /\ step = 4
    BY <1>0, <2>1, SavingWhere
  <2> QED BY <1>5, <2>1, <2>2, OrderDomain DEF SavedInOrder
<1>10. CASE AdminUnnamed
  BY <1>10, IdleKeeps DEF AdminUnnamed, UsersFail, Fails, Over
<1> QED BY <1>1, <1>2, <1>3, <1>4, <1>6, <1>7, <1>8, <1>9, <1>10 DEF ConfigStep

LEMMA StepSavedInOrder == IInv /\ SavedInOrder /\ [Next]_vars => SavedInOrder'
<1> SUFFICES ASSUME IInv, SavedInOrder, [Next]_vars PROVE SavedInOrder'
  OBVIOUS
<1>1. CASE Killed
  BY <1>1, IdleKeeps DEF Killed, Over
<1>2. CASE UserStep
  BY <1>2, IdleKeeps DEF UserStep, UsersAdd, UsersRm, UsersFind, UsersUpdate, UsersById,
                         UsersFail, Done, Fails, Over
<1>3. CASE ImportStep
  <2>1. UNCHANGED configVars
    BY <1>3 DEF ImportStep, UsersImport, DeleteOld, ImportNew, ImportOver, ImportFails,
                ImportNothing
  <2>2. cmd' \in {"none", "import"}
    <3>1. ASSUME NEW i \in Ids, DeleteOld(i) PROVE cmd' = "none"
      BY <3>1, OldUsersStay DEF Fails, Over
    <3>2. ASSUME Importing, NextEntry PROVE cmd' \in {"none", "import"}
      BY <3>2, NextEntryTypes DEF Importing, IInv
    <3> QED BY <1>3, <3>1, <3>2 DEF ImportStep, UsersImport, ImportNew, ImportOver,
                                    ImportFails, ImportNothing, Done, Fails, Over
  <2> QED BY <2>1, <2>2, IdleKeeps
<1>4. CASE UNCHANGED vars
  BY <1>4 DEF vars, configVars, commandVars, SavedInOrder
<1>5. CASE ServeStep
  <2>1. UNCHANGED configVars /\ cmd \in {"starting", "serving"}
        /\ cmd' \in {"none", "serving"}
    BY <1>5 DEF ServeStep, StartFails, Request, commandVars, Interrupted, ServiceDies, Listen,
       Done,
           Fails, Over
  <2> QED BY <2>1 DEF SavedInOrder, configVars
<1> QED BY <1>1, <1>2, <1>3, <1>4, <1>5, ConfigStepSaved DEF Next

\* A service that is up has its settings and its server settings.
LEMMA ServiceHasSettings == Spec => []ServingHasSettings
<1>1. SavedInOrder => ServingHasSettings
  BY DEF SavedInOrder, ServingHasSettings
<1> QED BY <1>1, InitSavedInOrder, StepSavedInOrder, AlwaysIInv, PTL DEF Spec

\* A service starts with its settings, wherever the commands before it were cut
\* off, and finds its user for every request that asks for it or for none, as
\* long as it runs (root.go:83-98, 330-355, api/auth.go:57-66).
THEOREM ServicesAreSteady == Spec => []ServiceIsSteady
<1>1. ServingHasSettings /\ SameUser => ServiceIsSteady
  BY DEF ServiceIsSteady
<1> QED BY <1>1, ServiceHasSettings, UserStaysTheSame, PTL

-------------------------------------------------------------------------------
(* What nothing repairs. *)

HalfMade == file /\ ~server /\ cmd \in {"none", "import"}

LEMMA StepHalfMade == IInv /\ HalfMade /\ [Next]_vars => HalfMade'
<1> SUFFICES ASSUME IInv, HalfMade, [Next]_vars PROVE HalfMade'
  OBVIOUS
<1>1. file /\ ~server /\ cmd \notin DOMAIN Order /\ cmd \in {"none", "import"}
  BY DEF HalfMade, Order
<1>2. CASE Killed
  BY <1>1, <1>2 DEF Killed, Over, HalfMade, configVars
<1>3. CASE ConfigStep
  <2>1. ~(SaveAuther \/ SaveSettings \/ SaveServer \/ SaveAdmin \/ AdminUnnamed)
    BY <1>1 DEF SaveAuther, SaveSettings, SaveServer, SaveAdmin, AdminUnnamed, Saving
  <2>2. ASSUME NEW m, ServeFirst(m) PROVE FALSE
    BY <1>1, <2>2 DEF ServeFirst, OpenFresh
  <2>3. ASSUME ServeAgain PROVE HalfMade'
    BY <1>1, <2>3 DEF ServeAgain, OpenExisting, Fails, Over, HalfMade, configVars
  <2>4. ASSUME NEW m, NEW header, ConfigInit(m, header) PROVE HalfMade'
    BY <1>1, <2>4 DEF ConfigInit, OpenFresh, Fails, Over, HalfMade, configVars
  <2>5. ASSUME NEW m, NEW header, NEW given, ConfigSet(m, given, header)
        PROVE  HalfMade'
    BY <1>1, <2>5 DEF ConfigSet, OpenExisting, Fails, Over, HalfMade, configVars
  <2> QED BY <1>3, <2>1, <2>2, <2>3, <2>4, <2>5 DEF ConfigStep
<1>4. CASE UserStep
  <2>1. UNCHANGED <<file, server>>
    BY <1>4 DEF UserStep, UsersAdd, UsersRm, UsersFind, UsersUpdate, UsersById,
                UsersFail, OpenExisting, configVars
  <2>2. cmd' = "none"
    BY <1>4 DEF UserStep, UsersAdd, UsersRm, UsersFind, UsersUpdate, UsersById,
                UsersFail, Done, Fails, Over
  <2> QED BY <1>1, <2>1, <2>2 DEF HalfMade
<1>5. CASE ImportStep
  <2>1. UNCHANGED <<file, server>>
    BY <1>5 DEF ImportStep, UsersImport, OpenExisting, DeleteOld, ImportNew, ImportOver,
                ImportFails, ImportNothing, configVars
  <2>2. cmd' \in {"none", "import"}
    <3>1. ASSUME NEW i \in Ids, DeleteOld(i) PROVE cmd' = "none"
      BY <3>1, OldUsersStay DEF Fails, Over
    <3>2. ASSUME Importing, NextEntry PROVE cmd' \in {"none", "import"}
      BY <3>2, NextEntryTypes DEF Importing, IInv
    <3> QED BY <1>5, <3>1, <3>2 DEF ImportStep, UsersImport, ImportNew, ImportOver,
                                    ImportFails, ImportNothing, Done, Fails, Over
  <2> QED BY <1>1, <2>1, <2>2 DEF HalfMade
<1>6. CASE UNCHANGED vars
  BY <1>1, <1>6 DEF vars, configVars, commandVars, HalfMade
<1>7. ~ServeStep
  BY <1>1 DEF ServeStep, StartFails, Request, Interrupted, ServiceDies, Listen
<1> QED BY <1>2, <1>3, <1>4, <1>5, <1>6, <1>7 DEF Next

\* A database without server settings that no command is making stays without
\* them for ever.
LEMMA HalfMadeForGood == Spec => HalfMadeStays
<1>1. Idle /\ file /\ ~server => HalfMade
  BY DEF Idle, HalfMade
<1>2. HalfMade => ~server
  BY DEF HalfMade
<1> QED BY <1>1, <1>2, StepHalfMade, AlwaysIInv, PTL DEF Spec, HalfMadeStays

\* Neither a half-made database nor the socket file of a service that did not end
\* well is ever repaired (utils.go:85-108, root.go:110-116, 161-166).
THEOREM DamageIsForGood == Spec => DamageStays
  BY HalfMadeForGood, LeftoverForGood DEF DamageStays
===============================================================================
