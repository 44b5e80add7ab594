---------------------------- MODULE MCAdminCommands ----------------------------
(* Model checking of AdminCommands on lists of up to two users. *)
EXTENDS AdminCommands

MCEntries == [id : {0, 1, 2, 3}, name : Names]

MCLists == {<<>>} \cup {<<e>> : e \in MCEntries} \cup
           {<<e, f>> : e, f \in MCEntries}
===============================================================================
