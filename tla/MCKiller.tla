------------------------------ MODULE MCKiller ------------------------------
(***************************************************************************)
(* An instance of the killer for TLC: a solution, a process that is        *)
(* protected, and the killer itself, which somebody forgot to protect.     *)
(***************************************************************************)
EXTENDS Killer

Processes == {"solution", "other", "killer"}
GroupOf == [i \in Processes |->
    CASE i = "solution" -> "id_solution"
      [] i = "other" -> "id_other"
      [] i = "killer" -> "id_killer"]
AllGroups == {GroupOf[i] : i \in Processes}
Listed == {"solution", "killer"}

=============================================================================
