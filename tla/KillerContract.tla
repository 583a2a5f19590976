--------------------------- MODULE KillerContract ---------------------------
(***************************************************************************)
(* What class Killer promises the broker, without processes and streams:   *)
(* a command is performed at most once, between the call and its return,   *)
(* on the control group it names and on no other, and never on a protected *)
(* one.  The caller may go away, and the command or its result may be      *)
(* lost.                                                                   *)
(***************************************************************************)
CONSTANTS
    Ids,      \* the processes the broker knows
    Groups,   \* control groups
    Cgroup,   \* the control group of a process
    Allowed   \* the control groups that are not protected

VARIABLES
    caller,   \* "idle", "waiting" (for the result of a call) or "gone"
    command,  \* the command of the last call
    todo,     \* it may still be performed
    result,   \* its status on the way back, or "NONE"
    status,   \* the status the last call returned
    groups    \* what the processes of each control group do

vars == <<caller, command, todo, result, status, groups>>

Commands == [type : {"FREEZE", "UNFREEZE", "TERMINATE"}, id : Ids]

Init ==
    /\ caller = "idle"
    /\ command \in Commands
    /\ todo = FALSE
    /\ result = "NONE"
    /\ status = "NONE"
    /\ groups = [g \in Groups |-> "running"]

Call(c) ==
    /\ caller = "idle"
    /\ caller' = "waiting"
    /\ command' = c
    /\ todo' = TRUE
    /\ status' = "NONE"
    /\ UNCHANGED <<result, groups>>

\* What a command makes of processes that are in the given state.
Effect(type, state) ==
    CASE type = "TERMINATE" -> "dead"
      [] type = "FREEZE" /\ state = "running" -> "frozen"
      [] type = "UNFREEZE" /\ state = "frozen" -> "running"
      [] OTHER -> state

Performed(g) == groups' = [groups EXCEPT ![g] = Effect(command.type, @)]

Perform ==
    /\ todo
    /\ todo' = FALSE
    /\ LET g == Cgroup[command.id] IN
       \/ g \notin Allowed /\ result' = "PROTECTED" /\ UNCHANGED groups
       \/ g \in Allowed /\ result' = "ERROR" /\ (Performed(g) \/ UNCHANGED groups)
       \/ g \in Allowed /\ result' = "OK" /\ Performed(g)
    /\ UNCHANGED <<caller, command, status>>

Return ==
    /\ caller = "waiting"
    /\ result # "NONE"
    /\ status' = result
    /\ result' = "NONE"
    /\ caller' \in {"idle", "gone"}
    /\ UNCHANGED <<command, todo, groups>>

\* The caller never hears of a command that was, or will be, performed.
GiveUp ==
    /\ caller # "gone"
    /\ caller' = "gone"
    /\ UNCHANGED <<command, todo, result, status, groups>>

Lose ==
    /\ todo' = FALSE
    /\ result' \in {result, "NONE"}
    /\ UNCHANGED <<caller, command, status, groups>>

\* The processes end by themselves.
Exit(g) ==
    /\ groups[g] = "running"
    /\ groups' = [groups EXCEPT ![g] = "dead"]
    /\ UNCHANGED <<caller, command, todo, result, status>>

Next ==
    \/ \E c \in Commands : Call(c)
    \/ Perform
    \/ Return
    \/ GiveUp
    \/ Lose
    \/ \E g \in Groups : Exit(g)

Spec == Init /\ [][Next]_vars

=============================================================================
