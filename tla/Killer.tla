------------------------------- MODULE Killer -------------------------------
(***************************************************************************)
(* The killer process and the broker's side of its interface.  Freezing,   *)
(* thawing and terminating a control group are calls over two pipes, one   *)
(* with the broker's commands and one with the killer's answers.  Either   *)
(* process may die at any moment; the other one learns of it by the end of *)
(* a stream or by a failing write.                                         *)
(***************************************************************************)
EXTENDS Naturals, Sequences

CONSTANTS
    Ids,          \* the processes in the options of the broker
    Groups,       \* control groups
    Cgroup,       \* pattern of the killer's options: the group of a process
    Unprotected,  \* unprotected of the killer's options
    Own           \* the control group of the killer

ASSUME KillerAssumption ==
    /\ Cgroup \in [Ids -> Groups]
    /\ Unprotected \subseteq Ids
    /\ Own \in Groups

VARIABLES
    broker,    \* "idle", "call" (in recvStatus), or how the process ended
    command,   \* the command the broker sent last
    status,    \* the status its last call returned
    commands,  \* pipe from the broker to the killer
    answers,   \* pipe from the killer to the broker
    killer,    \* "recv", "run", "send", or how the process ended
    request,   \* the command the killer received last
    answer,    \* the killer's status for it
    groups     \* what the processes of each control group do

brokerVars == <<broker, command, status>>
killerVars == <<killer, request, answer>>
vars == <<brokerVars, commands, answers, killerVars, groups>>

Commands == [type : {"FREEZE", "UNFREEZE", "TERMINATE"}, id : Ids]
Statuses == {"OK", "PROTECTED", "ERROR"}

TypeOK ==
    /\ broker \in {"idle", "call", "exited", "failed", "aborted"}
    /\ command \in Commands
    /\ status \in Statuses \cup {"NONE"}
    /\ commands \in Seq(Commands)
    /\ answers \in Seq(Statuses)
    /\ killer \in {"recv", "run", "send", "exited", "failed"}
    /\ request \in Commands
    /\ answer \in Statuses
    /\ groups \in [Groups -> {"running", "frozen", "dead"}]

Init ==
    /\ broker = "idle"
    /\ command \in Commands
    /\ status = "NONE"
    /\ commands = <<>>
    /\ answers = <<>>
    /\ killer = "recv"
    /\ request = command
    /\ answer = "OK"
    /\ groups = [g \in Groups |-> "running"]

BrokerUp == broker \in {"idle", "call"}
KillerUp == killer \in {"recv", "run", "send"}

\* The killer acts on its own control group like on any other.
KillerRuns == groups[Own] = "running"

-----------------------------------------------------------------------------
(***************************************************************************)
(* The broker: KillerInterface::freeze, unfreeze and terminate.            *)
(***************************************************************************)
AfterSendUnlessTerminate(c) ==  \* mutant: terminate() does not wait
    IF c.type = "TERMINATE" THEN "idle" ELSE "call"
AfterSend(c) == "call"

SendCommand(c) ==
    /\ broker = "idle"
    /\ KillerUp
    /\ commands' = Append(commands, c)
    /\ command' = c
    /\ status' = "NONE"
    /\ broker' = AfterSend(c)
    /\ UNCHANGED <<answers, killerVars, groups>>

\* EPIPE, or SIGPIPE, if nobody reads the commands any more.
SendCommandFails ==
    /\ broker = "idle"
    /\ ~KillerUp
    /\ broker' = "failed"
    /\ UNCHANGED <<command, status, commands, answers, killerVars, groups>>

\* BrokerImpl::freeze and unfreeze assert that the status is not PROTECTED,
\* BrokerImpl::terminate writes a message to the log only.
RecvStatus ==
    /\ broker = "call"
    /\ answers # <<>>
    /\ status' = Head(answers)
    /\ answers' = Tail(answers)
    /\ broker' = IF Head(answers) = "PROTECTED" /\ command.type # "TERMINATE"
                 THEN "aborted" ELSE "idle"
    /\ UNCHANGED <<command, commands, killerVars, groups>>

StatusAtEOFUnset == "UNSET"  \* mutant: recvBytes does not look at gcount()
StatusAtEOF == status

\* The end of the answers is an EndOfFileError, with which main() returns 0.
RecvStatusEOF ==
    /\ broker = "call"
    /\ answers = <<>>
    /\ ~KillerUp
    /\ broker' = "exited"
    /\ status' = StatusAtEOF
    /\ UNCHANGED <<command, commands, answers, killerVars, groups>>

\* The judge has ended the session, or the broker failed or was killed.
BrokerEnds ==
    /\ BrokerUp
    /\ broker' \in IF broker = "idle" THEN {"exited", "failed"} ELSE {"failed"}
    /\ UNCHANGED <<command, status, commands, answers, killerVars, groups>>

-----------------------------------------------------------------------------
(***************************************************************************)
(* The killer: the loop of main() around KillerInterface::runOnce.         *)
(***************************************************************************)
RecvCommand ==
    /\ killer = "recv"
    /\ KillerRuns
    /\ commands # <<>>
    /\ request' = Head(commands)
    /\ commands' = Tail(commands)
    /\ killer' = "run"
    /\ UNCHANGED <<brokerVars, answers, answer, groups>>

AfterEOFAgain == "recv"  \* mutant: the end of the stream does not end the loop
AfterEOF == "exited"

RecvCommandEOF ==
    /\ killer = "recv"
    /\ KillerRuns
    /\ commands = <<>>
    /\ ~BrokerUp
    /\ killer' = AfterEOF
    /\ UNCHANGED <<brokerVars, commands, answers, request, answer, groups>>

\* What the constructor of KillerImpl makes of the options.
unprotectedWithOwn == {Cgroup[i] : i \in Unprotected}  \* mutant: no erase()
unprotected == {Cgroup[i] : i \in Unprotected} \ {Own}

\* Freezer::freeze, Freezer::unfreeze and ControlGroup::terminate.
Act(type, state) ==
    CASE type = "TERMINATE" -> "dead"
      [] type = "FREEZE" /\ state = "running" -> "frozen"
      [] type = "UNFREEZE" /\ state = "frozen" -> "running"
      [] OTHER -> state

Acted(g) == groups' = [groups EXCEPT ![g] = Act(request.type, @)]

\* KillerImpl::freeze, unfreeze and terminate.  An exception may be thrown
\* before and after the group has changed.
Run ==
    /\ killer = "run"
    /\ KillerRuns
    /\ LET g == Cgroup[request.id] IN
       \/ g \notin unprotected /\ answer' = "PROTECTED" /\ UNCHANGED groups
       \/ g \in unprotected /\ answer' = "ERROR" /\ (Acted(g) \/ UNCHANGED groups)
       \/ g \in unprotected /\ answer' = "OK" /\ Acted(g)
    /\ killer' = "send"
    /\ UNCHANGED <<brokerVars, commands, answers, request>>

SendStatus ==
    /\ killer = "send"
    /\ KillerRuns
    /\ BrokerUp
    /\ answers' = Append(answers, answer)
    /\ killer' = "recv"
    /\ UNCHANGED <<brokerVars, commands, request, answer, groups>>

SendStatusFails ==
    /\ killer = "send"
    /\ KillerRuns
    /\ ~BrokerUp
    /\ killer' = "failed"
    /\ UNCHANGED <<brokerVars, commands, answers, request, answer, groups>>

KillerDies ==
    /\ KillerUp
    /\ killer' = "failed"
    /\ UNCHANGED <<brokerVars, commands, answers, request, answer, groups>>

\* The processes of a group end by themselves; for the killer, see KillerDies.
GroupExits(g) ==
    /\ g # Own
    /\ groups[g] = "running"
    /\ groups' = [groups EXCEPT ![g] = "dead"]
    /\ UNCHANGED <<brokerVars, commands, answers, killerVars>>

Over == ~BrokerUp /\ ~KillerUp /\ UNCHANGED vars

-----------------------------------------------------------------------------
BrokerStep == RecvStatus \/ RecvStatusEOF
KillerStep ==
    RecvCommand \/ RecvCommandEOF \/ Run \/ SendStatus \/ SendStatusFails

Next ==
    \/ \E c \in Commands : SendCommand(c)
    \/ SendCommandFails
    \/ BrokerStep
    \/ BrokerEnds
    \/ KillerStep
    \/ KillerDies
    \/ \E g \in Groups : GroupExits(g)
    \/ Over

Spec == Init /\ [][Next]_vars

FairSpec == Spec /\ WF_vars(BrokerStep) /\ WF_vars(KillerStep)

-----------------------------------------------------------------------------
(***************************************************************************)
(* The status a call returned is the status of its own command, and until  *)
(* the next call the group is what the command made of it: OK to a freeze  *)
(* means that nothing runs, OK to terminate that nothing is left.          *)
(***************************************************************************)
StatusMatchesCommand ==
    LET g == Cgroup[command.id] IN
    /\ status = "PROTECTED" => g = Own \/ \A i \in Unprotected : Cgroup[i] # g
    /\ status = "OK" =>
        CASE command.type = "FREEZE" -> groups[g] # "running"
          [] command.type = "UNFREEZE" -> groups[g] # "frozen"
          [] command.type = "TERMINATE" -> groups[g] = "dead"

(***************************************************************************)
(* The killer does not outlive the broker, and no call waits for ever,     *)
(* whichever of the two processes dies when.                               *)
(***************************************************************************)
NobodyIsLeftWaiting ==
    /\ ~BrokerUp ~> ~KillerUp
    /\ broker = "call" ~> broker # "call"

(***************************************************************************)
(* To the broker the two processes are one object with atomic operations.  *)
(***************************************************************************)
Contract == INSTANCE KillerContract WITH
    Allowed <- {g \in Groups : g # Own /\ \E i \in Unprotected : Cgroup[i] = g},
    caller <- IF broker = "idle" THEN "idle"
              ELSE IF broker = "call" THEN "waiting" ELSE "gone",
    todo <- KillerUp /\ (commands # <<>> \/ killer = "run"),
    result <- IF answers # <<>> THEN Head(answers)
              ELSE IF killer = "send" THEN answer ELSE "NONE"

ImplementsKiller == Contract!Spec

=============================================================================
