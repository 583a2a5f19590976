---------------------------- MODULE KillerProofs ----------------------------
(***************************************************************************)
(* Proofs about the killer: types, the status of a call, and that the two  *)
(* processes implement the class.                                          *)
(***************************************************************************)
EXTENDS Killer, TLAPS

(***************************************************************************)
(* One command at a time: it is in the pipe, with the killer, or answered, *)
(* and never in two of these places.                                       *)
(***************************************************************************)
InFlight == killer \in {"run", "send"}

OneCommand ==
    /\ commands = <<>> \/ commands = <<command>>
    /\ answers = <<>> \/ answers = <<Head(answers)>>
    /\ commands # <<>> => answers = <<>> /\ ~InFlight
    /\ answers # <<>> => ~InFlight
    /\ InFlight => request = command
    /\ broker = "idle" \/ status # "NONE" =>
           commands = <<>> /\ answers = <<>> /\ ~InFlight

THEOREM OneElement ==
    ASSUME NEW e
    PROVE  /\ Append(<<>>, e) = <<e>>
           /\ Head(<<e>>) = e
           /\ Tail(<<e>>) = <<>>
           /\ <<e>> # <<>>
  OBVIOUS

\* At every moment everything is of its type, and at most one command is under way.
THEOREM TypesAndOneCommand == Spec => [](TypeOK /\ OneCommand)
<1>1. Init => TypeOK /\ OneCommand
  BY KillerAssumption DEF Init, TypeOK, OneCommand, InFlight, Statuses
<1>2. TypeOK /\ OneCommand /\ [Next]_vars => (TypeOK /\ OneCommand)'
  <2> SUFFICES ASSUME TypeOK, OneCommand, [Next]_vars
               PROVE  (TypeOK /\ OneCommand)'
    OBVIOUS
  <2>1. ASSUME NEW c \in Commands, SendCommand(c) PROVE (TypeOK /\ OneCommand)'
    <3>1. commands = <<>> /\ answers = <<>> /\ ~InFlight
      BY <2>1 DEF SendCommand, OneCommand
    <3>2. commands' = <<c>>
      BY <2>1, <3>1, OneElement DEF SendCommand
    <3> QED
      BY <2>1, <3>1, <3>2
      DEF SendCommand, AfterSend, killerVars, TypeOK, OneCommand, InFlight
  <2>2. CASE SendCommandFails
    BY <2>2 DEF SendCommandFails, killerVars, TypeOK, OneCommand, InFlight
  <2>3. CASE RecvStatus
    <3>1. Head(answers) \in Statuses /\ answers' = <<>>
      BY <2>3, OneElement DEF RecvStatus, OneCommand, TypeOK
    <3>2. commands = <<>> /\ ~InFlight
      BY <2>3 DEF RecvStatus, OneCommand
    <3> QED
      BY <2>3, <3>1, <3>2
      DEF RecvStatus, killerVars, TypeOK, OneCommand, InFlight
  <2>4. CASE RecvStatusEOF
    BY <2>4
    DEF RecvStatusEOF, StatusAtEOF, killerVars, TypeOK, OneCommand, InFlight
  <2>5. CASE BrokerEnds
    BY <2>5 DEF BrokerEnds, BrokerUp, killerVars, TypeOK, OneCommand, InFlight
  <2>6. CASE RecvCommand
    <3>1. Head(commands) = command /\ commands' = <<>>
      BY <2>6, OneElement DEF RecvCommand, OneCommand
    <3>2. answers = <<>> /\ broker # "idle" /\ status = "NONE"
      BY <2>6 DEF RecvCommand, OneCommand
    <3> QED
      BY <2>6, <3>1, <3>2
      DEF RecvCommand, brokerVars, TypeOK, OneCommand, InFlight
  <2>7. CASE RecvCommandEOF
    BY <2>7
    DEF RecvCommandEOF, AfterEOF, brokerVars, TypeOK, OneCommand, InFlight
  <2>8. CASE Run
    <3>1. groups' \in [Groups -> {"running", "frozen", "dead"}]
      BY <2>8 DEF Run, Acted, Act, TypeOK
    <3>2. answer' \in Statuses
      BY <2>8 DEF Run, Statuses
    <3> QED
      BY <2>8, <3>1, <3>2 DEF Run, brokerVars, TypeOK, OneCommand, InFlight
  <2>9. CASE SendStatus
    <3>1. commands = <<>> /\ answers = <<>> /\ broker # "idle" /\ status = "NONE"
      BY <2>9 DEF SendStatus, OneCommand, InFlight
    <3>2. answers' = <<answer>> /\ answers' = <<Head(answers')>>
      BY <2>9, <3>1, OneElement DEF SendStatus
    <3> QED
      BY <2>9, <3>1, <3>2
      DEF SendStatus, brokerVars, TypeOK, OneCommand, InFlight
  <2>10. CASE SendStatusFails
    BY <2>10 DEF SendStatusFails, brokerVars, TypeOK, OneCommand, InFlight
  <2>11. CASE KillerDies
    BY <2>11 DEF KillerDies, brokerVars, TypeOK, OneCommand, InFlight
  <2>12. ASSUME NEW g \in Groups, GroupExits(g) PROVE (TypeOK /\ OneCommand)'
    BY <2>12
    DEF GroupExits, brokerVars, killerVars, TypeOK, OneCommand, InFlight
  <2>13. CASE UNCHANGED vars
    BY <2>13 DEF vars, brokerVars, killerVars, TypeOK, OneCommand, InFlight
  <2> QED
    BY <2>1, <2>2, <2>3, <2>4, <2>5, <2>6, <2>7, <2>8, <2>9, <2>10, <2>11,
       <2>12, <2>13
    DEF Next, BrokerStep, KillerStep, Over
<1> QED
  BY <1>1, <1>2, PTL DEF Spec

(***************************************************************************)
(* Every state the two processes reach is well typed.                      *)
(***************************************************************************)
THEOREM KillerTypeCorrect == Spec => []TypeOK
  BY TypesAndOneCommand, PTL

-----------------------------------------------------------------------------
(***************************************************************************)
(* What the status of a command says of the groups, wherever it is on its  *)
(* way from the killer to the caller.                                      *)
(***************************************************************************)
Matches(st) ==
    LET g == Cgroup[command.id] IN
    /\ st = "PROTECTED" => g \notin unprotected
    /\ st = "OK" /\ command.type = "FREEZE" => groups[g] # "running"
    /\ st = "OK" /\ command.type = "UNFREEZE" => groups[g] # "frozen"
    /\ st = "OK" /\ command.type = "TERMINATE" => groups[g] = "dead"

StatusInv ==
    /\ killer = "send" => Matches(answer)
    /\ answers # <<>> => Matches(Head(answers))
    /\ Matches(status)

(***************************************************************************)
(* For any number of processes and any mapping to control groups, a status *)
(* the broker reads is true of the group until the next call.              *)
(***************************************************************************)
THEOREM StatusIsOfItsCommand == Spec => []StatusMatchesCommand
<1>1. Init => StatusInv
  BY DEF Init, StatusInv, Matches
<1>2. TypeOK /\ OneCommand /\ StatusInv /\ [Next]_vars => StatusInv'
  <2> SUFFICES ASSUME TypeOK, OneCommand, StatusInv, [Next]_vars
               PROVE  StatusInv'
    OBVIOUS
  <2> USE DEF StatusInv
  <2>1. ASSUME NEW c \in Commands, SendCommand(c) PROVE StatusInv'
    BY <2>1 DEF SendCommand, OneCommand, InFlight, killerVars, Matches
  <2>2. CASE SendCommandFails
    BY <2>2 DEF SendCommandFails, killerVars, Matches
  <2>3. CASE RecvStatus
    <3>1. Matches(Head(answers)) /\ answers' = <<>> /\ killer # "send"
      BY <2>3, OneElement DEF RecvStatus, OneCommand, InFlight
    <3> QED
      BY <2>3, <3>1 DEF RecvStatus, killerVars, Matches
  <2>4. CASE RecvStatusEOF
    BY <2>4 DEF RecvStatusEOF, StatusAtEOF, killerVars, Matches
  <2>5. CASE BrokerEnds
    BY <2>5 DEF BrokerEnds, killerVars, Matches
  <2>6. CASE RecvCommand
    BY <2>6 DEF RecvCommand, brokerVars, Matches
  <2>7. CASE RecvCommandEOF
    BY <2>7 DEF RecvCommandEOF, AfterEOF, brokerVars, Matches
  <2>8. CASE Run
    <3>1. request = command /\ answers = <<>> /\ status = "NONE"
      BY <2>8 DEF Run, OneCommand, InFlight
    <3>2. Cgroup[command.id] \in Groups
      BY KillerAssumption DEF TypeOK, Commands
    <3>3. Matches(answer)'
      BY <2>8, <3>1, <3>2 DEF Run, brokerVars, Acted, Act, Matches, TypeOK, Commands
    <3> QED
      BY <2>8, <3>1, <3>3 DEF Run, brokerVars, Matches
  <2>9. CASE SendStatus
    <3>1. Head(answers') = answer
      BY <2>9, OneElement DEF SendStatus, OneCommand, InFlight
    <3> QED
      BY <2>9, <3>1 DEF SendStatus, brokerVars, Matches
  <2>10. CASE SendStatusFails
    BY <2>10 DEF SendStatusFails, brokerVars, Matches
  <2>11. CASE KillerDies
    BY <2>11 DEF KillerDies, brokerVars, Matches
  <2>12. ASSUME NEW g \in Groups, GroupExits(g) PROVE StatusInv'
    <3>1. ASSUME NEW st, Matches(st) PROVE Matches(st)'
      BY <2>12, <3>1 DEF GroupExits, brokerVars, Matches, TypeOK
    <3> QED
      BY <2>12, <3>1 DEF GroupExits, brokerVars, killerVars
  <2>13. CASE UNCHANGED vars
    BY <2>13 DEF vars, brokerVars, killerVars, Matches
  <2> QED
    BY <2>1, <2>2, <2>3, <2>4, <2>5, <2>6, <2>7, <2>8, <2>9, <2>10, <2>11,
       <2>12, <2>13
    DEF Next, BrokerStep, KillerStep, Over
<1>3. TypeOK /\ StatusInv => StatusMatchesCommand
  BY DEF TypeOK, Commands, StatusInv, Matches, StatusMatchesCommand, unprotected
<1> QED
  BY <1>1, <1>2, <1>3, TypesAndOneCommand, PTL DEF Spec

-----------------------------------------------------------------------------
(***************************************************************************)
(* Every behaviour of the two processes and their pipes is a behaviour of  *)
(* one object with atomic operations that are performed at most once.      *)
(***************************************************************************)
THEOREM KillerImplementsContract == Spec => ImplementsKiller
<1> USE DEF Contract!Commands, Commands, KillerUp, Contract!vars
<1>1. Init => Contract!Init
  BY DEF Init, Contract!Init
<1>2. TypeOK /\ OneCommand /\ [Next]_vars => [Contract!Next]_(Contract!vars)
  <2> SUFFICES ASSUME TypeOK, OneCommand, [Next]_vars
               PROVE  Contract!Next \/ UNCHANGED Contract!vars
    OBVIOUS
  <2>1. ASSUME NEW c \in Commands, SendCommand(c) PROVE Contract!Call(c)
    <3>1. commands' # <<>>
      BY <2>1, OneElement DEF SendCommand, OneCommand
    <3> QED
      BY <2>1, <3>1 DEF SendCommand, AfterSend, killerVars, Contract!Call
  <2>2. ASSUME SendCommandFails PROVE Contract!GiveUp
    BY <2>2 DEF SendCommandFails, killerVars, Contract!GiveUp
  <2>3. ASSUME RecvStatus PROVE Contract!Return
    <3>1. answers' = <<>> /\ killer # "send"
      BY <2>3, OneElement DEF RecvStatus, OneCommand, InFlight
    <3>2. Head(answers) # "NONE"
      BY <2>3 DEF RecvStatus, TypeOK, Statuses
    <3> QED
      BY <2>3, <3>1, <3>2 DEF RecvStatus, killerVars, Contract!Return
  <2>4. ASSUME RecvStatusEOF PROVE Contract!GiveUp
    BY <2>4 DEF RecvStatusEOF, StatusAtEOF, killerVars, Contract!GiveUp
  <2>5. ASSUME BrokerEnds PROVE Contract!GiveUp
    <3>1. broker \in {"idle", "call"} /\ broker' \in {"exited", "failed"}
      BY <2>5 DEF BrokerEnds, BrokerUp
    <3> QED
      BY <2>5, <3>1 DEF BrokerEnds, killerVars, Contract!GiveUp
  <2>6. CASE RecvCommand
    BY <2>6 DEF RecvCommand, brokerVars
  <2>7. CASE RecvCommandEOF
    BY <2>7 DEF RecvCommandEOF, AfterEOF, brokerVars
  <2>8. ASSUME Run PROVE Contract!Perform
    <3>1. request = command /\ answers = <<>> /\ commands = <<>>
      BY <2>8 DEF Run, OneCommand, InFlight
    <3>2. Cgroup[command.id] \in Groups
      BY KillerAssumption DEF TypeOK
    <3> DEFINE A == {g \in Groups : g # Own /\ \E i \in Unprotected : Cgroup[i] = g}
    <3>3. Cgroup[command.id] \in unprotected <=> Cgroup[command.id] \in A
      BY <3>2 DEF unprotected
    <3>4. \A g : Acted(g) => Contract!Performed(g)
      BY <3>1 DEF Acted, Act, Contract!Performed, Contract!Effect
    <3> QED
      BY <2>8, <3>1, <3>3, <3>4 DEF Run, brokerVars, Contract!Perform
  <2>9. CASE SendStatus
    <3>1. answers = <<>> /\ commands = <<>> /\ answers' # <<>> /\ Head(answers') = answer
      BY <2>9, OneElement DEF SendStatus, OneCommand, InFlight
    <3> QED
      BY <2>9, <3>1 DEF SendStatus, brokerVars
  <2>10. ASSUME SendStatusFails PROVE Contract!Lose
    BY <2>10 DEF SendStatusFails, OneCommand, InFlight, brokerVars, Contract!Lose
  <2>11. ASSUME KillerDies PROVE Contract!Lose
    BY <2>11 DEF KillerDies, brokerVars, Contract!Lose
  <2>12. ASSUME NEW g \in Groups, GroupExits(g) PROVE Contract!Exit(g)
    BY <2>12 DEF GroupExits, brokerVars, killerVars, Contract!Exit
  <2>13. CASE UNCHANGED vars
    BY <2>13 DEF vars, brokerVars, killerVars
  <2> QED
    BY <2>1, <2>2, <2>3, <2>4, <2>5, <2>6, <2>7, <2>8, <2>9, <2>10, <2>11,
       <2>12, <2>13
    DEF Next, BrokerStep, KillerStep, Over, Contract!Next
<1> QED
  BY <1>1, <1>2, TypesAndOneCommand, PTL DEF Spec, ImplementsKiller, Contract!Spec

=============================================================================
