-------------------------- MODULE SessionContract --------------------------
(***************************************************************************)
(* What the text interface promises a judge: it is a queue of calls to the *)
(* broker.  Commands are executed in the order they were given, none is    *)
(* left out, none is executed twice, and the results of the ENDs come back *)
(* in the order of the ENDs.  If one of the two processes ends, the newest *)
(* commands and the newest results may be lost, never older ones only.     *)
(***************************************************************************)
EXTENDS Integers, Sequences

CONSTANT Commands  \* [n |-> number of the command, type |-> its type]

VARIABLES
    todo,     \* commands the judge gave and the broker has not taken yet
    running,  \* at most one command: the one the broker is executing
    answers,  \* results the judge has not read yet, as numbers of commands
    up        \* neither process has ended

vars == <<todo, running, answers, up>>

Init ==
    /\ todo = <<>>
    /\ running = <<>>
    /\ answers = <<>>
    /\ up = TRUE

\* The judge gives a command.
Issue(c) ==
    /\ up
    /\ todo' = Append(todo, c)
    /\ UNCHANGED <<running, answers, up>>

\* The broker takes the oldest command.
Take ==
    /\ todo # <<>> /\ running = <<>>
    /\ running' = <<Head(todo)>>
    /\ todo' = Tail(todo)
    /\ UNCHANGED <<answers, up>>

\* It has executed the command; an END has a result, no other command has.
Finish ==
    /\ running # <<>>
    /\ running' = <<>>
    /\ answers' = IF Head(running).type = "END"
                  THEN Append(answers, Head(running).n) ELSE answers
    /\ UNCHANGED <<todo, up>>

\* The judge reads the oldest result.
Return ==
    /\ answers # <<>>
    /\ answers' = Tail(answers)
    /\ UNCHANGED <<todo, running, up>>

\* A process ends.
Lose ==
    /\ \E k \in 0 .. Len(todo) : todo' = SubSeq(todo, 1, k)
    /\ running' \in {running, <<>>}
    /\ \E k \in 0 .. Len(answers) : answers' = SubSeq(answers, 1, k)
    /\ up' = FALSE

Next ==
    \/ \E c \in Commands : Issue(c)
    \/ Take \/ Finish \/ Return \/ Lose

Spec == Init /\ [][Next]_vars

=============================================================================
