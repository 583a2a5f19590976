----------------------------- MODULE Solutions -----------------------------
(***************************************************************************)
(* The solutions the broker plays against each other, seen from outside:   *)
(* arbitrary programs, each connected to the broker by the two pipes that  *)
(* Configurator::configure creates for it (stdin and stdout).  A program   *)
(* runs until the killer freezes or kills it, or until it exits on its own *)
(* or crashes.                                                             *)
(*                                                                         *)
(* Bytes are numbered, per solution and direction, in the order in which   *)
(* they enter the stream: a pipe or a buffer is a sequence of byte         *)
(* numbers, and written[s][n] is the character of output byte n.           *)
(***************************************************************************)
EXTENDS Naturals, Sequences

CONSTANTS
    N,          \* number of solutions; they are numbered from zero
    Chars,      \* the characters a solution may write
    PipeSize,   \* capacity of a pipe, in bytes
    MaxOutput,  \* bound: bytes one solution writes in its whole life
    Closable    \* bound: standard streams a solution may close while alive

ASSUME SolutionsAssumption ==
    /\ N \in Nat
    /\ PipeSize \in Nat \ {0}
    /\ MaxOutput \in Nat
    /\ Closable \subseteq {"in", "out"}

Solution == 0 .. N - 1

VARIABLES
    run,        \* run[s]: what the process of solution s is doing
    closed,     \* closed[s]: the standard streams it closed while alive
    pipeIn,     \* pipeIn[s]: bytes between the broker and its stdin
    pipeOut,    \* pipeOut[s]: bytes between its stdout and the broker
    written,    \* written[s]: all characters it has ever written
    lastRead    \* lastRead[s]: number of the last input byte it read

solutionVars == <<run, closed, pipeIn, pipeOut, written, lastRead>>

RunState == {"running", "frozen", "exited", "killed"}

Alive(s) == run[s] \in {"running", "frozen"}
StdinOpen(s) == Alive(s) /\ "in" \notin closed[s]
StdoutOpen(s) == Alive(s) /\ "out" \notin closed[s]

SolutionsTypeOK ==
    /\ run \in [Solution -> RunState]
    /\ closed \in [Solution -> SUBSET {"in", "out"}]
    /\ pipeIn \in [Solution -> Seq(Nat)]
    /\ pipeOut \in [Solution -> Seq(Nat)]
    /\ written \in [Solution -> Seq(Chars)]
    /\ lastRead \in [Solution -> Nat]

SolutionsInit ==
    /\ run = [s \in Solution |-> "running"]
    /\ closed = [s \in Solution |-> {}]
    /\ pipeIn = [s \in Solution |-> <<>>]
    /\ pipeOut = [s \in Solution |-> <<>>]
    /\ written = [s \in Solution |-> <<>>]
    /\ lastRead = [s \in Solution |-> 0]

-----------------------------------------------------------------------------
\* Steps of a running program.

ReadByte(s) ==
    /\ run[s] = "running"
    /\ StdinOpen(s)
    /\ pipeIn[s] # <<>>
    /\ lastRead' = [lastRead EXCEPT ![s] = Head(pipeIn[s])]
    /\ pipeIn' = [pipeIn EXCEPT ![s] = Tail(@)]
    /\ UNCHANGED <<run, closed, pipeOut, written>>

WriteByte(s, c) ==
    /\ run[s] = "running"
    /\ StdoutOpen(s)
    /\ Len(pipeOut[s]) < PipeSize
    /\ Len(written[s]) < MaxOutput
    /\ written' = [written EXCEPT ![s] = Append(@, c)]
    /\ pipeOut' = [pipeOut EXCEPT ![s] = Append(@, Len(written[s]) + 1)]
    /\ UNCHANGED <<run, closed, pipeIn, lastRead>>

CloseStream(s, e) ==
    /\ run[s] = "running"
    /\ e \notin closed[s]
    /\ closed' = [closed EXCEPT ![s] = @ \cup {e}]
    /\ UNCHANGED <<run, pipeIn, pipeOut, written, lastRead>>

\* Normal exit and crash look the same from the broker.
Exit(s) ==
    /\ run[s] = "running"
    /\ run' = [run EXCEPT ![s] = "exited"]
    /\ UNCHANGED <<closed, pipeIn, pipeOut, written, lastRead>>

SolutionStep(s) ==
    \/ ReadByte(s)
    \/ \E c \in Chars : WriteByte(s, c)
    \/ \E e \in Closable : CloseStream(s, e)
    \/ Exit(s)

-----------------------------------------------------------------------------
(***************************************************************************)
(* What a command of the killer does to the process states r.  `ok' is the *)
(* killer's answer: OK, or ERROR when the control group could not be       *)
(* operated.                                                               *)
(***************************************************************************)
Frozen(r, s, ok) ==
    IF ok /\ r[s] = "running" THEN [r EXCEPT ![s] = "frozen"] ELSE r

Thawed(r, s, ok) ==
    IF ok /\ r[s] = "frozen" THEN [r EXCEPT ![s] = "running"] ELSE r

Killed(r, s, ok) ==
    IF ok /\ r[s] \in {"running", "frozen"}
    THEN [r EXCEPT ![s] = "killed"] ELSE r

=============================================================================
