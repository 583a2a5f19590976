------------------------------ MODULE Session ------------------------------
(***************************************************************************)
(* A session: the judge, the main loop of the broker, and the two pipes    *)
(* between them.                                                           *)
(*                                                                         *)
(* A line travels through the judge's stdout buffer (which begin() with    *)
(* resource limits does not flush), the pipe, and the broker's stream      *)
(* buffer; a result through the pipe and the judge's stdin buffer.  A line *)
(* is one element, and the capacities are in lines; where a line may be    *)
(* cut is the subject of TextCodec.                                        *)
(***************************************************************************)
EXTENDS Integers, Sequences

CONSTANTS
    CommandPipe,  \* capacity of the pipe to the broker
    ResultPipe,   \* capacity of the pipe to the judge
    Ahead,        \* ENDs the judge may have without result; judge.py has 1
    MaxCommands   \* bound: commands of one session

ASSUME SessionAssumption ==
    /\ CommandPipe \in Nat \ {0}
    /\ ResultPipe \in Nat \ {0}
    /\ Ahead \in 1 .. ResultPipe
    /\ MaxCommands \in Nat

VARIABLES
    judge,    \* where the judge is
    printed,  \* number of commands it has printed
    pending,  \* its ENDs without result, oldest first
    stdout,   \* commands in its stdout buffer
    commands, \* commands in the pipe to the broker
    input,    \* commands in the broker's stream buffer
    broker,   \* where the broker is
    command,  \* the command it executes, or whose result it sends
    results,  \* results in the pipe to the judge
    stdin,    \* results in the judge's stdin buffer
    killer,   \* is the killer alive?
    got       \* last result read by the judge, and the END it was read for

judgeVars == <<judge, printed, pending, stdout, stdin, got>>
vars == <<judge, printed, pending, stdout, commands, input, broker, command,
          results, stdin, killer, got>>

Types == {"BEGIN", "SEND", "END", "TERMINATE"}
Command == [n : 1 .. MaxCommands, type : Types]

JudgeUp == judge \in {"ready", "flush", "read", "exit"}
BrokerUp == broker \in {"boot", "recv", "run", "send"}

TypeOK ==
    /\ judge \in {"ready", "flush", "read", "exit", "done", "failed"}
    /\ printed \in 0 .. MaxCommands
    /\ pending \in Seq(1 .. MaxCommands)
    /\ {stdout, commands, input} \subseteq Seq(Command)
    /\ broker \in {"boot", "recv", "run", "send", "exited", "failed"}
    /\ command \in Seq(Command)
    /\ broker \in {"run", "send"} <=> Len(command) = 1
    /\ {results, stdin} \subseteq Seq(1 .. MaxCommands)
    /\ Len(pending) <= Ahead
    /\ Len(commands) <= CommandPipe /\ Len(results) <= ResultPipe
    /\ killer \in BOOLEAN
    /\ got \in (0 .. MaxCommands) \X (0 .. MaxCommands)

Init ==
    /\ judge = "ready" /\ printed = 0 /\ pending = <<>> /\ got = <<0, 0>>
    /\ stdout = <<>> /\ commands = <<>> /\ input = <<>>
    /\ broker = "boot" /\ command = <<>>
    /\ results = <<>> /\ stdin = <<>>
    /\ killer = TRUE

-----------------------------------------------------------------------------
\* Is there room for another line in pipe q?
RoomForOneMore(q, size) == Len(q) <= size  \* mutant: off by one
Room(q, size) == Len(q) < size

\* What is left in the broker's stream buffer when a line is taken from it.
LeftoverLost(q) == <<>>  \* mutant: every command gets a stream of its own
Leftover(q) == Tail(q)

-----------------------------------------------------------------------------
\* The judge.

\* begin() with resource limits leaves the line in the buffer, where it stays
\* unless the buffer is full.
MayStayBufferedAlways(t) == TRUE  \* mutant: end() does not flush
MayStayBuffered(t) == t = "BEGIN"

\* A function of judge.py prints its command.  Only END has a result.
GiveCommand(t) ==
    /\ judge = "ready" /\ printed < MaxCommands
    /\ t = "END" => Len(pending) < Ahead
    /\ printed' = printed + 1
    /\ stdout' = Append(stdout, [n |-> printed + 1, type |-> t])
    /\ pending' = IF t = "END" THEN Append(pending, printed + 1) ELSE pending
    /\ \/ judge' = "flush"
       \/ MayStayBuffered(t) /\ judge' = IF t = "END" THEN "read" ELSE "ready"
    /\ UNCHANGED <<commands, input, broker, command, results, stdin, killer, got>>

\* stdout writes one line, waiting for room in the pipe.
Flush ==
    /\ judge \in {"flush", "exit"} /\ stdout # <<>> /\ BrokerUp
    /\ Room(commands, CommandPipe)
    /\ commands' = Append(commands, Head(stdout))
    /\ stdout' = Tail(stdout)
    /\ UNCHANGED <<judge, printed, pending, input, broker, command, results, stdin, killer, got>>

\* Everything is written.  end() goes on to read the result; a judge that
\* speaks the protocol itself may have more ENDs without result.
Flushed ==
    /\ judge = "flush" /\ stdout = <<>>
    /\ \/ pending # <<>> /\ judge' = "read"
       \/ Len(pending) < Ahead /\ judge' = "ready"
    /\ UNCHANGED <<printed, pending, stdout, commands, input, broker, command,
                   results, stdin, killer, got>>

\* Reading from the pipe takes any number of the lines that are there.
ReadResults ==
    /\ judge = "read" /\ stdin = <<>>
    /\ \E k \in 1 .. Len(results) :
         /\ stdin' = SubSeq(results, 1, k)
         /\ results' = SubSeq(results, k + 1, Len(results))
    /\ UNCHANGED <<judge, printed, pending, stdout, commands, input, broker, command, killer, got>>

\* readline() returns the next line.
ReadLine ==
    /\ judge = "read" /\ stdin # <<>>
    /\ got' = <<Head(stdin), Head(pending)>>
    /\ stdin' = Tail(stdin) /\ pending' = Tail(pending)
    /\ \/ judge' = "ready"
       \/ Tail(pending) # <<>> /\ judge' = "read"
    /\ UNCHANGED <<printed, stdout, commands, input, broker, command, results, killer>>

\* The broker is gone: print() raises BrokenPipeError, and readline() returns
\* an empty line, which has no fields to make a Result of.
JudgeFails ==
    /\ ~BrokerUp
    /\ \/ judge \in {"flush", "exit"} /\ stdout # <<>>
       \/ judge = "read" /\ stdin = <<>> /\ results = <<>>
    /\ judge' = "failed" /\ stdout' = <<>>
    /\ UNCHANGED <<printed, pending, commands, input, broker, command, results, stdin, killer, got>>

\* The judge's program returns, Python flushes stdout, and the process ends.
JudgeReturns ==
    /\ judge = "ready"
    /\ judge' = "exit"
    /\ UNCHANGED <<printed, pending, stdout, commands, input, broker, command,
                   results, stdin, killer, got>>
JudgeExits ==
    /\ judge = "exit" /\ stdout = <<>>
    /\ judge' = "done"
    /\ UNCHANGED <<printed, pending, stdout, commands, input, broker, command,
                   results, stdin, killer, got>>

\* The judge is killed at any moment; what it has not written is lost.
JudgeDies ==
    /\ JudgeUp
    /\ judge' = "failed" /\ stdout' = <<>>
    /\ UNCHANGED <<printed, pending, commands, input, broker, command, results, stdin, killer, got>>

-----------------------------------------------------------------------------
\* The broker's main loop.

\* The constructor of BrokerImpl has frozen all solutions.
Boot ==
    /\ broker = "boot"
    /\ broker' = "recv"
    /\ UNCHANGED <<judgeVars, commands, input, command, results, killer>>

\* The stream buffer is empty: read() takes any number of the lines there.
ReadCommands ==
    /\ broker = "recv" /\ input = <<>>
    /\ \E k \in 1 .. Len(commands) :
         /\ input' = SubSeq(commands, 1, k)
         /\ commands' = SubSeq(commands, k + 1, Len(commands))
    /\ UNCHANGED <<judgeVars, broker, command, results, killer>>

RecvCommand ==
    /\ broker = "recv" /\ input # <<>>
    /\ command' = <<Head(input)>>
    /\ input' = Leftover(input)
    /\ broker' = "run"
    /\ UNCHANGED <<judgeVars, commands, results, killer>>

\* When the stream has ended: the writer is gone and nothing is left of it.
StreamEndedUnread == ~JudgeUp  \* mutant: ends although lines are left
StreamEnded == ~JudgeUp /\ input = <<>> /\ commands = <<>>

\* EndOfFileError from recvCommand(): main() returns 0.
RecvEOF ==
    /\ broker = "recv" /\ StreamEnded
    /\ broker' = "exited"
    /\ UNCHANGED <<judgeVars, commands, input, command, results, killer>>

\* Which commands are answered with a result.
HasResultAll(c) == TRUE  \* mutant: run() sends a result for every command
HasResult(c) == c.type = "END"

\* The broker has executed the command.
Execute ==
    /\ broker = "run"
    /\ IF HasResult(Head(command))
       THEN broker' = "send" /\ UNCHANGED command
       ELSE broker' = "recv" /\ command' = <<>>
    /\ UNCHANGED <<judgeVars, commands, input, results, killer>>

\* When the broker talks to the killer.
CallsKiller ==
    \/ broker = "boot"
    \/ broker = "run" /\ Head(command).type \in {"END", "TERMINATE"}

\* The killer is gone: its stream ends, which is an EndOfFileError too.
KillerEOF ==
    /\ CallsKiller /\ ~killer
    /\ broker' = "exited" /\ command' = <<>>
    /\ UNCHANGED <<judgeVars, commands, input, results, killer>>

\* Any other exception, an assertion or a signal in the constructor or in a
\* command.
RunFails ==
    /\ broker \in {"boot", "run"}
    /\ broker' = "failed" /\ command' = <<>>
    /\ UNCHANGED <<judgeVars, commands, input, results, killer>>

\* The result is written and flushed, waiting for room in the pipe.
SendResult ==
    /\ broker = "send" /\ JudgeUp /\ Room(results, ResultPipe)
    /\ results' = Append(results, Head(command).n)
    /\ broker' = "recv" /\ command' = <<>>
    /\ UNCHANGED <<judgeVars, commands, input, killer>>

\* Nobody reads the results: SIGPIPE.
SendFails ==
    /\ broker = "send" /\ ~JudgeUp
    /\ broker' = "failed" /\ command' = <<>>
    /\ UNCHANGED <<judgeVars, commands, input, results, killer>>

KillerDies ==
    /\ killer
    /\ killer' = FALSE
    /\ UNCHANGED <<judgeVars, commands, input, broker, command, results>>

-----------------------------------------------------------------------------

\* Both processes have ended.
Terminated == ~JudgeUp /\ ~BrokerUp /\ UNCHANGED vars

\* What the two processes do without the judge's program deciding anything.
JudgeStep == Flush \/ Flushed \/ ReadResults \/ ReadLine \/ JudgeFails \/ JudgeExits
BrokerStep == Boot \/ ReadCommands \/ RecvCommand \/ RecvEOF \/ Execute \/ KillerEOF
              \/ RunFails \/ SendResult \/ SendFails

Next ==
    \/ \E t \in Types : GiveCommand(t)
    \/ JudgeStep \/ JudgeReturns \/ JudgeDies
    \/ BrokerStep \/ KillerDies
    \/ Terminated

Spec == Init /\ [][Next]_vars

\* Both processes are scheduled, and the engine answers every END.
FairSpec == Spec /\ WF_vars(JudgeStep) /\ WF_vars(BrokerStep)

-----------------------------------------------------------------------------
\* The result that end() returns is the result of this END, also for a judge
\* that has several of them on the way: results carry no number
\* (BrokerInterface.cpp:91), so one result too many or too few would shift
\* all later ones.
AnswerMatchesEnd == got[1] = got[2]

\* Broker and judge never wait for each other to read (BrokerInterface.cpp:91
\* against judge.py:139): as long as the results of all ENDs on the way fit
\* into the pipe, the broker does not block while the judge blocks in print().
NeverBothBlocked ==
    ~ /\ judge \in {"flush", "exit"} /\ stdout # <<>> /\ Len(commands) = CommandPipe
      /\ broker = "send" /\ Len(results) = ResultPipe

\* Exit code 0 of the broker (broker.cpp:46) says that the game was played to
\* its end: the judge has ended and each command it gave is executed, unless
\* the killer was lost or the judge itself failed.
ExitZeroIsComplete ==
    broker = "exited" =>
        \/ ~killer
        \/ judge = "failed"
        \/ judge = "done" /\ stdout \o commands \o input = <<>>

\* A judge that waits in end() for its result gets it, or fails because the
\* broker is gone (judge.py:140).
EndReturns == (judge = "read") ~> (judge # "read")

\* The session is a queue of calls: see SessionContract.
Contract == INSTANCE SessionContract WITH
    Commands <- Command,
    todo <- IF BrokerUp THEN input \o commands \o stdout ELSE <<>>,
    running <- IF broker = "run" THEN command ELSE <<>>,
    answers <- IF broker = "send" THEN Append(stdin \o results, Head(command).n)
               ELSE stdin \o results,
    up <- BrokerUp /\ judge # "failed"
ImplementsSession == Contract!Spec

=============================================================================
