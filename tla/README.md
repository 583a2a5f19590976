# A formal model of the game flow control broker

This directory holds a TLA+ development of `flowctl::game`: the program that lets
a *judge* play several *solutions* (contest programs) against each other. The
judge talks only to the *broker*; the broker thaws one solution at a time, feeds
it the judge's bytes, collects one token of its output, freezes it again and
answers the judge. A *killer* with root rights freezes, thaws and terminates the
solutions' control groups on the broker's request.

Paths below are relative to the repository (`src/` in `PROJECT.json`).

## Inventory

| component | state | operations | interacts with |
|---|---|---|---|
| **Broker engine** `src/lib/BrokerImpl.cpp`, `BrokerImplCommunicate.cpp`, `Broker.hpp`, `BrokerImpl.hpp` | per solution: tokenizer and its last status, `result`, `inbuf`, `outbuf`, limits; during `end()`: deadline, epoll set, events | constructor, `begin`, `send`, `end` (with `communicate`), `terminate` | judge protocol (called by), killer (calls, one request and one answer), pipes of the solutions, tokenizer library |
| **Judge protocol** `BrokerInterface.cpp`, `BrokerTextInterface.cpp`, `src/bin/broker.cpp` | two streams, end-of-line flags of the archives | `runOnce`: receive a command, run it, send the result if it is END; end of file and exceptions end the process | judge, broker engine |
| **Judge library** `tests/resources/judge.py` | Python's stream buffers | `begin`, `send`, `end`, `terminate`, escape and split of lines | broker |
| **Killer** `KillerImpl.cpp`, `KillerInterface.cpp`, `KillerStreamInterface.cpp`, `src/bin/killer.cpp` | set of unprotected control groups | freeze, unfreeze, terminate: OK, ERROR or PROTECTED | broker (binary request/answer stream), control groups |
| **Tokenizers** `SharedTokenizer.cpp`, `src/tokenizers/split_char.c`, `split.c` | progress of the separator match (`over`) | new, parse, what, delete | broker engine |
| **Configurator** `Configurator.cpp` | `configured_`, file descriptor numbers, option files | `configure` | all processes, before they start |
| **Solutions, pipes, kernel** (external) | run state, bounded pipes | read, write, close, exit | broker, killer |

The hard behaviours:

- *concurrency*: the broker is single-threaded, but during END the solution runs
  in parallel and may read, write, close or die between any two system calls of
  `communicate`;
- *ordering*: a chunk read from a pipe may hold several tokens, or the end of one
  and the start of another, and leftovers wait in `outbuf` for the next BEGIN;
- *failure*: crash of a solution, ERROR from the killer (ignored everywhere),
  death of the killer or the judge (both an `EndOfFileError`);
- *time*: a deadline that is compared between events only, on a clock that may be
  set, in integers of limited width;
- *buffering*: a command passes through four buffers before it is executed, and
  judge and broker may each wait for the other one to read.

What makes each component correct:

- broker engine: an answer OK carries exactly the next token; input arrives in
  order; only one solution runs; every END is answered;
- judge protocol: what one side sends is what the other receives; a session ends
  only when the judge ends it; a result reaches the END it belongs to, and no two
  processes wait for each other;
- killer: nothing but the listed control groups is ever touched; answers match
  requests;
- tokenizers: the accepted prefix ends with the first separator, however the
  output is cut into chunks, and the library is called only while it is loaded and
  for objects that exist;
- configurator: the options the broker loads are the ones that were configured;
  every pipe has one process at each end.

`PROJECT.json` lists the single hazards with the line where each bites.

## Modules

| module | what it is |
|---|---|
| `Solutions` | arbitrary programs behind two bounded pipes each, and what the killer does to them |
| `Broker` | the broker process: state of `BrokerImpl`, one action per command, one action per system call of `communicate`; the invariants and the refinement mapping |
| `BrokerContract` | what class `Broker` promises a judge, without buffers, pipes, epoll or clock |
| `BrokerClaims` | a statement of the documentation that the code does not keep |
| `MCBroker` | the characters of the TLC instances |
| `Split`, `MCSplit` | the tokenizer `split.c` as the broker feeds it, and its TLC instances |
| `Killer`, `MCKiller` | the killer process, the broker's end of its interface and the two pipes between them |
| `KillerContract` | what class `Killer` promises, without processes and pipes |
| `Session` | judge, main loop of the broker, the stream buffers and pipes between them, and all ways in which the session ends |
| `SessionContract` | what the text interface promises: a queue of calls |
| `TextCodec`, `MCTextCodec` | how messages become lines, and the two automata that read lines: `unescape` with the archives in the broker, `_split` in the judge |
| `Configurator`, `MCConfigurator` | `configure()` step by step, with calls that throw and are repeated |
| `Deadline`, `MCDeadline` | the time limit of an END against a clock of limited width that may be set |
| `Plugin` | the life of the tokenizer library and of its objects, on every way out of the broker |
| `BrokerProofs` | lemmas on the tokenizer and on queues, `TypeCorrect`, theorems on running and killed solutions, on the epoll registration and on the order of output and input bytes, and the refinement of `BrokerContract` |
| `SplitProofs` | theorems on what the tokenizer accepts, misses and asserts |
| `KillerProofs` | theorems on the status of a call, and the refinement of `KillerContract` |
| `DeadlineProofs` | theorems on how early and how late the limit of an END is noticed |
| `PluginProofs` | theorems on the calls of the tokenizer library and on its objects |
| `SessionProofs` | theorems on results and their ENDs, on waiting and on the exit code, and the refinement of `SessionContract` |
| `ConfiguratorProofs` | theorems on the pipes, the options of the broker and the killer's list after `configure()` |
| `TextCodecProofs` | lemmas on the text of messages, and theorems on what the two readers make of any stream |

`Broker` EXTENDS `Solutions`; `BrokerContract` is an `INSTANCE` of `Broker` with
the refinement mapping given there, and so is `KillerContract` of `Killer`. `Broker`
takes the killer's operations as atomic; that this is sound is what `Killer` shows.
It also takes the judge's commands as given one at a time and whole; that is what
`Session` (with `SessionContract`) and `TextCodec` are about. `Broker` abstracts the
clock to "the deadline has passed", `Deadline` abstracts everything else away.
`Configurator` ends where `Solutions` begins: every solution has its two pipes.

### How the state corresponds to the code

A byte is represented by its number in its stream (per solution and direction,
counted from one), so that loss, repetition and order can be stated on numbers;
`written[s][n]` is the character of output byte `n`. The rest is direct:

| TLA+ | code |
|---|---|
| `tokenizer[s]` | `sol.tokenizer` (`"NULL"`) together with `sol.tokenizerStatus` |
| `separator[s]` | the tokenizer's argument |
| `result`, `inbuf`, `outbuf` | the members of `BrokerImpl::Solution` of the same names |
| `mon` | the descriptors in the epoll instance of `communicate` |
| `events` | `events[i .. nfds-1]` of the current batch |
| `late` | `now >= untilPoint` |
| `ret` | the value returned by `communicate` |
| `reply` | the last `Result` sent to the judge; `"UNINIT"` stands for any bit pattern other than OK in a status that was never assigned |
| `loose` | history: solutions whose last freeze was answered ERROR |
| `pc` | where the process is: `boot` (constructor), `idle` (waiting for a command), `wait`/`events`/`write`/`read`/`return` (inside END), and the ends `exited` (code 0), `failed` (code 1), `aborted` (assertion) |

The commands are one action each: `Begin`, `Send`, `Terminate`, `EndBuffered` (an
END that does not communicate because the token, or a failure, was found in the
leftovers). An END that communicates is `EndCommunicate`, then
`EpollWait | TimeLimit`, per event `HandleIn`, `Write*`, `WriteDone | WriteFails`
or `HandleOut`, `Read*`, `ReadDone`, then `BatchDone`, and finally `EndReturn`,
which is everything after the loop: freeze, discard, terminate on a bad status,
the result. `Answer` is that tail, shared by the two kinds of END; `tokenizer` is
reset by the scope guard of line 106 on all of them, also when `communicate`
throws (`WriteFails`).

Decisions taken in the translation:

- *Reads and writes* are as large as the code makes them: `min(BUFSIZ, what is
  there, room in the pipe)`. The loops run until EAGAIN, an empty buffer or a
  verdict, each turn being an action, so that the solution may act in between.
- *EPOLLHUP and EPOLLERR* are derived from the state of the pipe at the moment of
  `epoll_wait` and may be stale when handled. The kernel may report the two
  descriptors in either order.
- *SIGPIPE*: `bin/broker.cpp` installs no handler; killed by the signal and exit
  code 1 by the exception are both `failed`.
- *Uninitialized status* (`BrokerImpl.cpp:110`): a nondeterministic choice between
  OK and `"UNINIT"`.
- *Assertions* are taken to be enabled (the broker installs a handler for SIGABRT,
  so they are meant to be); `Misuse` is the judge's violation of one.
- *Tokenizer*: `split_char` ends a token at one character. It never fails, but the
  tokenizer is a plug-in and its interface has FAIL, so the characters in
  `Rejected` make it fail at the first of them.
- *Killer*: answers OK or ERROR nondeterministically; ERROR means that nothing
  happened. PROTECTED is an assertion of the broker and cannot occur with the
  configuration that `Configurator` writes.
- *End of the game*: when the broker ends, the invoker ends the solutions
  (`setGroupWaitsForTermination(false)`), so they stop acting.

For `Split`: `sep`, `over` are the fields of the C struct, `status` and `token` are
`sol.tokenizerStatus` and `sol.result`, `outbuf` the leftovers. `Begin` is
`tokenizer_new` with the parsing of the leftovers, `Read` a chunk from `read()`,
`ParseChar` one turn of the loop of `tokenizer_parse`, `End` the end of the
iteration. The argument is cut at its first NUL, as `strlen` does. Here characters
are themselves, not numbers, because the property is about which ones they are.

For `Killer`: `commands` and `answers` are the two pipes; `broker = "call"` is
`recvStatus()`, `killer` is where `runOnce` stands (`recv`, `run`, `send`).
A command and a status are shorter than PIPE_BUF, so a write puts all of it into
the pipe or nothing, and a read gets all of it or the end of the stream. What
exactly an operation has done when it throws is not known, so ERROR leaves the
control group changed or not; `Solutions` needs the second case only, because the
first one is what OK does to `unfreeze` (whose status nobody reads), or is covered
by a solution that ends, or does nothing, by itself. The killer is a member of a
control group like everybody else and stops when this is frozen (`KillerRuns`).
If the killer is dead, the broker ends with code 1 when it is about to send a
command (`SendCommandFails`) and with code 0 when it waits for a status
(`RecvStatusEOF`).

For `Session`: an element of a stream is a line. `stdout` and `stdin` are the buffers
of Python's streams, `input` is the buffer of the broker's `istream`, `commands` and
`results` are the pipes, `pending` are the ENDs whose results the judge has not read.
A function of `judge.py` is `GiveCommand`, then `Flush` per line and `Flushed`, and
for `end()` also `ReadResults` and `ReadLine`; `begin()` with limits does not flush
(`MayStayBuffered`). The library waits for every result (`Ahead` = 1); a judge
that writes the protocol itself may send several ENDs before it reads. The main loop
is `RecvCommand`, `Execute`, `SendResult`. The engine's answer is not modelled here,
only that it comes: the broker's own END is `Execute` (justified by `EndIsAnswered`),
or ends the broker (`RunFails`, `KillerEOF`). `exited` is exit code 0, `failed` any
other end.

For `TextCodec`: `Chars` are an ordinary letter, the letter `n` of the escape, space,
newline and backslash. The first state chooses a reader and a stream: everything a
writer printed (`complete`), a prefix of it because the writer was killed (`cut`), or
any characters (`foreign`). Each action consumes one character, as both automata do;
`INIT` with a non-empty buffer is the state the code is in until the first escape of
a field, which is why a cut field without an escape is taken for the end of the
stream. A type, an id and a status stand for any field without special characters.

For `Configurator`: a step of `configure()` that may throw is an action of its own, and
`Throw` may come before each. Pipes are numbered in order of creation, `streams` are the
descriptors the invoker is told to bind. A descriptor set by a call that threw stays
until it is set again, as in the code.

For `Deadline`: `Rep` is the range of the clock's counter, `until` is computed with the
code's sum, which wraps (`Wrap`). `elapsed`, `forward` and `backward` are history: the
real time since END began, and by how much the clock was set. The solution decides
what `Event`, `Read` and `ReadDone` do. The clock stands still at `Top`, as a bound: the
machine's own clock reaches it in the year 2262.

For `Plugin`: `members` are the constructed members of `BrokerImpl`, built in the
order of their declaration and destroyed in reverse by `unwind`, which is how an
exception or the end of the stream leaves `main`. `objects[s]` counts what the library
has created less what it has deleted for `s`, and `call` records for the last call
into the library whether it was loaded and whether the object existed.

## Runs

| run | bounds | shows |
|---|---|---|
| `broker_contract` | one solution, three kinds of characters, 3 bytes of output, pipe and BUFSIZ of 2 | `TypeOK`, `OutputInOrder`, `KilledLeavesItsPipeOnly`, and the refinement `ImplementsContract` |
| `broker_talk` | one solution, 3 bytes of input, 1 of output, pipe 2, BUFSIZ 1, both streams may be closed | `InputInOrder`, `WaitIsArmed`, `EndIsAnswered`, `GoneReaderIsHarmless` |
| `broker_pair` | two solutions, 1 byte of output each, no input | `OnlyCurrentRuns` |
| `split` | all 14 separators of up to three out of two characters, the empty argument and those of up to two with a NUL, chunks of up to 3, 6 characters in all | `TypeOK`, `TokenEndsWithSeparator`, `FirstSeparatorEndsToken`, `AbortsOnlyWithoutSeparator` |
| `killer` | three processes: listed as unprotected, not listed, and the killer itself (listed) | `TypeOK`, `StatusMatchesCommand`, `NobodyIsLeftWaiting`, and the refinement `ImplementsKiller` |
| `session` | 6 commands, pipes of two lines, up to two ENDs on the way; judge, killer and broker may end at any moment | `TypeOK`, `AnswerMatchesEnd`, `NeverBothBlocked`, `ExitZeroIsComplete`, `EndReturns`, and the refinement `ImplementsSession` |
| `codec` | two messages with fields of up to two characters, cut anywhere; foreign streams of up to six | `TypeOK`, `RoundTrip`, `Canonical`, `CutCommandIsSpecial`, `CutResultKeepsStatus`, `AbortsOnlyBehindBackslash` |
| `configurator` | two players in any order and number, two calls that throw | `TypeOK`, `Wired`, `ExclusiveEnds`, `SameGame` |
| `deadline` | a clock of six bits, seven limits, four instants, clock set by up to two units either way | `TypeOK`, `NotTooEarly`, `NotTooLate`, `EndsOrFloods` |
| `plugin` | two solutions, no bound | `TypeOK`, `CallsAreLegal`, `NothingLeaks` |
| `claim_buffered`, `claim_default` | the smallest instance that shows it | a counterexample each, see *Findings* |

Why the bounds are enough for what is asked:

- three bytes of output are two tokens and a leftover, a token cut by `read`, or a
  rejected character before, inside and behind a token; with BUFSIZ = pipe = 2
  one `read` can bring two tokens, and a token can span two reads;
- three bytes of input through a pipe of two and writes of one need several
  `write`, an EAGAIN, and a rest that stays in `inbuf` over two ENDs;
- solutions do not share anything in the broker but `cur`, the command being
  served, so two of them show every interference;
- the *iterations* are unbounded: the judge may issue BEGIN/SEND/END/TERMINATE for
  ever and only the bytes are bounded (`MaxOutput`, `MaxInput`, in the guards of
  `WriteByte` and `Send`). `Closable` bounds which streams a living solution may
  close; exit and crash, which close both, are always possible.

- for `split`, a separator of three has every shape of self-overlap that the
  fallback to one character can get wrong or right, and six characters cut into
  chunks of one to three spread a match over two or three chunks, and put the
  beginning of the next one into the leftovers;
- `killer` is not bounded: there is one command at a time (this is proved), and
  the number of calls is unlimited;
- `session`: with pipes of two lines and two ENDs on the way, the shortest way to
  both waiting for each other needs two results in their pipe, one in the broker's
  hand, two commands in their pipe and one in the judge's buffer, which are the 6
  commands; with the mutant that answers every command it is reached. `Ahead` must
  not exceed `ResultPipe`: this is the condition under which the protocol is free of
  deadlock, and `judge.py` has 1 while a pipe holds at least one line;
- `codec`: two messages show what a reader carries over from one line to the next,
  and two characters show every pair of neighbours, among them each special character
  at the beginning, the end and next to another one. Six foreign characters are
  enough for a complete command, and for a result with escapes in both fields;
- `configurator`: two calls that throw can leave behind what a third one must
  override, with one solution more, one less, or in the other order;
- `deadline`: the limits are negative, zero, small, such that the sum overflows for some
  instants only, such that the product overflows, and the largest; the
  clock may be set by two units, as much as the smallest positive limit.

Deadlock is checked in every run: a process that is down may stutter
(`Terminated`), one that is up can always go on. In `deadline` and `session` this is a
statement of its own: a broker that waited for something that cannot come would be
reported.

### Fairness

`EndIsAnswered` assumes weak fairness of `BrokerStep` (the broker's process is
scheduled) and of `Expire` (the clock moves, and `epoll_wait` is called with a
timeout of 100 ms, so the broker looks at it). Nothing is assumed of the judge or
the solutions. `NobodyIsLeftWaiting` assumes weak fairness of the reads of the broker
(`BrokerStep`) and of the killer's loop (`KillerStep`): both processes are scheduled
and the operations on a control group return. `GoneReaderIsHarmless` is checked under
the same fairness as `EndIsAnswered`. `EndReturns` assumes weak fairness of the judge's
and the broker's own steps; nothing is assumed of what the judge's program decides
(`GiveCommand`, `JudgeReturns`), nor that anybody dies. That an END is executed at all
(`Execute` under `BrokerStep`) is what `EndIsAnswered` shows of the engine.

`broker_talk` has one assumption more, the bound on output: the read loop of
`BrokerImplCommunicate.cpp:128` does not look at the clock, so a solution that
keeps the pipe filled without a separator can keep END busy for ever. `EndsOrFloods`
says exactly this without the bound: weak fairness of the broker's steps and of `Tick`
(time passes), and an END ends unless the broker stays in a read loop for ever.

### What each property is about

- `OutputInOrder` - token, leftovers and pipe, in this order, are the last bytes
  of the output, each exactly once.
- `InputInOrder` - last byte read, pipe and `inbuf`, in this order, are increasing.
- `WaitIsArmed` - in `epoll_wait`, what is waited for is registered.
- `OnlyCurrentRuns` - a running solution is the one END waits for, is not yet
  frozen by the constructor, or is one the killer failed to freeze.
- `EndIsAnswered` - every END ends.
- `GoneReaderIsHarmless` - a solution that stopped reading before the broker waits
  does not take the broker down, it only costs its END an error. (One that stops
  between `epoll_wait` and `write` does take it down: `WriteFails`.)
- `KilledLeavesItsPipeOnly` - of the output of a killed solution only what is in
  its pipe remains.
- `ImplementsContract` - the answers are right: OK carries exactly the next token
  of the output; EOF_ERROR is only given when the output has ended without one;
  TOKENIZER_ERROR only when a rejected character precedes any token end; input is
  only dropped by a discarding or failing end and by terminate, newest bytes
  first. The abstract state is computed from the buffers
  (`unread = result \o outbuf \o pipe`, `queue = pipe \o inbuf`).
- `TokenEndsWithSeparator` - what `split` accepts ends with the separator.
- `FirstSeparatorEndsToken` - the first separator ends the token, if its first
  character does not occur in it again or it is one character repeated.
- `AbortsOnlyWithoutSeparator` - the assertions of the parser fail only for an
  argument that is empty as a C string.
- `StatusMatchesCommand` - a status is that of its own command, and true of the
  control group until the next call.
- `ImplementsKiller` - a command is performed at most once, between call and
  return, on the group it names, and never on a protected one.
- `NobodyIsLeftWaiting` - the killer does not outlive the broker, and a call ends.
- `AnswerMatchesEnd` - the result `end()` returns is that of its own END.
- `NeverBothBlocked` - the broker does not wait for room for a result while the judge
  waits for room for a command.
- `ExitZeroIsComplete` - exit code 0 means that the judge ended and every command was
  executed, unless the killer was lost or the judge failed. (The first exception is
  the hazard of `broker.cpp:46`: the death of the killer is not told from the end.)
- `ImplementsSession` - commands are executed in order, at most once, none left out;
  results come back in the order of the ENDs; an end of a process loses the newest
  only.
- `EndReturns` - a judge that waits in `end()` gets an answer or fails.
- `RoundTrip` - what is written is read, whatever the fields hold.
- `Canonical` - no two messages have one text, and no text two meanings, also of
  streams that neither side wrote.
- `CutCommandIsSpecial`, `CutResultKeepsStatus` - what a line that was cut may be taken
  for: a command only if its last field has an escape, a result only with its status
  and the beginning of its data.
- `AbortsOnlyBehindBackslash` - the readers' assertions fail between the two programs
  only if the stream ends behind a backslash.
- `Wired` - a `configure()` that succeeds connects each process with the broker's
  descriptors that the options name, whatever earlier calls left behind.
- `ExclusiveEnds` - no end of a pipe is held twice, so that the end of a process is
  the end of its streams.
- `SameGame` - broker, killer and judge are told the same solutions.
- `NotTooEarly`, `NotTooLate` - the limit is kept up to the timeout of `epoll_wait` and up
  to how far the clock was set, if clock plus limit is representable (`Sane`).
- `EndsOrFloods` - every END ends unless a read loop lasts for ever, even if the
  deadline overflows.
- `CallsAreLegal` - the library is called only while loaded, about objects that exist,
  for input before a verdict and for an explanation after a failure.
- `NothingLeaks` - each object of the library is deleted exactly once.

## Findings

Each is a run that TLC ends with a counterexample; `PROJECT.json` quotes the lines.

1. `claim_buffered` - **code bug**. `end()` reads `result.status` before anything
   assigned it when the token was already complete in the leftovers. Depending on
   the stack the token is answered, or the solution is terminated and garbage sent.
2. `claim_default` - **code bug**. `Options::serialize()` leaves out
   `defaultTokenizerArgument`: what was configured does not reach the broker, and
   `begin(id)` creates a tokenizer with an empty argument, which aborts.

The models show further behaviours that the documentation does not lead one to
expect. They are not runs of their own; the properties above state what does hold:

- a solution that dies between `epoll_wait` and `write` ends the broker
  (`WriteFails`, `BrokerImplCommunicate.cpp:94`), although "Solution may crash, it
  should not affect broker and other processes" (`Configurator.cpp:65`);
- `terminate()` does not drain the pipe of the solution, so a later iteration may
  answer with what it holds (`KilledLeavesItsPipeOnly` bounds it);
- `discardRemaining` does not take back what is already in the pipe;
- `split.c` does not find `aab` in `aaab`, which its authors know
  (`FirstSeparatorEndsToken` says for which separators this cannot happen);
- a command that was cut by the death of the judge may be executed in part, and a
  result cut by the death of the broker is accepted as a shorter one
  (`CutCommandIsSpecial`, `CutResultKeepsStatus`);
- a broker whose killer died reports success (`ExitZeroIsComplete`).

## Proofs

All theorems hold for every value of the constants that satisfies the named assumptions
(`SolutionsAssumption`: natural numbers and a pipe of at least one byte;
`BrokerAssumption`: at least one separator, none of them rejected, BUFSIZ positive;
`CodecAssumption`: a word of ordinary letters that is not empty, and any set of strings
as data; `SplitAssumption`: the arguments are strings; `KillerAssumption`: every process
has a control group, also the killer; `DeadlineAssumption`: positive units and timeout,
integer limits, representable instants; `SessionAssumption`: pipes that hold a line, and
no more ENDs on the way than results fit into the pipe; `ConfiguratorAssumption`:
broker, killer and judge are no solutions, and no two processes have the same
identifier; `Plugin` assumes nothing). They need no bound: `MaxOutput`, `MaxInput`,
`MaxStep`, `MaxCommands`, `MaxThrows`, `Messages` and `Foreign` are arbitrary, and the
number of iterations is not limited.

| theorem | module | states |
|---|---|---|
| `TypeCorrect` | `BrokerProofs` | `Spec => []TypeOK` |
| `OnlyTheCurrentSolutionRuns` | `BrokerProofs` | `Spec => []OnlyCurrentRuns` |
| `WaitsForAllItNeeds` | `BrokerProofs` | `Spec => []WaitIsArmed` |
| `KillingForgetsTheOutput` | `BrokerProofs` | `Spec => KilledLeavesItsPipeOnly` |
| `OutputStaysInOrder` | `BrokerProofs` | `Spec => []OutputInOrder` |
| `InputStaysInOrder` | `BrokerProofs` | `Spec => []InputInOrder` |
| `BrokerImplementsContract` | `BrokerProofs` | `Spec => ImplementsContract` |
| `SplitTypeCorrect` | `SplitProofs` | `Spec => []TypeOK` |
| `AcceptedTokenIsSound` | `SplitProofs` | `Spec => []TokenEndsWithSeparator` |
| `FirstSeparatorIsFound` | `SplitProofs` | `Spec => []FirstSeparatorEndsToken` |
| `ParserDoesNotAbort` | `SplitProofs` | `Spec => []AbortsOnlyWithoutSeparator` |
| `KillerTypeCorrect` | `KillerProofs` | `Spec => []TypeOK` |
| `StatusIsOfItsCommand` | `KillerProofs` | `Spec => []StatusMatchesCommand` |
| `KillerImplementsContract` | `KillerProofs` | `Spec => ImplementsKiller` |
| `DeadlineTypeCorrect` | `DeadlineProofs` | `Spec => []TypeOK` |
| `LimitIsNotEarly` | `DeadlineProofs` | `Spec => []NotTooEarly` |
| `LimitIsNotLate` | `DeadlineProofs` | `Spec => []NotTooLate` |
| `PluginTypeCorrect` | `PluginProofs` | `Spec => []TypeOK` |
| `LibraryCallsAreLegal` | `PluginProofs` | `Spec => []CallsAreLegal` |
| `NoTokenizerLeaks` | `PluginProofs` | `Spec => []NothingLeaks` |
| `SessionTypeCorrect` | `SessionProofs` | `Spec => []TypeOK` |
| `AnswersMatch` | `SessionProofs` | `Spec => []AnswerMatchesEnd` |
| `NoDeadlock` | `SessionProofs` | `Spec => []NeverBothBlocked` |
| `CompleteAtExit` | `SessionProofs` | `Spec => []ExitZeroIsComplete` |
| `SessionImplementsContract` | `SessionProofs` | `Spec => ImplementsSession` |
| `ConfiguratorTypeCorrect` | `ConfiguratorProofs` | `Spec => []TypeOK` |
| `EndsAreExclusive` | `ConfiguratorProofs` | `Spec => []ExclusiveEnds` |
| `ConfiguredIsWired` | `ConfiguratorProofs` | `Spec => []Wired` |
| `AllPlayTheSameGame` | `ConfiguratorProofs` | `Spec => []SameGame` |
| `CodecTyped` | `TextCodecProofs` | `Spec => []TypeOK` |
| `CodecRoundTrip` | `TextCodecProofs` | `Spec => []RoundTrip` |
| `CodecCanonical` | `TextCodecProofs` | `Spec => []Canonical` |
| `CodecCutCommand` | `TextCodecProofs` | `Spec => []CutCommandIsSpecial` |
| `CodecCutResult` | `TextCodecProofs` | `Spec => []CutResultKeepsStatus` |
| `CodecAborts` | `TextCodecProofs` | `Spec => []AbortsOnlyBehindBackslash` |

How the arguments run:

- `TypeOK` is inductive as it stands, given that the first deciding character of a
  chunk exists whenever one does (`LeastElement`, from the well-foundedness of the
  natural numbers) and lies in the chunk (`VerdictCases`). It includes that a batch
  is not empty while one of its events is handled, which `Tail(events)` rests on.
- `OnlyCurrentRuns` is inductive together with `TypeOK`: `EndReturn` freezes before
  it leaves END, and `Answer` can only kill.
- `WaitIsArmed` needs `ArmedInv`: the read end is registered while the verdict is
  CONTINUE at every point of the talk, and the write end is only removed when
  `inbuf` is empty or the reader is gone - which stays true, since only `Send`
  fills `inbuf` and a closed stream never reopens.
- `KilledLeavesItsPipeOnly` follows from `TypeOK` step by step: only `Terminate` and the
  two kinds of END kill, each kills the solution it is about (`KillerKills`), and each
  resets its tokenizer and clears its leftovers in the same step (`AnswerForgets`).
- `OutputInOrder` needs `OutputInv`: `outbuf` is empty while the verdict is
  CONTINUE. Without it `Read` would put fresh bytes in front of old ones. `Begin`
  establishes it (it empties `outbuf` on CONTINUE) and only an accepting `Read`,
  which ends the CONTINUE, fills it. The byte arithmetic is in the lemmas on
  `EndsAt`, `Front` and `Rest`. `OutputInv` also says that no more bytes are on their
  way than were written (`OutputFits`): with the order, every byte on its way is a
  written one (`KnownBytes`), so that it has a character and keeps it when the solution
  writes more.
- `InputInOrder` needs `InputInv`: no byte in flight has a number above `sent[s]`,
  so the bytes `Send` appends are larger than all before them.
- `ImplementsContract` needs `ContractInv`, which adds two parts to `TypeOK` and
  `OutputInv`. `TokenInv`: what `result` holds is free of separators and rejected
  characters while the verdict is CONTINUE, and a token when it is ACCEPTED - a verdict
  on a chunk alone (`VerdictMeaning`) says that of the whole token only together with
  the earlier chunks (`CollectedInParts`). `TalkInv`: an event of the read end without
  EPOLLIN, and a `communicate` that returns OK with the verdict CONTINUE, are only
  found when stdout is closed and its pipe is empty (`HungUp`), which stays true
  whatever the solution does after `epoll_wait` (`HangUpIsForEver`). With them each
  operation is one step of the contract: `Begin` and `Send` are `Begin` and `Send`, a
  `Read` with a failing tokenizer is `Reject`, the two kinds of END are one of `EndOK`,
  `EndOfFile`, `TokenizerError`, `EndGivenUp` (`AnswerView`), `WriteFails` is `Fail`,
  the steps of a solution are `Produce`, `Consume`, `HangUp`; all others, `Write` and
  an accepting `Read` among them, only move bytes within what the contract sees as one
  stream, and are stutters.
- `TokenEndsWithSeparator` needs `SplitInv`: while a tokenizer is in use, the last
  `over` characters of the token are the first `over` characters of the separator.
  A step extends the match or restarts it at one character, and in both cases the
  new end is a match again (`ExtendMatch`).
- `FirstSeparatorEndsToken` needs the converse, `CompleteInv`: the token ends with no
  prefix of the separator that is longer than `over` (`LongestMatch`). A longer match would put the first
  character of the separator inside a stretch that is known to match it
  (`LongestAfter`), which the two kinds of separator exclude.
- `StatusMatchesCommand` and the refinement need `OneCommand`: the command of a call
  is in the pipe, with the killer or answered, in one of these places only. With it
  every step of the two processes is mapped to one step of `KillerContract`:
  `Run` to `Perform`, `RecvStatus` to `Return`, a death to `Lose` or `GiveUp`, and
  the transports to no step at all.
- `NotTooEarly` and `NotTooLate` need `DeadlineInv`: `until` is the (wrapped) sum of the
  instant the END began at and its limit, and that instant is `wall` less the elapsed
  time, corrected by how far the clock was set (`StartIsFixed`); REAL_TIME_LIMIT_EXCEEDED is
  only said with the deadline passed; and `epoll_wait` was called before the deadline.
  If the sum is representable, `Wrap` is the identity on it (`WrapSmall`, `UntilFits`);
  otherwise nothing is claimed (`Sane`).
- `CallsAreLegal` and `NothingLeaks` need `PluginInv`: the members are a prefix of their
  list, all of them while any tokenizer is set; a tokenizer that is set has exactly one
  object, whose last verdict is the solution's status; a command that uses a tokenizer
  finds it set. Tokenizers are destroyed before any other member
  (`SolutionsAreLast`), and the library goes last (`LibraryIsFirst`), which is where the
  order of declaration enters.
- `TypeOK` of `Session` is not inductive alone: `ReadLine` takes the head of `pending`.
  `AnswerMatchesEnd`, `NeverBothBlocked`, `ExitZeroIsComplete` and the refinement rest
  on one invariant, `SessionInv`. Results carry no number, so that they fit is a matter
  of counting: the results on their way are the first of the ENDs without result
  (`Agree`), the ENDs among the commands on their way, with the one in the broker's
  hand, are all the others (`Outstanding`), and the numbers of the ENDs increase
  (`Rising`). A step moves lines between neighbouring buffers or takes one END through
  the broker. `NeverBothBlocked` follows because a judge that still gives commands has
  at most `Ahead` ENDs without result, and the one the broker is answering is one of them,
  so the others cannot fill the result pipe.
- `ExclusiveEnds` and `Wired` need `ConfigInv`: every end that is bound belongs to a
  pipe opened so far (`TypeOK`, `StreamsOK`), so the two ends `connect` binds are new (`NewEnds`);
  solutions are different (`DistinctSolutions`), so what is connected first is not
  rebound in the same call; and of the entries written so far each has the descriptors
  whose pipes end at its process (`Progress`), which is `Wired` when the call returns.
  `SameGame` reads off the same invariant.
- All properties of `TextCodec` are read off one invariant, `CodecInv`, which none of
  them is without the others. For every stream it says where the text is: the text of the
  messages received, that of the line the reader is in (`OpenLine`: the complete
  fields, the characters of the next one, a backslash that is still alone) and the text not yet
  read are what has arrived. A character moves from the text to the line
  (`OpenLineGrows`), a newline completes it (`OpenLineEnds`), and a line whose message is delivered
  becomes part of the first (`InLine`, `LineRead`, `CutLine`, `Over`). Between the two programs it
  also says that the reader is at a place of a message that was sent (`Inside`,
  `Within`), so that the next character is the one that was written there
  (`NextInText`), or behind all of them (`Behind`); and when the stream was cut, that
  the last message is damaged in one of two ways (`Damaged`). The lemmas on texts
  (`FlattenSplit`, that the text of several messages is that of the first ones and the
  rest) are about sequences of any length. They need induction, which is done with sets: a
  set of sequences that holds the empty one and with each one its extensions holds them
  all (`InductiveSequences`, from `LeastElement`).

Only model-checked:

- `EndIsAnswered`, `GoneReaderIsHarmless`, `NobodyIsLeftWaiting`, `EndReturns`, `EndsOrFloods`:
  liveness under fairness is out of the prover's reach.

## What is not modelled, and the plan

Nothing of the plan is left: every component is modelled, and every invariant and
refinement the runs check is also proved.

Not modelled: logging, `Trace::handle`, the loading of the options files and their
owners and modes (`dumpOptions`), CMake files, and the test fixtures. User time
limits: `userTimeLimit` is stored but enforced nowhere, so there is no behaviour to
model. `split_char.c` has no module of its own: it is `Verdict` and `Taken` of `Broker`.

## Reproducing

    tlc -workers 2 -config broker_contract.cfg MCBroker.tla     # likewise the others
    tlc -workers 2 -config session.cfg Session.tla
    tlapm BrokerProofs.tla                                # likewise the others

The mutants of `PROJECT.json` (operators marked `mutant:` in the modules) replace one
definition by a plausible mistake; under each of them the property named there
fails, which shows that the property depends on the code.
