---------------------------- MODULE Configurator ----------------------------
(***************************************************************************)
(* Configurator::configure(), which connects broker, killer, judge and     *)
(* solutions by pipes before they start, and writes the options that       *)
(* broker and killer load.  Creating a pipe and writing a file may throw;  *)
(* configured_ is set last, so configure() may then be called again, also  *)
(* with other solutions.                                                   *)
(***************************************************************************)
EXTENDS Integers, Sequences, FiniteSets

CONSTANTS
    Player,    \* processes that may become solutions
    Id(_),     \* id of a process
    Settings,  \* what the user may set: records of limits and argument
    NoArgument,  \* the empty string
    MaxThrows  \* bound: calls that throw

Others == {"broker", "killer", "judge"}
Process == Others \cup Player

ASSUME ConfiguratorAssumption ==
    /\ Others \cap Player = {}
    /\ \A p, q \in Process : Id(p) = Id(q) => p = q
    /\ \A s \in Settings : DOMAIN s = {"limits", "argument"}
    /\ MaxThrows \in Nat

VARIABLES
    solutions,   \* the member `solutions', public
    settings,    \* the other public members
    configured,  \* configured_
    step,        \* where configure() is
    done,        \* number of processes connected by this call
    options,     \* the local variable brokerOptions
    streams,     \* streams[p]: what the descriptors of process p are bound to
    pipes,       \* number of pipes created so far
    brokerFile,  \* the options file in the arguments of the broker
    killerFile,  \* the one in the arguments of the killer: unprotected ids
    judgeArgument,
    throws       \* history: calls that threw

vars == <<solutions, settings, configured, step, done, options, streams,
          pipes, brokerFile, killerFile, judgeArgument, throws>>
memberVars == <<solutions, settings>>

\* What a descriptor may be bound to: a log file or one end of a pipe.
Log == [pipe |-> 0, end |-> "log"]
ReadEnd(k) == [pipe |-> k, end |-> "read"]
WriteEnd(k) == [pipe |-> k, end |-> "write"]

\* BrokerImpl::Process, and the fields of BrokerImpl::Options that matter.
Entry(p, fd) == [in |-> fd, out |-> fd + 1, id |-> Id(p)]
Fields == {"entries", "defaultResourceLimits", "defaultTokenizerArgument"}

\* serialize() names the fields that are written; load() takes the default
\* for a field that is not there.
SerializedLess == {"entries"}  \* mutant: the limits are forgotten, too
Serialized == {"entries", "defaultResourceLimits"}
Dump(o) == [f \in Serialized |-> o[f]]
Load(file) ==
    [f \in Fields |-> IF f \in DOMAIN file THEN file[f]
                      ELSE IF f = "defaultTokenizerArgument" THEN NoArgument ELSE "default"]

\* The processes in the order in which they are connected.
Targets == <<"killer", "judge">> \o solutions

Init ==
    /\ solutions \in {q \in UNION {[1 .. n -> Player] : n \in 0 .. Cardinality(Player)} :
                        \A i, j \in DOMAIN q : q[i] = q[j] => i = j}
    /\ settings \in Settings
    /\ configured = FALSE /\ step = "idle" /\ throws = 0
    /\ done = 0 /\ options = [entries |-> <<>>]
    /\ streams = [p \in Process |-> <<>>] /\ pipes = 0
    /\ brokerFile = [entries |-> <<>>] /\ killerFile = {} /\ judgeArgument = 0

\* A function with f[x] set to y, whether or not x was in its domain.
Bind(f, x, y) == [z \in DOMAIN f \cup {x} |-> IF z = x THEN y ELSE f[z]]

-----------------------------------------------------------------------------
\* The user adds and removes solutions.
ChangeSolutions ==
    /\ step = "idle" /\ ~configured
    /\ \/ solutions # <<>> /\ solutions' = Tail(solutions)
       \/ \E p \in Player : /\ \A i \in DOMAIN solutions : solutions[i] # p
                            /\ solutions' = Append(solutions, p)
    /\ UNCHANGED <<settings, configured, step, done, options, streams, pipes,
                   brokerFile, killerFile, judgeArgument, throws>>

\* The step that sets configured_.
SetsConfiguredFirst(s) == s = "connect"  \* mutant: the first command
SetsConfigured(s) == s = "judge"

\* The call begins: options of its own, and the broker's log.
Configure ==
    /\ step = "idle" /\ ~configured
    /\ step' = "connect"
    /\ configured' = SetsConfigured("connect")
    /\ done' = 0
    /\ options' = [entries |-> <<>>, defaultResourceLimits |-> settings.limits,
                   defaultTokenizerArgument |-> settings.argument]
    /\ streams' = [streams EXCEPT !["broker"] = Bind(@, 2, Log)]
    /\ UNCHANGED <<memberVars, pipes, brokerFile, killerFile, judgeArgument, throws>>

\* The descriptors that the broker gets for the next process.
NextFDOneLess == 2 + 2 * done  \* mutant: counts from the broker's log
NextFD == 3 + 2 * done

\* The pipes: from the broker to the process, and back.
PipeInOld == 2 * done + 1  \* mutant: numbers of its own in every call
PipeIn == pipes + 1

\* connect(), twice for killer and judge and once for each solution.
Connect ==
    /\ step = "connect" /\ done < Len(Targets)
    /\ LET p == Targets[done + 1]
           bound == Bind(Bind(streams[p], 0, ReadEnd(PipeIn)), 1, WriteEnd(PipeIn + 1))
       IN  /\ streams' = [streams EXCEPT
                 ![p] = IF p \in Player THEN bound ELSE Bind(bound, 2, Log),
                 !["broker"] = Bind(Bind(@, NextFD, WriteEnd(PipeIn)), NextFD + 1, ReadEnd(PipeIn + 1))]
           /\ options' = [options EXCEPT !.entries = Append(@, Entry(p, NextFD))]
           /\ done' = done + 1
    /\ pipes' = PipeIn + 1
    /\ UNCHANGED <<memberVars, configured, step, brokerFile, killerFile, judgeArgument, throws>>

DumpBroker ==
    /\ step = "connect" /\ done = Len(Targets)
    /\ brokerFile' = Dump(options)
    /\ step' = "killer"
    /\ UNCHANGED <<memberVars, configured, done, options, streams, pipes,
                   killerFile, judgeArgument, throws>>

DumpKiller ==
    /\ step = "killer"
    /\ killerFile' = {Id(solutions[i]) : i \in DOMAIN solutions}
    /\ step' = "judge"
    /\ UNCHANGED <<memberVars, configured, done, options, streams, pipes,
                   brokerFile, judgeArgument, throws>>

\* The judge's argument, and the last command.
Finish ==
    /\ step = "judge"
    /\ judgeArgument' = Len(solutions)
    /\ configured' = (configured \/ SetsConfigured("judge"))
    /\ step' = "idle"
    /\ UNCHANGED <<memberVars, done, options, streams, pipes, brokerFile, killerFile, throws>>

\* Creating a pipe, or writing the file, its owner, its mode or the arguments
\* that name it, throws.
Throw ==
    /\ step \in {"connect", "killer"} /\ throws < MaxThrows
    /\ step' = "idle" /\ throws' = throws + 1
    /\ UNCHANGED <<memberVars, configured, done, options, streams, pipes,
                   brokerFile, killerFile, judgeArgument>>

\* A later call does nothing.
ConfigureAgain == step = "idle" /\ configured /\ UNCHANGED vars

Next ==
    \/ ChangeSolutions \/ Configure \/ Connect \/ DumpBroker \/ DumpKiller
    \/ Finish \/ Throw \/ ConfigureAgain

Spec == Init /\ [][Next]_vars

-----------------------------------------------------------------------------
\* Descriptors are bound from 0 on without a gap, except that 0 and 1 of the
\* broker are not set here.
TypeOK ==
    /\ solutions \in Seq(Player) /\ settings \in Settings /\ configured \in BOOLEAN
    /\ step \in {"idle", "connect", "killer", "judge"}
    /\ done \in Nat /\ (step # "idle" => done <= Len(Targets))
    /\ \A p \in Process : \A fd \in DOMAIN streams[p] :
         /\ fd \in Nat
         /\ streams[p][fd].pipe \in 0 .. pipes
         /\ streams[p][fd] = Log <=> fd = 2
    /\ throws \in 0 .. MaxThrows

\* configure() says that it is done, and what the broker will load then.
Configured == configured /\ step = "idle"
Loaded == Load(brokerFile)

\* In the options the broker loads, each process has the descriptors whose
\* pipes end at stdin and stdout of this very process, also if earlier calls
\* threw and had connected the same processes, or others, before
\* (Configurator.cpp:75).
Wired ==
    Configured =>
        /\ Len(Loaded.entries) = Len(Targets)
        /\ \A i \in DOMAIN Targets :
             LET e == Loaded.entries[i]
                 b == streams["broker"]
                 s == streams[Targets[i]]
             IN  /\ e.id = Id(Targets[i])
                 /\ b[e.in].end = "write" /\ s[0].end = "read" /\ b[e.in].pipe = s[0].pipe
                 /\ b[e.out].end = "read" /\ s[1].end = "write" /\ b[e.out].pipe = s[1].pipe

\* No end of a pipe is held twice: otherwise the end of one process would not
\* be the end of its stream, which is how the broker sees a dead judge or
\* killer (broker.cpp:46) and a solution that is gone (BrokerImplCommunicate.cpp:114).
ExclusiveEnds ==
    \A p, q \in Process : \A x \in DOMAIN streams[p], y \in DOMAIN streams[q] :
        streams[p][x] = streams[q][y] /\ streams[p][x] # Log => p = q /\ x = y

\* Broker, killer and judge agree on who plays: the killer may touch these
\* and nobody else (otherwise the broker aborts, BrokerImpl.cpp:167), the
\* judge is given their number, and the limits are those that were set.
SameGame ==
    Configured =>
        /\ killerFile = {Loaded.entries[i].id : i \in 3 .. Len(Loaded.entries)}
        /\ Id("killer") \notin killerFile /\ Id("judge") \notin killerFile
        /\ judgeArgument = Len(Loaded.entries) - 2
        /\ Loaded.defaultResourceLimits = settings.limits

\* Broker.hpp:96 says of begin(id): "begin(id, defaultTokenizerArgument)",
\* where defaultTokenizerArgument is a member of Configurator as of the options.
DefaultArgumentArrives ==
    Configured => Loaded.defaultTokenizerArgument = settings.argument

=============================================================================
