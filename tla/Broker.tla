------------------------------- MODULE Broker -------------------------------
(***************************************************************************)
(* The broker process: class BrokerImpl, driven by the commands that the   *)
(* judge sends one at a time (BEGIN, SEND, END, TERMINATE), and running    *)
(* against solutions that read, write and die at any moment.               *)
(*                                                                         *)
(* The broker is single-threaded, so each command is atomic except END,    *)
(* which thaws the solution and talks to it: one action per system call of *)
(* BrokerImpl::communicate, interleaved with the steps of the solutions.   *)
(***************************************************************************)
EXTENDS Solutions

CONSTANTS
    Separators,  \* tokenizer arguments: the character that ends a token
    Rejected,    \* characters on which the tokenizer fails
    BufSize,     \* BUFSIZ: most bytes moved by one read() or write()
    MaxInput     \* bound: bytes the judge sends to one solution

ASSUME BrokerAssumption ==
    /\ Separators # {}
    /\ Separators \subseteq Chars \ Rejected
    /\ BufSize \in Nat \ {0}
    /\ MaxInput \in Nat

VARIABLES
    \* class BrokerImpl::Solution
    tokenizer,  \* tokenizer[s]: "NULL" for no tokenizer, else tokenizerStatus
    separator,  \* separator[s]: the tokenizer's argument
    result,     \* result[s]: bytes of the token collected so far
    inbuf,      \* inbuf[s]: bytes still to be written to the solution
    outbuf,     \* outbuf[s]: bytes read from it behind an accepted token
    \* where the broker is, and the locals of end() and communicate()
    pc,
    cur,        \* the solution being frozen at start-up, or in end()
    discard,    \* argument discardRemaining
    ret,        \* status returned by communicate()
    late,       \* now >= untilPoint
    mon,        \* file descriptors registered in the epoll instance
    events,     \* events of the last epoll_wait() not handled yet
    \* what the judge sees and what it did
    reply,      \* last Result sent to the judge
    sent,       \* sent[s]: number of bytes the judge sent to s so far
    \* history
    loose       \* solutions whose last freeze was answered ERROR

bufferVars == <<tokenizer, separator, result, inbuf, outbuf>>
localVars == <<cur, discard, ret, late, mon, events>>
vars == <<solutionVars, bufferVars, localVars, pc, reply, sent, loose>>

TokenizerStatus == {"CONTINUE", "ACCEPTED", "FAIL"}

\* The states of an END that communicates with the solution.
InEnd == {"wait", "events", "write", "read", "return"}
\* The broker process has ended.
Down == {"exited", "failed", "aborted"}

\* An epoll event: `ok' is EPOLLOUT without EPOLLERR or EPOLLHUP on the
\* write end, and EPOLLIN on the read end.
Event == [fd : {"in", "out"}, ok : BOOLEAN]

\* "UNINIT" is any bit pattern other than OK left in a status nobody set.
Status == {"OK", "TOKENIZER_ERROR", "EOF_ERROR", "REAL_TIME_LIMIT_EXCEEDED",
           "UNINIT"}
NoReply == [solution |-> N, status |-> "UNINIT", data |-> <<>>, discard |-> FALSE]

Least(a, b) == IF a <= b THEN a ELSE b
Min3(a, b, c) == Least(a, Least(b, c))

\* The variables keep to the values the code's types give them, and the code
\* indexes the solutions with cur, and takes the current event off the batch,
\* only while there is one.
TypeOK ==
    /\ SolutionsTypeOK
    /\ tokenizer \in [Solution -> TokenizerStatus \cup {"NULL"}]
    /\ separator \in [Solution -> Separators]
    /\ result \in [Solution -> Seq(Nat)]
    /\ inbuf \in [Solution -> Seq(Nat)]
    /\ outbuf \in [Solution -> Seq(Nat)]
    /\ pc \in InEnd \cup Down \cup {"boot", "idle"}
    /\ cur \in 0 .. N
    /\ pc \in InEnd \cup {"boot"} => cur \in Solution
    /\ discard \in BOOLEAN
    /\ ret \in {"OK", "REAL_TIME_LIMIT_EXCEEDED"}
    /\ late \in BOOLEAN
    /\ mon \subseteq {"in", "out"}
    /\ events \in Seq(Event)
    /\ pc \in {"write", "read"} => events # <<>>
    /\ reply \in [solution : 0 .. N, status : Status, data : Seq(Nat), discard : BOOLEAN]
    /\ sent \in [Solution -> Nat]
    /\ loose \subseteq Solution

Init ==
    /\ SolutionsInit
    /\ tokenizer = [s \in Solution |-> "NULL"]
    /\ separator = [s \in Solution |-> CHOOSE a \in Separators : TRUE]
    /\ result = [s \in Solution |-> <<>>]
    /\ inbuf = [s \in Solution |-> <<>>]
    /\ outbuf = [s \in Solution |-> <<>>]
    /\ pc = IF N = 0 THEN "idle" ELSE "boot"
    /\ cur = 0
    /\ discard = FALSE
    /\ ret = "OK"
    /\ late = FALSE
    /\ mon = {}
    /\ events = <<>>
    /\ reply = NoReply
    /\ sent = [s \in Solution |-> 0]
    /\ loose = {}

-----------------------------------------------------------------------------
(***************************************************************************)
(* The tokenizer with argument a, applied to a chunk q of the output of s: *)
(* it stops at the first character that ends the token or that it rejects. *)
(***************************************************************************)
Deciding(s, a, q) ==
    {i \in DOMAIN q : written[s][q[i]] \in {a} \cup Rejected}

FirstDeciding(s, a, q) ==
    CHOOSE i \in Deciding(s, a, q) : \A j \in Deciding(s, a, q) : i <= j

Verdict(s, a, q) ==
    IF Deciding(s, a, q) = {} THEN "CONTINUE"
    ELSE IF written[s][q[FirstDeciding(s, a, q)]] = a THEN "ACCEPTED" ELSE "FAIL"

\* How many bytes of q belong to the token: all of them, none, or those up
\* to and including the separator.
TakenWithoutSeparator(s, a, q) ==  \* mutant: off by one
    IF Verdict(s, a, q) = "CONTINUE" THEN Len(q)
    ELSE IF Verdict(s, a, q) = "ACCEPTED" THEN FirstDeciding(s, a, q) - 1 ELSE 0
Taken(s, a, q) ==
    IF Verdict(s, a, q) = "CONTINUE" THEN Len(q)
    ELSE IF Verdict(s, a, q) = "ACCEPTED" THEN FirstDeciding(s, a, q) ELSE 0

\* Moving k bytes out of a buffer, and what the buffer still holds then.
Front(q, k) == SubSeq(q, 1, k)
RestRepeatsOne(q, k) ==  \* mutant: the last byte moved is not erased
    SubSeq(q, IF k = 0 THEN 1 ELSE k, Len(q))
Rest(q, k) == SubSeq(q, k + 1, Len(q))

\* What begin() leaves of outbuf.
LeftoverNotCleared(s, a, q) ==  \* mutant: no outbuf.clear() on CONTINUE
    IF Verdict(s, a, q) = "CONTINUE" THEN q ELSE Rest(q, Taken(s, a, q))
Leftover(s, a, q) == Rest(q, Taken(s, a, q))

-----------------------------------------------------------------------------
\* Start-up and the commands of the judge that are answered at once.

MoreToFreezeByOne == cur + 1 <= N  \* mutant: one solution too many
MoreToFreeze == cur + 1 < N

\* BrokerImpl::BrokerImpl freezes the solutions, which already run, in turn.
BootFreeze ==
    /\ pc = "boot"
    /\ \E ok \in BOOLEAN :
        /\ run' = Frozen(run, cur, ok)
        /\ loose' = IF ok THEN loose ELSE loose \cup {cur}
    /\ IF MoreToFreeze
       THEN cur' = cur + 1 /\ UNCHANGED pc
       ELSE cur' = 0 /\ pc' = "idle"
    /\ UNCHANGED <<closed, pipeIn, pipeOut, written, lastRead, bufferVars,
                   discard, ret, late, mon, events, reply, sent>>

\* Start an iteration, first feeding the tokenizer what is left in outbuf.
Begin(s, a) ==
    /\ pc = "idle"
    /\ tokenizer[s] = "NULL"
    /\ tokenizer' = [tokenizer EXCEPT ![s] = Verdict(s, a, outbuf[s])]
    /\ separator' = [separator EXCEPT ![s] = a]
    /\ result' = [result EXCEPT ![s] = Front(outbuf[s], Taken(s, a, outbuf[s]))]
    /\ outbuf' = [outbuf EXCEPT ![s] = Leftover(s, a, @)]
    /\ UNCHANGED <<solutionVars, localVars, pc, inbuf, reply, sent, loose>>

\* n is the length of the message, which may be empty.
Send(s, n) ==
    /\ pc = "idle"
    /\ tokenizer[s] # "NULL"
    /\ sent[s] + n <= MaxInput
    /\ inbuf' = [inbuf EXCEPT ![s] = @ \o [i \in 1 .. n |-> sent[s] + i]]
    /\ sent' = [sent EXCEPT ![s] = @ + n]
    /\ UNCHANGED <<solutionVars, localVars, pc, tokenizer, separator, result,
                   outbuf, reply, loose>>

\* The killer is asked to kill s and the broker forgets it, killed or not.
ForgetInputOnly(s) ==  \* mutant: outbuf is not cleared
    inbuf' = [inbuf EXCEPT ![s] = <<>>] /\ UNCHANGED outbuf
Forget(s) ==
    /\ inbuf' = [inbuf EXCEPT ![s] = <<>>]
    /\ outbuf' = [outbuf EXCEPT ![s] = <<>>]

Terminate(s) ==
    /\ pc = "idle"
    /\ \E ok \in BOOLEAN : run' = Killed(run, s, ok)
    /\ tokenizer' = [tokenizer EXCEPT ![s] = "NULL"]
    /\ Forget(s)
    /\ UNCHANGED <<closed, pipeIn, pipeOut, written, lastRead, localVars, pc,
                   separator, result, reply, sent, loose>>

\* BOOST_ASSERT: no such solution, BEGIN twice, SEND or END without BEGIN.
Misuse ==
    /\ pc = "idle"
    /\ \E id \in 0 .. N, type \in {"BEGIN", "SEND", "END"} :
        \/ id \notin Solution
        \/ id \in Solution /\ (type = "BEGIN" <=> tokenizer[id] # "NULL")
    /\ pc' = "aborted"
    /\ UNCHANGED <<solutionVars, bufferVars, localVars, reply, sent, loose>>

\* The judge closes its end: EndOfFileError, the broker exits.
JudgeEOF ==
    /\ pc = "idle"
    /\ pc' = "exited"
    /\ UNCHANGED <<solutionVars, bufferVars, localVars, reply, sent, loose>>

-----------------------------------------------------------------------------
(***************************************************************************)
(* END.  Answer is everything end() does once result.status is known: r is *)
(* the process states at that point.                                       *)
(***************************************************************************)
IterationStatus(s) ==
    CASE tokenizer[s] = "FAIL" -> "TOKENIZER_ERROR"
      [] tokenizer[s] = "CONTINUE" -> "EOF_ERROR"
      [] OTHER -> "OK"

Answer(s, disc, status, r) ==
    /\ IF status = "OK"
       THEN /\ run' = r
            /\ inbuf' = IF disc THEN [inbuf EXCEPT ![s] = <<>>] ELSE inbuf
            /\ UNCHANGED outbuf
       ELSE /\ \E ok \in BOOLEAN : run' = Killed(r, s, ok)
            /\ Forget(s)
    /\ tokenizer' = [tokenizer EXCEPT ![s] = "NULL"]
    /\ LET final == IF status = "OK" THEN IterationStatus(s) ELSE status
       IN  reply' = [solution |-> s, status |-> final,
                     data |-> IF final = "OK" THEN result[s] ELSE <<>>,
                     discard |-> disc]
    /\ UNCHANGED <<closed, pipeIn, pipeOut, written, lastRead, separator,
                   result, sent>>

\* The tokenizer gave its verdict in begin(): end() does not communicate and
\* tests result.status without ever setting it.
EndBuffered(s, disc) ==
    /\ pc = "idle"
    /\ tokenizer[s] \in {"ACCEPTED", "FAIL"}
    /\ \E uninitialized \in {"OK", "UNINIT"} : Answer(s, disc, uninitialized, run)
    /\ UNCHANGED <<localVars, pc, loose>>

EndCommunicate(s, disc) ==
    /\ pc = "idle"
    /\ tokenizer[s] = "CONTINUE"
    /\ \E ok \in BOOLEAN : run' = Thawed(run, s, ok)
    /\ pc' = "wait"
    /\ cur' = s
    /\ discard' = disc
    /\ late' = FALSE
    /\ mon' = {"in", "out"}
    /\ UNCHANGED <<closed, pipeIn, pipeOut, written, lastRead, bufferVars,
                   ret, events, reply, sent, loose>>

\* Process states after the freeze that follows communicate().
RunAfterTalkUnlessLate(ok) ==  \* mutant: a solution to be killed is not frozen
    IF ret = "OK" THEN Frozen(run, cur, ok) ELSE run
RunAfterTalk(ok) == Frozen(run, cur, ok)

EndReturn ==
    /\ pc = "return"
    /\ \E ok \in BOOLEAN :
        /\ loose' = IF ok THEN loose \ {cur} ELSE loose \cup {cur}
        /\ Answer(cur, discard, ret, RunAfterTalk(ok))
    /\ pc' = "idle"
    /\ cur' = 0
    /\ discard' = FALSE
    /\ ret' = "OK"
    /\ late' = FALSE
    /\ mon' = {}
    /\ events' = <<>>

-----------------------------------------------------------------------------
\* BrokerImpl::communicate(cur), one system call at a time.

\* The clock passes the deadline.
Expire ==
    /\ pc \in InEnd
    /\ ~late
    /\ late' = TRUE
    /\ UNCHANGED <<solutionVars, bufferVars, pc, cur, discard, ret, mon,
                   events, reply, sent, loose>>

InReady == "in" \in mon /\ (~StdinOpen(cur) \/ Len(pipeIn[cur]) < PipeSize)
OutReady == "out" \in mon /\ (~StdoutOpen(cur) \/ pipeOut[cur] # <<>>)

InEventIgnoresHup == [fd |-> "in", ok |-> TRUE]  \* mutant: EPOLLERR, EPOLLHUP not tested
InEvent == [fd |-> "in", ok |-> StdinOpen(cur)]
OutEvent == [fd |-> "out", ok |-> pipeOut[cur] # <<>>]

\* The kernel reports every ready descriptor once, in either order.
Batches ==
    {q \in {<<InEvent>>, <<OutEvent>>, <<InEvent, OutEvent>>, <<OutEvent, InEvent>>} :
        /\ InReady <=> \E i \in DOMAIN q : q[i].fd = "in"
        /\ OutReady <=> \E i \in DOMAIN q : q[i].fd = "out"}

EpollWait ==
    /\ pc = "wait"
    /\ ~late
    /\ events' \in Batches
    /\ pc' = "events"
    /\ UNCHANGED <<solutionVars, bufferVars, cur, discard, ret, late, mon,
                   reply, sent, loose>>

TimeLimitRestarts ==  \* mutant: untilPoint computed anew in the loop
    /\ pc = "wait"
    /\ late
    /\ late' = FALSE
    /\ UNCHANGED <<solutionVars, bufferVars, cur, discard, ret, pc, mon, events,
                   reply, sent, loose>>

\* epoll_wait is not even called once the deadline has passed.
TimeLimit ==
    /\ pc = "wait"
    /\ late
    /\ ret' = "REAL_TIME_LIMIT_EXCEEDED"
    /\ pc' = "return"
    /\ UNCHANGED <<solutionVars, bufferVars, cur, discard, late, mon, events,
                   reply, sent, loose>>

\* All events of the batch are handled.
BatchDone ==
    /\ pc = "events"
    /\ events = <<>>
    /\ pc' = IF tokenizer[cur] = "CONTINUE" THEN "wait" ELSE "return"
    /\ UNCHANGED <<solutionVars, bufferVars, localVars, reply, sent, loose>>

NextEvent == events' = Tail(events) /\ pc' = "events"

\* An event at the write end: the reader is gone, there is nothing to write
\* any more, or the write loop starts.
HandleIn ==
    /\ pc = "events"
    /\ events # <<>>
    /\ Head(events).fd = "in"
    /\ \/ /\ ~Head(events).ok
          /\ NextEvent
          /\ mon' = mon \ {"in"}
       \/ /\ Head(events).ok
          /\ tokenizer[cur] # "CONTINUE"
          /\ NextEvent
          /\ UNCHANGED mon
       \/ /\ Head(events).ok
          /\ tokenizer[cur] = "CONTINUE"
          /\ pc' = "write"
          /\ UNCHANGED <<events, mon>>
    /\ UNCHANGED <<solutionVars, bufferVars, cur, discard, ret, late,
                   reply, sent, loose>>

\* One write() that the pipe accepts, maybe in part.
Write ==
    /\ pc = "write"
    /\ inbuf[cur] # <<>>
    /\ StdinOpen(cur)
    /\ Len(pipeIn[cur]) < PipeSize
    /\ LET n == Min3(BufSize, Len(inbuf[cur]), PipeSize - Len(pipeIn[cur]))
       IN  /\ pipeIn' = [pipeIn EXCEPT ![cur] = @ \o Front(inbuf[cur], n)]
           /\ inbuf' = [inbuf EXCEPT ![cur] = Rest(@, n)]
    /\ UNCHANGED <<run, closed, pipeOut, written, lastRead, tokenizer,
                   separator, result, outbuf, pc, localVars, reply, sent, loose>>

\* The reader has gone since epoll_wait(): write() is answered EPIPE, and the
\* SystemError leaves communicate(), end() and main(): the broker is gone.
\* end()'s scope guard still destroys the tokenizer.
WriteFails ==
    /\ pc = "write"
    /\ inbuf[cur] # <<>>
    /\ ~StdinOpen(cur)
    /\ tokenizer' = [tokenizer EXCEPT ![cur] = "NULL"]
    /\ pc' = "failed"
    /\ UNCHANGED <<solutionVars, separator, result, inbuf, outbuf, localVars,
                   reply, sent, loose>>

\* The write loop ends: everything is written, or EAGAIN.
StillRegisteredNever == mon \ {"in"}  \* mutant: inbuf.empty() not tested
StillRegistered == IF inbuf[cur] = <<>> THEN mon \ {"in"} ELSE mon

WriteDone ==
    /\ pc = "write"
    /\ \/ inbuf[cur] = <<>>
       \/ StdinOpen(cur) /\ Len(pipeIn[cur]) >= PipeSize
    /\ NextEvent
    /\ mon' = StillRegistered
    /\ UNCHANGED <<solutionVars, bufferVars, cur, discard, ret, late,
                   reply, sent, loose>>

\* An event at the read end: end of file, or the read loop starts.
HandleOut ==
    /\ pc = "events"
    /\ events # <<>>
    /\ Head(events).fd = "out"
    /\ pc' = IF Head(events).ok THEN "read" ELSE "return"
    /\ UNCHANGED <<solutionVars, bufferVars, localVars, reply, sent, loose>>

\* One read() that returns data, and the tokenizer's verdict on it.
Read ==
    /\ pc = "read"
    /\ tokenizer[cur] = "CONTINUE"
    /\ pipeOut[cur] # <<>>
    /\ LET size == Least(BufSize, Len(pipeOut[cur]))
           buf == Front(pipeOut[cur], size)
           status == Verdict(cur, separator[cur], buf)
           accepted == Taken(cur, separator[cur], buf)
       IN  /\ pipeOut' = [pipeOut EXCEPT ![cur] = Rest(@, size)]
           /\ tokenizer' = [tokenizer EXCEPT ![cur] = status]
           /\ result' = [result EXCEPT ![cur] = @ \o Front(buf, accepted)]
           /\ outbuf' = IF status = "ACCEPTED"
                        THEN [outbuf EXCEPT ![cur] = @ \o Rest(buf, accepted)]
                        ELSE outbuf
           /\ mon' = IF status = "FAIL" THEN mon \ {"out"} ELSE mon
    /\ UNCHANGED <<run, closed, pipeIn, written, lastRead, separator, inbuf, pc,
                   cur, discard, ret, late, events, reply, sent, loose>>

\* The read loop ends: a verdict, EAGAIN, or end of file (read() = 0).
ReadDone ==
    /\ pc = "read"
    /\ tokenizer[cur] # "CONTINUE" \/ pipeOut[cur] = <<>>
    /\ NextEvent
    /\ UNCHANGED <<solutionVars, bufferVars, cur, discard, ret, late, mon,
                   reply, sent, loose>>

-----------------------------------------------------------------------------

Judge ==
    \/ \E s \in Solution, a \in Separators : Begin(s, a)
    \/ \E s \in Solution, n \in 0 .. MaxInput : Send(s, n)
    \/ \E s \in Solution, disc \in BOOLEAN : EndBuffered(s, disc)
    \/ \E s \in Solution, disc \in BOOLEAN : EndCommunicate(s, disc)
    \/ \E s \in Solution : Terminate(s)
    \/ Misuse
    \/ JudgeEOF

\* What the broker does without waiting for the judge.
BrokerStep ==
    \/ BootFreeze
    \/ EpollWait \/ TimeLimit \/ BatchDone
    \/ HandleIn \/ Write \/ WriteFails \/ WriteDone
    \/ HandleOut \/ Read \/ ReadDone
    \/ EndReturn

\* When the broker ends, the invoker ends the solutions too.
Play ==
    /\ pc \notin Down
    /\ \E s \in Solution : SolutionStep(s)
    /\ UNCHANGED <<bufferVars, localVars, pc, reply, sent, loose>>

Terminated == pc \in Down /\ UNCHANGED vars

Next == Judge \/ BrokerStep \/ Expire \/ Play \/ Terminated

Spec == Init /\ [][Next]_vars

(***************************************************************************)
(* The broker process keeps running and the clock keeps moving; nothing is *)
(* assumed of the judge or of the solutions.                               *)
(***************************************************************************)
FairSpec == Spec /\ WF_vars(BrokerStep) /\ WF_vars(Expire)

-----------------------------------------------------------------------------
(***************************************************************************)
(* Order and loss inside the broker.  The bytes of a solution's output     *)
(* that are on their way - collected in result, left over in outbuf, still *)
(* in the pipe - are the last ones it wrote, each exactly once and in      *)
(* order: nothing is lost, duplicated or overtaken between read(), the     *)
(* tokenizer and the leftovers of an earlier iteration.                    *)
(***************************************************************************)
Collected(s) ==
    IF tokenizer[s] \in {"CONTINUE", "ACCEPTED"} THEN result[s] ELSE <<>>

OutputFlow(s) == Collected(s) \o outbuf[s] \o pipeOut[s]

\* q holds consecutive byte numbers, the last of which is n.
EndsAt(q, n) == \A i \in DOMAIN q : q[i] + Len(q) = n + i

OutputInOrder == \A s \in Solution : EndsAt(OutputFlow(s), Len(written[s]))

(***************************************************************************)
(* The bytes of the judge reach a solution in the order they were sent,    *)
(* each at most once, however they are split between inbuf and the pipe.   *)
(***************************************************************************)
Increasing(q) == \A i, j \in DOMAIN q : i < j => q[i] < q[j]

InputFlow(s) == <<lastRead[s]>> \o pipeIn[s] \o inbuf[s]

InputInOrder == \A s \in Solution : Increasing(InputFlow(s))

(***************************************************************************)
(* Only one solution runs at a time, the one END is waiting for, and none  *)
(* runs while the judge is thinking - once start-up has frozen them all,   *)
(* and unless the killer failed to freeze it.                              *)
(***************************************************************************)
MayRun(s) ==
    \/ pc = "boot" /\ s >= cur
    \/ pc \in InEnd \cup Down /\ s = cur
    \/ s \in loose

OnlyCurrentRuns == \A s \in Solution : run[s] = "running" => MayRun(s)

(***************************************************************************)
(* While communicate() waits, everything it waits for is still registered  *)
(* with epoll: the read end always, the write end as long as there is      *)
(* something to write and someone to read it.  Otherwise the wait could    *)
(* only end by the time limit.                                             *)
(***************************************************************************)
WaitIsArmed ==
    pc = "wait" => /\ "out" \in mon
                   /\ inbuf[cur] # <<>> /\ StdinOpen(cur) => "in" \in mon

(***************************************************************************)
(* Every END is answered, or the broker fails: the deadline bounds the     *)
(* wait whatever the solution does.                                        *)
(***************************************************************************)
EndIsAnswered == pc \in InEnd ~> pc \in {"idle", "failed"}

(***************************************************************************)
(* A solution that stopped reading takes the broker down only if it does   *)
(* so in the narrow window between epoll_wait() and write(): one that is   *)
(* gone while the broker waits costs its own END an error at most, and the *)
(* broker goes on, however much input is still waiting for it.             *)
(***************************************************************************)
GoneReaderIsHarmless == pc = "wait" /\ ~StdinOpen(cur) ~> pc = "idle"

(***************************************************************************)
(* What a killed solution can still tell the judge is what it left in its  *)
(* pipe: terminate() does not drain the pipe, but nothing that the broker  *)
(* had read before, as token or as leftover, outlives the solution, on     *)
(* whichever of the three ways it is killed.                               *)
(***************************************************************************)
KilledLeavesItsPipeOnly ==
    [][\A s \in Solution : run[s] # "killed" /\ run'[s] = "killed"
                              => OutputFlow(s)' = pipeOut[s]]_vars

(***************************************************************************)
(* The buffers, events and deadlines above keep the promise of class       *)
(* Broker to the judge.                                                    *)
(***************************************************************************)
Contract == INSTANCE BrokerContract WITH
    iteration <- [s \in Solution |->
                    CASE tokenizer[s] = "NULL" -> "closed"
                      [] tokenizer[s] = "FAIL" -> "failed"
                      [] OTHER -> "open"],
    unread <- [s \in Solution |-> OutputFlow(s)],
    ended <- [s \in Solution |-> ~StdoutOpen(s)],
    queue <- [s \in Solution |-> pipeIn[s] \o inbuf[s]],
    Lengths <- 0 .. MaxInput

ImplementsContract == Contract!Spec

=============================================================================
