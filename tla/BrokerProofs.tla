---------------------------- MODULE BrokerProofs ----------------------------
(***************************************************************************)
(* Proofs about Broker, for any number of solutions and any sizes of pipes *)
(* and buffers: facts about its operators, type correctness, what holds    *)
(* while end() talks to a solution; the order of the bytes in both         *)
(* directions; then the broker's tokens and what end() knows when it       *)
(* answers, and from all of it that the broker implements BrokerContract.  *)
(***************************************************************************)
EXTENDS Broker, SequenceTheorems, WellFoundedInduction, TLAPS

\* A nonempty set of natural numbers has a least element.
LEMMA LeastElement ==
    ASSUME NEW T \in SUBSET Nat, T # {}
    PROVE  \E x \in T : \A y \in T : x <= y
<1>1. PICK x \in T : \A y \in T : <<y, x>> \notin OpToRel(<, Nat)
  BY NatLessThanWellFounded, WFMin
<1>2. \A y \in T : ~ (y < x)
  BY <1>1 DEF OpToRel
<1>3. QED  BY <1>2, SMT

\* When a chunk holds a character that decides the tokenizer, FirstDeciding is
\* the place of one.
LEMMA FirstDecidingIsFirst ==
    ASSUME NEW s, NEW a, NEW q \in Seq(Nat), Deciding(s, a, q) # {}
    PROVE  FirstDeciding(s, a, q) \in Deciding(s, a, q)
<1>1. Deciding(s, a, q) \subseteq Nat
  BY DEF Deciding
<1>2. QED  BY <1>1, LeastElement DEF FirstDeciding

\* A tokenizer takes the whole chunk when it goes on, a nonempty front of it
\* when it accepts, and nothing when it fails.
LEMMA VerdictCases ==
    ASSUME NEW s, NEW a, NEW q \in Seq(Nat)
    PROVE  \/ /\ Verdict(s, a, q) = "CONTINUE"
              /\ Taken(s, a, q) = Len(q)
           \/ /\ Verdict(s, a, q) = "ACCEPTED"
              /\ Taken(s, a, q) \in 1 .. Len(q)
           \/ /\ Verdict(s, a, q) = "FAIL"
              /\ Taken(s, a, q) = 0
<1>1. CASE Deciding(s, a, q) = {}
  <2>1. Verdict(s, a, q) = "CONTINUE"
    BY <1>1 DEF Verdict
  <2>2. QED  BY <2>1 DEF Taken
<1>2. CASE Deciding(s, a, q) # {}
  <2>1. FirstDeciding(s, a, q) \in 1 .. Len(q)
    BY <1>2, FirstDecidingIsFirst DEF Deciding
  <2>2. Verdict(s, a, q) \in {"ACCEPTED", "FAIL"}
    BY <1>2 DEF Verdict
  <2>3. QED  BY <2>1, <2>2 DEF Taken
<1>3. QED  BY <1>1, <1>2

\* Front and Rest split a buffer in two: no byte is lost or repeated.
LEMMA SplitQueue ==
    ASSUME NEW q \in Seq(Nat), NEW k \in 0 .. Len(q)
    PROVE  /\ Front(q, k) \in Seq(Nat)
           /\ Rest(q, k) \in Seq(Nat)
           /\ Len(Front(q, k)) = k
           /\ Len(Rest(q, k)) = Len(q) - k
           /\ Front(q, k) \o Rest(q, k) = q
<1>1. /\ Front(q, k) \in Seq(Nat)
      /\ Len(Front(q, k)) = k
  BY SubSeqProperties, ElementOfSeq DEF Front
<1>2. /\ Rest(q, k) \in Seq(Nat)
      /\ Len(Rest(q, k)) = Len(q) - k
  BY SubSeqProperties, ElementOfSeq DEF Rest
<1>3. Front(q, k) \o Rest(q, k) = q
  <2>1. /\ 1 \in 1 .. Len(q) + 1
        /\ k \in 1 - 1 .. Len(q)
        /\ Len(q) \in k .. Len(q)
    OBVIOUS
  <2>2. SubSeq(q, 1, k) \o SubSeq(q, k + 1, Len(q)) = SubSeq(q, 1, Len(q))
    BY <2>1, ConcatAdjacentSubSeq, Zenon
  <2>3. QED  BY <2>2, SubSeqFull, Zenon DEF Front, Rest
<1>4. QED  BY <1>1, <1>2, <1>3

\* The numbers of the bytes of a message.
LEMMA CountUp ==
    ASSUME NEW n \in Nat, NEW m \in Nat
    PROVE  /\ [i \in 1 .. n |-> m + i] \in Seq(Nat)
           /\ Len([i \in 1 .. n |-> m + i]) = n
  OBVIOUS

\* How much one write() moves lies between nothing and all there is.
LEMMA Smallest ==
    \A a, b, c, d \in Nat : c < d => Min3(a, b, d - c) \in 0 .. b
  BY DEF Min3, Least

\* The killer's commands keep process states process states.
LEMMA KillerType ==
    ASSUME NEW r \in [Solution -> RunState], NEW s \in Solution, NEW ok \in BOOLEAN
    PROVE  /\ Frozen(r, s, ok) \in [Solution -> RunState]
           /\ Thawed(r, s, ok) \in [Solution -> RunState]
           /\ Killed(r, s, ok) \in [Solution -> RunState]
  BY DEF Frozen, Thawed, Killed, RunState

\* What end() leaves behind has the right types.
LEMMA AnswerType ==
    ASSUME TypeOK, NEW s \in Solution, NEW disc \in BOOLEAN, NEW status \in Status,
           NEW r \in [Solution -> RunState], Answer(s, disc, status, r)
    PROVE  /\ run' \in [Solution -> RunState]
           /\ tokenizer' \in [Solution -> TokenizerStatus \cup {"NULL"}]
           /\ inbuf' \in [Solution -> Seq(Nat)]
           /\ outbuf' \in [Solution -> Seq(Nat)]
           /\ reply' \in [solution : 0 .. N, status : Status, data : Seq(Nat),
                          discard : BOOLEAN]
<1>1. run' \in [Solution -> RunState]
  BY KillerType DEF Answer, Forget
<1>2. tokenizer' \in [Solution -> TokenizerStatus \cup {"NULL"}]
  BY DEF TypeOK, Answer, Forget
<1>3. inbuf' \in [Solution -> Seq(Nat)] /\ outbuf' \in [Solution -> Seq(Nat)]
  <2>1. /\ inbuf' = inbuf \/ inbuf' = [inbuf EXCEPT ![s] = <<>>]
        /\ outbuf' = outbuf \/ outbuf' = [outbuf EXCEPT ![s] = <<>>]
    BY Zenon DEF Answer, Forget
  <2>2. <<>> \in Seq(Nat)
    OBVIOUS
  <2>3. inbuf \in [Solution -> Seq(Nat)] /\ outbuf \in [Solution -> Seq(Nat)]
    BY DEF TypeOK
  <2>4. QED  BY <2>1, <2>2, <2>3
<1>4. IterationStatus(s) \in Status
  BY DEF IterationStatus, Status
<1>5. s \in 0 .. N
  BY SolutionsAssumption DEF Solution
<1>6. reply' \in [solution : 0 .. N, status : Status, data : Seq(Nat),
                  discard : BOOLEAN]
  BY <1>4, <1>5 DEF TypeOK, Answer, Forget
<1>7. QED  BY <1>1, <1>2, <1>3, <1>6

(***************************************************************************)
(* The variables of the broker keep their types, whatever the judge, the   *)
(* solutions, the killer and the clock do: in particular end() and         *)
(* communicate() never use a solution id or an event that is not there.    *)
(***************************************************************************)
THEOREM TypeCorrect == Spec => []TypeOK
<1> USE SolutionsAssumption, BrokerAssumption
<1>1. Init => TypeOK
  <2> SUFFICES ASSUME Init
               PROVE  TypeOK
    OBVIOUS
  <2>1. SolutionsTypeOK
    BY DEF Init, SolutionsInit, SolutionsTypeOK, RunState
  <2>2. separator \in [Solution -> Separators]
    BY DEF Init
  <2>3. reply \in [solution : 0 .. N, status : Status, data : Seq(Nat), discard : BOOLEAN]
    BY DEF Init, NoReply, Status
  <2>4. /\ tokenizer \in [Solution -> TokenizerStatus \cup {"NULL"}]
        /\ result \in [Solution -> Seq(Nat)]
        /\ inbuf \in [Solution -> Seq(Nat)]
        /\ outbuf \in [Solution -> Seq(Nat)]
        /\ sent \in [Solution -> Nat]
    BY DEF Init
  <2>5. /\ pc \in {"boot", "idle"}
        /\ cur \in 0 .. N
        /\ pc = "boot" => cur \in Solution
        /\ events \in Seq(Event)
        /\ loose \subseteq Solution
    BY DEF Init, Solution
  <2>6. QED
    BY <2>1, <2>2, <2>3, <2>4, <2>5 DEF Init, TypeOK, InEnd
<1>2. TypeOK /\ [Next]_vars => TypeOK'
  <2> SUFFICES ASSUME TypeOK, [Next]_vars
               PROVE  TypeOK'
    OBVIOUS
  <2> USE DEF TypeOK, SolutionsTypeOK, bufferVars, localVars, solutionVars
  <2>1. CASE BootFreeze
    <3>1. run' \in [Solution -> RunState] /\ loose' \subseteq Solution
      <4>1. cur \in Solution
        BY <2>1 DEF BootFreeze
      <4>2. PICK ok \in BOOLEAN :
                /\ run' = Frozen(run, cur, ok)
                /\ loose' = IF ok THEN loose ELSE loose \cup {cur}
        BY <2>1, Zenon DEF BootFreeze
      <4>3. QED  BY <4>1, <4>2, KillerType
    <3>2. /\ pc' \in {"boot", "idle"}
          /\ cur' \in 0 .. N
          /\ pc' = "boot" => cur' \in Solution
      <4>1. CASE MoreToFreeze
        BY <2>1, <4>1 DEF BootFreeze, MoreToFreeze, Solution
      <4>2. CASE ~MoreToFreeze
        BY <2>1, <4>2 DEF BootFreeze
      <4>3. QED  BY <4>1, <4>2
    <3>3. QED  BY <2>1, <3>1, <3>2 DEF BootFreeze, InEnd
  <2>2. ASSUME NEW s \in Solution, NEW a \in Separators, Begin(s, a)
        PROVE  TypeOK'
    <3> DEFINE k == Taken(s, a, outbuf[s])
    <3>1. outbuf[s] \in Seq(Nat)
      OBVIOUS
    <3>2. /\ Verdict(s, a, outbuf[s]) \in TokenizerStatus
          /\ k \in 0 .. Len(outbuf[s])
      BY <3>1, VerdictCases DEF TokenizerStatus
    <3>3. Front(outbuf[s], k) \in Seq(Nat) /\ Rest(outbuf[s], k) \in Seq(Nat)
      BY <3>1, <3>2, SplitQueue
    <3> HIDE DEF k
    <3>4. /\ tokenizer' \in [Solution -> TokenizerStatus \cup {"NULL"}]
          /\ separator' \in [Solution -> Separators]
          /\ result' \in [Solution -> Seq(Nat)]
          /\ outbuf' \in [Solution -> Seq(Nat)]
      BY <2>2, <3>2, <3>3 DEF Begin, Leftover, k
    <3>5. QED  BY <2>2, <3>4 DEF Begin, InEnd
  <2>3. ASSUME NEW s \in Solution, NEW n \in 0 .. MaxInput, Send(s, n)
        PROVE  TypeOK'
    <3>1. [i \in 1 .. n |-> sent[s] + i] \in Seq(Nat)
      <4>1. n \in Nat /\ sent[s] \in Nat
        BY <2>3 DEF Send
      <4>2. QED  BY <4>1, CountUp, SMTT(30)
    <3>2. inbuf' \in [Solution -> Seq(Nat)] /\ sent' \in [Solution -> Nat]
      BY <2>3, <3>1, SMTT(30) DEF Send
    <3>3. QED  BY <2>3, <3>2 DEF Send, InEnd
  <2>4. ASSUME NEW s \in Solution, NEW disc \in BOOLEAN, EndBuffered(s, disc)
        PROVE  TypeOK'
    <3>1. PICK status \in {"OK", "UNINIT"} : Answer(s, disc, status, run)
      BY <2>4, Zenon DEF EndBuffered
    <3>2. status \in Status /\ run \in [Solution -> RunState]
      BY DEF Status
    <3>3. UNCHANGED <<localVars, pc, loose>>
      BY <2>4, Zenon DEF EndBuffered
    <3> HIDE DEF TypeOK
    <3>4. /\ run' \in [Solution -> RunState]
          /\ tokenizer' \in [Solution -> TokenizerStatus \cup {"NULL"}]
          /\ inbuf' \in [Solution -> Seq(Nat)]
          /\ outbuf' \in [Solution -> Seq(Nat)]
          /\ reply' \in [solution : 0 .. N, status : Status, data : Seq(Nat),
                         discard : BOOLEAN]
      BY <3>1, <3>2, AnswerType, Zenon
    <3>5. /\ SolutionsTypeOK'
          /\ separator' \in [Solution -> Separators]
          /\ result' \in [Solution -> Seq(Nat)]
          /\ sent' \in [Solution -> Nat]
      BY <3>1, <3>4 DEF Answer, Forget, TypeOK
    <3>6. QED  BY <3>3, <3>4, <3>5, Zenon DEF TypeOK
  <2>5. ASSUME NEW s \in Solution, NEW disc \in BOOLEAN, EndCommunicate(s, disc)
        PROVE  TypeOK'
    <3>1. run' \in [Solution -> RunState]
      <4>1. PICK ok \in BOOLEAN : run' = Thawed(run, s, ok)
        BY <2>5, Zenon DEF EndCommunicate
      <4>2. QED  BY <4>1, KillerType
    <3>2. cur' \in Solution /\ cur' \in 0 .. N
      BY <2>5 DEF EndCommunicate, Solution
    <3>3. QED  BY <2>5, <3>1, <3>2 DEF EndCommunicate, InEnd
  <2>6. ASSUME NEW s \in Solution, Terminate(s)
        PROVE  TypeOK'
    <3>1. run' \in [Solution -> RunState]
      <4>1. PICK ok \in BOOLEAN : run' = Killed(run, s, ok)
        BY <2>6, Zenon DEF Terminate, Forget
      <4>2. QED  BY <4>1, KillerType
    <3>2. /\ tokenizer' \in [Solution -> TokenizerStatus \cup {"NULL"}]
          /\ inbuf' \in [Solution -> Seq(Nat)]
          /\ outbuf' \in [Solution -> Seq(Nat)]
      BY <2>6 DEF Terminate, Forget
    <3>3. QED  BY <2>6, <3>1, <3>2 DEF Terminate, Forget, InEnd
  <2>7. CASE Misuse
    BY <2>7 DEF Misuse, InEnd, Down
  <2>8. CASE JudgeEOF
    BY <2>8 DEF JudgeEOF, InEnd, Down
  <2>9. CASE EpollWait
    <3>1. InEvent \in Event /\ OutEvent \in Event
      BY DEF InEvent, OutEvent, Event, StdinOpen, Alive
    <3>2. Batches \subseteq Seq(Event)
      <4>1. /\ <<InEvent>> \in Seq(Event)
            /\ <<OutEvent>> \in Seq(Event)
            /\ <<InEvent, OutEvent>> \in Seq(Event)
            /\ <<OutEvent, InEvent>> \in Seq(Event)
        BY <3>1
      <4>2. QED  BY <4>1, Zenon DEF Batches
    <3>3. events' \in Seq(Event)
      BY <2>9, <3>2 DEF EpollWait
    <3>4. QED  BY <2>9, <3>3 DEF EpollWait, InEnd
  <2>10. CASE TimeLimit
    BY <2>10 DEF TimeLimit, InEnd
  <2>11. CASE BatchDone
    BY <2>11 DEF BatchDone, InEnd
  <2>12. CASE HandleIn
    <3>1. events' \in Seq(Event)
      <4>1. events # <<>> /\ events' \in {events, Tail(events)}
        BY <2>12, Zenon DEF HandleIn, NextEvent
      <4>2. Tail(events) \in Seq(Event)
        BY <4>1, HeadTailProperties
      <4>3. QED  BY <4>1, <4>2
    <3>2. mon' \subseteq {"in", "out"} /\ pc' \in {"events", "write"}
      BY <2>12 DEF HandleIn, NextEvent
    <3>3. pc' = "write" => events' # <<>>
      BY <2>12 DEF HandleIn, NextEvent
    <3>4. QED  BY <2>12, <3>1, <3>2, <3>3 DEF HandleIn, InEnd
  <2>13. CASE Write
    <3> DEFINE n == Min3(BufSize, Len(inbuf[cur]), PipeSize - Len(pipeIn[cur]))
    <3>1. cur \in Solution
      BY <2>13 DEF Write, InEnd
    <3>2. n \in 0 .. Len(inbuf[cur])
      <4>1. Len(inbuf[cur]) \in Nat /\ Len(pipeIn[cur]) \in Nat
        BY <3>1, LenProperties
      <4>2. Len(pipeIn[cur]) < PipeSize
        BY <2>13 DEF Write
      <4>3. BufSize \in Nat /\ PipeSize \in Nat
        BY BrokerAssumption, SolutionsAssumption
      <4>4. QED  BY <4>1, <4>2, <4>3, Smallest, Zenon
    <3>3. Front(inbuf[cur], n) \in Seq(Nat) /\ Rest(inbuf[cur], n) \in Seq(Nat)
      BY <3>1, <3>2, SplitQueue
    <3> HIDE DEF n
    <3>4. pipeIn' \in [Solution -> Seq(Nat)] /\ inbuf' \in [Solution -> Seq(Nat)]
      <4>1. pipeIn[cur] \o Front(inbuf[cur], n) \in Seq(Nat)
        BY <3>1, <3>3, ConcatProperties
      <4>2. QED  BY <2>13, <3>3, <4>1 DEF Write, n
    <3>5. QED  BY <2>13, <3>4 DEF Write, InEnd
  <2>14. CASE WriteFails
    BY <2>14 DEF WriteFails, InEnd, Down
  <2>15. CASE WriteDone
    <3>1. events' \in Seq(Event)
      BY <2>15, HeadTailProperties DEF WriteDone, NextEvent
    <3>2. QED  BY <2>15, <3>1 DEF WriteDone, NextEvent, StillRegistered, InEnd
  <2>16. CASE HandleOut
    BY <2>16 DEF HandleOut, InEnd
  <2>17. CASE Read
    <3> DEFINE size == Least(BufSize, Len(pipeOut[cur]))
               buf == Front(pipeOut[cur], size)
               status == Verdict(cur, separator[cur], buf)
               accepted == Taken(cur, separator[cur], buf)
    <3>1. cur \in Solution
      BY <2>17 DEF Read, InEnd
    <3>2. size \in 0 .. Len(pipeOut[cur])
      <4>1. Len(pipeOut[cur]) \in Nat
        BY <3>1
      <4>2. QED  BY <4>1 DEF Least
    <3>3. buf \in Seq(Nat) /\ Rest(pipeOut[cur], size) \in Seq(Nat)
      BY <3>1, <3>2, SplitQueue
    <3> HIDE DEF size, buf
    <3>4. status \in TokenizerStatus /\ accepted \in 0 .. Len(buf)
      BY <3>3, VerdictCases, SMTT(30) DEF TokenizerStatus
    <3> HIDE DEF status, accepted
    <3>5. Front(buf, accepted) \in Seq(Nat) /\ Rest(buf, accepted) \in Seq(Nat)
      BY <3>3, <3>4, SplitQueue
    <3>6. /\ result[cur] \o Front(buf, accepted) \in Seq(Nat)
          /\ outbuf[cur] \o Rest(buf, accepted) \in Seq(Nat)
      BY <3>1, <3>5, ConcatProperties
    <3>7. /\ pipeOut' \in [Solution -> Seq(Nat)]
          /\ tokenizer' \in [Solution -> TokenizerStatus \cup {"NULL"}]
          /\ result' \in [Solution -> Seq(Nat)]
          /\ outbuf' \in [Solution -> Seq(Nat)]
          /\ mon' \subseteq {"in", "out"}
      BY <2>17, <3>3, <3>4, <3>6 DEF Read, size, buf, status, accepted
    <3>8. QED  BY <2>17, <3>7 DEF Read, InEnd
  <2>18. CASE ReadDone
    <3>1. events' \in Seq(Event)
      BY <2>18, HeadTailProperties DEF ReadDone, NextEvent
    <3>2. QED  BY <2>18, <3>1 DEF ReadDone, NextEvent, InEnd
  <2>19. CASE EndReturn
    <3>1. cur \in Solution /\ ret \in Status /\ discard \in BOOLEAN
      BY <2>19 DEF EndReturn, InEnd, Status
    <3>2. PICK ok \in BOOLEAN :
              /\ loose' = IF ok THEN loose \ {cur} ELSE loose \cup {cur}
              /\ Answer(cur, discard, ret, RunAfterTalk(ok))
      BY <2>19, Zenon DEF EndReturn
    <3>3. RunAfterTalk(ok) \in [Solution -> RunState]
      BY <3>1, KillerType DEF RunAfterTalk
    <3>6. events' \in Seq(Event) /\ pc' = "idle" /\ loose' \subseteq Solution
      BY <2>19, <3>1, <3>2 DEF EndReturn
    <3> HIDE DEF TypeOK
    <3>4. /\ run' \in [Solution -> RunState]
          /\ tokenizer' \in [Solution -> TokenizerStatus \cup {"NULL"}]
          /\ inbuf' \in [Solution -> Seq(Nat)]
          /\ outbuf' \in [Solution -> Seq(Nat)]
          /\ reply' \in [solution : 0 .. N, status : Status, data : Seq(Nat),
                         discard : BOOLEAN]
      BY <3>1, <3>2, <3>3, AnswerType, Zenon
    <3>5. /\ SolutionsTypeOK'
          /\ separator' \in [Solution -> Separators]
          /\ result' \in [Solution -> Seq(Nat)]
          /\ sent' \in [Solution -> Nat]
      BY <3>2, <3>4 DEF Answer, Forget, TypeOK
    <3>7. /\ cur' \in 0 .. N
          /\ discard' \in BOOLEAN /\ late' \in BOOLEAN
          /\ ret' \in {"OK", "REAL_TIME_LIMIT_EXCEEDED"}
          /\ mon' \subseteq {"in", "out"}
          /\ pc' \in InEnd \cup Down \cup {"boot", "idle"}
          /\ pc' \notin InEnd \cup {"boot"} /\ pc' \notin {"write", "read"}
      <4>1. 0 \in 0 .. N
        OBVIOUS
      <4>2. /\ cur' = 0 /\ ~discard' /\ ~late' /\ ret' = "OK"
            /\ mon' = {} /\ pc' = "idle"
        BY <2>19 DEF EndReturn
      <4>3. discard' \in BOOLEAN /\ late' \in BOOLEAN
        BY <2>19, Zenon DEF EndReturn
      <4>4. QED  BY <4>1, <4>2, <4>3 DEF InEnd
    <3>8. QED  BY <3>4, <3>5, <3>6, <3>7, Zenon DEF TypeOK
  <2>20. CASE Expire
    BY <2>20 DEF Expire
  <2>21. ASSUME NEW s \in Solution, SolutionStep(s),
                UNCHANGED <<bufferVars, localVars, pc, reply, sent, loose>>
         PROVE  TypeOK'
    <3>1. CASE ReadByte(s)
      <4>1. Head(pipeIn[s]) \in Nat /\ Tail(pipeIn[s]) \in Seq(Nat)
        BY <3>1, SMTT(30) DEF ReadByte
      <4>2. QED  BY <2>21, <3>1, <4>1 DEF ReadByte
    <3>2. ASSUME NEW c \in Chars, WriteByte(s, c)
          PROVE  TypeOK'
      <4>1. /\ written' \in [Solution -> Seq(Chars)]
            /\ pipeOut' \in [Solution -> Seq(Nat)]
        BY <3>2, SMTT(30) DEF WriteByte
      <4>2. QED  BY <2>21, <3>2, <4>1 DEF WriteByte
    <3>3. ASSUME NEW e \in Closable, CloseStream(s, e)
          PROVE  TypeOK'
      BY <2>21, <3>3 DEF CloseStream
    <3>4. CASE Exit(s)
      BY <2>21, <3>4 DEF Exit, RunState
    <3>5. QED  BY <2>21, <3>1, <3>2, <3>3, <3>4 DEF SolutionStep
  <2>22. CASE UNCHANGED vars
    BY <2>22 DEF vars
  <2> HIDE DEF TypeOK
  <2>23. QED
    BY <2>1, <2>2, <2>3, <2>4, <2>5, <2>6, <2>7, <2>8, <2>9, <2>10, <2>11, <2>12,
       <2>13, <2>14, <2>15, <2>16, <2>17, <2>18, <2>19, <2>20, <2>21, <2>22
       DEF Next, Judge, BrokerStep, Play, Terminated
<1>3. QED  BY <1>1, <1>2, PTL DEF Spec

-----------------------------------------------------------------------------
(***************************************************************************)
(* While end() talks to a solution: who runs, what communicate() waits     *)
(* for, and what is left of a killed solution.                             *)
(***************************************************************************)

\* Which solutions run after a command of the killer.
LEMMA KillerRuns ==
    ASSUME NEW r \in [Solution -> RunState], NEW s \in Solution, NEW t \in Solution,
           NEW ok \in BOOLEAN
    PROVE  /\ Frozen(r, s, ok)[t] = "running" => r[t] = "running" /\ (t = s => ~ok)
           /\ Killed(r, s, ok)[t] = "running" => r[t] = "running"
           /\ Thawed(r, s, ok)[t] = "running" => r[t] = "running" \/ t = s
  BY DEF Frozen, Killed, Thawed, RunState

\* end() starts no solution when it answers.
LEMMA AnswerRuns ==
    ASSUME NEW s \in Solution, NEW t \in Solution, NEW disc, NEW status,
           NEW r \in [Solution -> RunState], Answer(s, disc, status, r),
           run'[t] = "running"
    PROVE  r[t] = "running"
<1>1. CASE status = "OK"
  BY <1>1, Zenon DEF Answer, Forget
<1>2. CASE status # "OK"
  <2>1. PICK ok \in BOOLEAN : run' = Killed(r, s, ok)
    BY <1>2, Zenon DEF Answer, Forget
  <2>2. QED  BY <2>1, KillerRuns
<1>3. QED  BY <1>1, <1>2

(***************************************************************************)
(* At most the solution of the current end() runs, up to solutions whose   *)
(* freeze failed, for any number of solutions: the invariant is inductive  *)
(* on its own.                                                             *)
(***************************************************************************)
THEOREM OnlyTheCurrentSolutionRuns == Spec => []OnlyCurrentRuns
<1> USE SolutionsAssumption, BrokerAssumption
<1>1. Init => OnlyCurrentRuns
  BY DEF Init, SolutionsInit, OnlyCurrentRuns, MayRun, Solution
<1>2. TypeOK /\ OnlyCurrentRuns /\ [Next]_vars => OnlyCurrentRuns'
  <2> SUFFICES ASSUME TypeOK, OnlyCurrentRuns, [Next]_vars,
                      NEW t \in Solution, run'[t] = "running"
               PROVE  MayRun(t)'
    BY Zenon DEF OnlyCurrentRuns
  <2> USE DEF OnlyCurrentRuns, MayRun
  <2>0. /\ run \in [Solution -> RunState]
        /\ cur \in 0 .. N
        /\ pc \in InEnd \cup {"boot"} => cur \in Solution
    BY DEF TypeOK, SolutionsTypeOK
  <2>1. CASE BootFreeze
    <3>1. PICK ok \in BOOLEAN :
              /\ run' = Frozen(run, cur, ok)
              /\ loose' = IF ok THEN loose ELSE loose \cup {cur}
      BY <2>1, Zenon DEF BootFreeze
    <3>2. run[t] = "running" /\ (t = cur => ~ok)
      BY <2>0, <2>1, <3>1, KillerRuns DEF BootFreeze
    <3>3. t >= cur \/ t \in loose
      BY <2>1, <3>2 DEF BootFreeze, InEnd, Down
    <3>4. CASE t \in loose'
      BY <3>4
    <3>5. CASE t \notin loose'
      <4>1. t # cur /\ t >= cur
        BY <3>1, <3>2, <3>3, <3>5
      <4>2. MoreToFreeze /\ t >= cur + 1
        BY <2>0, <4>1 DEF MoreToFreeze, Solution
      <4>3. QED  BY <2>1, <4>2 DEF BootFreeze
    <3>6. QED  BY <3>4, <3>5
  <2>2. ASSUME NEW s \in Solution, NEW a \in Separators, Begin(s, a)
        PROVE  MayRun(t)'
    BY <2>2 DEF Begin, solutionVars, localVars
  <2>3. ASSUME NEW s \in Solution, NEW n \in 0 .. MaxInput, Send(s, n)
        PROVE  MayRun(t)'
    BY <2>3 DEF Send, solutionVars, localVars
  <2>4. ASSUME NEW s \in Solution, NEW disc \in BOOLEAN, EndBuffered(s, disc)
        PROVE  MayRun(t)'
    <3>1. PICK status : Answer(s, disc, status, run)
      BY <2>4, Zenon DEF EndBuffered
    <3>2. run[t] = "running"
      BY <2>0, <3>1, AnswerRuns
    <3>3. QED  BY <2>4, <3>2 DEF EndBuffered, localVars
  <2>5. ASSUME NEW s \in Solution, NEW disc \in BOOLEAN, EndCommunicate(s, disc)
        PROVE  MayRun(t)'
    <3>1. PICK ok \in BOOLEAN : run' = Thawed(run, s, ok)
      BY <2>5, Zenon DEF EndCommunicate
    <3>2. run[t] = "running" \/ t = s
      BY <2>0, <3>1, KillerRuns
    <3>3. QED  BY <2>5, <3>2 DEF EndCommunicate, InEnd, Down
  <2>6. ASSUME NEW s \in Solution, Terminate(s)
        PROVE  MayRun(t)'
    <3>1. PICK ok \in BOOLEAN : run' = Killed(run, s, ok)
      BY <2>6, Zenon DEF Terminate, Forget
    <3>2. run[t] = "running"
      BY <2>0, <3>1, KillerRuns
    <3>3. QED  BY <2>6, <3>2 DEF Terminate, Forget, localVars
  <2>7. CASE Misuse \/ JudgeEOF
    BY <2>7 DEF Misuse, JudgeEOF, solutionVars, localVars, InEnd, Down
  <2>8. CASE EpollWait \/ TimeLimit \/ BatchDone
    BY <2>8 DEF EpollWait, TimeLimit, BatchDone, solutionVars, localVars, InEnd
  <2>9. CASE HandleIn \/ Write \/ WriteDone \/ HandleOut \/ Read \/ ReadDone
    <3>1. /\ UNCHANGED <<run, cur, loose>>
          /\ pc \in InEnd
          /\ pc' \in InEnd
      <4>1. CASE HandleIn
        BY <4>1 DEF HandleIn, NextEvent, solutionVars, InEnd
      <4>2. CASE Write
        BY <4>2 DEF Write, localVars, InEnd
      <4>3. CASE WriteDone
        BY <4>3 DEF WriteDone, NextEvent, solutionVars, InEnd
      <4>4. CASE HandleOut
        BY <4>4 DEF HandleOut, solutionVars, localVars, InEnd
      <4>5. CASE Read
        BY <4>5 DEF Read, InEnd
      <4>6. CASE ReadDone
        BY <4>6 DEF ReadDone, NextEvent, solutionVars, InEnd
      <4>7. QED  BY <2>9, <4>1, <4>2, <4>3, <4>4, <4>5, <4>6
    <3>2. QED  BY <3>1 DEF InEnd
  <2>10. CASE WriteFails
    BY <2>10 DEF WriteFails, solutionVars, localVars, InEnd, Down
  <2>11. CASE EndReturn
    <3>1. PICK ok \in BOOLEAN :
              /\ loose' = IF ok THEN loose \ {cur} ELSE loose \cup {cur}
              /\ Answer(cur, discard, ret, RunAfterTalk(ok))
      BY <2>11, Zenon DEF EndReturn
    <3>2. cur \in Solution
      BY <2>0, <2>11 DEF EndReturn, InEnd
    <3>3. RunAfterTalk(ok)[t] = "running"
      BY <2>0, <3>1, <3>2, AnswerRuns, KillerType DEF RunAfterTalk
    <3>4. run[t] = "running" /\ (t = cur => ~ok)
      BY <2>0, <3>2, <3>3, KillerRuns DEF RunAfterTalk
    <3>5. QED  BY <2>11, <3>1, <3>4 DEF EndReturn, InEnd
  <2>12. CASE Expire
    BY <2>12 DEF Expire, solutionVars
  <2>13. ASSUME NEW s \in Solution, SolutionStep(s),
                UNCHANGED <<bufferVars, localVars, pc, reply, sent, loose>>
         PROVE  MayRun(t)'
    <3>1. run[t] = "running"
      BY <2>0, <2>13 DEF SolutionStep, ReadByte, WriteByte, CloseStream, Exit
    <3>2. QED  BY <2>13, <3>1 DEF localVars
  <2>14. CASE UNCHANGED vars
    BY <2>14 DEF vars, solutionVars, localVars
  <2>15. QED
    BY <2>1, <2>2, <2>3, <2>4, <2>5, <2>6, <2>7, <2>8, <2>9, <2>10, <2>11,
       <2>12, <2>13, <2>14 DEF Next, Judge, BrokerStep, Play, Terminated
<1>3. QED  BY <1>1, <1>2, TypeCorrect, PTL DEF Spec

-----------------------------------------------------------------------------
\* end() is in the loop of communicate().
Talking == pc \in {"wait", "events", "write", "read"}

(***************************************************************************)
(* WaitIsArmed is not inductive: a descriptor is unregistered while a      *)
(* batch of events is handled, long before the next wait.  So the whole    *)
(* loop is described: the read end is only unregistered once the tokenizer *)
(* failed, the write end only once there is nothing to write or no reader, *)
(* and an event that will unregister it tells of a reader that has gone    *)
(* and cannot come back.                                                   *)
(***************************************************************************)
ArmedInv ==
    /\ Talking => "out" \in mon \/ tokenizer[cur] # "CONTINUE"
    /\ Talking => "in" \in mon \/ inbuf[cur] = <<>> \/ ~StdinOpen(cur)
    /\ pc = "wait" => tokenizer[cur] = "CONTINUE"
    /\ pc \in {"events", "write", "read"} =>
         \A i \in DOMAIN events :
            events[i].fd = "in" /\ ~events[i].ok => ~StdinOpen(cur)

\* Taking the first event off a batch leaves what is known of the others.
LEMMA TailOfBatch ==
    ASSUME NEW q \in Seq(Event), q # <<>>, NEW P \in BOOLEAN,
           \A i \in DOMAIN q : q[i].fd = "in" /\ ~q[i].ok => P
    PROVE  \A i \in DOMAIN Tail(q) : Tail(q)[i].fd = "in" /\ ~Tail(q)[i].ok => P
<1>1. \A i \in DOMAIN Tail(q) : i + 1 \in DOMAIN q /\ Tail(q)[i] = q[i + 1]
  BY HeadTailProperties
<1>2. QED  BY <1>1

(***************************************************************************)
(* communicate() only waits for events while everything it still needs is  *)
(* registered with epoll.                                                  *)
(***************************************************************************)
THEOREM WaitsForAllItNeeds == Spec => []WaitIsArmed
<1>1. Init => ArmedInv
  BY DEF Init, ArmedInv, Talking
<1>2. TypeOK /\ ArmedInv /\ [Next]_vars => ArmedInv'
  <2> SUFFICES ASSUME TypeOK, ArmedInv, [Next]_vars
               PROVE  ArmedInv'
    OBVIOUS
  <2> USE DEF ArmedInv, Talking
  <2>0. /\ pc \in InEnd => cur \in Solution
        /\ inbuf \in [Solution -> Seq(Nat)]
        /\ tokenizer \in [Solution -> TokenizerStatus \cup {"NULL"}]
        /\ mon \subseteq {"in", "out"}
        /\ events \in Seq(Event)
        /\ pc \in {"write", "read"} => events # <<>>
        /\ run \in [Solution -> RunState]
        /\ closed \in [Solution -> SUBSET {"in", "out"}]
    BY DEF TypeOK, SolutionsTypeOK
  <2>1. CASE pc' \notin InEnd
    BY <2>1 DEF InEnd
  <2>2. ASSUME NEW s \in Solution, NEW disc \in BOOLEAN, EndCommunicate(s, disc)
        PROVE  ArmedInv'
    BY <2>2 DEF EndCommunicate, bufferVars
  <2>3. CASE EpollWait
    <3>1. \A q \in Batches : \A i \in DOMAIN q :
              q[i].fd = "in" /\ ~q[i].ok => ~StdinOpen(cur)
      BY DEF Batches, InEvent, OutEvent
    <3>2. StdinOpen(cur)' = StdinOpen(cur)
      BY <2>3 DEF EpollWait, solutionVars, StdinOpen, Alive
    <3>3. QED  BY <2>3, <3>1, <3>2 DEF EpollWait, bufferVars
  <2>4. CASE TimeLimit
    BY <2>4 DEF TimeLimit
  <2>5. CASE BatchDone
    <3>1. StdinOpen(cur)' = StdinOpen(cur)
      BY <2>5 DEF BatchDone, solutionVars, localVars, StdinOpen, Alive
    <3>2. QED  BY <2>5, <3>1 DEF BatchDone, bufferVars, localVars
  <2>6. CASE HandleIn
    <3>1. StdinOpen(cur)' = StdinOpen(cur)
      BY <2>6 DEF HandleIn, solutionVars, StdinOpen, Alive
    <3>2. CASE ~Head(events).ok /\ NextEvent /\ mon' = mon \ {"in"}
      <4>1. ~StdinOpen(cur)
        BY <2>6, <3>2 DEF HandleIn
      <4>2. QED  BY <2>0, <2>6, <3>1, <3>2, <4>1 DEF HandleIn, NextEvent, bufferVars
    <3>3. CASE Head(events).ok /\ tokenizer[cur] # "CONTINUE" /\ NextEvent
               /\ UNCHANGED mon
      BY <2>0, <2>6, <3>1, <3>3, TailOfBatch DEF HandleIn, NextEvent, bufferVars
    <3>4. CASE Head(events).ok /\ pc' = "write" /\ UNCHANGED <<events, mon>>
      BY <2>6, <3>1, <3>4 DEF HandleIn, bufferVars
    <3>5. QED  BY <2>6, <3>2, <3>3, <3>4, Zenon DEF HandleIn
  <2>7. CASE Write
    <3>1. StdinOpen(cur)' = StdinOpen(cur)
      BY <2>7 DEF Write, localVars, StdinOpen, Alive
    <3>2. "in" \in mon
      BY <2>7 DEF Write
    <3>3. QED  BY <2>7, <3>1, <3>2 DEF Write, localVars
  <2>8. CASE WriteDone
    <3>1. StdinOpen(cur)' = StdinOpen(cur)
      BY <2>8 DEF WriteDone, solutionVars, StdinOpen, Alive
    <3>2. QED  BY <2>0, <2>8, <3>1, TailOfBatch
               DEF WriteDone, NextEvent, StillRegistered, bufferVars
  <2>9. CASE HandleOut
    <3>1. StdinOpen(cur)' = StdinOpen(cur)
      BY <2>9 DEF HandleOut, solutionVars, localVars, StdinOpen, Alive
    <3>2. QED  BY <2>9, <3>1 DEF HandleOut, bufferVars, localVars
  <2>10. CASE Read
    <3>1. StdinOpen(cur)' = StdinOpen(cur)
      BY <2>10 DEF Read, StdinOpen, Alive
    <3>2. QED  BY <2>0, <2>10, <3>1 DEF Read, InEnd
  <2>11. CASE ReadDone
    <3>1. StdinOpen(cur)' = StdinOpen(cur)
      BY <2>11 DEF ReadDone, solutionVars, StdinOpen, Alive
    <3>2. QED  BY <2>0, <2>11, <3>1, TailOfBatch DEF ReadDone, NextEvent, bufferVars
  <2>12. CASE Expire
    <3>1. StdinOpen(cur)' = StdinOpen(cur)
      BY <2>12 DEF Expire, solutionVars, StdinOpen, Alive
    <3>2. QED  BY <2>12, <3>1 DEF Expire, bufferVars
  <2>13. ASSUME NEW s \in Solution, SolutionStep(s),
                UNCHANGED <<bufferVars, localVars, pc, reply, sent, loose>>
         PROVE  ArmedInv'
    <3>1. ASSUME pc \in InEnd
          PROVE  StdinOpen(cur)' => StdinOpen(cur)
      <4>1. /\ run' = run \/ run' = [run EXCEPT ![s] = "exited"]
            /\ closed' = closed
                \/ \E e \in Closable : closed' = [closed EXCEPT ![s] = @ \cup {e}]
            /\ cur' = cur
        BY <2>13, Zenon DEF SolutionStep, ReadByte, WriteByte, CloseStream, Exit, localVars
      <4>2. cur \in Solution
        BY <2>0, <3>1
      <4>3. Alive(cur)' => Alive(cur)
        BY <4>1, <4>2, <2>0 DEF Alive, RunState
      <4>4. "in" \in closed[cur] => "in" \in closed'[cur']
        BY <4>1, <4>2, <2>0
      <4>5. QED  BY <4>3, <4>4 DEF StdinOpen
    <3>2. QED  BY <2>13, <3>1 DEF bufferVars, localVars, InEnd
  <2>14. CASE UNCHANGED vars
    <3>1. StdinOpen(cur)' = StdinOpen(cur)
      BY <2>14 DEF vars, solutionVars, localVars, StdinOpen, Alive
    <3>2. QED  BY <2>14, <3>1 DEF vars, bufferVars, localVars
  <2>15. CASE \/ BootFreeze \/ Misuse \/ JudgeEOF \/ WriteFails \/ EndReturn
              \/ \E s \in Solution, a \in Separators : Begin(s, a)
              \/ \E s \in Solution, n \in 0 .. MaxInput : Send(s, n)
              \/ \E s \in Solution, disc \in BOOLEAN : EndBuffered(s, disc)
              \/ \E s \in Solution : Terminate(s)
    <3>1. pc' \in {"boot", "idle", "exited", "failed", "aborted"}
      BY <2>15 DEF BootFreeze, Misuse, JudgeEOF, WriteFails, EndReturn, Begin, Send,
                   EndBuffered, Terminate, Forget, localVars
    <3>2. QED  BY <2>1, <3>1 DEF InEnd
  <2> HIDE DEF ArmedInv
  <2>16. QED
    BY <2>2, <2>3, <2>4, <2>5, <2>6, <2>7, <2>8, <2>9, <2>10, <2>11, <2>12, <2>13,
       <2>14, <2>15, Zenon DEF Next, Judge, BrokerStep, Play, Terminated
<1>3. ArmedInv => WaitIsArmed
  BY DEF ArmedInv, Talking, WaitIsArmed
<1>4. QED  BY <1>1, <1>2, <1>3, TypeCorrect, PTL DEF Spec

-----------------------------------------------------------------------------
\* Whom a command of the killer kills.
LEMMA KillerKills ==
    ASSUME NEW r \in [Solution -> RunState], NEW s \in Solution, NEW t \in Solution,
           NEW ok \in BOOLEAN, r[t] # "killed"
    PROVE  /\ Frozen(r, s, ok)[t] # "killed" /\ Thawed(r, s, ok)[t] # "killed"
           /\ Killed(r, s, ok)[t] = "killed" => t = s
  BY DEF Frozen, Killed, Thawed, RunState

\* Without tokenizer and leftovers, a solution's output is what its pipe holds.
LEMMA OnlyThePipeIsLeft ==
    ASSUME TypeOK, NEW t \in Solution,
           tokenizer'[t] = "NULL", outbuf'[t] = <<>>, pipeOut' = pipeOut
    PROVE  OutputFlow(t)' = pipeOut[t]
<1>1. pipeOut[t] \in Seq(Nat)
  BY DEF TypeOK, SolutionsTypeOK
<1>2. Collected(t)' = <<>>
  BY DEF Collected
<1>3. \A q \in Seq(Nat) : <<>> \o <<>> \o q = q
  OBVIOUS
<1>4. OutputFlow(t)' = <<>> \o <<>> \o pipeOut[t]
  BY <1>2 DEF OutputFlow
<1>5. QED  BY <1>1, <1>3, <1>4

\* A solution that end() kills is the one it answers for, and is forgotten.
LEMMA AnswerForgets ==
    ASSUME TypeOK, NEW s \in Solution, NEW t \in Solution, NEW disc, NEW status,
           NEW r \in [Solution -> RunState], Answer(s, disc, status, r),
           r[t] # "killed", run'[t] = "killed"
    PROVE  OutputFlow(t)' = pipeOut[t]
<1>1. status # "OK"
  BY Zenon DEF Answer
<1>2. /\ \E ok \in BOOLEAN : run' = Killed(r, s, ok)
      /\ outbuf' = [outbuf EXCEPT ![s] = <<>>]
      /\ tokenizer' = [tokenizer EXCEPT ![s] = "NULL"]
      /\ pipeOut' = pipeOut
  BY <1>1, Zenon DEF Answer, Forget
<1>3. t = s
  BY <1>2, KillerKills
<1>4. tokenizer'[t] = "NULL" /\ outbuf'[t] = <<>>
  BY <1>2, <1>3 DEF TypeOK
<1>5. QED  BY <1>2, <1>4, OnlyThePipeIsLeft

(***************************************************************************)
(* Whichever way a solution is killed - by TERMINATE, by an END with or    *)
(* without communication - neither token nor leftovers of its output       *)
(* remain, only what is in its pipe, for any sizes.                        *)
(***************************************************************************)
THEOREM KillingForgetsTheOutput == Spec => KilledLeavesItsPipeOnly
<1> USE SolutionsAssumption, BrokerAssumption
<1> DEFINE Step == \A s \in Solution : run[s] # "killed" /\ run'[s] = "killed"
                                        => OutputFlow(s)' = pipeOut[s]
<1>1. TypeOK /\ [Next]_vars => Step
  <2> SUFFICES ASSUME TypeOK, [Next]_vars, NEW t \in Solution,
                      run[t] # "killed", run'[t] = "killed"
               PROVE  OutputFlow(t)' = pipeOut[t]
    OBVIOUS
  <2>0. /\ run \in [Solution -> RunState]
        /\ tokenizer \in [Solution -> TokenizerStatus \cup {"NULL"}]
        /\ outbuf \in [Solution -> Seq(Nat)]
        /\ pc \in InEnd \cup {"boot"} => cur \in Solution
    BY DEF TypeOK, SolutionsTypeOK
  <2>1. run' # run
    OBVIOUS
  <2>2. CASE BootFreeze
    <3>1. \E ok \in BOOLEAN : run' = Frozen(run, cur, ok)
      BY <2>2, Zenon DEF BootFreeze
    <3>2. cur \in Solution
      BY <2>0, <2>2 DEF BootFreeze
    <3>3. QED  BY <2>0, <3>1, <3>2, KillerKills
  <2>3. ASSUME NEW s \in Solution, NEW disc \in BOOLEAN, EndBuffered(s, disc)
        PROVE  OutputFlow(t)' = pipeOut[t]
    <3>1. PICK status : Answer(s, disc, status, run)
      BY <2>3, Zenon DEF EndBuffered
    <3>2. QED  BY <2>0, <3>1, AnswerForgets
  <2>4. ASSUME NEW s \in Solution, NEW disc \in BOOLEAN, EndCommunicate(s, disc)
        PROVE  OutputFlow(t)' = pipeOut[t]
    <3>1. \E ok \in BOOLEAN : run' = Thawed(run, s, ok)
      BY <2>4, Zenon DEF EndCommunicate
    <3>2. QED  BY <2>0, <3>1, KillerKills
  <2>5. ASSUME NEW s \in Solution, Terminate(s)
        PROVE  OutputFlow(t)' = pipeOut[t]
    <3>1. /\ \E ok \in BOOLEAN : run' = Killed(run, s, ok)
          /\ outbuf' = [outbuf EXCEPT ![s] = <<>>]
          /\ tokenizer' = [tokenizer EXCEPT ![s] = "NULL"]
          /\ pipeOut' = pipeOut
      BY <2>5, Zenon DEF Terminate, Forget
    <3>2. t = s
      BY <2>0, <3>1, KillerKills
    <3>3. tokenizer'[t] = "NULL" /\ outbuf'[t] = <<>>
      BY <2>0, <3>1, <3>2
    <3>4. QED  BY <3>1, <3>3, OnlyThePipeIsLeft
  <2>6. CASE EndReturn
    <3>1. PICK ok \in BOOLEAN : Answer(cur, discard, ret, RunAfterTalk(ok))
      BY <2>6, Zenon DEF EndReturn
    <3>2. cur \in Solution
      BY <2>0, <2>6 DEF EndReturn, InEnd
    <3>3. RunAfterTalk(ok) \in [Solution -> RunState] /\ RunAfterTalk(ok)[t] # "killed"
      BY <2>0, <3>2, KillerType, KillerKills DEF RunAfterTalk
    <3>4. QED  BY <3>1, <3>2, <3>3, AnswerForgets
  <2>7. ASSUME NEW s \in Solution, SolutionStep(s)
        PROVE  OutputFlow(t)' = pipeOut[t]
    <3>1. run' = run \/ run' = [run EXCEPT ![s] = "exited"]
      BY <2>7, Zenon DEF SolutionStep, ReadByte, WriteByte, CloseStream, Exit
    <3>2. QED  BY <2>0, <3>1
  <2>8. CASE \/ EpollWait \/ TimeLimit \/ BatchDone \/ HandleIn \/ Write
             \/ WriteFails \/ WriteDone \/ HandleOut \/ Read \/ ReadDone
    BY <2>1, <2>8, Zenon DEF EpollWait, TimeLimit, BatchDone, HandleIn, Write, WriteFails,
          WriteDone, HandleOut, Read, ReadDone, solutionVars
  <2>9. CASE \/ Misuse \/ JudgeEOF \/ Expire \/ UNCHANGED vars
             \/ \E s \in Solution, a \in Separators : Begin(s, a)
             \/ \E s \in Solution, n \in 0 .. MaxInput : Send(s, n)
    BY <2>1, <2>9, Zenon DEF Misuse, JudgeEOF, Expire, Begin, Send, solutionVars, vars
  <2>10. QED
    BY <2>2, <2>3, <2>4, <2>5, <2>6, <2>7, <2>8, <2>9, Zenon
    DEF Next, Judge, BrokerStep, Play, Terminated
<1>2. QED  BY <1>1, TypeCorrect, PTL DEF Spec, KilledLeavesItsPipeOnly

-----------------------------------------------------------------------------
\* How end() changes the buffers of the solution it answers for.
LEMMA AnswerBuffers ==
    ASSUME NEW s \in Solution, NEW disc, NEW status, NEW r, Answer(s, disc, status, r)
    PROVE  /\ tokenizer' = [tokenizer EXCEPT ![s] = "NULL"]
           /\ inbuf' = inbuf \/ inbuf' = [inbuf EXCEPT ![s] = <<>>]
           /\ outbuf' = outbuf \/ outbuf' = [outbuf EXCEPT ![s] = <<>>]
           /\ UNCHANGED <<result, pipeIn, pipeOut, written, lastRead, sent>>
  BY Zenon DEF Answer, Forget

-----------------------------------------------------------------------------

\* Concatenation of byte sequences is associative.
LEMMA ConcatNat ==
    ASSUME NEW p \in Seq(Nat), NEW q \in Seq(Nat), NEW r \in Seq(Nat)
    PROVE  (p \o q) \o r = p \o (q \o r)
  BY ConcatAssociative, SMTT(60)

\* The end of a run of consecutive bytes is such a run too ...
LEMMA SuffixEndsAt ==
    \A p, q \in Seq(Nat), n \in Nat : EndsAt(p \o q, n) => EndsAt(q, n)
<1>1. SUFFICES ASSUME NEW p, NEW q, NEW n,
                      p \in Seq(Nat), q \in Seq(Nat), n \in Nat,
                      EndsAt(p \o q, n)
               PROVE  EndsAt(q, n)
  BY Zenon
<1>2. SUFFICES ASSUME NEW i, i \in DOMAIN q
               PROVE  q[i] + Len(q) = n + i
  BY Zenon DEF EndsAt
<1>3. Len(p) \in Nat /\ Len(q) \in Nat /\ i \in 1 .. Len(q) /\ q[i] \in Nat
  BY <1>1, <1>2
<1>4. /\ Len(p \o q) = Len(p) + Len(q)
      /\ Len(p) + i \in DOMAIN (p \o q)
      /\ (p \o q)[Len(p) + i] = q[i]
  BY <1>1, <1>3, ConcatProperties, LenProperties
<1>5. q[i] + (Len(p) + Len(q)) = n + (Len(p) + i)
  BY <1>1, <1>4 DEF EndsAt
<1>6. n \in Nat /\ i \in Nat
  BY <1>1, <1>3
<1>7. QED  BY <1>3, <1>5, <1>6

\* ... and so is the run with the next byte appended.
LEMMA AppendEndsAt ==
    \A q \in Seq(Nat), n \in Nat : EndsAt(q, n) => EndsAt(Append(q, n + 1), n + 1)
<1>1. SUFFICES ASSUME NEW q, NEW n,
                      q \in Seq(Nat), n \in Nat, EndsAt(q, n)
               PROVE  EndsAt(Append(q, n + 1), n + 1)
  BY Zenon
<1>2. SUFFICES ASSUME NEW i, i \in DOMAIN Append(q, n + 1)
               PROVE  Append(q, n + 1)[i] + Len(Append(q, n + 1)) = n + 1 + i
  BY Zenon DEF EndsAt
<1>3. /\ Len(q) \in Nat /\ Len(Append(q, n + 1)) = Len(q) + 1
      /\ i \in 1 .. Len(q) + 1
  BY <1>1, <1>2, AppendProperties, LenProperties
<1>4. n \in Nat /\ i \in Nat
  BY <1>1, <1>3
<1>5. CASE i = Len(q) + 1
  <2>1. Append(q, n + 1)[i] = n + 1
    BY <1>1, <1>5, AppendProperties
  <2>2. QED  BY <1>3, <1>4, <1>5, <2>1
<1>6. CASE i \in 1 .. Len(q)
  <2>1. Append(q, n + 1)[i] = q[i] /\ q[i] \in Nat
    BY <1>1, <1>6, AppendProperties, ElementOfSeq
  <2>2. q[i] + Len(q) = n + i
    BY <1>1, <1>6, LenProperties DEF EndsAt
  <2>3. q[i] + (Len(q) + 1) = n + 1 + i
    BY <1>3, <1>4, <2>1, <2>2
  <2>4. QED  BY <1>3, <2>1, <2>3, Zenon
<1>7. QED  BY <1>3, <1>5, <1>6

(***************************************************************************)
(* Output bytes can only be overtaken when some are left in outbuf while   *)
(* read() adds to result: as long as the tokenizer goes on, outbuf is      *)
(* empty.  And what is on its way was written.                             *)
(***************************************************************************)
OutputFits == \A s \in Solution : Len(OutputFlow(s)) <= Len(written[s])

OutputInv ==
    /\ OutputInOrder
    /\ OutputFits
    /\ \A s \in Solution : tokenizer[s] = "CONTINUE" => outbuf[s] = <<>>

\* The part of TypeOK the order of the output rests on.
OutputTypes ==
    /\ result \in [Solution -> Seq(Nat)]
    /\ outbuf \in [Solution -> Seq(Nat)]
    /\ pipeOut \in [Solution -> Seq(Nat)]
    /\ written \in [Solution -> Seq(Chars)]

\* The output on its way is a sequence of byte numbers.
LEMMA OutputFlowType ==
    ASSUME OutputTypes, NEW s \in Solution
    PROVE  /\ Collected(s) \in Seq(Nat)
           /\ Collected(s) \o outbuf[s] \in Seq(Nat)
           /\ OutputFlow(s) \in Seq(Nat)
<1>1. Collected(s) \in Seq(Nat) /\ outbuf[s] \in Seq(Nat) /\ pipeOut[s] \in Seq(Nat)
  BY DEF Collected, OutputTypes
<1>2. QED  BY <1>1, ConcatProperties DEF OutputFlow

\* A step that only takes bytes off the front of the output keeps the order.
LEMMA ShrinkingFlow ==
    ASSUME OutputTypes, OutputTypes', OutputInOrder, OutputFits, UNCHANGED written,
           \A s \in Solution : \E p \in Seq(Nat) : OutputFlow(s) = p \o OutputFlow(s)'
    PROVE  OutputInOrder' /\ OutputFits'
<1> SUFFICES ASSUME NEW s \in Solution
             PROVE  /\ EndsAt(OutputFlow(s), Len(written[s]))'
                    /\ Len(OutputFlow(s)') <= Len(written'[s])
  BY DEF OutputInOrder, OutputFits
<1>1. Len(written[s]) \in Nat
  BY DEF OutputTypes
<1>2. EndsAt(OutputFlow(s), Len(written[s]))
  BY DEF OutputInOrder
<1>3. OutputFlow(s)' \in Seq(Nat)
  <2>1. Collected(s)' \in Seq(Nat) /\ outbuf'[s] \in Seq(Nat) /\ pipeOut'[s] \in Seq(Nat)
    BY DEF Collected, OutputTypes
  <2>2. QED  BY <2>1, ConcatProperties DEF OutputFlow
<1>4. EndsAt(OutputFlow(s)', Len(written[s]))
  BY <1>1, <1>2, <1>3, SuffixEndsAt
<1>5. Len(OutputFlow(s)') <= Len(written[s])
  <2>1. PICK p \in Seq(Nat) : OutputFlow(s) = p \o OutputFlow(s)'
    OBVIOUS
  <2>2. /\ Len(OutputFlow(s)) = Len(p) + Len(OutputFlow(s)')
        /\ Len(p) \in Nat /\ Len(OutputFlow(s)') \in Nat
    BY <1>3, <2>1, ConcatProperties, LenProperties
  <2>3. Len(OutputFlow(s)) <= Len(written[s])
    BY DEF OutputFits
  <2>4. QED  BY <1>1, <2>2, <2>3
<1>6. QED  BY <1>4, <1>5 DEF EndsAt

\* So does a step that leaves the output alone.
LEMMA UnchangedFlow ==
    ASSUME OutputInv, UNCHANGED <<tokenizer, result, outbuf, pipeOut, written>>
    PROVE  OutputInv'
  BY DEF OutputInv, OutputInOrder, OutputFits, EndsAt, OutputFlow, Collected

\* Closing an iteration, or giving a solution up, drops result and maybe outbuf.
LEMMA ClosedFlow ==
    ASSUME OutputTypes, OutputTypes', OutputInv, NEW s \in Solution,
           tokenizer \in [Solution -> TokenizerStatus \cup {"NULL"}],
           tokenizer' = [tokenizer EXCEPT ![s] = "NULL"],
           outbuf' = outbuf \/ outbuf' = [outbuf EXCEPT ![s] = <<>>],
           UNCHANGED <<result, pipeOut, written>>
    PROVE  OutputInv'
<1>1. ASSUME NEW t \in Solution
      PROVE  \E p \in Seq(Nat) : OutputFlow(t) = p \o OutputFlow(t)'
  <2>1. /\ Collected(t) \in Seq(Nat) /\ Collected(t) \o outbuf[t] \in Seq(Nat)
        /\ outbuf[t] \in Seq(Nat) /\ pipeOut[t] \in Seq(Nat)
        /\ OutputFlow(t) \in Seq(Nat)
    BY OutputFlowType DEF OutputTypes
  <2>2. CASE t = s
    <3>1. OutputFlow(t)' = outbuf'[t] \o pipeOut[t]
      BY <2>1, <2>2, ConcatEmptySeq DEF OutputFlow, Collected, OutputTypes
    <3>2. CASE outbuf' = outbuf
      <4>1. (Collected(t) \o outbuf[t]) \o pipeOut[t]
                = Collected(t) \o (outbuf[t] \o pipeOut[t])
        BY <2>1, ConcatNat, ZenonT(60)
      <4>2. OutputFlow(t) = Collected(t) \o OutputFlow(t)'
        BY <3>1, <3>2, <4>1, Zenon DEF OutputFlow
      <4>3. QED  BY <2>1, <4>2
    <3>3. CASE outbuf' = [outbuf EXCEPT ![s] = <<>>]
      <4>1. outbuf'[t] = <<>>
        BY <2>2, <3>3 DEF OutputTypes
      <4>2. OutputFlow(t)' = pipeOut[t]
        BY <2>1, <3>1, <4>1, ConcatEmptySeq
      <4>3. QED  BY <2>1, <4>2 DEF OutputFlow
    <3>4. QED  BY <3>2, <3>3
  <2>3. CASE t # s
    <3>1. OutputFlow(t)' = OutputFlow(t)
      BY <2>3 DEF OutputFlow, Collected, OutputTypes
    <3>2. OutputFlow(t) = <<>> \o OutputFlow(t)
      BY <2>1, ConcatEmptySeq
    <3>3. QED  BY <3>1, <3>2, EmptySeq
  <2>4. QED  BY <2>2, <2>3
<1>2. OutputInOrder' /\ OutputFits'
  BY <1>1, ShrinkingFlow DEF OutputInv
<1>3. \A t \in Solution : tokenizer'[t] = "CONTINUE" => outbuf'[t] = <<>>
  BY DEF OutputInv, OutputTypes
<1>4. QED  BY <1>2, <1>3 DEF OutputInv

-----------------------------------------------------------------------------
\* The empty buffer.
LEMMA EmptyIsNeutral ==
    ASSUME NEW q \in Seq(Nat)
    PROVE  <<>> \in Seq(Nat) /\ <<>> \o q = q /\ q \o <<>> = q
  BY ConcatEmptySeq, EmptySeq

\* Moving nothing, and moving everything.
LEMMA SplitEnds ==
    ASSUME NEW q \in Seq(Nat)
    PROVE  /\ Rest(q, 0) = q
           /\ Front(q, 0) = <<>>
           /\ Front(q, Len(q)) = q
           /\ Rest(q, Len(q)) = <<>>
<1>1. Rest(q, 0) = q /\ Front(q, Len(q)) = q
  BY SubSeqFull DEF Rest, Front
<1>2. Len(q) \in Int
  OBVIOUS
<1>3. Front(q, 0) = <<>> /\ Rest(q, Len(q)) = <<>>
  BY <1>2, SubSeqEmpty DEF Front, Rest
<1>4. QED  BY <1>1, <1>3

\* begin() moves bytes from outbuf to result, in order.
LEMMA BeginKeeps ==
    ASSUME TypeOK, OutputTypes, OutputTypes',
           NEW s \in Solution, NEW a \in Separators, Begin(s, a)
    PROVE  \A t \in Solution : OutputFlow(t)' = OutputFlow(t)
<1> DEFINE k == Taken(s, a, outbuf[s])
           status == Verdict(s, a, outbuf[s])
<1>1. outbuf[s] \in Seq(Nat)
  BY DEF OutputTypes
<1>2. \/ status = "CONTINUE" /\ k = Len(outbuf[s])
      \/ status = "ACCEPTED" /\ k \in 1 .. Len(outbuf[s])
      \/ status = "FAIL" /\ k = 0
  BY <1>1, VerdictCases
<1>3. k \in 0 .. Len(outbuf[s])
  BY <1>1, <1>2
<1>4. /\ tokenizer[s] = "NULL"
      /\ tokenizer' = [tokenizer EXCEPT ![s] = status]
      /\ result' = [result EXCEPT ![s] = Front(outbuf[s], k)]
      /\ outbuf' = [outbuf EXCEPT ![s] = Rest(outbuf[s], k)]
      /\ UNCHANGED <<pipeOut, written>>
  BY DEF Begin, Leftover, solutionVars, TypeOK, OutputTypes
<1> HIDE DEF k, status
<1>5. tokenizer \in [Solution -> TokenizerStatus \cup {"NULL"}]
  BY DEF TypeOK
<1>6. ASSUME NEW t \in Solution
      PROVE  OutputFlow(t)' = OutputFlow(t)
  <2>1. CASE t = s
    <3>1. OutputFlow(t) = outbuf[s] \o pipeOut[s]
      BY <1>1, <1>4, <2>1, EmptyIsNeutral DEF OutputFlow, Collected
    <3>2. /\ tokenizer'[s] = status
          /\ result'[s] = Front(outbuf[s], k)
          /\ outbuf'[s] = Rest(outbuf[s], k)
      BY <1>4, <1>5 DEF OutputTypes
    <3>3. CASE status = "FAIL"
      <4>1. outbuf'[s] = outbuf[s]
        BY <1>1, <1>2, <3>2, <3>3, SplitEnds
      <4>2. Collected(t)' = <<>>
        BY <2>1, <3>2, <3>3 DEF Collected
      <4>3. OutputFlow(t)' = (<<>> \o outbuf[s]) \o pipeOut[s]
        BY <1>4, <2>1, <4>1, <4>2 DEF OutputFlow
      <4>4. QED  BY <1>1, <3>1, <4>3, EmptyIsNeutral
    <3>4. CASE status # "FAIL"
      <4>1. Collected(t)' = Front(outbuf[s], k)
        BY <1>2, <2>1, <3>2, <3>4 DEF Collected
      <4>2. Front(outbuf[s], k) \o Rest(outbuf[s], k) = outbuf[s]
        BY <1>1, <1>3, SplitQueue
      <4>3. QED  BY <1>4, <2>1, <3>1, <3>2, <4>1, <4>2 DEF OutputFlow
    <3>5. QED  BY <3>3, <3>4
  <2>2. CASE t # s
    BY <1>4, <1>5, <2>2 DEF OutputFlow, Collected, OutputTypes
  <2>3. QED  BY <2>1, <2>2
<1>7. QED  BY <1>6

LEMMA BeginFlow ==
    ASSUME TypeOK, OutputTypes, OutputTypes', OutputInv,
           NEW s \in Solution, NEW a \in Separators, Begin(s, a)
    PROVE  OutputInv'
<1> DEFINE k == Taken(s, a, outbuf[s])
           status == Verdict(s, a, outbuf[s])
<1>1. outbuf[s] \in Seq(Nat)
  BY DEF OutputTypes
<1>2. \/ status = "CONTINUE" /\ k = Len(outbuf[s])
      \/ status = "ACCEPTED" /\ k \in 1 .. Len(outbuf[s])
      \/ status = "FAIL" /\ k = 0
  BY <1>1, VerdictCases
<1>3. /\ tokenizer' = [tokenizer EXCEPT ![s] = status]
      /\ outbuf' = [outbuf EXCEPT ![s] = Rest(outbuf[s], k)]
      /\ UNCHANGED written
  BY DEF Begin, Leftover, solutionVars, TypeOK, OutputTypes
<1> HIDE DEF k, status
<1>4. tokenizer \in [Solution -> TokenizerStatus \cup {"NULL"}]
  BY DEF TypeOK
<1>5. OutputInOrder' /\ OutputFits'
  BY <1>3, BeginKeeps DEF OutputInv, OutputInOrder, OutputFits, EndsAt
<1>6. \A t \in Solution : tokenizer'[t] = "CONTINUE" => outbuf'[t] = <<>>
  <2> SUFFICES ASSUME NEW t \in Solution, tokenizer'[t] = "CONTINUE"
               PROVE  outbuf'[t] = <<>>
    OBVIOUS
  <2>1. CASE t = s
    <3>1. k = Len(outbuf[s])
      BY <1>2, <1>3, <1>4, <2>1
    <3>2. QED  BY <1>1, <1>3, <2>1, <3>1, SplitEnds DEF OutputTypes
  <2>2. CASE t # s
    BY <1>3, <1>4, <2>2 DEF OutputInv, OutputTypes
  <2>3. QED  BY <2>1, <2>2
<1>7. QED  BY <1>5, <1>6 DEF OutputInv

\* One read() of communicate().
Chunk == Front(pipeOut[cur], Least(BufSize, Len(pipeOut[cur])))

LEMMA ReadParts ==
    ASSUME TypeOK, OutputTypes, Read
    PROVE  /\ cur \in Solution /\ tokenizer[cur] = "CONTINUE"
           /\ Chunk \in Seq(Nat) /\ result[cur] \in Seq(Nat) /\ pipeOut'[cur] \in Seq(Nat)
           /\ pipeOut[cur] = Chunk \o pipeOut'[cur]
           /\ tokenizer'[cur] = Verdict(cur, separator[cur], Chunk)
           /\ result'[cur] = result[cur] \o Front(Chunk, Taken(cur, separator[cur], Chunk))
           /\ outbuf'[cur] = IF tokenizer'[cur] = "ACCEPTED"
                             THEN outbuf[cur] \o Rest(Chunk, Taken(cur, separator[cur], Chunk))
                             ELSE outbuf[cur]
           /\ \A t \in Solution \ {cur} : /\ tokenizer'[t] = tokenizer[t]
                                          /\ result'[t] = result[t]
                                          /\ outbuf'[t] = outbuf[t]
                                          /\ pipeOut'[t] = pipeOut[t]
           /\ separator' = separator /\ written' = written
<1> DEFINE size == Least(BufSize, Len(pipeOut[cur]))
           a == separator[cur]
           k == Taken(cur, a, Chunk)
<1>1. cur \in Solution /\ pipeOut[cur] \in Seq(Nat) /\ result[cur] \in Seq(Nat)
  BY DEF Read, TypeOK, InEnd, OutputTypes
<1>2. size \in 0 .. Len(pipeOut[cur])
  <2>1. Len(pipeOut[cur]) \in Nat /\ BufSize \in Nat
    BY <1>1, LenProperties, BrokerAssumption
  <2>2. QED  BY <2>1 DEF Least
<1>3. /\ tokenizer[cur] = "CONTINUE"
      /\ tokenizer' = [tokenizer EXCEPT ![cur] = Verdict(cur, a, Chunk)]
      /\ result' = [result EXCEPT ![cur] = result[cur] \o Front(Chunk, k)]
      /\ outbuf' = IF Verdict(cur, a, Chunk) = "ACCEPTED"
                   THEN [outbuf EXCEPT ![cur] = outbuf[cur] \o Rest(Chunk, k)] ELSE outbuf
      /\ pipeOut' = [pipeOut EXCEPT ![cur] = Rest(pipeOut[cur], size)]
      /\ separator' = separator /\ written' = written
  BY DEF Read, Chunk, TypeOK, OutputTypes
<1>4. /\ Chunk \in Seq(Nat) /\ Rest(pipeOut[cur], size) \in Seq(Nat)
      /\ Chunk \o Rest(pipeOut[cur], size) = pipeOut[cur]
  <2> HIDE DEF size
  <2>1. Chunk = Front(pipeOut[cur], size)
    BY DEF Chunk, size
  <2>2. QED  BY <1>1, <1>2, <2>1, SplitQueue
<1>5. tokenizer \in [Solution -> TokenizerStatus \cup {"NULL"}]
  BY DEF TypeOK
<1> HIDE DEF size, k, a
<1>6. /\ tokenizer'[cur] = Verdict(cur, a, Chunk)
      /\ result'[cur] = result[cur] \o Front(Chunk, k)
      /\ pipeOut'[cur] = Rest(pipeOut[cur], size)
      /\ outbuf'[cur] = IF Verdict(cur, a, Chunk) = "ACCEPTED"
                        THEN outbuf[cur] \o Rest(Chunk, k) ELSE outbuf[cur]
      /\ \A t \in Solution \ {cur} : /\ tokenizer'[t] = tokenizer[t]
                                     /\ result'[t] = result[t]
                                     /\ outbuf'[t] = outbuf[t]
                                     /\ pipeOut'[t] = pipeOut[t]
  BY <1>1, <1>3, <1>5 DEF OutputTypes
<1>7. QED  BY <1>1, <1>3, <1>4, <1>6 DEF k, a

\* A read() moves bytes from the pipe to result and outbuf, in order; only a
\* failing tokenizer drops them.
LEMMA ReadKeeps ==
    ASSUME TypeOK, OutputTypes, OutputTypes', OutputInv, Read
    PROVE  /\ \A t \in Solution \ {cur} : OutputFlow(t)' = OutputFlow(t)
           /\ tokenizer'[cur] # "FAIL" => OutputFlow(cur)' = OutputFlow(cur)
           /\ OutputFlow(cur) = result[cur] \o (Chunk \o pipeOut'[cur])
           /\ tokenizer'[cur] = "FAIL" => OutputFlow(cur)' = pipeOut'[cur]
           /\ outbuf[cur] = <<>>
<1> DEFINE status == tokenizer'[cur]
           k == Taken(cur, separator[cur], Chunk)
           rest == pipeOut'[cur]
           front == Front(Chunk, k)
           back == Rest(Chunk, k)
<1>1. /\ cur \in Solution /\ tokenizer[cur] = "CONTINUE"
      /\ Chunk \in Seq(Nat) /\ result[cur] \in Seq(Nat) /\ rest \in Seq(Nat)
      /\ pipeOut[cur] = Chunk \o rest
      /\ status = Verdict(cur, separator[cur], Chunk)
      /\ result'[cur] = result[cur] \o front
      /\ outbuf'[cur] = IF status = "ACCEPTED" THEN outbuf[cur] \o back ELSE outbuf[cur]
      /\ \A t \in Solution \ {cur} : /\ tokenizer'[t] = tokenizer[t]
                                     /\ result'[t] = result[t]
                                     /\ outbuf'[t] = outbuf[t]
                                     /\ pipeOut'[t] = pipeOut[t]
  BY ReadParts
<1>2. \/ status = "CONTINUE" /\ k = Len(Chunk)
      \/ status = "ACCEPTED" /\ k \in 1 .. Len(Chunk)
      \/ status = "FAIL" /\ k = 0
  BY <1>1, VerdictCases
<1>3. k \in 0 .. Len(Chunk)
  <2>1. Len(Chunk) \in Nat
    BY <1>1, LenProperties
  <2>2. QED  BY <1>2, <2>1
<1> HIDE DEF status, k, rest
<1>4. /\ front \in Seq(Nat) /\ back \in Seq(Nat) /\ front \o back = Chunk
      /\ status = "CONTINUE" => front = Chunk /\ back = <<>>
  BY <1>1, <1>2, <1>3, SplitQueue, SplitEnds
<1> HIDE DEF front, back
<1>5. outbuf[cur] = <<>>
  BY <1>1 DEF OutputInv
<1>6. \A t \in Solution \ {cur} : OutputFlow(t)' = OutputFlow(t)
  BY <1>1 DEF OutputFlow, Collected
<1>7. OutputFlow(cur) = result[cur] \o (Chunk \o rest)
  BY <1>1, <1>5, EmptyIsNeutral DEF OutputFlow, Collected
<1>8. ASSUME status = "FAIL" PROVE OutputFlow(cur)' = rest
  <2>1. Collected(cur)' = <<>> /\ outbuf'[cur] = <<>>
    BY <1>1, <1>5, <1>8 DEF Read, Collected, status
  <2>2. OutputFlow(cur)' = (<<>> \o <<>>) \o rest
    BY <2>1 DEF Read, OutputFlow, Collected, status, rest
  <2>3. QED  BY <1>1, <2>2, EmptyIsNeutral
<1>9. ASSUME status # "FAIL" PROVE OutputFlow(cur)' = OutputFlow(cur)
  <2>1. result'[cur] = result[cur] \o front /\ status \in {"CONTINUE", "ACCEPTED"}
    BY <1>1, <1>2, <1>9
  <2>2. outbuf'[cur] = back
    BY <1>1, <1>2, <1>4, <1>5, <1>9, EmptyIsNeutral
  <2>3. cur' = cur
    BY DEF Read
  <2>4. OutputFlow(cur)' = ((result[cur] \o front) \o back) \o rest
    BY <2>1, <2>2, <2>3 DEF OutputFlow, Collected, status, rest
  <2>5. (result[cur] \o front) \o back = result[cur] \o Chunk
    BY <1>1, <1>4, ConcatNat, ZenonT(60)
  <2>6. (result[cur] \o Chunk) \o rest = result[cur] \o (Chunk \o rest)
    BY <1>1, ConcatNat, ZenonT(60)
  <2>7. QED  BY <1>7, <2>4, <2>5, <2>6
<1>10. QED  BY <1>5, <1>6, <1>7, <1>8, <1>9 DEF status, rest

LEMMA ReadFlow ==
    ASSUME TypeOK, OutputTypes, OutputTypes', OutputInv, Read
    PROVE  OutputInv'
<1>1. /\ cur \in Solution /\ written' = written
      /\ Chunk \in Seq(Nat) /\ result[cur] \in Seq(Nat) /\ pipeOut'[cur] \in Seq(Nat)
      /\ outbuf'[cur] = IF tokenizer'[cur] = "ACCEPTED"
                        THEN outbuf[cur] \o Rest(Chunk, Taken(cur, separator[cur], Chunk))
                        ELSE outbuf[cur]
      /\ \A t \in Solution \ {cur} : tokenizer'[t] = tokenizer[t] /\ outbuf'[t] = outbuf[t]
  BY ReadParts
<1>2. /\ \A t \in Solution \ {cur} : OutputFlow(t)' = OutputFlow(t)
      /\ tokenizer'[cur] # "FAIL" => OutputFlow(cur)' = OutputFlow(cur)
      /\ OutputFlow(cur) = result[cur] \o (Chunk \o pipeOut'[cur])
      /\ tokenizer'[cur] = "FAIL" => OutputFlow(cur)' = pipeOut'[cur]
      /\ outbuf[cur] = <<>>
  BY ReadKeeps
<1>3. ASSUME NEW t \in Solution, OutputFlow(t)' = OutputFlow(t)
      PROVE  \E p \in Seq(Nat) : OutputFlow(t) = p \o OutputFlow(t)'
  <2>1. OutputFlow(t) = <<>> \o OutputFlow(t)'
    BY <1>3, OutputFlowType, EmptyIsNeutral
  <2>2. QED  BY <2>1, EmptySeq
<1>4. ASSUME tokenizer'[cur] = "FAIL"
      PROVE  \E p \in Seq(Nat) : OutputFlow(cur) = p \o pipeOut'[cur]
  <2> DEFINE rest == pipeOut'[cur]
  <2>1. rest \in Seq(Nat) /\ OutputFlow(cur) = result[cur] \o (Chunk \o rest)
    BY <1>1, <1>2
  <2> HIDE DEF rest
  <2>2. result[cur] \o Chunk \in Seq(Nat)
    BY <1>1, ConcatProperties
  <2>3. OutputFlow(cur) = (result[cur] \o Chunk) \o rest
    BY <1>1, <2>1, ConcatNat, ZenonT(60)
  <2>4. QED  BY <2>2, <2>3 DEF rest
<1>5. \A t \in Solution : \E p \in Seq(Nat) : OutputFlow(t) = p \o OutputFlow(t)'
  <2> SUFFICES ASSUME NEW t \in Solution
               PROVE  \E p \in Seq(Nat) : OutputFlow(t) = p \o OutputFlow(t)'
    OBVIOUS
  <2>1. CASE t = cur /\ tokenizer'[cur] = "FAIL"
    BY <1>2, <1>4, <2>1 DEF Read
  <2>2. CASE t # cur \/ tokenizer'[cur] # "FAIL"
    BY <1>2, <1>3, <2>2 DEF Read
  <2>3. QED  BY <2>1, <2>2
<1>6. OutputInOrder' /\ OutputFits'
  BY <1>1, <1>5, ShrinkingFlow DEF OutputInv
<1>7. \A t \in Solution : tokenizer'[t] = "CONTINUE" => outbuf'[t] = <<>>
  BY <1>1, <1>2 DEF OutputInv
<1>8. QED  BY <1>6, <1>7 DEF OutputInv

\* A byte the solution writes goes to the end.
LEMMA WriteByteFlow ==
    ASSUME TypeOK, OutputTypes, OutputInv, NEW s \in Solution, NEW c \in Chars,
           WriteByte(s, c), UNCHANGED bufferVars
    PROVE  OutputInv'
<1> DEFINE n == Len(written[s])
<1>1. /\ Len(written'[s]) = n + 1 /\ n \in Nat
      /\ pipeOut' = [pipeOut EXCEPT ![s] = Append(pipeOut[s], n + 1)]
      /\ UNCHANGED <<tokenizer, result, outbuf>>
      /\ \A t \in Solution \ {s} : written'[t] = written[t]
  BY DEF WriteByte, bufferVars, OutputTypes
<1> HIDE DEF n
<1> SUFFICES ASSUME NEW t \in Solution
             PROVE  /\ EndsAt(OutputFlow(t), Len(written[t]))'
                    /\ Len(OutputFlow(t)') <= Len(written'[t])
  BY <1>1 DEF OutputInv, OutputInOrder, OutputFits
<1>2. EndsAt(OutputFlow(t), Len(written[t])) /\ Len(OutputFlow(t)) <= Len(written[t])
  BY DEF OutputInv, OutputInOrder, OutputFits
<1>3. CASE t = s
  <2> DEFINE c0 == Collected(s) \o outbuf[s]
  <2>1. c0 \in Seq(Nat) /\ pipeOut[s] \in Seq(Nat) /\ OutputFlow(s) \in Seq(Nat)
    BY OutputFlowType DEF OutputTypes
  <2>2. OutputFlow(s)' = c0 \o Append(pipeOut[s], n + 1)
    BY <1>1 DEF OutputFlow, Collected, OutputTypes
  <2>3. OutputFlow(s) = c0 \o pipeOut[s]
    BY DEF OutputFlow
  <2> HIDE DEF c0
  <2>4. c0 \o Append(pipeOut[s], n + 1) = Append(c0 \o pipeOut[s], n + 1)
    <3>1. <<n + 1>> \in Seq(Nat) /\ c0 \o pipeOut[s] \in Seq(Nat)
      BY <1>1, <2>1, <2>3
    <3>2. /\ Append(pipeOut[s], n + 1) = pipeOut[s] \o <<n + 1>>
          /\ Append(c0 \o pipeOut[s], n + 1) = (c0 \o pipeOut[s]) \o <<n + 1>>
      <4>1. n + 1 \in Nat
        BY <1>1
      <4>2. QED  BY <2>1, <3>1, <4>1, AppendIsConcat
    <3>3. (c0 \o pipeOut[s]) \o <<n + 1>> = c0 \o (pipeOut[s] \o <<n + 1>>)
      BY <2>1, <3>1, ConcatNat, ZenonT(60)
    <3>4. QED  BY <3>2, <3>3
  <2>5. EndsAt(Append(OutputFlow(s), n + 1), n + 1)
    BY <1>1, <1>2, <1>3, <2>1, AppendEndsAt DEF n
  <2>6. OutputFlow(s)' = Append(OutputFlow(s), n + 1)
    BY <2>2, <2>3, <2>4, Zenon
  <2>7. Len(OutputFlow(s)') <= n + 1
    <3>1. /\ Len(Append(OutputFlow(s), n + 1)) = Len(OutputFlow(s)) + 1
          /\ Len(OutputFlow(s)) \in Nat /\ Len(OutputFlow(s)) <= n
      BY <1>1, <1>2, <1>3, <2>1, AppendProperties, LenProperties DEF n
    <3>2. QED  BY <1>1, <2>6, <3>1
  <2>8. QED  BY <1>1, <1>3, <2>5, <2>6, <2>7 DEF EndsAt
<1>4. CASE t # s
  <2>1. OutputFlow(t)' = OutputFlow(t) /\ written'[t] = written[t]
    BY <1>1, <1>4 DEF OutputFlow, Collected, OutputTypes
  <2>2. QED  BY <1>2, <2>1 DEF EndsAt
<1>5. QED  BY <1>3, <1>4

LEMMA OutputInit == Init => OutputInv
  BY DEF Init, SolutionsInit, OutputInv, OutputInOrder, OutputFits, OutputFlow, Collected,
         EndsAt

\* Every step keeps the order of the output.
LEMMA OutputStep == TypeOK /\ TypeOK' /\ OutputInv /\ [Next]_vars => OutputInv'
<1> SUFFICES ASSUME TypeOK, TypeOK', OutputInv, [Next]_vars
             PROVE  OutputInv'
  OBVIOUS
<1>0. OutputTypes /\ OutputTypes'
  BY DEF TypeOK, SolutionsTypeOK, OutputTypes
<1>1. tokenizer \in [Solution -> TokenizerStatus \cup {"NULL"}]
  BY DEF TypeOK
<1>2. ASSUME UNCHANGED <<tokenizer, result, outbuf, pipeOut, written>>
      PROVE  OutputInv'
  BY <1>2, UnchangedFlow
<1>3. CASE BootFreeze \/ Misuse \/ JudgeEOF
  BY <1>2, <1>3 DEF BootFreeze, Misuse, JudgeEOF, bufferVars, solutionVars
<1>4. ASSUME NEW s \in Solution, NEW a \in Separators, Begin(s, a)
      PROVE  OutputInv'
  BY <1>0, <1>4, BeginFlow
<1>5. ASSUME NEW s \in Solution, NEW n \in 0 .. MaxInput, Send(s, n)
      PROVE  OutputInv'
  BY <1>2, <1>5 DEF Send, solutionVars
<1>6. ASSUME NEW s \in Solution, NEW disc, NEW status, NEW r,
             Answer(s, disc, status, r)
      PROVE  OutputInv'
  BY <1>0, <1>1, <1>6, AnswerBuffers, ClosedFlow
<1>7. ASSUME NEW s \in Solution, NEW disc \in BOOLEAN, EndBuffered(s, disc)
      PROVE  OutputInv'
  BY <1>6, <1>7, Zenon DEF EndBuffered
<1>8. ASSUME NEW s \in Solution, NEW disc \in BOOLEAN, EndCommunicate(s, disc)
      PROVE  OutputInv'
  BY <1>2, <1>8 DEF EndCommunicate, bufferVars
<1>9. ASSUME NEW s \in Solution, Terminate(s)
      PROVE  OutputInv'
  BY <1>0, <1>1, <1>9, ClosedFlow DEF Terminate, Forget
<1>10. CASE EpollWait \/ TimeLimit \/ BatchDone \/ HandleIn
  BY <1>2, <1>10 DEF EpollWait, TimeLimit, BatchDone, HandleIn, bufferVars, solutionVars
<1>11. CASE Write \/ WriteDone \/ HandleOut \/ ReadDone
  BY <1>2, <1>11 DEF Write, WriteDone, HandleOut, ReadDone, bufferVars, solutionVars
<1>12. CASE WriteFails
  <2>1. cur \in Solution
    BY <1>12 DEF WriteFails, TypeOK, InEnd
  <2>2. QED  BY <1>0, <1>1, <1>12, <2>1, ClosedFlow DEF WriteFails, solutionVars
<1>13. CASE Read
  BY <1>0, <1>13, ReadFlow
<1>14. CASE EndReturn
  <2>1. cur \in Solution
    BY <1>14 DEF EndReturn, TypeOK, InEnd
  <2>2. QED  BY <1>6, <1>14, <2>1, Zenon DEF EndReturn
<1>15. CASE Expire
  BY <1>2, <1>15 DEF Expire, bufferVars, solutionVars
<1>16. ASSUME NEW s \in Solution, SolutionStep(s), UNCHANGED bufferVars
       PROVE  OutputInv'
  <2>1. ASSUME NEW c \in Chars, WriteByte(s, c)
        PROVE  OutputInv'
    BY <1>0, <1>16, <2>1, WriteByteFlow
  <2>2. CASE ReadByte(s) \/ Exit(s)
    BY <1>2, <1>16, <2>2 DEF ReadByte, Exit, bufferVars
  <2>3. ASSUME NEW e \in Closable, CloseStream(s, e)
        PROVE  OutputInv'
    BY <1>2, <1>16, <2>3 DEF CloseStream, bufferVars
  <2>4. QED  BY <1>16, <2>1, <2>2, <2>3 DEF SolutionStep
<1>17. CASE UNCHANGED vars
  BY <1>2, <1>17 DEF vars, bufferVars, solutionVars
<1>18. QED
  BY <1>3, <1>4, <1>5, <1>7, <1>8, <1>9, <1>10, <1>11, <1>12, <1>13, <1>14,
     <1>15, <1>16, <1>17, Zenon DEF Next, Judge, BrokerStep, Play, Terminated

(***************************************************************************)
(* Between the solution's write() and the judge no byte of output is lost, *)
(* repeated or overtaken by another, for any size of pipe and buffer and   *)
(* any interleaving of begin(), end(), read() and the solution.            *)
(***************************************************************************)
THEOREM OutputStaysInOrder == Spec => []OutputInOrder
<1>1. OutputInv => OutputInOrder
  BY DEF OutputInv
<1>2. QED  BY <1>1, OutputInit, OutputStep, TypeCorrect, PTL DEF Spec

-----------------------------------------------------------------------------
\* The numbers in q increase and none of them is above n.
Upto(q, n) == Increasing(q) /\ \A i \in DOMAIN q : q[i] <= n

InputInv == \A s \in Solution : Upto(InputFlow(s), sent[s])

\* The part of TypeOK the order of the input rests on.
InputTypes ==
    /\ pipeIn \in [Solution -> Seq(Nat)]
    /\ inbuf \in [Solution -> Seq(Nat)]
    /\ lastRead \in [Solution -> Nat]
    /\ sent \in [Solution -> Nat]

\* Both parts of an increasing sequence increase.
LEMMA PartsUpto ==
    ASSUME NEW p \in Seq(Nat), NEW q \in Seq(Nat), NEW n \in Nat, Upto(p \o q, n)
    PROVE  Upto(p, n) /\ Upto(q, n)
<1>1. Len(p) \in Nat /\ Len(q) \in Nat /\ DOMAIN p = 1 .. Len(p)
      /\ DOMAIN q = 1 .. Len(q)
  BY LenProperties
<1>2. \A i \in DOMAIN p : i \in DOMAIN (p \o q) /\ (p \o q)[i] = p[i]
  BY <1>1, ConcatProperties
<1>3. \A i \in DOMAIN q : /\ Len(p) + i \in DOMAIN (p \o q)
                          /\ (p \o q)[Len(p) + i] = q[i]
  BY <1>1, ConcatProperties
<1>4. \A i, j \in DOMAIN q : i < j => Len(p) + i < Len(p) + j
  BY <1>1
<1>5. Upto(p, n)
  BY <1>2 DEF Upto, Increasing
<1>6. Upto(q, n)
  BY <1>3, <1>4 DEF Upto, Increasing
<1>7. QED  BY <1>5, <1>6

\* Appending the numbers that come next keeps a sequence increasing.
LEMMA ExtendUpto ==
    ASSUME NEW p \in Seq(Nat), NEW n \in Nat, NEW k \in Nat, Upto(p, n)
    PROVE  Upto(p \o [i \in 1 .. k |-> n + i], n + k)
<1> DEFINE e == [i \in 1 .. k |-> n + i]
           q == p \o e
<1>1. e \in Seq(Nat) /\ Len(e) = k /\ Len(p) \in Nat
  BY CountUp
<1>2. \A j \in 1 .. k : e[j] = n + j
  OBVIOUS
<1> HIDE DEF e
<1>3. /\ DOMAIN q = 1 .. Len(p) + k
      /\ \A i \in 1 .. Len(p) + k : q[i] = IF i <= Len(p) THEN p[i] ELSE e[i - Len(p)]
  <2>1. /\ q \in Seq(Nat) /\ Len(q) = Len(p) + Len(e)
        /\ \A i \in 1 .. Len(p) + Len(e) : q[i] = IF i <= Len(p) THEN p[i] ELSE e[i - Len(p)]
    BY <1>1, ConcatProperties, Zenon
  <2>2. DOMAIN q = 1 .. Len(q)
    BY <2>1, LenProperties
  <2>3. QED  BY <1>1, <2>1, <2>2, Zenon
<1> HIDE DEF q
<1>4. \A i \in 1 .. Len(p) : p[i] \in Nat /\ p[i] <= n
  BY <1>1 DEF Upto
<1>5. \A i, j \in 1 .. Len(p) : i < j => p[i] < p[j]
  BY <1>1 DEF Upto, Increasing
<1>6. ASSUME NEW i \in 1 .. Len(p) + k, ~ (i <= Len(p))
      PROVE  q[i] = n + (i - Len(p)) /\ i - Len(p) \in 1 .. k
  <2>1. i - Len(p) \in 1 .. k
    BY <1>1, <1>6
  <2>2. QED  BY <1>2, <1>3, <1>6, <2>1, Zenon
<1>7. ASSUME NEW i \in 1 .. Len(p) + k, i <= Len(p)
      PROVE  q[i] = p[i] /\ i \in 1 .. Len(p)
  BY <1>1, <1>3, <1>7
<1>8. ASSUME NEW i \in 1 .. Len(p) + k
      PROVE  q[i] <= n + k
  <2>1. CASE i <= Len(p)
    <3>1. q[i] \in Nat /\ q[i] <= n
      BY <1>4, <1>7, <2>1
    <3>2. QED  BY <3>1
  <2>2. CASE ~ (i <= Len(p))
    <3>1. q[i] = n + (i - Len(p)) /\ i - Len(p) \in 1 .. k
      BY <1>6, <2>2
    <3>2. QED  BY <3>1
  <2>3. QED  BY <2>1, <2>2
<1>9. ASSUME NEW i \in 1 .. Len(p) + k, NEW j \in 1 .. Len(p) + k, i < j
      PROVE  q[i] < q[j]
  <2>1. CASE j <= Len(p)
    <3>1. i <= Len(p)
      BY <1>1, <1>9, <2>1
    <3>2. QED  BY <1>5, <1>7, <1>9, <2>1, <3>1
  <2>2. CASE i <= Len(p) /\ ~ (j <= Len(p))
    <3>1. q[i] \in Nat /\ q[i] <= n
      BY <1>4, <1>7, <2>2
    <3>2. q[j] = n + (j - Len(p)) /\ j - Len(p) \in 1 .. k
      BY <1>6, <2>2
    <3>3. QED  BY <3>1, <3>2
  <2>3. CASE ~ (i <= Len(p))
    <3>1. ~ (j <= Len(p))
      BY <1>1, <1>9, <2>3
    <3>2. /\ q[i] = n + (i - Len(p)) /\ i - Len(p) \in 1 .. k
          /\ q[j] = n + (j - Len(p)) /\ j - Len(p) \in 1 .. k
      BY <1>6, <2>3, <3>1
    <3>3. i - Len(p) < j - Len(p)
      BY <1>1, <1>9
    <3>4. QED  BY <3>2, <3>3
  <2>4. QED  BY <2>1, <2>2, <2>3
<1>10. Upto(q, n + k)
  BY <1>3, <1>8, <1>9 DEF Upto, Increasing
<1>11. QED  BY <1>10 DEF q, e

\* The types of what is on its way to a solution.
LEMMA InputFlowParts ==
    ASSUME InputTypes, NEW s \in Solution
    PROVE  /\ <<lastRead[s]>> \in Seq(Nat)
           /\ pipeIn[s] \in Seq(Nat) /\ inbuf[s] \in Seq(Nat) /\ sent[s] \in Nat
           /\ <<lastRead[s]>> \o pipeIn[s] \in Seq(Nat)
           /\ InputFlow(s) \in Seq(Nat)
<1>1. /\ <<lastRead[s]>> \in Seq(Nat)
      /\ pipeIn[s] \in Seq(Nat) /\ inbuf[s] \in Seq(Nat) /\ sent[s] \in Nat
  BY DEF InputTypes
<1>2. QED  BY <1>1, ConcatProperties DEF InputFlow

\* Clearing inbuf drops the newest bytes.
LEMMA ClearedInput ==
    ASSUME InputTypes, InputInv, NEW s \in Solution,
           inbuf' = inbuf \/ inbuf' = [inbuf EXCEPT ![s] = <<>>],
           UNCHANGED <<pipeIn, lastRead, sent>>
    PROVE  InputInv'
<1> SUFFICES ASSUME NEW t \in Solution
             PROVE  Upto(InputFlow(t)', sent'[t])
  BY DEF InputInv, Upto, Increasing
<1>1. Upto(InputFlow(t), sent[t])
  BY DEF InputInv
<1>2. CASE inbuf'[t] = inbuf[t]
  BY <1>1, <1>2 DEF InputFlow
<1>3. CASE inbuf'[t] # inbuf[t]
  <2> DEFINE p == <<lastRead[t]>> \o pipeIn[t]
  <2>1. p \in Seq(Nat) /\ inbuf[t] \in Seq(Nat) /\ sent[t] \in Nat
    BY InputFlowParts
  <2>2. InputFlow(t)' = p \o <<>>
    BY <1>3 DEF InputFlow, InputTypes
  <2>3. Upto(p \o inbuf[t], sent[t])
    BY <1>1 DEF InputFlow
  <2> HIDE DEF p
  <2>4. Upto(p, sent[t])
    BY <2>1, <2>3, PartsUpto
  <2>5. QED  BY <2>1, <2>2, <2>4, EmptyIsNeutral
<1>4. QED  BY <1>2, <1>3

\* One write() never takes more than inbuf holds.
LEMMA Min3Bound ==
    ASSUME NEW a \in Nat, NEW b \in Nat, NEW c \in Nat, NEW d \in Nat, d < c
    PROVE  Min3(a, b, c - d) \in 0 .. b
  BY DEF Min3, Least

\* A write() moves bytes from inbuf to the pipe, in order.
LEMMA WriteFlow ==
    ASSUME InputTypes, InputInv, cur \in Solution, Write
    PROVE  InputInv'
<1> DEFINE n == Min3(BufSize, Len(inbuf[cur]), PipeSize - Len(pipeIn[cur]))
<1>1. /\ pipeIn' = [pipeIn EXCEPT ![cur] = @ \o Front(inbuf[cur], n)]
      /\ inbuf' = [inbuf EXCEPT ![cur] = Rest(@, n)]
      /\ UNCHANGED <<lastRead, sent>>
  BY DEF Write
<1>2. n \in 0 .. Len(inbuf[cur])
  <2>1. /\ Len(inbuf[cur]) \in Nat
        /\ Len(pipeIn[cur]) \in Nat
        /\ Len(pipeIn[cur]) < PipeSize
    BY DEF Write, InputTypes
  <2>2. BufSize \in Nat /\ PipeSize \in Nat
    BY SolutionsAssumption, BrokerAssumption
  <2>3. QED  BY <2>1, <2>2, Min3Bound
<1> HIDE DEF n
<1> SUFFICES ASSUME NEW t \in Solution
             PROVE  InputFlow(t)' = InputFlow(t)
  BY <1>1 DEF InputInv, Upto, Increasing
<1>3. CASE t = cur
  <2> DEFINE h == <<lastRead[t]>>
             f == Front(inbuf[t], n)
             g == Rest(inbuf[t], n)
  <2>1. /\ h \in Seq(Nat) /\ pipeIn[t] \in Seq(Nat) /\ inbuf[t] \in Seq(Nat)
        /\ h \o pipeIn[t] \in Seq(Nat)
    BY InputFlowParts
  <2>2. f \in Seq(Nat) /\ g \in Seq(Nat) /\ f \o g = inbuf[t]
    BY <1>2, <1>3, <2>1, SplitQueue
  <2>3. InputFlow(t)' = (h \o (pipeIn[t] \o f)) \o g
    BY <1>1, <1>3 DEF InputFlow, InputTypes
  <2>4. InputFlow(t) = (h \o pipeIn[t]) \o inbuf[t]
    BY DEF InputFlow
  <2> HIDE DEF h, f, g
  <2>5. h \o (pipeIn[t] \o f) = (h \o pipeIn[t]) \o f
    BY <2>1, <2>2, ConcatNat, ZenonT(60)
  <2>6. ((h \o pipeIn[t]) \o f) \o g = (h \o pipeIn[t]) \o (f \o g)
    BY <2>1, <2>2, ConcatNat, ZenonT(60)
  <2>7. QED  BY <2>2, <2>3, <2>4, <2>5, <2>6
<1>4. CASE t # cur
  BY <1>1, <1>4 DEF InputFlow, InputTypes
<1>5. QED  BY <1>3, <1>4

\* send() appends the next bytes.
LEMMA SendFlow ==
    ASSUME InputTypes, InputInv, NEW s \in Solution, NEW n \in Nat, Send(s, n)
    PROVE  InputInv'
<1> DEFINE e == [i \in 1 .. n |-> sent[s] + i]
<1>1. /\ inbuf' = [inbuf EXCEPT ![s] = @ \o e]
      /\ sent' = [sent EXCEPT ![s] = @ + n]
      /\ UNCHANGED <<pipeIn, lastRead>>
  BY DEF Send, solutionVars
<1>2. e \in Seq(Nat)
  BY CountUp DEF InputTypes
<1> SUFFICES ASSUME NEW t \in Solution
             PROVE  Upto(InputFlow(t)', sent'[t])
  BY DEF InputInv, Upto, Increasing
<1>3. Upto(InputFlow(t), sent[t])
  BY DEF InputInv
<1>4. CASE t = s
  <2> DEFINE p == <<lastRead[s]>> \o pipeIn[s]
  <2>1. /\ p \in Seq(Nat) /\ inbuf[s] \in Seq(Nat) /\ sent[s] \in Nat
        /\ InputFlow(s) \in Seq(Nat)
    BY InputFlowParts
  <2>2. Upto(InputFlow(s) \o e, sent[s] + n)
    BY <1>3, <1>4, <2>1, ExtendUpto
  <2> HIDE DEF e
  <2>3. InputFlow(s)' = p \o (inbuf[s] \o e)
    BY <1>1 DEF InputFlow, InputTypes
  <2>4. InputFlow(s) = p \o inbuf[s]
    BY DEF InputFlow
  <2> HIDE DEF p
  <2>5. InputFlow(s)' = InputFlow(s) \o e
    <3>1. (p \o inbuf[s]) \o e = p \o (inbuf[s] \o e)
      BY <1>2, <2>1, ConcatNat, ZenonT(60)
    <3>2. QED  BY <2>3, <2>4, <3>1
  <2>6. sent'[s] = sent[s] + n
    BY <1>1 DEF InputTypes
  <2>7. QED  BY <1>4, <2>2, <2>5, <2>6
<1>5. CASE t # s
  <2>1. InputFlow(t)' = InputFlow(t) /\ sent'[t] = sent[t]
    BY <1>1, <1>5 DEF InputFlow, InputTypes
  <2>2. QED  BY <1>3, <2>1
<1>6. QED  BY <1>4, <1>5

\* The solution reads the oldest byte.
LEMMA ReadByteFlow ==
    ASSUME InputTypes, InputInv, NEW s \in Solution, ReadByte(s),
           UNCHANGED <<inbuf, sent>>
    PROVE  InputInv'
<1> SUFFICES ASSUME NEW t \in Solution
             PROVE  Upto(InputFlow(t)', sent'[t])
  BY DEF InputInv, Upto, Increasing
<1>1. Upto(InputFlow(t), sent[t])
  BY DEF InputInv
<1>2. CASE t = s
  <2> DEFINE l == <<lastRead[s]>>
             h == <<Head(pipeIn[s])>>
             r == Tail(pipeIn[s])
  <2>1. /\ l \in Seq(Nat) /\ pipeIn[s] \in Seq(Nat) /\ inbuf[s] \in Seq(Nat)
        /\ sent[s] \in Nat /\ pipeIn[s] # <<>>
    BY InputFlowParts DEF ReadByte
  <2>2. h \in Seq(Nat) /\ r \in Seq(Nat) /\ h \o r = pipeIn[s]
    BY <2>1, HeadTailProperties
  <2>3. InputFlow(s)' = (h \o r) \o inbuf[s]
    BY DEF ReadByte, InputFlow, InputTypes
  <2>4. InputFlow(s) = (l \o pipeIn[s]) \o inbuf[s]
    BY DEF InputFlow
  <2> HIDE DEF l, h, r
  <2>5. InputFlow(s) = l \o (pipeIn[s] \o inbuf[s])
    BY <2>1, <2>4, ConcatNat, ZenonT(60)
  <2>6. pipeIn[s] \o inbuf[s] \in Seq(Nat)
    BY <2>1, ConcatProperties
  <2>7. Upto(pipeIn[s] \o inbuf[s], sent[s])
    <3>1. Upto(l \o (pipeIn[s] \o inbuf[s]), sent[s])
      BY <1>1, <1>2, <2>5
    <3>2. QED  BY <2>1, <2>6, <3>1, PartsUpto
  <2>8. QED  BY <1>2, <2>2, <2>3, <2>7
<1>3. CASE t # s
  <2>1. InputFlow(t)' = InputFlow(t)
    BY <1>3 DEF ReadByte, InputFlow, InputTypes
  <2>2. QED  BY <1>1, <2>1
<1>4. QED  BY <1>2, <1>3

(***************************************************************************)
(* The bytes of the judge reach a solution in the order they were sent and *)
(* at most once, for any sizes of messages, pipe and buffer.               *)
(***************************************************************************)
THEOREM InputStaysInOrder == Spec => []InputInOrder
<1>1. Init => InputInv
  BY DEF Init, SolutionsInit, InputInv, InputFlow, Upto, Increasing
<1>2. TypeOK /\ InputInv /\ [Next]_vars => InputInv'
  <2> SUFFICES ASSUME TypeOK, InputInv, [Next]_vars
               PROVE  InputInv'
    OBVIOUS
  <2>0. InputTypes /\ (pc \in InEnd => cur \in Solution)
    BY DEF TypeOK, SolutionsTypeOK, InputTypes
  <2>1. ASSUME UNCHANGED <<inbuf, pipeIn, lastRead, sent>>
        PROVE  InputInv'
    BY <2>1 DEF InputInv, InputFlow, Upto, Increasing
  <2>2. CASE BootFreeze \/ Misuse \/ JudgeEOF
    BY <2>1, <2>2 DEF BootFreeze, Misuse, JudgeEOF, bufferVars, solutionVars
  <2>3. ASSUME NEW s \in Solution, NEW a \in Separators, Begin(s, a)
        PROVE  InputInv'
    BY <2>1, <2>3 DEF Begin, solutionVars
  <2>4. ASSUME NEW s \in Solution, NEW n \in 0 .. MaxInput, Send(s, n)
        PROVE  InputInv'
    <3>1. n \in Nat
      BY BrokerAssumption
    <3>2. QED  BY <2>0, <2>4, <3>1, SendFlow
  <2>5. ASSUME NEW s \in Solution, NEW disc, NEW status, NEW r,
               Answer(s, disc, status, r)
        PROVE  InputInv'
    BY <2>0, <2>5, AnswerBuffers, ClearedInput
  <2>6. ASSUME NEW s \in Solution, NEW disc \in BOOLEAN, EndBuffered(s, disc)
        PROVE  InputInv'
    BY <2>5, <2>6, Zenon DEF EndBuffered
  <2>7. ASSUME NEW s \in Solution, NEW disc \in BOOLEAN, EndCommunicate(s, disc)
        PROVE  InputInv'
    BY <2>1, <2>7 DEF EndCommunicate, bufferVars
  <2>8. ASSUME NEW s \in Solution, Terminate(s)
        PROVE  InputInv'
    BY <2>0, <2>8, ClearedInput DEF Terminate, Forget
  <2>9. CASE EpollWait \/ TimeLimit \/ BatchDone \/ HandleIn \/ HandleOut
    BY <2>1, <2>9 DEF EpollWait, TimeLimit, BatchDone, HandleIn, HandleOut,
                      bufferVars, solutionVars
  <2>10. CASE Write
    <3>1. cur \in Solution
      BY <2>0, <2>10 DEF Write, InEnd
    <3>2. QED  BY <2>0, <2>10, <3>1, WriteFlow
  <2>11. CASE WriteFails \/ WriteDone \/ Read \/ ReadDone \/ Expire
    BY <2>1, <2>11 DEF WriteFails, WriteDone, Read, ReadDone, Expire,
                       bufferVars, solutionVars
  <2>12. CASE EndReturn
    <3>1. cur \in Solution
      BY <2>0, <2>12 DEF EndReturn, InEnd
    <3>2. QED  BY <2>5, <2>12, <3>1, Zenon DEF EndReturn
  <2>13. ASSUME NEW s \in Solution, SolutionStep(s), UNCHANGED <<bufferVars, sent>>
         PROVE  InputInv'
    <3>1. CASE ReadByte(s)
      BY <2>0, <2>13, <3>1, ReadByteFlow DEF bufferVars
    <3>2. ASSUME NEW c \in Chars, WriteByte(s, c)
          PROVE  InputInv'
      BY <2>1, <2>13, <3>2 DEF WriteByte, bufferVars
    <3>3. ASSUME NEW e \in Closable, CloseStream(s, e)
          PROVE  InputInv'
      BY <2>1, <2>13, <3>3 DEF CloseStream, bufferVars
    <3>4. CASE Exit(s)
      BY <2>1, <2>13, <3>4 DEF Exit, bufferVars
    <3>5. QED  BY <2>13, <3>1, <3>2, <3>3, <3>4 DEF SolutionStep
  <2>14. CASE UNCHANGED vars
    BY <2>1, <2>14 DEF vars, bufferVars, solutionVars
  <2>15. QED
    BY <2>2, <2>3, <2>4, <2>6, <2>7, <2>8, <2>9, <2>10, <2>11, <2>12, <2>13,
       <2>14, Zenon DEF Next, Judge, BrokerStep, Play, Terminated
<1>3. InputInv => InputInOrder
  BY DEF InputInv, InputInOrder, Upto
<1>4. QED  BY <1>1, <1>2, <1>3, TypeCorrect, PTL DEF Spec

-----------------------------------------------------------------------------
\* What the type invariant says of each variable, before and after a step.
LEMMA Types ==
    ASSUME TypeOK
    PROVE  /\ OutputTypes /\ InputTypes
           /\ run \in [Solution -> RunState]
           /\ closed \in [Solution -> SUBSET {"in", "out"}]
           /\ tokenizer \in [Solution -> TokenizerStatus \cup {"NULL"}]
           /\ separator \in [Solution -> Separators]
           /\ pc \in InEnd => cur \in Solution
  BY DEF TypeOK, SolutionsTypeOK, OutputTypes, InputTypes

LEMMA TypesNext ==
    ASSUME TypeOK'
    PROVE  /\ OutputTypes' /\ InputTypes'
           /\ run' \in [Solution -> RunState]
           /\ tokenizer' \in [Solution -> TokenizerStatus \cup {"NULL"}]
  BY DEF TypeOK, SolutionsTypeOK, OutputTypes, InputTypes

-----------------------------------------------------------------------------
(***************************************************************************)
(* Tokens.  None of the bytes q of a stream w of characters decides the    *)
(* tokenizer for a, and: the last one and no other is a.                   *)
(***************************************************************************)
Plain(w, a, q) == \A i \in DOMAIN q : w[q[i]] \notin {a} \cup Rejected

Token(w, a, q) ==
    /\ q # <<>> /\ w[q[Len(q)]] = a
    /\ \A i \in 1 .. Len(q) - 1 : w[q[i]] \notin {a} \cup Rejected

\* What the tokenizer's verdict on a chunk says of its characters.
LEMMA VerdictMeaning ==
    ASSUME NEW s, NEW a \in Separators, NEW q \in Seq(Nat)
    PROVE  /\ Verdict(s, a, q) = "CONTINUE" => Plain(written[s], a, q)
           /\ Verdict(s, a, q) = "ACCEPTED" =>
                Token(written[s], a, Front(q, Taken(s, a, q)))
           /\ Verdict(s, a, q) = "FAIL" =>
                \E j \in 1 .. Len(q) :
                    /\ written[s][q[j]] \in Rejected
                    /\ \A i \in 1 .. j - 1 : written[s][q[i]] \notin {a} \cup Rejected
<1> DEFINE D == Deciding(s, a, q)
           k == FirstDeciding(s, a, q)
<1>1. Len(q) \in Nat /\ D \subseteq 1 .. Len(q)
  BY LenProperties DEF Deciding
<1>2. ASSUME D # {}
      PROVE  k \in D /\ \A j \in D : k <= j
  <2>1. D \in SUBSET Nat
    BY <1>1
  <2>2. \E x \in D : \A y \in D : x <= y
    <3> HIDE DEF D
    <3>1. QED  BY <1>2, <2>1, LeastElement
  <2>3. QED  BY <2>2 DEF FirstDeciding
<1>3. ASSUME D # {}
      PROVE  /\ k \in 1 .. Len(q)
             /\ \A i \in 1 .. k - 1 : written[s][q[i]] \notin {a} \cup Rejected
  <2>1. k \in 1 .. Len(q)
    BY <1>1, <1>2, <1>3
  <2>2. ASSUME NEW i \in 1 .. k - 1
        PROVE  written[s][q[i]] \notin {a} \cup Rejected
    <3>1. i \in 1 .. Len(q) /\ ~ (k <= i)
      BY <2>1
    <3>2. i \notin D
      BY <1>2, <1>3, <3>1
    <3>3. QED  BY <3>1, <3>2 DEF Deciding
  <2>3. QED  BY <2>1, <2>2
<1>4. ASSUME Verdict(s, a, q) = "CONTINUE" PROVE Plain(written[s], a, q)
  <2>1. D = {}
    BY <1>4 DEF Verdict
  <2>2. QED  BY <2>1 DEF Plain, Deciding
<1>5. ASSUME Verdict(s, a, q) = "ACCEPTED"
      PROVE  Token(written[s], a, Front(q, Taken(s, a, q)))
  <2>1. D # {} /\ written[s][q[k]] = a /\ Taken(s, a, q) = k
    BY <1>5 DEF Verdict, Taken
  <2>2. /\ k \in 1 .. Len(q)
        /\ \A i \in 1 .. k - 1 : written[s][q[i]] \notin {a} \cup Rejected
    BY <1>3, <2>1
  <2> HIDE DEF k
  <2>3. /\ Len(Front(q, k)) = k
        /\ \A i \in 1 .. k : Front(q, k)[i] = q[i]
    BY <1>1, <2>2, SubSeqProperties, ElementOfSeq DEF Front
  <2>4. Front(q, k) # <<>>
    BY <2>2, <2>3
  <2>5. k \in 1 .. k /\ \A i \in 1 .. k - 1 : i \in 1 .. k
    BY <2>2
  <2>6. QED  BY <2>1, <2>2, <2>3, <2>4, <2>5 DEF Token
<1>6. ASSUME Verdict(s, a, q) = "FAIL"
      PROVE  \E j \in 1 .. Len(q) :
                    /\ written[s][q[j]] \in Rejected
                    /\ \A i \in 1 .. j - 1 : written[s][q[i]] \notin {a} \cup Rejected
  <2>1. D # {} /\ written[s][q[k]] # a
    BY <1>6 DEF Verdict
  <2>2. written[s][q[k]] \in Rejected
    BY <1>2, <2>1 DEF Deciding
  <2>3. QED  BY <1>3, <2>1, <2>2
<1>7. QED  BY <1>4, <1>5, <1>6

\* A token may be collected in parts.
LEMMA CollectedInParts ==
    ASSUME NEW w, NEW a, NEW p \in Seq(Nat), NEW q \in Seq(Nat), Plain(w, a, p)
    PROVE  /\ Plain(w, a, q) => Plain(w, a, p \o q)
           /\ Token(w, a, q) => Token(w, a, p \o q)
<1> DEFINE r == p \o q
<1>1. /\ Len(p) \in Nat /\ Len(q) \in Nat /\ Len(r) = Len(p) + Len(q)
      /\ DOMAIN p = 1 .. Len(p) /\ DOMAIN q = 1 .. Len(q) /\ DOMAIN r = 1 .. Len(r)
      /\ \A i \in 1 .. Len(p) : r[i] = p[i]
  BY ConcatProperties, LenProperties
<1>2. ASSUME NEW i \in 1 .. Len(r), ~ (i <= Len(p))
      PROVE  i - Len(p) \in 1 .. Len(q) /\ r[i] = q[i - Len(p)]
  BY <1>1, <1>2, ConcatProperties
<1>3. ASSUME NEW i \in 1 .. Len(r), i <= Len(p)
      PROVE  w[r[i]] \notin {a} \cup Rejected
  <2>1. i \in 1 .. Len(p) /\ r[i] = p[i]
    BY <1>1, <1>3
  <2>2. QED  BY <1>1, <2>1 DEF Plain
<1> HIDE DEF r
<1>4. ASSUME Plain(w, a, q) PROVE Plain(w, a, r)
  <2>1. ASSUME NEW i \in 1 .. Len(r), ~ (i <= Len(p))
        PROVE  w[r[i]] \notin {a} \cup Rejected
    BY <1>1, <1>2, <1>4, <2>1 DEF Plain
  <2>2. QED  BY <1>1, <1>3, <2>1 DEF Plain
<1>5. ASSUME Token(w, a, q) PROVE Token(w, a, r)
  <2>1. Len(q) # 0
    BY <1>5, EmptySeq DEF Token
  <2>2. /\ Len(r) \in 1 .. Len(r) /\ ~ (Len(r) <= Len(p))
        /\ Len(r) - Len(p) = Len(q)
    BY <1>1, <2>1
  <2>3. w[r[Len(r)]] = a /\ r # <<>>
    BY <1>2, <1>5, <2>2 DEF Token
  <2>4. ASSUME NEW i \in 1 .. Len(r) - 1
        PROVE  w[r[i]] \notin {a} \cup Rejected
    <3>1. i \in 1 .. Len(r)
      BY <1>1
    <3>2. CASE ~ (i <= Len(p))
      <4>1. i - Len(p) \in 1 .. Len(q) - 1 /\ r[i] = q[i - Len(p)]
        BY <1>1, <1>2, <3>1, <3>2
      <4>2. QED  BY <1>5, <4>1 DEF Token
    <3>3. QED  BY <1>3, <3>1, <3>2
  <2>5. QED  BY <2>3, <2>4 DEF Token
<1>6. QED  BY <1>4, <1>5 DEF r

\* The first of two buffers is the front of both.
LEMMA FrontElements ==
    ASSUME NEW p \in Seq(Nat), NEW q \in Seq(Nat)
    PROVE  \A i \in DOMAIN p : i \in DOMAIN (p \o q) /\ (p \o q)[i] = p[i]
  BY ConcatProperties, LenProperties

\* The bytes collected come first.
LEMMA CollectedIsFront ==
    ASSUME OutputTypes, NEW s \in Solution
    PROVE  /\ Collected(s) \in Seq(Nat) /\ outbuf[s] \o pipeOut[s] \in Seq(Nat)
           /\ OutputFlow(s) = Collected(s) \o (outbuf[s] \o pipeOut[s])
           /\ \A i \in DOMAIN Collected(s) :
                i \in DOMAIN OutputFlow(s) /\ OutputFlow(s)[i] = Collected(s)[i]
<1> DEFINE c == Collected(s)
           d == outbuf[s] \o pipeOut[s]
<1>1. c \in Seq(Nat) /\ outbuf[s] \in Seq(Nat) /\ pipeOut[s] \in Seq(Nat)
  BY OutputFlowType DEF OutputTypes
<1>2. d \in Seq(Nat)
  BY <1>1, ConcatProperties
<1>3. OutputFlow(s) = c \o d
  <2>1. OutputFlow(s) = (c \o outbuf[s]) \o pipeOut[s]
    BY DEF OutputFlow
  <2> HIDE DEF c
  <2>2. QED  BY <1>1, <2>1, ConcatNat, ZenonT(60)
<1> HIDE DEF c, d
<1>4. \A i \in DOMAIN c : i \in DOMAIN (c \o d) /\ (c \o d)[i] = c[i]
  BY <1>1, <1>2, FrontElements
<1>5. QED  BY <1>1, <1>2, <1>3, <1>4, Zenon DEF c, d

\* The bytes on their way have been written.
LEMMA KnownBytes ==
    ASSUME OutputTypes, OutputInv, NEW s \in Solution
    PROVE  /\ \A i \in DOMAIN OutputFlow(s) : OutputFlow(s)[i] \in 1 .. Len(written[s])
           /\ \A i \in DOMAIN Collected(s) : Collected(s)[i] \in 1 .. Len(written[s])
<1> DEFINE q == OutputFlow(s)
           n == Len(written[s])
<1>1. q \in Seq(Nat) /\ Collected(s) \in Seq(Nat) /\ Collected(s) \o outbuf[s] \in Seq(Nat)
  BY OutputFlowType
<1>2. n \in Nat /\ EndsAt(q, n) /\ Len(q) <= n
  BY DEF OutputTypes, OutputInv, OutputInOrder, OutputFits
<1>3. outbuf[s] \in Seq(Nat) /\ pipeOut[s] \in Seq(Nat)
  BY DEF OutputTypes
<1>4. \A i \in DOMAIN Collected(s) : i \in DOMAIN q /\ q[i] = Collected(s)[i]
  BY CollectedIsFront
<1> HIDE DEF q, n
<1>5. ASSUME NEW i \in DOMAIN q PROVE q[i] \in 1 .. n
  <2>1. Len(q) \in Nat /\ i \in 1 .. Len(q) /\ q[i] \in Nat
    BY <1>1, LenProperties, ElementOfSeq
  <2>2. q[i] + Len(q) = n + i
    BY <1>2 DEF EndsAt
  <2>3. QED  BY <1>2, <2>1, <2>2
<1>6. QED  BY <1>4, <1>5 DEF q, n

-----------------------------------------------------------------------------
(***************************************************************************)
(* What result holds while an iteration is open.                           *)
(***************************************************************************)
TokenInv ==
    \A s \in Solution :
        /\ tokenizer[s] = "CONTINUE" => Plain(written[s], separator[s], result[s])
        /\ tokenizer[s] = "ACCEPTED" => Token(written[s], separator[s], result[s])

LEMMA TokenInit == Init => TokenInv
  BY DEF Init, SolutionsInit, TokenInv

LEMMA SameToken ==
    ASSUME TokenInv, UNCHANGED <<tokenizer, separator, result, written>>
    PROVE  TokenInv'
  BY DEF TokenInv, Plain, Token

LEMMA OneToken ==
    ASSUME TokenInv, NEW s \in Solution,
           \A t \in Solution \ {s} : /\ tokenizer'[t] = tokenizer[t]
                                     /\ separator'[t] = separator[t]
                                     /\ result'[t] = result[t]
                                     /\ written'[t] = written[t],
           tokenizer'[s] = "CONTINUE" => Plain(written'[s], separator'[s], result'[s]),
           tokenizer'[s] = "ACCEPTED" => Token(written'[s], separator'[s], result'[s])
    PROVE  TokenInv'
<1>1. ASSUME NEW t \in Solution
      PROVE  /\ tokenizer'[t] = "CONTINUE" => Plain(written'[t], separator'[t], result'[t])
             /\ tokenizer'[t] = "ACCEPTED" => Token(written'[t], separator'[t], result'[t])
  <2>1. CASE t = s
    BY <2>1
  <2>2. CASE t # s
    <3>1. /\ tokenizer[t] = "CONTINUE" => Plain(written[t], separator[t], result[t])
          /\ tokenizer[t] = "ACCEPTED" => Token(written[t], separator[t], result[t])
      BY DEF TokenInv
    <3>2. /\ tokenizer'[t] = tokenizer[t] /\ separator'[t] = separator[t]
          /\ result'[t] = result[t] /\ written'[t] = written[t]
      BY <2>2
    <3>3. QED  BY <3>1, <3>2
  <2>3. QED  BY <2>1, <2>2
<1>2. QED  BY <1>1 DEF TokenInv, Plain, Token

LEMMA ClosedToken ==
    ASSUME TypeOK, TokenInv, NEW s \in Solution,
           tokenizer' = [tokenizer EXCEPT ![s] = "NULL"],
           UNCHANGED <<separator, result, written>>
    PROVE  TokenInv'
<1>1. tokenizer'[s] = "NULL" /\ \A t \in Solution \ {s} : tokenizer'[t] = tokenizer[t]
  BY DEF TypeOK
<1>2. QED  BY <1>1, OneToken

LEMMA BeginToken ==
    ASSUME TypeOK, TokenInv, NEW s \in Solution, NEW a \in Separators, Begin(s, a)
    PROVE  TokenInv'
<1> DEFINE q == outbuf[s]
           k == Taken(s, a, q)
           f == Front(q, k)
           w == written[s]
<1>1. q \in Seq(Nat)
  BY DEF TypeOK
<1>2. /\ tokenizer'[s] = Verdict(s, a, q) /\ separator'[s] = a
      /\ result'[s] = f /\ written'[s] = w
      /\ \A t \in Solution \ {s} : /\ tokenizer'[t] = tokenizer[t]
                                   /\ separator'[t] = separator[t]
                                   /\ result'[t] = result[t]
      /\ written' = written
  BY DEF Begin, TypeOK, solutionVars
<1>3. /\ Verdict(s, a, q) = "CONTINUE" => Plain(w, a, q)
      /\ Verdict(s, a, q) = "ACCEPTED" => Token(w, a, f)
  <2> HIDE DEF q
  <2>1. QED  BY <1>1, VerdictMeaning
<1>4. Verdict(s, a, q) = "CONTINUE" => f = q
  <2> HIDE DEF q
  <2>1. Verdict(s, a, q) = "CONTINUE" => k = Len(q)
    BY <1>1, VerdictCases
  <2>2. QED  BY <1>1, <2>1, SplitEnds
<1> HIDE DEF q, f, w
<1>5. /\ tokenizer'[s] = "CONTINUE" => Plain(written'[s], separator'[s], result'[s])
      /\ tokenizer'[s] = "ACCEPTED" => Token(written'[s], separator'[s], result'[s])
  BY <1>2, <1>3, <1>4, Zenon
<1>6. QED  BY <1>2, <1>5, OneToken

LEMMA ReadToken ==
    ASSUME TypeOK, TokenInv, Read
    PROVE  TokenInv'
<1> DEFINE a == separator[cur]
           k == Taken(cur, a, Chunk)
<1>1. /\ cur \in Solution /\ tokenizer[cur] = "CONTINUE"
      /\ Chunk \in Seq(Nat) /\ result[cur] \in Seq(Nat)
      /\ tokenizer'[cur] = Verdict(cur, a, Chunk)
      /\ result'[cur] = result[cur] \o Front(Chunk, k)
      /\ \A t \in Solution \ {cur} : tokenizer'[t] = tokenizer[t] /\ result'[t] = result[t]
      /\ separator' = separator /\ written' = written
  BY ReadParts, Types
<1>2. a \in Separators
  BY <1>1 DEF TypeOK
<1>3. Plain(written[cur], a, result[cur])
  BY <1>1 DEF TokenInv
<1>4. ASSUME tokenizer'[cur] = "CONTINUE"
      PROVE  Plain(written[cur], a, result'[cur])
  <2>1. k = Len(Chunk)
    BY <1>1, <1>4, VerdictCases
  <2>2. Front(Chunk, k) = Chunk
    BY <1>1, <2>1, SplitEnds
  <2>3. Plain(written[cur], a, Chunk)
    <3>1. Verdict(cur, a, Chunk) = "CONTINUE"
      BY <1>1, <1>4
    <3> HIDE DEF a
    <3>2. QED  BY <1>1, <1>2, <3>1, VerdictMeaning
  <2>4. QED  BY <1>1, <1>3, <2>2, <2>3, CollectedInParts
<1>5. ASSUME tokenizer'[cur] = "ACCEPTED"
      PROVE  Token(written[cur], a, result'[cur])
  <2>1. Token(written[cur], a, Front(Chunk, k))
    BY <1>1, <1>2, <1>5, VerdictMeaning
  <2>2. k \in 0 .. Len(Chunk)
    <3>1. Len(Chunk) \in Nat
      BY <1>1, LenProperties
    <3>2. QED  BY <1>1, <3>1, VerdictCases
  <2>3. Front(Chunk, k) \in Seq(Nat)
    BY <1>1, <2>2, SplitQueue
  <2>4. QED  BY <1>1, <1>3, <2>1, <2>3, CollectedInParts
<1>6. QED  BY <1>1, <1>4, <1>5, OneToken

LEMMA WriteByteToken ==
    ASSUME TypeOK, OutputTypes, OutputInv, TokenInv, NEW s \in Solution, NEW c \in Chars,
           WriteByte(s, c), UNCHANGED bufferVars
    PROVE  TokenInv'
<1>1. /\ UNCHANGED <<tokenizer, separator, result>>
      /\ \A t \in Solution \ {s} : written'[t] = written[t]
      /\ written'[s] = Append(written[s], c) /\ written[s] \in Seq(Chars)
  BY DEF WriteByte, bufferVars, OutputTypes
<1>2. \A n \in 1 .. Len(written[s]) : written'[s][n] = written[s][n]
  BY <1>1, AppendProperties
<1>3. ASSUME tokenizer[s] \in {"CONTINUE", "ACCEPTED"}
      PROVE  \A i \in DOMAIN result[s] : written'[s][result[s][i]] = written[s][result[s][i]]
  <2>1. Collected(s) = result[s]
    BY <1>3 DEF Collected
  <2>2. \A i \in DOMAIN result[s] : result[s][i] \in 1 .. Len(written[s])
    BY <2>1, KnownBytes
  <2>3. QED  BY <1>2, <2>2
<1>4. ASSUME tokenizer[s] = "CONTINUE"
      PROVE  Plain(written'[s], separator[s], result[s])
  <2>1. Plain(written[s], separator[s], result[s])
    BY <1>4 DEF TokenInv
  <2>2. QED  BY <1>3, <1>4, <2>1 DEF Plain
<1>5. ASSUME tokenizer[s] = "ACCEPTED"
      PROVE  Token(written'[s], separator[s], result[s])
  <2>1. Token(written[s], separator[s], result[s])
    BY <1>5 DEF TokenInv
  <2>2. result[s] \in Seq(Nat) /\ Len(result[s]) # 0
    BY <2>1, EmptySeq DEF OutputTypes, Token
  <2>3. /\ Len(result[s]) \in DOMAIN result[s]
        /\ \A i \in 1 .. Len(result[s]) - 1 : i \in DOMAIN result[s]
    BY <2>2, LenProperties
  <2>4. QED  BY <1>3, <1>5, <2>1, <2>3 DEF Token
<1>6. QED  BY <1>1, <1>4, <1>5, OneToken

-----------------------------------------------------------------------------
(***************************************************************************)
(* What communicate() relies on: end() was called for an open iteration,   *)
(* and an event says that the output has ended only when it has.           *)
(***************************************************************************)
HungUp == ~StdoutOpen(cur) /\ pipeOut[cur] = <<>>

TalkInv ==
    /\ pc \in InEnd => tokenizer[cur] # "NULL"
    /\ pc \in {"events", "write", "read"} =>
         \A i \in DOMAIN events : events[i].fd = "out" /\ ~events[i].ok => HungUp
    /\ pc = "return" /\ ret = "OK" /\ tokenizer[cur] = "CONTINUE" => HungUp

\* An output that has ended stays so, whatever the solutions do.
LEMMA HangUpIsForEver ==
    ASSUME TypeOK, cur \in Solution, HungUp, NEW s \in Solution, SolutionStep(s),
           UNCHANGED localVars
    PROVE  HungUp'
<1>1. /\ cur' = cur /\ run \in [Solution -> RunState]
      /\ closed \in [Solution -> SUBSET {"in", "out"}]
      /\ pipeOut \in [Solution -> Seq(Nat)]
  BY DEF TypeOK, SolutionsTypeOK, localVars
<1>2. CASE ReadByte(s)
  BY <1>1, <1>2 DEF ReadByte, HungUp, StdoutOpen, Alive
<1>3. ASSUME NEW c \in Chars, WriteByte(s, c) PROVE HungUp'
  <2>1. s # cur
    BY <1>3 DEF WriteByte, HungUp
  <2>2. QED  BY <1>1, <1>3, <2>1 DEF WriteByte, HungUp, StdoutOpen, Alive
<1>4. ASSUME NEW e \in Closable, CloseStream(s, e) PROVE HungUp'
  <2>1. "out" \notin closed'[cur] => "out" \notin closed[cur]
    BY <1>1, <1>4 DEF CloseStream
  <2>2. QED  BY <1>1, <1>4, <2>1 DEF CloseStream, HungUp, StdoutOpen, Alive
<1>5. CASE Exit(s)
  <2>1. run'[cur] \in {"running", "frozen"} => run[cur] \in {"running", "frozen"}
    BY <1>1, <1>5 DEF Exit
  <2>2. QED  BY <1>1, <1>5, <2>1 DEF Exit, HungUp, StdoutOpen, Alive
<1>6. QED  BY <1>2, <1>3, <1>4, <1>5 DEF SolutionStep

\* The events that are left were there before.
LEMMA EventsLeft ==
    ASSUME NEW e \in Seq(Event), e # <<>>
    PROVE  /\ 1 \in DOMAIN e /\ Head(e) = e[1]
           /\ \A i \in DOMAIN Tail(e) : \E j \in DOMAIN e : Tail(e)[i] = e[j]
<1>1. Len(e) \in Nat /\ Len(e) # 0 /\ DOMAIN e = 1 .. Len(e)
  BY LenProperties, EmptySeq
<1>2. /\ Tail(e) \in Seq(Event) /\ Len(Tail(e)) = Len(e) - 1
      /\ \A i \in 1 .. Len(Tail(e)) : Tail(e)[i] = e[i + 1]
  BY HeadTailProperties
<1>3. \A i \in DOMAIN Tail(e) : i + 1 \in DOMAIN e /\ Tail(e)[i] = e[i + 1]
  BY <1>1, <1>2, LenProperties
<1>4. QED  BY <1>1, <1>3

LEMMA TalkStep == TypeOK /\ TalkInv /\ [Next]_vars => TalkInv'
<1> SUFFICES ASSUME TypeOK, TalkInv, [Next]_vars PROVE TalkInv'
  OBVIOUS
<1>0. /\ pc \in InEnd => cur \in Solution
      /\ events \in Seq(Event)
      /\ tokenizer \in [Solution -> TokenizerStatus \cup {"NULL"}]
  BY DEF TypeOK
<1>1. ASSUME pc' \notin InEnd PROVE TalkInv'
  BY <1>1 DEF TalkInv, InEnd
<1>2. CASE \/ BootFreeze \/ Misuse \/ JudgeEOF
  BY <1>1, <1>2 DEF BootFreeze, Misuse, JudgeEOF, InEnd
<1>3. ASSUME NEW s \in Solution,
             \/ \E a \in Separators : Begin(s, a)
             \/ \E n \in 0 .. MaxInput : Send(s, n)
             \/ \E disc \in BOOLEAN : EndBuffered(s, disc)
             \/ Terminate(s)
      PROVE  TalkInv'
  BY <1>1, <1>3 DEF Begin, Send, EndBuffered, Terminate, InEnd
<1>4. ASSUME NEW s \in Solution, NEW disc \in BOOLEAN, EndCommunicate(s, disc)
      PROVE  TalkInv'
  BY <1>4 DEF EndCommunicate, TalkInv, InEnd, bufferVars
<1>5. CASE EpollWait
  <2>1. pc = "wait" /\ pc' = "events" /\ events' \in Batches
        /\ UNCHANGED <<run, closed, pipeOut, tokenizer, cur>>
    BY <1>5 DEF EpollWait, solutionVars, bufferVars
  <2>2. ASSUME NEW i \in DOMAIN events', events'[i].fd = "out", ~events'[i].ok
        PROVE  HungUp
    <3>1. events'[i] \in {InEvent, OutEvent} /\ OutReady
      BY <2>1, <2>2 DEF Batches
    <3>2. events'[i] = OutEvent
      BY <2>2, <3>1 DEF InEvent
    <3>3. OutEvent.ok = (pipeOut[cur] # <<>>)
      BY DEF OutEvent
    <3>4. ~OutEvent.ok
      BY <2>2, <3>2
    <3>5. pipeOut[cur] = <<>>
      BY <3>3, <3>4, Zenon
    <3>6. QED  BY <3>1, <3>5 DEF OutReady, HungUp
  <2>3. HungUp' = HungUp
    BY <2>1 DEF HungUp, StdoutOpen, Alive
  <2>4. QED  BY <2>1, <2>2, <2>3 DEF TalkInv, InEnd
<1>6. CASE TimeLimit \/ BatchDone \/ HandleIn \/ Write \/ WriteDone \/ ReadDone
  <2>1. /\ UNCHANGED <<run, closed, pipeOut, tokenizer, cur>> /\ pc \in InEnd
        /\ HungUp' = HungUp
    BY <1>6 DEF TimeLimit, BatchDone, HandleIn, Write, WriteDone, ReadDone, InEnd,
                solutionVars, bufferVars, localVars, HungUp, StdoutOpen, Alive
  <2>2. CASE TimeLimit
    BY <2>1, <2>2 DEF TimeLimit, TalkInv, InEnd
  <2>3. CASE BatchDone
    BY <2>1, <2>3 DEF BatchDone, TalkInv, InEnd
  <2>4. CASE pc \in {"events", "write", "read"} /\ NextEvent /\ events # <<>>
    <3>1. pc' = "events" /\ events' = Tail(events)
      BY <2>4 DEF NextEvent
    <3>2. \A i \in DOMAIN events' : \E j \in DOMAIN events : events'[i] = events[j]
      BY <1>0, <2>4, <3>1, EventsLeft
    <3>3. QED  BY <2>1, <2>4, <3>1, <3>2 DEF TalkInv, InEnd
  <2>5. CASE /\ pc \in {"events", "write", "read"} /\ pc' \in {"events", "write", "read"}
             /\ events' = events
    BY <2>1, <2>5 DEF TalkInv, InEnd
  <2>6. HandleIn \/ Write \/ WriteDone \/ ReadDone =>
          /\ pc \in {"events", "write", "read"}
          /\ \/ NextEvent /\ events # <<>>
             \/ pc' \in {"events", "write", "read"} /\ events' = events
    BY DEF HandleIn, Write, WriteDone, ReadDone, TypeOK, localVars
  <2>7. QED  BY <1>6, <2>2, <2>3, <2>4, <2>5, <2>6, Zenon
<1>7. CASE HandleOut
  <2>1. /\ pc = "events" /\ events # <<>> /\ Head(events).fd = "out"
        /\ pc' = IF Head(events).ok THEN "read" ELSE "return"
        /\ UNCHANGED <<run, closed, pipeOut, tokenizer, cur, events>>
    BY <1>7 DEF HandleOut, solutionVars, bufferVars, localVars
  <2>2. HungUp' = HungUp
    BY <2>1 DEF HungUp, StdoutOpen, Alive
  <2>3. ~Head(events).ok => HungUp
    <3>1. 1 \in DOMAIN events /\ Head(events) = events[1]
      BY <1>0, <2>1, EventsLeft
    <3>2. QED  BY <2>1, <3>1 DEF TalkInv
  <2>4. QED  BY <2>1, <2>2, <2>3 DEF TalkInv, InEnd
<1>8. CASE Read
  <2>1. /\ pc = "read" /\ pipeOut[cur] # <<>> /\ cur \in Solution
        /\ pc' = pc /\ cur' = cur /\ events' = events
        /\ tokenizer'[cur] = Verdict(cur, separator[cur], Chunk) /\ Chunk \in Seq(Nat)
    BY <1>0, <1>8, ReadParts, Types DEF Read, InEnd
  <2>2. tokenizer'[cur] # "NULL"
    BY <2>1, VerdictCases
  <2>3. ~HungUp
    BY <2>1 DEF HungUp
  <2>4. QED  BY <2>1, <2>2, <2>3 DEF TalkInv, InEnd
<1>9. CASE WriteFails \/ EndReturn
  BY <1>1, <1>9 DEF WriteFails, EndReturn, InEnd
<1>10. CASE Expire
  <2>1. UNCHANGED <<run, closed, pipeOut, tokenizer, cur, pc, ret, events>>
    BY <1>10 DEF Expire, solutionVars, bufferVars
  <2>2. HungUp' = HungUp
    BY <2>1 DEF HungUp, StdoutOpen, Alive
  <2>3. QED  BY <2>1, <2>2 DEF TalkInv
<1>11. CASE Play
  <2>1. /\ UNCHANGED <<tokenizer, cur, pc, ret, events>> /\ UNCHANGED localVars
        /\ \E s \in Solution : SolutionStep(s)
    BY <1>11 DEF Play, bufferVars, localVars
  <2>2. pc \in InEnd /\ HungUp => HungUp'
    BY <1>0, <2>1, HangUpIsForEver
  <2>3. QED  BY <2>1, <2>2 DEF TalkInv, InEnd
<1>12. CASE UNCHANGED vars
  <2>1. UNCHANGED <<run, closed, pipeOut, tokenizer, cur, pc, ret, events>>
    BY <1>12 DEF vars, solutionVars, bufferVars, localVars
  <2>2. HungUp' = HungUp
    BY <2>1 DEF HungUp, StdoutOpen, Alive
  <2>3. QED  BY <2>1, <2>2 DEF TalkInv
<1>13. QED
  BY <1>2, <1>3, <1>4, <1>5, <1>6, <1>7, <1>8, <1>9, <1>10, <1>11, <1>12, Zenon
  DEF Next, Judge, BrokerStep, Terminated

-----------------------------------------------------------------------------
(***************************************************************************)
(* What the broker is to BrokerContract.                                   *)
(***************************************************************************)
Iteration == [s \in Solution |->
                CASE tokenizer[s] = "NULL" -> "closed"
                  [] tokenizer[s] = "FAIL" -> "failed"
                  [] OTHER -> "open"]
Unread == [s \in Solution |-> OutputFlow(s)]
Ended == [s \in Solution |-> ~StdoutOpen(s)]
Queue == [s \in Solution |-> pipeIn[s] \o inbuf[s]]

\* What bytes are left when the oldest k have been dropped.
Without(q, k) == SubSeq(q, k + 1, Len(q))

LEMMA Cut ==
    ASSUME NEW p \in Seq(Nat), NEW q \in Seq(Nat)
    PROVE  /\ Len(p) \in 0 .. Len(p \o q)
           /\ SubSeq(p \o q, 1, Len(p)) = p
           /\ Without(p \o q, Len(p)) = q
<1> DEFINE r == p \o q
           n == Len(p)
           t == SubSeq(r, 1, n)
           u == SubSeq(r, n + 1, Len(r))
<1>1. /\ r \in Seq(Nat) /\ Len(r) = n + Len(q) /\ n \in Nat /\ Len(q) \in Nat
      /\ \A i \in 1 .. n : r[i] = p[i]
      /\ \A i \in 1 .. Len(q) : r[n + i] = q[i]
  BY ConcatProperties, LenProperties
<1> HIDE DEF r
<1>2. \A i \in 1 .. Len(r) : r[i] \in Nat
  BY <1>1, ElementOfSeq
<1>3. /\ t \in Seq(Nat) /\ Len(t) = n
      /\ \A i \in 1 .. n : t[i] = r[i]
  <2>1. n \in 0 .. Len(r) /\ 1 \in 1 .. n + 1
    BY <1>1
  <2>2. \A i \in 1 .. n : r[i] \in Nat
    BY <1>1, <1>2
  <2> HIDE DEF n
  <2>3. QED  BY <1>1, <2>1, <2>2, SubSeqProperties
<1>4. /\ u \in Seq(Nat) /\ Len(u) = Len(q)
      /\ \A i \in 1 .. Len(q) : u[i] = r[n + i]
  <2>1. \A i \in n + 1 .. Len(r) : r[i] \in Nat
    BY <1>1, <1>2
  <2>2. n + 1 \in 1 .. Len(r) + 1 /\ Len(r) \in n .. Len(r)
    BY <1>1
  <2> HIDE DEF n
  <2>3. /\ u \in Seq(Nat)
        /\ Len(u) = IF n + 1 <= Len(r) THEN Len(r) - (n + 1) + 1 ELSE 0
        /\ \A i \in 1 .. Len(r) - (n + 1) + 1 : u[i] = r[(n + 1) + i - 1]
    BY <1>1, <2>1, <2>2, SubSeqProperties
  <2>4. Len(u) = Len(q) /\ Len(r) - (n + 1) + 1 = Len(q)
    BY <1>1, <2>3
  <2>5. \A i \in 1 .. Len(q) : (n + 1) + i - 1 = n + i
    BY <1>1
  <2>6. QED  BY <2>3, <2>4, <2>5
<1> HIDE DEF t, u
<1>5. t = p
  BY <1>1, <1>3, SeqEqual DEF n
<1>6. u = q
  BY <1>1, <1>4, SeqEqual
<1>7. QED  BY <1>1, <1>5, <1>6 DEF t, u, r, Without

\* A step about one solution.
LEMMA OneChanges ==
    ASSUME NEW S, NEW f, NEW g, f = [t \in S |-> f[t]], g = [t \in S |-> g[t]],
           NEW s \in S, \A t \in S \ {s} : g[t] = f[t]
    PROVE  g = [f EXCEPT ![s] = g[s]]
  OBVIOUS

LEMMA ViewForm ==
    /\ Iteration = [t \in Solution |-> Iteration[t]]
    /\ Unread = [t \in Solution |-> Unread[t]]
    /\ Ended = [t \in Solution |-> Ended[t]]
    /\ Queue = [t \in Solution |-> Queue[t]]
    /\ Iteration' = [t \in Solution |-> Iteration'[t]]
    /\ Unread' = [t \in Solution |-> Unread'[t]]
    /\ Ended' = [t \in Solution |-> Ended'[t]]
    /\ Queue' = [t \in Solution |-> Queue'[t]]
    /\ \A t \in Solution : /\ Unread[t] = OutputFlow(t) /\ Unread'[t] = OutputFlow(t)'
                           /\ Ended[t] = ~StdoutOpen(t) /\ Ended'[t] = ~StdoutOpen(t)'
                           /\ Queue[t] = pipeIn[t] \o inbuf[t]
                           /\ Queue'[t] = pipeIn'[t] \o inbuf'[t]
  BY DEF Iteration, Unread, Ended, Queue

LEMMA IterationCases ==
    \A t \in Solution :
        /\ Iteration[t] = "closed" <=> tokenizer[t] = "NULL"
        /\ tokenizer[t] = "FAIL" => Iteration[t] = "failed"
        /\ tokenizer[t] \in {"CONTINUE", "ACCEPTED"} => Iteration[t] = "open"
        /\ tokenizer'[t] = "NULL" => Iteration'[t] = "closed"
        /\ tokenizer'[t] = "FAIL" => Iteration'[t] = "failed"
        /\ tokenizer'[t] \in {"CONTINUE", "ACCEPTED"} => Iteration'[t] = "open"
        /\ tokenizer'[t] = tokenizer[t] => Iteration'[t] = Iteration[t]
  BY DEF Iteration

-----------------------------------------------------------------------------
\* The steps of the contract, in these terms.
LEMMA StutterView ==
    ASSUME UNCHANGED <<Iteration, separator, written, Unread, Ended, Queue, sent, reply>>
    PROVE  UNCHANGED Contract!vars
  BY DEF Contract!vars, Iteration, Unread, Ended, Queue

LEMMA ProduceView ==
    ASSUME NEW s \in Solution, NEW c, ~Ended[s],
           written' = [written EXCEPT ![s] = Append(@, c)],
           Unread' = [Unread EXCEPT ![s] = Append(@, Len(written[s]) + 1)],
           UNCHANGED <<Iteration, separator, Ended, Queue, sent, reply>>
    PROVE  Contract!Produce(s, c)
  BY DEF Contract!Produce, Iteration, Unread, Ended, Queue

LEMMA ConsumeView ==
    ASSUME NEW s \in Solution, Queue[s] # <<>>,
           Queue' = [Queue EXCEPT ![s] = Tail(@)],
           UNCHANGED <<Iteration, separator, written, Unread, Ended, sent, reply>>
    PROVE  Contract!Consume(s)
  BY DEF Contract!Consume, Iteration, Unread, Ended, Queue

LEMMA HangUpView ==
    ASSUME NEW s \in Solution, Ended' = [Ended EXCEPT ![s] = TRUE],
           UNCHANGED <<Iteration, separator, written, Unread, Queue, sent, reply>>
    PROVE  Contract!HangUp(s)
  BY DEF Contract!HangUp, Iteration, Unread, Ended, Queue

\* The k-th byte of q is the first to decide the tokenizer for a, and it fails.
Rejects(w, a, q, k) ==
    /\ w[q[k]] \in Rejected
    /\ \A i \in 1 .. k - 1 : w[q[i]] \notin {a} \cup Rejected

LEMMA BeginView ==
    ASSUME NEW s \in Solution, NEW a, Iteration[s] = "closed",
           separator' = [separator EXCEPT ![s] = a],
           \/ Iteration' = [Iteration EXCEPT ![s] = "open"]
           \/ /\ \E k \in DOMAIN Unread[s] : Rejects(written[s], a, Unread[s], k)
              /\ Iteration' = [Iteration EXCEPT ![s] = "failed"],
           UNCHANGED <<written, Unread, Ended, Queue, sent, reply>>
    PROVE  Contract!Begin(s, a)
  BY DEF Contract!Begin, Contract!IsRejected, Contract!Ordinary, Contract!Char, Rejects,
         Iteration, Unread, Ended, Queue

LEMMA SendView ==
    ASSUME NEW s \in Solution, NEW n, Iteration[s] # "closed",
           Queue' = [Queue EXCEPT ![s] = @ \o [i \in 1 .. n |-> sent[s] + i]],
           sent' = [sent EXCEPT ![s] = @ + n],
           UNCHANGED <<Iteration, separator, written, Unread, Ended, reply>>
    PROVE  Contract!Send(s, n)
  BY DEF Contract!Send, Iteration, Unread, Ended, Queue

LEMMA RejectView ==
    ASSUME NEW s \in Solution, Iteration[s] = "open",
           Iteration' = [Iteration EXCEPT ![s] = "failed"],
           \E j \in DOMAIN Unread[s] :
               /\ Rejects(written[s], separator[s], Unread[s], j)
               /\ \E k \in j .. Len(Unread[s]) :
                    Unread' = [Unread EXCEPT ![s] = Without(@, k)],
           UNCHANGED <<separator, written, Ended, Queue, sent, reply>>
    PROVE  Contract!Reject(s)
  BY DEF Contract!Reject, Contract!IsRejected, Contract!Ordinary, Contract!Char,
         Contract!Drop, Rejects, Without, Iteration, Unread, Ended, Queue

\* An END that lets the solution live on.
Closes(s, status, data, disc) ==
    /\ Iteration' = [Iteration EXCEPT ![s] = "closed"]
    /\ reply' = [solution |-> s, status |-> status, data |-> data, discard |-> disc]
    /\ IF disc THEN \E k \in 0 .. Len(Queue[s]) :
                       Queue' = [Queue EXCEPT ![s] = SubSeq(@, 1, k)]
       ELSE UNCHANGED Queue
    /\ UNCHANGED <<separator, written, Ended, sent>>

LEMMA EndOKView ==
    ASSUME NEW s \in Solution, NEW disc, NEW k \in DOMAIN Unread[s], Iteration[s] = "open",
           written[s][Unread[s][k]] = separator[s],
           \A i \in 1 .. k - 1 : written[s][Unread[s][i]] \notin {separator[s]} \cup Rejected,
           Unread' = [Unread EXCEPT ![s] = Without(@, k)],
           Closes(s, "OK", SubSeq(Unread[s], 1, k), disc)
    PROVE  Contract!EndOK(s, disc)
  BY DEF Contract!EndOK, Contract!IsToken, Contract!Ordinary, Contract!Char,
         Contract!Drop, Contract!Close, Contract!Keep, Closes, Without,
         Iteration, Unread, Ended, Queue

LEMMA EndOfFileView ==
    ASSUME NEW s \in Solution, NEW disc, Iteration[s] = "open", Ended[s],
           Plain(written[s], separator[s], Unread[s]),
           Unread' = [Unread EXCEPT ![s] = Without(@, Len(Unread[s]))],
           Closes(s, "EOF_ERROR", <<>>, disc)
    PROVE  Contract!EndOfFile(s, disc)
  BY DEF Contract!EndOfFile, Contract!NoToken, Contract!Ordinary, Contract!Char, Plain,
         Contract!Drop, Contract!Close, Contract!Keep, Closes, Without,
         Iteration, Unread, Ended, Queue

LEMMA TokenizerErrorView ==
    ASSUME NEW s \in Solution, NEW disc, Iteration[s] = "failed", UNCHANGED Unread,
           Closes(s, "TOKENIZER_ERROR", <<>>, disc)
    PROVE  Contract!TokenizerError(s, disc)
  BY DEF Contract!TokenizerError, Contract!Close, Contract!Keep, Closes,
         Iteration, Unread, Ended, Queue

\* The solution is given up.
GivesUp(s) ==
    /\ Iteration' = [Iteration EXCEPT ![s] = "closed"]
    /\ Ended' \in {Ended, [Ended EXCEPT ![s] = TRUE]}
    /\ \E k \in 0 .. Len(Unread[s]) : Unread' = [Unread EXCEPT ![s] = Without(@, k)]
    /\ \E k \in 0 .. Len(Queue[s]) : Queue' = [Queue EXCEPT ![s] = SubSeq(@, 1, k)]
    /\ UNCHANGED <<separator, written, sent>>

LEMMA TerminateView ==
    ASSUME NEW s \in Solution, GivesUp(s), UNCHANGED reply
    PROVE  Contract!Terminate(s)
  BY DEF Contract!Terminate, Contract!GiveUp, Contract!Drop, Contract!Keep, GivesUp, Without,
         Iteration, Unread, Ended, Queue

LEMMA EndGivenUpView ==
    ASSUME NEW s \in Solution, NEW disc, Iteration[s] # "closed", GivesUp(s),
           NEW status \in {"REAL_TIME_LIMIT_EXCEEDED", "UNINIT"},
           reply' = [solution |-> s, status |-> status, data |-> <<>>, discard |-> disc]
    PROVE  Contract!EndGivenUp(s, disc)
<1>1. Contract!GiveUp(s)
  BY DEF Contract!GiveUp, Contract!Drop, Contract!Keep, GivesUp, Without,
         Iteration, Unread, Ended, Queue
<1>2. QED  BY <1>1 DEF Contract!EndGivenUp, Iteration

LEMMA FailView ==
    ASSUME NEW s \in Solution, Iteration[s] # "closed",
           Iteration' = [Iteration EXCEPT ![s] = "closed"],
           \E k \in 0 .. Len(Unread[s]) : Unread' = [Unread EXCEPT ![s] = Without(@, k)],
           UNCHANGED <<separator, written, Ended, Queue, sent, reply>>
    PROVE  Contract!Fail(s)
  BY DEF Contract!Fail, Contract!Drop, Without, Iteration, Unread, Ended, Queue

-----------------------------------------------------------------------------
\* How the operations look to the contract.
\* The killer's commands other than KILL end no output, ...
Live(r, t) == r[t] \in {"running", "frozen"}

LEMMA StillLive ==
    ASSUME NEW r \in [Solution -> RunState], NEW s \in Solution, NEW ok \in BOOLEAN
    PROVE  /\ \A t \in Solution : Live(Frozen(r, s, ok), t) = Live(r, t)
           /\ \A t \in Solution : Live(Thawed(r, s, ok), t) = Live(r, t)
           /\ \A t \in Solution \ {s} : Live(Killed(r, s, ok), t) = Live(r, t)
           /\ ~Live(Killed(r, s, ok), s) \/ Killed(r, s, ok) = r
  BY DEF Frozen, Thawed, Killed, RunState, Live

LEMMA SameEnded ==
    ASSUME UNCHANGED closed, \A t \in Solution : Live(run', t) = Live(run, t)
    PROVE  UNCHANGED Ended
  BY DEF Ended, StdoutOpen, Alive, Live

\* ... and KILL that of its solution.
LEMMA KilledEnded ==
    ASSUME NEW r \in [Solution -> RunState], NEW s \in Solution, NEW ok \in BOOLEAN,
           \A t \in Solution : Live(r, t) = Live(run, t),
           run' = Killed(r, s, ok), UNCHANGED closed
    PROVE  Ended' \in {Ended, [Ended EXCEPT ![s] = TRUE]}
<1>1. CASE run' = r
  BY <1>1, SameEnded
<1>2. CASE ~Live(run', s)
  <2>1. \A t \in Solution \ {s} : Live(run', t) = Live(run, t)
    BY StillLive
  <2>2. /\ \A t \in Solution \ {s} : Ended'[t] = Ended[t]
        /\ Ended'[s] = TRUE
    BY <1>2, <2>1, ViewForm DEF StdoutOpen, Alive, Live
  <2>3. Ended' = [Ended EXCEPT ![s] = Ended'[s]]
    BY <2>2, ViewForm, OneChanges
  <2>4. QED  BY <2>2, <2>3
<1>3. QED  BY <1>1, <1>2, StillLive

\* The iteration of one solution is closed.
LEMMA ClosedView ==
    ASSUME TypeOK, TypeOK', NEW s \in Solution,
           tokenizer' = [tokenizer EXCEPT ![s] = "NULL"],
           outbuf' = outbuf \/ outbuf' = [outbuf EXCEPT ![s] = <<>>],
           UNCHANGED <<result, pipeOut, written>>
    PROVE  /\ Iteration' = [Iteration EXCEPT ![s] = "closed"]
           /\ outbuf' = outbuf =>
                Unread' = [Unread EXCEPT ![s] = Without(@, Len(Collected(s)))]
           /\ \E k \in 0 .. Len(Unread[s]) : Unread' = [Unread EXCEPT ![s] = Without(@, k)]
<1>1. /\ tokenizer'[s] = "NULL"
      /\ \A t \in Solution \ {s} : tokenizer'[t] = tokenizer[t] /\ outbuf'[t] = outbuf[t]
      /\ OutputTypes
  BY Types DEF OutputTypes
<1>2. Iteration' = [Iteration EXCEPT ![s] = "closed"]
  <2>1. /\ Iteration'[s] = "closed"
        /\ \A t \in Solution \ {s} : Iteration'[t] = Iteration[t]
    BY <1>1, IterationCases
  <2>2. Iteration' = [Iteration EXCEPT ![s] = Iteration'[s]]
    BY <2>1, ViewForm, OneChanges
  <2>3. QED  BY <2>1, <2>2
<1>3. Unread' = [Unread EXCEPT ![s] = Unread'[s]]
  <2>1. \A t \in Solution \ {s} : OutputFlow(t)' = OutputFlow(t)
    BY <1>1 DEF OutputFlow, Collected
  <2>2. \A t \in Solution \ {s} : Unread'[t] = Unread[t]
    BY <2>1, Zenon DEF Unread
  <2>3. QED  BY <2>2, ViewForm, OneChanges
<1> DEFINE c == Collected(s)
           o == outbuf[s]
           p == pipeOut[s]
<1>4. c \in Seq(Nat) /\ o \in Seq(Nat) /\ p \in Seq(Nat) /\ c \o o \in Seq(Nat)
  BY <1>1, OutputFlowType DEF OutputTypes
<1>5. o \o p \in Seq(Nat) /\ Unread[s] = c \o (o \o p) /\ Unread[s] = (c \o o) \o p
  BY <1>1, CollectedIsFront, ViewForm DEF OutputFlow
<1>6. Unread'[s] = (<<>> \o outbuf'[s]) \o p
  BY <1>1, ViewForm DEF OutputFlow, Collected
<1> HIDE DEF c, o, p
<1>7. ASSUME outbuf' = outbuf
      PROVE  Unread'[s] = Without(Unread[s], Len(c)) /\ Len(c) \in 0 .. Len(Unread[s])
  <2>1. Unread'[s] = o \o p
    BY <1>4, <1>6, <1>7, EmptyIsNeutral DEF o
  <2>2. /\ Without(c \o (o \o p), Len(c)) = o \o p
        /\ Len(c) \in 0 .. Len(c \o (o \o p))
    BY <1>4, <1>5, Cut
  <2>3. QED  BY <1>5, <2>1, <2>2
<1>8. ASSUME outbuf' = [outbuf EXCEPT ![s] = <<>>]
      PROVE  /\ Unread'[s] = Without(Unread[s], Len(c \o o))
             /\ Len(c \o o) \in 0 .. Len(Unread[s])
  <2>1. outbuf'[s] = <<>>
    BY <1>1, <1>8 DEF OutputTypes
  <2>2. Unread'[s] = p
    BY <1>4, <1>6, <2>1, EmptyIsNeutral
  <2>3. /\ Without((c \o o) \o p, Len(c \o o)) = p
        /\ Len(c \o o) \in 0 .. Len((c \o o) \o p)
    BY <1>4, Cut
  <2>4. QED  BY <1>5, <2>2, <2>3
<1>9. QED  BY <1>2, <1>3, <1>7, <1>8 DEF c

\* Input that the broker still has is dropped.
LEMMA DroppedInput ==
    ASSUME TypeOK, NEW s \in Solution, inbuf' = [inbuf EXCEPT ![s] = <<>>], UNCHANGED pipeIn
    PROVE  \E k \in 0 .. Len(Queue[s]) : Queue' = [Queue EXCEPT ![s] = SubSeq(@, 1, k)]
<1> DEFINE p == pipeIn[s]
           b == inbuf[s]
<1>1. /\ p \in Seq(Nat) /\ b \in Seq(Nat)
      /\ inbuf'[s] = <<>> /\ \A t \in Solution \ {s} : inbuf'[t] = inbuf[t]
  BY Types DEF InputTypes
<1>2. Queue[s] = p \o b /\ Queue'[s] = p \o <<>>
  BY <1>1, ViewForm
<1>3. ASSUME NEW t \in Solution \ {s} PROVE Queue'[t] = Queue[t]
  <2>1. Queue[t] = pipeIn[t] \o inbuf[t] /\ Queue'[t] = pipeIn'[t] \o inbuf'[t]
    BY Zenon DEF Queue
  <2>2. pipeIn'[t] = pipeIn[t] /\ inbuf'[t] = inbuf[t]
    BY <1>1
  <2>3. QED  BY <2>1, <2>2, Zenon
<1>4. Queue' = [Queue EXCEPT ![s] = Queue'[s]]
  BY <1>3, ViewForm, OneChanges
<1> HIDE DEF p, b
<1>5. Queue'[s] = SubSeq(Queue[s], 1, Len(p)) /\ Len(p) \in 0 .. Len(Queue[s])
  <2>1. SubSeq(p \o b, 1, Len(p)) = p /\ Len(p) \in 0 .. Len(p \o b)
    BY <1>1, Cut
  <2>2. p \o <<>> = p
    BY <1>1, EmptyIsNeutral
  <2>3. QED  BY <1>2, <2>1, <2>2
<1>6. QED  BY <1>4, <1>5

\* end() answers.
LEMMA AnswerView ==
    ASSUME TypeOK, TypeOK', OutputInv, TokenInv, NEW s \in Solution, NEW disc \in BOOLEAN,
           NEW status \in {"OK", "UNINIT", "REAL_TIME_LIMIT_EXCEEDED"},
           NEW r \in [Solution -> RunState], \A t \in Solution : Live(r, t) = Live(run, t),
           tokenizer[s] # "NULL",
           status = "OK" /\ tokenizer[s] = "CONTINUE" => ~StdoutOpen(s) /\ pipeOut[s] = <<>>,
           Answer(s, disc, status, r)
    PROVE  \/ Contract!EndOK(s, disc) \/ Contract!EndOfFile(s, disc)
           \/ Contract!TokenizerError(s, disc) \/ Contract!EndGivenUp(s, disc)
<1>1. /\ tokenizer' = [tokenizer EXCEPT ![s] = "NULL"]
      /\ outbuf' = outbuf \/ outbuf' = [outbuf EXCEPT ![s] = <<>>]
      /\ UNCHANGED <<closed, pipeIn, pipeOut, written, separator, result, sent>>
  BY Zenon DEF Answer, Forget
<1>2. /\ Iteration' = [Iteration EXCEPT ![s] = "closed"]
      /\ outbuf' = outbuf =>
           Unread' = [Unread EXCEPT ![s] = Without(@, Len(Collected(s)))]
      /\ \E k \in 0 .. Len(Unread[s]) : Unread' = [Unread EXCEPT ![s] = Without(@, k)]
  BY <1>1, ClosedView
<1>3. /\ tokenizer[s] \in TokenizerStatus
      /\ OutputTypes /\ result[s] \in Seq(Nat)
  BY Types DEF OutputTypes
<1>4. CASE status = "OK"
  <2> DEFINE final == IterationStatus(s)
             data == IF final = "OK" THEN result[s] ELSE <<>>
  <2>1. /\ run' = r
        /\ inbuf' = IF disc THEN [inbuf EXCEPT ![s] = <<>>] ELSE inbuf
        /\ outbuf' = outbuf
        /\ reply' = [solution |-> s, status |-> final, data |-> data, discard |-> disc]
    BY <1>4, Zenon DEF Answer
  <2>2. UNCHANGED Ended
    BY <1>1, <2>1, SameEnded
  <2>3. IF disc THEN \E k \in 0 .. Len(Queue[s]) :
                       Queue' = [Queue EXCEPT ![s] = SubSeq(@, 1, k)]
        ELSE UNCHANGED Queue
    <3>1. CASE disc
      BY <1>1, <2>1, <3>1, DroppedInput
    <3>2. CASE ~disc
      BY <1>1, <2>1, <3>2 DEF Queue
    <3>3. QED  BY <3>1, <3>2
  <2> HIDE DEF final, data
  <2>4. Closes(s, final, data, disc)
    BY <1>1, <1>2, <2>1, <2>2, <2>3 DEF Closes
  <2>5. Unread' = [Unread EXCEPT ![s] = Without(@, Len(Collected(s)))]
    BY <1>2, <2>1
  <2>6. CASE tokenizer[s] = "ACCEPTED"
    <3> DEFINE q == result[s]
               k == Len(q)
    <3>1. Collected(s) = q /\ Token(written[s], separator[s], q) /\ q \in Seq(Nat)
      BY <1>3, <2>6 DEF Collected, TokenInv
    <3>2. final = "OK" /\ data = q
      BY <2>6 DEF final, data, IterationStatus
    <3>3. Iteration[s] = "open"
      BY <2>6, IterationCases
    <3>4. /\ OutputFlow(s) = q \o (outbuf[s] \o pipeOut[s])
          /\ outbuf[s] \o pipeOut[s] \in Seq(Nat)
          /\ \A i \in DOMAIN q : i \in DOMAIN OutputFlow(s) /\ OutputFlow(s)[i] = q[i]
      BY <1>3, <3>1, CollectedIsFront
    <3> HIDE DEF q
    <3>5. k \in DOMAIN q /\ \A i \in 1 .. k - 1 : i \in DOMAIN q
      <4>1. Len(q) \in Nat /\ DOMAIN q = 1 .. Len(q) /\ Len(q) # 0
        BY <3>1, LenProperties, EmptySeq DEF Token
      <4>2. QED  BY <4>1
    <3>6. Unread[s] = OutputFlow(s)
      BY ViewForm
    <3>7. k \in DOMAIN Unread[s] /\ Unread[s][k] = q[k]
          /\ \A i \in 1 .. k - 1 : Unread[s][i] = q[i]
      BY <3>4, <3>5, <3>6
    <3>8. q = SubSeq(Unread[s], 1, k)
      <4>1. SubSeq(q \o (outbuf[s] \o pipeOut[s]), 1, Len(q)) = q
        <5> DEFINE b == outbuf[s] \o pipeOut[s]
        <5>1. b \in Seq(Nat)
          BY <3>4
        <5> HIDE DEF b
        <5>2. SubSeq(q \o b, 1, Len(q)) = q
          BY <3>1, <5>1, Cut
        <5>3. QED  BY <5>2 DEF b
      <4>2. QED  BY <3>4, <3>6, <4>1
    <3>9. Unread' = [Unread EXCEPT ![s] = Without(@, k)]
      BY <2>5, <3>1
    <3>10. Closes(s, "OK", SubSeq(Unread[s], 1, k), disc)
      BY <2>4, <3>2, <3>8, Zenon
    <3>11. /\ written[s][Unread[s][k]] = separator[s]
           /\ \A i \in 1 .. k - 1 :
                 written[s][Unread[s][i]] \notin {separator[s]} \cup Rejected
      BY <3>1, <3>7 DEF Token
    <3> HIDE DEF k
    <3>12. Contract!EndOK(s, disc)
      BY <3>3, <3>7, <3>9, <3>10, <3>11, EndOKView
    <3>13. QED  BY <3>12
  <2>7. CASE tokenizer[s] = "CONTINUE"
    <3>1. Collected(s) = result[s] /\ Plain(written[s], separator[s], result[s])
      BY <2>7 DEF Collected, TokenInv
    <3>2. final = "EOF_ERROR" /\ data = <<>>
      BY <2>7 DEF final, data, IterationStatus
    <3>3. Iteration[s] = "open" /\ Ended[s]
      BY <1>4, <2>7, IterationCases, ViewForm
    <3>4. outbuf[s] = <<>> /\ pipeOut[s] = <<>>
      BY <1>4, <2>7 DEF OutputInv
    <3>5. Unread[s] = result[s]
      <4>1. Unread[s] = (result[s] \o <<>>) \o <<>>
        BY <3>1, <3>4, ViewForm DEF OutputFlow
      <4>2. QED  BY <1>3, <4>1, EmptyIsNeutral
    <3>6. Unread' = [Unread EXCEPT ![s] = Without(@, Len(Unread[s]))]
      BY <2>5, <3>1, <3>5
    <3>7. Contract!EndOfFile(s, disc)
      BY <2>4, <3>1, <3>2, <3>3, <3>5, <3>6, EndOfFileView
    <3>8. QED  BY <3>7
  <2>8. CASE tokenizer[s] = "FAIL"
    <3>1. Collected(s) = <<>>
      BY <2>8 DEF Collected
    <3>2. final = "TOKENIZER_ERROR" /\ data = <<>>
      BY <2>8 DEF final, data, IterationStatus
    <3>3. Iteration[s] = "failed"
      BY <2>8, IterationCases
    <3>4. Unread[s] \in Seq(Nat)
      BY <1>3, OutputFlowType, ViewForm
    <3>5. Without(Unread[s], Len(Collected(s))) = Unread[s]
      <4>1. Len(Collected(s)) = 0
        BY <3>1
      <4>2. QED  BY <3>4, <4>1, SubSeqFull DEF Without
    <3>6. Unread' = Unread
      BY <2>5, <3>5, ViewForm
    <3>7. Contract!TokenizerError(s, disc)
      BY <2>4, <3>2, <3>3, <3>6, TokenizerErrorView
    <3>8. QED  BY <3>7
  <2>9. QED  BY <1>3, <2>6, <2>7, <2>8 DEF TokenizerStatus
<1>5. CASE status # "OK"
  <2>1. /\ \E ok \in BOOLEAN : run' = Killed(r, s, ok)
        /\ inbuf' = [inbuf EXCEPT ![s] = <<>>]
        /\ reply' = [solution |-> s, status |-> status, data |-> <<>>, discard |-> disc]
    BY <1>5 DEF Answer, Forget
  <2>2. Ended' \in {Ended, [Ended EXCEPT ![s] = TRUE]}
    BY <1>1, <2>1, KilledEnded
  <2>3. \E k \in 0 .. Len(Queue[s]) : Queue' = [Queue EXCEPT ![s] = SubSeq(@, 1, k)]
    BY <1>1, <2>1, DroppedInput
  <2>4. GivesUp(s)
    BY <1>1, <1>2, <2>2, <2>3 DEF GivesUp
  <2>5. Iteration[s] # "closed"
    BY IterationCases
  <2>6. Contract!EndGivenUp(s, disc)
    BY <1>5, <2>1, <2>4, <2>5, EndGivenUpView
  <2>7. QED  BY <2>6
<1>6. QED  BY <1>4, <1>5

\* The iteration of one solution is opened or fails.
LEMMA OneIteration ==
    ASSUME NEW s \in Solution, \A t \in Solution \ {s} : tokenizer'[t] = tokenizer[t]
    PROVE  Iteration' = [Iteration EXCEPT ![s] = Iteration'[s]]
<1>1. \A t \in Solution \ {s} : Iteration'[t] = Iteration[t]
  BY IterationCases
<1>2. QED  BY <1>1, ViewForm, OneChanges

\* begin()
LEMMA BeginEffect ==
    ASSUME TypeOK, TypeOK', NEW s \in Solution, NEW a \in Separators, Begin(s, a)
    PROVE  Contract!Begin(s, a)
<1> DEFINE q == outbuf[s]
           p == pipeOut[s]
<1>1. /\ OutputTypes /\ OutputTypes' /\ q \in Seq(Nat) /\ p \in Seq(Nat)
      /\ tokenizer \in [Solution -> TokenizerStatus \cup {"NULL"}]
  BY Types, TypesNext DEF OutputTypes
<1>2. /\ tokenizer[s] = "NULL" /\ tokenizer'[s] = Verdict(s, a, q)
      /\ \A t \in Solution \ {s} : tokenizer'[t] = tokenizer[t]
      /\ separator' = [separator EXCEPT ![s] = a]
      /\ UNCHANGED <<run, closed, pipeIn, inbuf, written, sent, reply>>
  BY <1>1 DEF Begin, solutionVars
<1>3. UNCHANGED <<Unread, Ended, Queue>>
  <2>1. Unread' = Unread
    <3>1. \A t \in Solution : OutputFlow(t)' = OutputFlow(t)
      BY <1>1, BeginKeeps
    <3>2. QED  BY <3>1, Zenon DEF Unread
  <2>2. Ended' = Ended /\ Queue' = Queue
    BY <1>2 DEF Ended, StdoutOpen, Alive, Queue
  <2>3. QED  BY <2>1, <2>2
<1>4. Iteration' = [Iteration EXCEPT ![s] = Iteration'[s]] /\ Iteration[s] = "closed"
  BY <1>2, OneIteration, IterationCases
<1>5. CASE tokenizer'[s] = "FAIL"
  <2>1. Unread[s] = q \o p
    <3>1. Collected(s) = <<>>
      BY <1>2 DEF Collected
    <3>2. Unread[s] = (<<>> \o q) \o p
      BY <3>1, ViewForm DEF OutputFlow
    <3>3. QED  BY <1>1, <3>2, EmptyIsNeutral
  <2> HIDE DEF q, p
  <2>2. PICK j \in 1 .. Len(q) :
            /\ written[s][q[j]] \in Rejected
            /\ \A i \in 1 .. j - 1 : written[s][q[i]] \notin {a} \cup Rejected
    <3>1. Verdict(s, a, q) = "FAIL"
      BY <1>2, <1>5
    <3>2. QED  BY <1>1, <3>1, VerdictMeaning
  <2>3. /\ \A i \in DOMAIN q : i \in DOMAIN Unread[s] /\ Unread[s][i] = q[i]
        /\ Len(q) \in Nat /\ DOMAIN q = 1 .. Len(q)
    BY <1>1, <2>1, FrontElements, LenProperties
  <2>4. j \in DOMAIN q /\ \A i \in 1 .. j - 1 : i \in DOMAIN q
    BY <2>3
  <2>5. \E k \in DOMAIN Unread[s] : Rejects(written[s], a, Unread[s], k)
    BY <2>2, <2>3, <2>4 DEF Rejects
  <2>6. Iteration' = [Iteration EXCEPT ![s] = "failed"]
    BY <1>4, <1>5, IterationCases
  <2>7. QED  BY <1>2, <1>3, <1>4, <2>5, <2>6, BeginView
<1>6. CASE tokenizer'[s] # "FAIL"
  <2>1. tokenizer'[s] \in {"CONTINUE", "ACCEPTED"}
    <3> HIDE DEF q
    <3>1. QED  BY <1>1, <1>2, <1>6, VerdictCases
  <2>2. Iteration' = [Iteration EXCEPT ![s] = "open"]
    BY <1>4, <2>1, IterationCases
  <2>3. QED  BY <1>2, <1>3, <1>4, <2>2, BeginView
<1>7. QED  BY <1>5, <1>6

\* send()
LEMMA SendEffect ==
    ASSUME TypeOK, NEW s \in Solution, NEW n \in 0 .. MaxInput, Send(s, n)
    PROVE  Contract!Send(s, n)
<1> DEFINE e == [i \in 1 .. n |-> sent[s] + i]
           p == pipeIn[s]
           b == inbuf[s]
<1>1. /\ InputTypes /\ p \in Seq(Nat) /\ b \in Seq(Nat) /\ n \in Nat /\ sent[s] \in Nat
  BY Types, BrokerAssumption DEF InputTypes
<1>2. /\ tokenizer[s] # "NULL"
      /\ inbuf'[s] = b \o e /\ \A t \in Solution \ {s} : inbuf'[t] = inbuf[t]
      /\ sent' = [sent EXCEPT ![s] = @ + n]
      /\ UNCHANGED <<tokenizer, separator, result, outbuf, reply>>
      /\ UNCHANGED <<run, closed, pipeIn, pipeOut, written>>
  BY <1>1 DEF Send, solutionVars, InputTypes
<1>3. e \in Seq(Nat)
  BY <1>1, CountUp
<1>4. UNCHANGED <<Iteration, Unread, Ended>>
  BY <1>2 DEF Iteration, Unread, OutputFlow, Collected, Ended, StdoutOpen, Alive
<1>5. Queue' = [Queue EXCEPT ![s] = @ \o e]
  <2>1. Queue' = [Queue EXCEPT ![s] = Queue'[s]]
    <3>1. \A t \in Solution \ {s} : Queue'[t] = Queue[t]
      BY <1>2 DEF Queue
    <3>2. QED  BY <3>1, ViewForm, OneChanges
  <2>2. Queue'[s] = p \o (b \o e) /\ Queue[s] = p \o b
    BY <1>2, ViewForm
  <2> HIDE DEF e, p, b
  <2>3. (p \o b) \o e = p \o (b \o e)
    BY <1>1, <1>3, ConcatNat, ZenonT(60)
  <2>4. Queue'[s] = Queue[s] \o e
    BY <2>2, <2>3
  <2>5. QED  BY <2>1, <2>4
<1>6. Iteration[s] # "closed"
  BY <1>2, IterationCases
<1>7. QED  BY <1>2, <1>4, <1>5, <1>6, SendView

\* terminate()
LEMMA TerminateEffect ==
    ASSUME TypeOK, TypeOK', NEW s \in Solution, Terminate(s)
    PROVE  Contract!Terminate(s)
<1>1. /\ \E ok \in BOOLEAN : run' = Killed(run, s, ok)
      /\ tokenizer' = [tokenizer EXCEPT ![s] = "NULL"]
      /\ inbuf' = [inbuf EXCEPT ![s] = <<>>]
      /\ outbuf' = [outbuf EXCEPT ![s] = <<>>]
      /\ UNCHANGED <<result, pipeOut, written, pipeIn, closed, separator, sent, reply>>
  BY DEF Terminate, Forget
<1>2. /\ Iteration' = [Iteration EXCEPT ![s] = "closed"]
      /\ \E k \in 0 .. Len(Unread[s]) : Unread' = [Unread EXCEPT ![s] = Without(@, k)]
  BY <1>1, ClosedView
<1>3. \E k \in 0 .. Len(Queue[s]) : Queue' = [Queue EXCEPT ![s] = SubSeq(@, 1, k)]
  BY <1>1, DroppedInput
<1>4. Ended' \in {Ended, [Ended EXCEPT ![s] = TRUE]}
  BY <1>1, Types, KilledEnded
<1>5. GivesUp(s)
  BY <1>1, <1>2, <1>3, <1>4 DEF GivesUp
<1>6. QED  BY <1>1, <1>5, TerminateView

\* end() without communicate()
LEMMA EndBufferedEffect ==
    ASSUME TypeOK, TypeOK', OutputInv, TokenInv, NEW s \in Solution, NEW disc \in BOOLEAN,
           EndBuffered(s, disc)
    PROVE  \/ Contract!EndOK(s, disc) \/ Contract!EndOfFile(s, disc)
           \/ Contract!TokenizerError(s, disc) \/ Contract!EndGivenUp(s, disc)
<1>1. PICK status \in {"OK", "UNINIT"} : Answer(s, disc, status, run)
  BY Zenon DEF EndBuffered
<1>2. tokenizer[s] \in {"ACCEPTED", "FAIL"}
  BY DEF EndBuffered
<1>3. run \in [Solution -> RunState] /\ \A t \in Solution : Live(run, t) = Live(run, t)
  BY Types
<1>4. status \in {"OK", "UNINIT", "REAL_TIME_LIMIT_EXCEEDED"}
  OBVIOUS
<1>5. tokenizer[s] # "NULL" /\ tokenizer[s] # "CONTINUE"
  BY <1>2
<1>6. QED  BY <1>1, <1>3, <1>4, <1>5, AnswerView, Zenon

\* end() after communicate()
LEMMA EndReturnEffect ==
    ASSUME TypeOK, TypeOK', OutputInv, TokenInv, TalkInv, EndReturn
    PROVE  \E s \in Solution, disc \in BOOLEAN :
              \/ Contract!EndOK(s, disc) \/ Contract!EndOfFile(s, disc)
              \/ Contract!TokenizerError(s, disc) \/ Contract!EndGivenUp(s, disc)
<1>1. /\ pc = "return" /\ cur \in Solution /\ discard \in BOOLEAN
      /\ ret \in {"OK", "UNINIT", "REAL_TIME_LIMIT_EXCEEDED"}
      /\ run \in [Solution -> RunState]
  BY Types DEF EndReturn, TypeOK, InEnd
<1>2. /\ tokenizer[cur] # "NULL"
      /\ ret = "OK" /\ tokenizer[cur] = "CONTINUE" => ~StdoutOpen(cur) /\ pipeOut[cur] = <<>>
  BY <1>1 DEF TalkInv, InEnd, HungUp
<1>3. PICK ok \in BOOLEAN : Answer(cur, discard, ret, Frozen(run, cur, ok))
  BY Zenon DEF EndReturn, RunAfterTalk
<1> DEFINE r == Frozen(run, cur, ok)
<1>4. r \in [Solution -> RunState] /\ \A t \in Solution : Live(r, t) = Live(run, t)
  <2>1. r \in [Solution -> RunState]
    BY <1>1 DEF Frozen, RunState
  <2>2. QED  BY <1>1, <2>1, StillLive
<1>5. Answer(cur, discard, ret, r)
  BY <1>3
<1> HIDE DEF r
<1>6. PICK s \in Solution, disc \in BOOLEAN : s = cur /\ disc = discard
  BY <1>1
<1>7. /\ tokenizer[s] # "NULL" /\ Answer(s, disc, ret, r)
      /\ ret = "OK" /\ tokenizer[s] = "CONTINUE" => ~StdoutOpen(s) /\ pipeOut[s] = <<>>
  BY <1>2, <1>5, <1>6
<1>8. \/ Contract!EndOK(s, disc) \/ Contract!EndOfFile(s, disc)
      \/ Contract!TokenizerError(s, disc) \/ Contract!EndGivenUp(s, disc)
  BY <1>1, <1>4, <1>7, AnswerView
<1>9. QED  BY <1>8

\* What the contract does not see.
LEMMA Silent ==
    ASSUME UNCHANGED <<bufferVars, closed, pipeIn, pipeOut, written, sent, reply>>,
           \A t \in Solution : Live(run', t) = Live(run, t)
    PROVE  UNCHANGED Contract!vars
<1>1. UNCHANGED Ended
  BY SameEnded
<1>2. UNCHANGED <<Iteration, Unread, Queue>>
  BY DEF bufferVars, Iteration, Unread, OutputFlow, Collected, Queue
<1>3. QED  BY <1>1, <1>2, StutterView DEF bufferVars

LEMMA SilentSteps ==
    ASSUME TypeOK,
           \/ BootFreeze \/ Misuse \/ JudgeEOF \/ EpollWait \/ TimeLimit \/ BatchDone
           \/ HandleIn \/ WriteDone \/ HandleOut \/ ReadDone \/ Expire
           \/ \E s \in Solution, disc \in BOOLEAN : EndCommunicate(s, disc)
           \/ UNCHANGED vars
    PROVE  UNCHANGED Contract!vars
<1>1. run \in [Solution -> RunState]
  BY Types
<1>2. CASE BootFreeze
  <2>1. PICK ok \in BOOLEAN : run' = Frozen(run, cur, ok)
    BY <1>2 DEF BootFreeze
  <2>2. cur \in Solution
    BY <1>2 DEF BootFreeze, TypeOK
  <2>3. \A t \in Solution : Live(run', t) = Live(run, t)
    BY <1>1, <2>1, <2>2, StillLive
  <2>4. QED  BY <1>2, <2>3, Silent DEF BootFreeze
<1>3. ASSUME NEW s \in Solution, NEW disc \in BOOLEAN, EndCommunicate(s, disc)
      PROVE  UNCHANGED Contract!vars
  <2>1. PICK ok \in BOOLEAN : run' = Thawed(run, s, ok)
    BY <1>3 DEF EndCommunicate
  <2>2. \A t \in Solution : Live(run', t) = Live(run, t)
    BY <1>1, <2>1, StillLive
  <2>3. QED  BY <1>3, <2>2, Silent DEF EndCommunicate
<1>4. CASE UNCHANGED <<solutionVars, bufferVars, sent, reply>>
  <2>1. \A t \in Solution : Live(run', t) = Live(run, t)
    BY <1>4 DEF solutionVars
  <2>2. QED  BY <1>4, <2>1, Silent DEF solutionVars
<1>5. CASE \/ Misuse \/ JudgeEOF \/ EpollWait \/ TimeLimit \/ BatchDone
           \/ HandleIn \/ WriteDone \/ HandleOut \/ ReadDone \/ Expire
  BY <1>4, <1>5 DEF Misuse, JudgeEOF, EpollWait, TimeLimit, BatchDone, HandleIn,
                    WriteDone, HandleOut, ReadDone, Expire
<1>6. CASE UNCHANGED vars
  BY <1>4, <1>6 DEF vars
<1>7. QED  BY <1>2, <1>3, <1>5, <1>6

\* A write() only moves input from the broker to the pipe.
LEMMA WriteEffect ==
    ASSUME TypeOK, Write
    PROVE  UNCHANGED Contract!vars
<1> DEFINE n == Min3(BufSize, Len(inbuf[cur]), PipeSize - Len(pipeIn[cur]))
           p == pipeIn[cur]
           b == inbuf[cur]
           f == Front(b, n)
           g == Rest(b, n)
<1>1. /\ InputTypes /\ cur \in Solution /\ p \in Seq(Nat) /\ b \in Seq(Nat)
  BY Types DEF Write, InEnd, InputTypes
<1>2. n \in 0 .. Len(b)
  <2>1. Len(b) \in Nat /\ Len(p) \in Nat /\ Len(p) < PipeSize
    BY <1>1, LenProperties DEF Write
  <2>2. BufSize \in Nat /\ PipeSize \in Nat
    BY SolutionsAssumption, BrokerAssumption
  <2> HIDE DEF p, b
  <2>3. Min3(BufSize, Len(b), PipeSize - Len(p)) \in 0 .. Len(b)
    BY <2>1, <2>2, Min3Bound
  <2>4. QED  BY <2>3 DEF p, b
<1>3. /\ pipeIn'[cur] = p \o f /\ inbuf'[cur] = g
      /\ \A t \in Solution \ {cur} : pipeIn'[t] = pipeIn[t] /\ inbuf'[t] = inbuf[t]
      /\ UNCHANGED <<run, closed, pipeOut, written, tokenizer, separator, result, outbuf>>
      /\ UNCHANGED <<sent, reply>>
  BY <1>1 DEF Write, InputTypes
<1> HIDE DEF n
<1>4. f \in Seq(Nat) /\ g \in Seq(Nat) /\ f \o g = b
  <2> HIDE DEF b
  <2>1. QED  BY <1>1, <1>2, SplitQueue
<1>5. pipeIn'[cur] \o inbuf'[cur] = pipeIn[cur] \o inbuf[cur]
  <2>1. pipeIn'[cur] \o inbuf'[cur] = (p \o f) \o g
    BY <1>3
  <2> HIDE DEF p, b, f, g
  <2>2. (p \o f) \o g = p \o b
    BY <1>1, <1>4, ConcatNat, ZenonT(60)
  <2>3. QED  BY <2>1, <2>2 DEF p, b
<1>6. UNCHANGED Queue
  <2>1. \A t \in Solution : pipeIn'[t] \o inbuf'[t] = pipeIn[t] \o inbuf[t]
    BY <1>3, <1>5
  <2>2. QED  BY <2>1, Zenon DEF Queue
<1>7. UNCHANGED <<Iteration, Unread, Ended>>
  BY <1>3 DEF Iteration, Unread, OutputFlow, Collected, Ended, StdoutOpen, Alive
<1>8. QED  BY <1>3, <1>6, <1>7, StutterView

\* The broker fails in a write().
LEMMA WriteFailsEffect ==
    ASSUME TypeOK, TypeOK', TalkInv, WriteFails
    PROVE  \E s \in Solution : Contract!Fail(s)
<1>1. PICK s \in Solution : s = cur
  BY Types DEF WriteFails, InEnd
<1>2. /\ tokenizer' = [tokenizer EXCEPT ![s] = "NULL"]
      /\ UNCHANGED <<separator, result, inbuf, outbuf, sent, reply>>
      /\ UNCHANGED <<run, closed, pipeIn, pipeOut, written>>
  BY <1>1 DEF WriteFails, solutionVars
<1>3. Iteration[s] # "closed"
  <2>1. tokenizer[s] # "NULL"
    BY <1>1 DEF WriteFails, TalkInv, InEnd
  <2>2. QED  BY <2>1, IterationCases
<1>4. /\ Iteration' = [Iteration EXCEPT ![s] = "closed"]
      /\ \E k \in 0 .. Len(Unread[s]) : Unread' = [Unread EXCEPT ![s] = Without(@, k)]
  BY <1>2, ClosedView
<1>5. UNCHANGED <<Ended, Queue>>
  BY <1>2 DEF Ended, StdoutOpen, Alive, Queue
<1>6. QED  BY <1>2, <1>3, <1>4, <1>5, FailView

\* A read() moves output to the token and the leftovers, or the tokenizer fails.
LEMMA ReadEffect ==
    ASSUME TypeOK, TypeOK', OutputInv, TokenInv, Read
    PROVE  UNCHANGED Contract!vars \/ \E s \in Solution : Contract!Reject(s)
<1>1. PICK s \in Solution : s = cur
  BY Types DEF Read, InEnd
<1>2. /\ tokenizer[s] = "CONTINUE" /\ result[s] \in Seq(Nat)
      /\ Chunk \in Seq(Nat) /\ pipeOut'[s] \in Seq(Nat)
      /\ tokenizer'[s] = Verdict(s, separator[s], Chunk)
      /\ \A t \in Solution \ {s} : tokenizer'[t] = tokenizer[t]
      /\ separator[s] \in Separators
  BY <1>1, ReadParts, Types
<1>3. /\ \A t \in Solution \ {s} : OutputFlow(t)' = OutputFlow(t)
      /\ tokenizer'[s] # "FAIL" => OutputFlow(s)' = OutputFlow(s)
      /\ OutputFlow(s) = result[s] \o (Chunk \o pipeOut'[s])
      /\ tokenizer'[s] = "FAIL" => OutputFlow(s)' = pipeOut'[s]
  <2>1. cur' = cur
    BY DEF Read
  <2>2. QED  BY <1>1, <2>1, ReadKeeps, Types, TypesNext
<1>4. UNCHANGED <<separator, written, run, closed, pipeIn, inbuf, sent, reply>>
  BY DEF Read
<1>5. UNCHANGED <<Ended, Queue>>
  BY <1>4 DEF Ended, StdoutOpen, Alive, Queue
<1>6. CASE tokenizer'[s] # "FAIL"
  <2>1. tokenizer'[s] \in {"CONTINUE", "ACCEPTED"}
    BY <1>2, <1>6, VerdictCases
  <2>2. \A t \in Solution : Iteration'[t] = Iteration[t]
    BY <1>2, <2>1, IterationCases
  <2>3. UNCHANGED Iteration
    BY <2>2, ViewForm
  <2>4. \A t \in Solution : OutputFlow(t)' = OutputFlow(t)
    BY <1>3, <1>6
  <2>5. UNCHANGED Unread
    BY <2>4, Zenon DEF Unread
  <2>6. QED  BY <1>4, <1>5, <2>3, <2>5, StutterView
<1>7. CASE tokenizer'[s] = "FAIL"
  <2> DEFINE p == result[s]
             q == Chunk
             r == pipeOut'[s]
             w == written[s]
             a == separator[s]
  <2>1. p \in Seq(Nat) /\ q \in Seq(Nat) /\ r \in Seq(Nat) /\ a \in Separators
    BY <1>2
  <2>2. Unread[s] = p \o (q \o r) /\ Unread'[s] = r
    BY <1>3, <1>7, ViewForm
  <2>3. Plain(w, a, p)
    BY <1>2 DEF TokenInv
  <2>4. \E j \in 1 .. Len(q) : /\ w[q[j]] \in Rejected
                               /\ \A i \in 1 .. j - 1 : w[q[i]] \notin {a} \cup Rejected
    <3>1. Verdict(s, a, q) = "FAIL"
      BY <1>2, <1>7
    <3> HIDE DEF q, a
    <3>2. QED  BY <2>1, <3>1, VerdictMeaning
  <2>5. Unread' = [Unread EXCEPT ![s] = Unread'[s]]
    <3>1. \A t \in Solution \ {s} : Unread'[t] = Unread[t]
      BY <1>3, Zenon DEF Unread
    <3>2. QED  BY <3>1, ViewForm, OneChanges
  <2>6. Iteration' = [Iteration EXCEPT ![s] = "failed"] /\ Iteration[s] = "open"
    <3>1. Iteration'[s] = "failed" /\ Iteration[s] = "open"
      BY <1>2, <1>7, IterationCases
    <3>2. QED  BY <1>2, <3>1, OneIteration
  <2> HIDE DEF p, q, r, w, a
  <2>7. /\ p \o q \in Seq(Nat) /\ Len(p \o q) = Len(p) + Len(q)
        /\ Unread[s] = (p \o q) \o r
        /\ Len(p) \in Nat /\ Len(q) \in Nat
    <3>1. (p \o q) \o r = p \o (q \o r)
      BY <2>1, ConcatNat, ZenonT(60)
    <3>2. QED  BY <2>1, <2>2, <3>1, ConcatProperties, LenProperties
  <2>8. PICK j \in 1 .. Len(q) : /\ w[q[j]] \in Rejected
                                 /\ \A i \in 1 .. j - 1 : w[q[i]] \notin {a} \cup Rejected
    BY <2>4
  <2> DEFINE k == Len(p) + Len(q)
             m == Len(p) + j
  <2>9. /\ \A i \in 1 .. Len(p) : Unread[s][i] = p[i]
        /\ \A i \in 1 .. Len(q) : Unread[s][Len(p) + i] = q[i]
    <3>1. \A i \in DOMAIN (p \o q) : Unread[s][i] = (p \o q)[i]
      BY <2>1, <2>7, FrontElements
    <3>2. DOMAIN (p \o q) = 1 .. Len(p) + Len(q)
      BY <2>7, LenProperties
    <3>3. /\ \A i \in 1 .. Len(p) : (p \o q)[i] = p[i]
          /\ \A i \in 1 .. Len(q) : (p \o q)[Len(p) + i] = q[i]
      BY <2>1, <2>7, ConcatProperties
    <3>4. /\ \A i \in 1 .. Len(p) : i \in DOMAIN (p \o q)
          /\ \A i \in 1 .. Len(q) : Len(p) + i \in DOMAIN (p \o q)
      BY <2>7, <3>2
    <3>5. QED  BY <3>1, <3>3, <3>4
  <2>10. /\ k \in 0 .. Len(Unread[s]) /\ Unread'[s] = Without(Unread[s], k)
         /\ Unread[s] \in Seq(Nat)
    <3>1. /\ Len(p \o q) \in 0 .. Len((p \o q) \o r)
          /\ Without((p \o q) \o r, Len(p \o q)) = r
      BY <2>1, <2>7, Cut
    <3>2. (p \o q) \o r \in Seq(Nat)
      BY <2>1, <2>7, ConcatProperties
    <3>3. QED  BY <2>2, <2>7, <3>1, <3>2
  <2>11. m \in DOMAIN Unread[s] /\ k \in m .. Len(Unread[s])
    <3>1. DOMAIN Unread[s] = 1 .. Len(Unread[s]) /\ Len(Unread[s]) \in Nat
      BY <2>10, LenProperties
    <3>2. QED  BY <2>7, <2>8, <2>10, <3>1
  <2>12. Rejects(w, a, Unread[s], m)
    <3>1. w[Unread[s][m]] \in Rejected
      BY <2>8, <2>9
    <3>2. ASSUME NEW i \in 1 .. m - 1
          PROVE  w[Unread[s][i]] \notin {a} \cup Rejected
      <4>1. CASE i <= Len(p)
        <5>1. i \in 1 .. Len(p) /\ DOMAIN p = 1 .. Len(p)
          BY <2>1, <2>7, <4>1, LenProperties
        <5>2. QED  BY <2>3, <2>9, <5>1 DEF Plain
      <4>2. CASE ~ (i <= Len(p))
        <5>1. i - Len(p) \in 1 .. j - 1 /\ i - Len(p) \in 1 .. Len(q)
              /\ Len(p) + (i - Len(p)) = i
          BY <2>7, <2>8, <4>2
        <5>2. Unread[s][i] = q[i - Len(p)]
          BY <2>9, <5>1
        <5>3. QED  BY <2>8, <5>1, <5>2
      <4>3. QED  BY <4>1, <4>2
    <3>3. QED  BY <3>1, <3>2 DEF Rejects
  <2>13. Unread' = [Unread EXCEPT ![s] = Without(@, k)]
    BY <2>5, <2>10
  <2> HIDE DEF k, m
  <2>14. Contract!Reject(s)
    BY <1>4, <1>5, <2>6, <2>11, <2>12, <2>13, RejectView DEF w, a
  <2>15. QED  BY <2>14
<1>8. QED  BY <1>6, <1>7

\* The solutions.
LEMMA PlayEffect ==
    ASSUME TypeOK, TypeOK', OutputInv, NEW s \in Solution, SolutionStep(s),
           UNCHANGED <<bufferVars, sent, reply>>
    PROVE  \/ \E c \in Chars : Contract!Produce(s, c)
           \/ Contract!Consume(s) \/ Contract!HangUp(s)
           \/ UNCHANGED Contract!vars
<1>1. /\ OutputTypes /\ InputTypes /\ run \in [Solution -> RunState]
      /\ closed \in [Solution -> SUBSET {"in", "out"}]
      /\ pipeIn[s] \in Seq(Nat) /\ inbuf[s] \in Seq(Nat)
      /\ pipeOut[s] \in Seq(Nat) /\ written[s] \in Seq(Chars)
  BY Types DEF InputTypes, OutputTypes
<1>2. UNCHANGED <<tokenizer, separator, result, inbuf, outbuf>>
  BY DEF bufferVars
<1>3. CASE ReadByte(s)
  <2> DEFINE p == pipeIn[s]
             b == inbuf[s]
  <2>1. /\ p # <<>> /\ pipeIn'[s] = Tail(p)
        /\ \A t \in Solution \ {s} : pipeIn'[t] = pipeIn[t]
        /\ UNCHANGED <<run, closed, pipeOut, written>>
    BY <1>1, <1>3 DEF ReadByte, InputTypes
  <2>2. Queue[s] = p \o b /\ Queue'[s] = Tail(p) \o b
    BY <1>2, <2>1, ViewForm
  <2>3. Queue' = [Queue EXCEPT ![s] = Queue'[s]]
    <3>1. \A t \in Solution \ {s} : Queue'[t] = Queue[t]
      BY <1>2, <2>1 DEF Queue
    <3>2. QED  BY <3>1, ViewForm, OneChanges
  <2>4. p \in Seq(Nat) /\ b \in Seq(Nat) /\ p # <<>>
    BY <1>1, <2>1
  <2> HIDE DEF p, b
  <2>5. Queue[s] # <<>> /\ Queue'[s] = Tail(Queue[s])
    <3>1. /\ <<Head(p)>> \in Seq(Nat) /\ Tail(p) \in Seq(Nat)
          /\ <<Head(p)>> \o Tail(p) = p /\ Head(p) \in Nat
      BY <2>4, HeadTailProperties
    <3>2. (<<Head(p)>> \o Tail(p)) \o b = <<Head(p)>> \o (Tail(p) \o b)
      BY <2>4, <3>1, ConcatNat, ZenonT(60)
    <3>3. p \o b = <<Head(p)>> \o (Tail(p) \o b) /\ Tail(p) \o b \in Seq(Nat)
      BY <2>4, <3>1, <3>2, ConcatProperties
    <3>4. \A q \in Seq(Nat), x \in Nat : /\ <<x>> \o q # <<>>
                                         /\ Tail(<<x>> \o q) = q
      OBVIOUS
    <3>5. p \o b # <<>> /\ Tail(p \o b) = Tail(p) \o b
      BY <3>1, <3>3, <3>4, Zenon
    <3>6. QED  BY <2>2, <3>5
  <2>6. UNCHANGED <<Iteration, Unread, Ended>>
    BY <1>2, <2>1 DEF Iteration, Unread, OutputFlow, Collected, Ended, StdoutOpen, Alive
  <2>7. Queue' = [Queue EXCEPT ![s] = Tail(@)]
    BY <2>3, <2>5
  <2>8. Contract!Consume(s)
    BY <1>2, <2>1, <2>5, <2>6, <2>7, ConsumeView
  <2>9. QED  BY <2>8
<1>4. ASSUME NEW c \in Chars, WriteByte(s, c) PROVE Contract!Produce(s, c)
  <2> DEFINE p == pipeOut[s]
             d == Collected(s) \o outbuf[s]
             n == Len(written[s]) + 1
  <2>1. /\ StdoutOpen(s) /\ written' = [written EXCEPT ![s] = Append(@, c)]
        /\ pipeOut'[s] = Append(p, n)
        /\ \A t \in Solution \ {s} : pipeOut'[t] = pipeOut[t]
        /\ UNCHANGED <<run, closed, pipeIn>>
    BY <1>1, <1>4 DEF WriteByte, OutputTypes
  <2>2. p \in Seq(Nat) /\ d \in Seq(Nat) /\ n \in Nat
    BY <1>1, OutputFlowType, LenProperties
  <2>3. Unread[s] = d \o p /\ Unread'[s] = d \o Append(p, n)
    BY <1>2, <2>1, ViewForm DEF OutputFlow, Collected
  <2>4. Unread' = [Unread EXCEPT ![s] = Unread'[s]]
    <3>1. \A t \in Solution \ {s} : OutputFlow(t)' = OutputFlow(t)
      BY <1>2, <2>1 DEF OutputFlow, Collected
    <3>2. \A t \in Solution \ {s} : Unread'[t] = Unread[t]
      BY <3>1, Zenon DEF Unread
    <3>3. QED  BY <3>2, ViewForm, OneChanges
  <2> HIDE DEF p, d, n
  <2>5. d \o Append(p, n) = Append(d \o p, n)
    <3>1. <<n>> \in Seq(Nat) /\ d \o p \in Seq(Nat)
      BY <2>2, ConcatProperties
    <3>2. Append(p, n) = p \o <<n>> /\ Append(d \o p, n) = (d \o p) \o <<n>>
      BY <2>2, <3>1, AppendIsConcat
    <3>3. (d \o p) \o <<n>> = d \o (p \o <<n>>)
      BY <2>2, <3>1, ConcatNat, ZenonT(60)
    <3>4. QED  BY <3>2, <3>3
  <2>6. Unread' = [Unread EXCEPT ![s] = Append(@, n)]
    BY <2>3, <2>4, <2>5
  <2>7. UNCHANGED <<Iteration, Ended, Queue>>
    BY <1>2, <2>1 DEF Iteration, Ended, StdoutOpen, Alive, Queue
  <2>8. ~Ended[s]
    BY <2>1, ViewForm
  <2>9. QED  BY <1>2, <2>1, <2>6, <2>7, <2>8, ProduceView DEF n
<1>5. ASSUME NEW e \in Closable, CloseStream(s, e)
      PROVE  Contract!HangUp(s) \/ UNCHANGED Contract!vars
  <2>1. /\ closed'[s] = closed[s] \cup {e}
        /\ \A t \in Solution \ {s} : closed'[t] = closed[t]
        /\ UNCHANGED <<run, pipeIn, pipeOut, written>>
    BY <1>1, <1>5 DEF CloseStream
  <2>2. UNCHANGED <<Iteration, Unread, Queue>>
    BY <1>2, <2>1 DEF Iteration, Unread, OutputFlow, Collected, Queue
  <2>3. \A t \in Solution \ {s} : Ended'[t] = Ended[t]
    BY <2>1 DEF Ended, StdoutOpen, Alive
  <2>4. Ended' = [Ended EXCEPT ![s] = Ended'[s]]
    BY <2>3, ViewForm, OneChanges
  <2>5. CASE e = "out"
    <3>1. Ended'[s] = TRUE
      BY <2>1, <2>5, ViewForm DEF StdoutOpen
    <3>2. Contract!HangUp(s)
      BY <1>2, <2>1, <2>2, <2>4, <3>1, HangUpView
    <3>3. QED  BY <3>2
  <2>6. CASE e # "out"
    <3>1. Ended'[s] = Ended[s]
      BY <2>1, <2>6 DEF Ended, StdoutOpen, Alive
    <3>2. UNCHANGED Ended
      BY <2>3, <3>1, ViewForm
    <3>3. QED  BY <1>2, <2>1, <2>2, <3>2, StutterView
  <2>7. QED  BY <2>5, <2>6
<1>6. CASE Exit(s)
  <2>1. /\ run'[s] = "exited" /\ \A t \in Solution \ {s} : run'[t] = run[t]
        /\ UNCHANGED <<closed, pipeIn, pipeOut, written>>
    BY <1>1, <1>6 DEF Exit
  <2>2. UNCHANGED <<Iteration, Unread, Queue>>
    BY <1>2, <2>1 DEF Iteration, Unread, OutputFlow, Collected, Queue
  <2>3. /\ \A t \in Solution \ {s} : Ended'[t] = Ended[t]
        /\ Ended'[s] = TRUE
    BY <2>1 DEF Ended, StdoutOpen, Alive
  <2>4. Ended' = [Ended EXCEPT ![s] = TRUE]
    BY <2>3, ViewForm, OneChanges
  <2>5. Contract!HangUp(s)
    BY <1>2, <2>1, <2>2, <2>4, HangUpView
  <2>6. QED  BY <2>5
<1>7. QED  BY <1>3, <1>4, <1>5, <1>6 DEF SolutionStep

-----------------------------------------------------------------------------
\* Every step keeps what result holds a token, or the beginning of one.
LEMMA TokenStep == TypeOK /\ OutputInv /\ TokenInv /\ [Next]_vars => TokenInv'
<1> SUFFICES ASSUME TypeOK, OutputInv, TokenInv, [Next]_vars PROVE TokenInv'
  OBVIOUS
<1>0. OutputTypes /\ (pc \in InEnd => cur \in Solution)
  BY Types
<1>1. ASSUME UNCHANGED <<tokenizer, separator, result, written>> PROVE TokenInv'
  BY <1>1, SameToken
<1>2. CASE \/ BootFreeze \/ Misuse \/ JudgeEOF \/ EpollWait \/ TimeLimit \/ BatchDone
           \/ HandleIn \/ Write \/ WriteDone \/ HandleOut \/ ReadDone \/ Expire
           \/ \E s \in Solution, n \in 0 .. MaxInput : Send(s, n)
           \/ \E s \in Solution, disc \in BOOLEAN : EndCommunicate(s, disc)
           \/ UNCHANGED vars
  BY <1>1, <1>2 DEF BootFreeze, Misuse, JudgeEOF, EpollWait, TimeLimit, BatchDone,
     HandleIn, Write, WriteDone, HandleOut, ReadDone, Expire, Send, EndCommunicate,
     vars, bufferVars, solutionVars
<1>3. ASSUME NEW s \in Solution, NEW a \in Separators, Begin(s, a) PROVE TokenInv'
  BY <1>3, BeginToken
<1>4. CASE Read
  BY <1>4, ReadToken
<1>5. ASSUME NEW s \in Solution, NEW disc, NEW status, NEW r, Answer(s, disc, status, r)
      PROVE  TokenInv'
  <2>1. /\ tokenizer' = [tokenizer EXCEPT ![s] = "NULL"]
        /\ UNCHANGED <<separator, result, written>>
    BY <1>5, Zenon DEF Answer
  <2>2. QED  BY <2>1, ClosedToken
<1>6. ASSUME NEW s \in Solution, NEW disc \in BOOLEAN, EndBuffered(s, disc) PROVE TokenInv'
  BY <1>5, <1>6, Zenon DEF EndBuffered
<1>7. CASE EndReturn
  <2>1. cur \in Solution
    BY <1>0, <1>7 DEF EndReturn, InEnd
  <2>2. QED  BY <1>5, <1>7, <2>1, Zenon DEF EndReturn
<1>8. ASSUME NEW s \in Solution, Terminate(s) PROVE TokenInv'
  BY <1>8, ClosedToken DEF Terminate
<1>9. CASE WriteFails
  <2>1. cur \in Solution
    BY <1>0, <1>9 DEF WriteFails, InEnd
  <2>2. QED  BY <1>9, <2>1, ClosedToken DEF WriteFails, solutionVars
<1>10. ASSUME NEW s \in Solution, SolutionStep(s), UNCHANGED bufferVars PROVE TokenInv'
  <2>1. ASSUME NEW c \in Chars, WriteByte(s, c) PROVE TokenInv'
    BY <1>0, <1>10, <2>1, WriteByteToken
  <2>2. CASE ReadByte(s) \/ Exit(s) \/ \E e \in Closable : CloseStream(s, e)
    BY <1>1, <1>10, <2>2 DEF ReadByte, Exit, CloseStream, bufferVars
  <2>3. QED  BY <1>10, <2>1, <2>2 DEF SolutionStep
<1>11. QED
  BY <1>2, <1>3, <1>4, <1>6, <1>7, <1>8, <1>9, <1>10, Zenon
  DEF Next, Judge, BrokerStep, Play, Terminated

ContractInv == TypeOK /\ OutputInv /\ TokenInv /\ TalkInv

LEMMA ContractInvariant == Spec => []ContractInv
<1>1. Init => TalkInv
  BY DEF Init, TalkInv, InEnd
<1>2. TypeOK /\ TypeOK' /\ ContractInv /\ [Next]_vars => ContractInv'
  BY OutputStep, TokenStep, TalkStep DEF ContractInv
<1>3. TypeOK /\ Init => ContractInv
  BY <1>1, OutputInit, TokenInit DEF ContractInv
<1>4. QED  BY <1>2, <1>3, TypeCorrect, PTL DEF Spec

LEMMA ContractInit == Init => Contract!Init
<1> SUFFICES ASSUME Init PROVE Contract!Init
  OBVIOUS
<1>1. separator \in [Solution -> Separators]
  BY BrokerAssumption DEF Init
<1>2. \A s \in Solution : /\ tokenizer[s] = "NULL" /\ OutputFlow(s) = <<>>
                          /\ StdoutOpen(s) /\ pipeIn[s] \o inbuf[s] = <<>>
  BY DEF Init, SolutionsInit, OutputFlow, Collected, StdoutOpen, Alive
<1>3. /\ Iteration = [s \in Solution |-> "closed"]
      /\ Unread = [s \in Solution |-> <<>>]
      /\ Ended = [s \in Solution |-> FALSE]
      /\ Queue = [s \in Solution |-> <<>>]
  BY <1>2, Zenon DEF Iteration, Unread, Ended, Queue
<1>4. /\ written = [s \in Solution |-> <<>>] /\ sent = [s \in Solution |-> 0]
      /\ reply = NoReply
  BY DEF Init, SolutionsInit
<1>5. QED  BY <1>1, <1>3, <1>4 DEF Contract!Init, Iteration, Unread, Ended, Queue

\* A step of the broker is a step of the contract, or none.
LEMMA ContractStep ==
    ASSUME ContractInv, TypeOK', [Next]_vars
    PROVE  [Contract!Next]_(Contract!vars)
<1>0. TypeOK /\ OutputInv /\ TokenInv /\ TalkInv
  BY DEF ContractInv
<1>1. ASSUME NEW s \in Solution, NEW a \in Separators, Begin(s, a) PROVE Contract!Next
  BY <1>0, <1>1, BeginEffect DEF Contract!Next
<1>2. ASSUME NEW s \in Solution, NEW n \in 0 .. MaxInput, Send(s, n) PROVE Contract!Next
  BY <1>0, <1>2, SendEffect DEF Contract!Next
<1>3. ASSUME NEW s \in Solution, NEW disc \in BOOLEAN, EndBuffered(s, disc)
      PROVE  Contract!Next
  BY <1>0, <1>3, EndBufferedEffect DEF Contract!Next
<1>4. CASE EndReturn
  BY <1>0, <1>4, EndReturnEffect DEF Contract!Next
<1>5. ASSUME NEW s \in Solution, Terminate(s) PROVE Contract!Next
  BY <1>0, <1>5, TerminateEffect DEF Contract!Next
<1>6. CASE WriteFails
  BY <1>0, <1>6, WriteFailsEffect DEF Contract!Next
<1>7. CASE Read
  BY <1>0, <1>7, ReadEffect DEF Contract!Next
<1>8. CASE Write
  BY <1>0, <1>8, WriteEffect
<1>9. CASE Play
  <2>1. PICK s \in Solution : SolutionStep(s)
    BY <1>9 DEF Play
  <2>2. UNCHANGED <<bufferVars, sent, reply>>
    BY <1>9 DEF Play
  <2>3. QED  BY <1>0, <2>1, <2>2, PlayEffect DEF Contract!Next
<1>10. CASE \/ BootFreeze \/ Misuse \/ JudgeEOF \/ EpollWait \/ TimeLimit \/ BatchDone
            \/ HandleIn \/ WriteDone \/ HandleOut \/ ReadDone \/ Expire
            \/ \E s \in Solution, disc \in BOOLEAN : EndCommunicate(s, disc)
            \/ UNCHANGED vars
  BY <1>0, <1>10, SilentSteps
<1>11. QED
  BY <1>1, <1>2, <1>3, <1>4, <1>5, <1>6, <1>7, <1>8, <1>9, <1>10, Zenon
  DEF Next, Judge, BrokerStep, Terminated

(***************************************************************************)
(* BrokerImpl keeps the promise of class Broker: whatever the sizes of the *)
(* pipes and of the buffer, the number of solutions, what they do and when *)
(* the deadline passes, an OK hands over exactly the next token of the     *)
(* output, EOF_ERROR is only said of an output that has ended without one, *)
(* TOKENIZER_ERROR only of one that holds a rejected character, and input  *)
(* is delivered in order and dropped only where the contract allows it.    *)
(***************************************************************************)
THEOREM BrokerImplementsContract == Spec => ImplementsContract
<1>1. ContractInv /\ ContractInv' /\ [Next]_vars => [Contract!Next]_(Contract!vars)
  <2>1. ContractInv' => TypeOK'
    BY DEF ContractInv
  <2>2. QED  BY <2>1, ContractStep
<1>2. QED
  BY <1>1, ContractInit, ContractInvariant, PTL DEF Spec, ImplementsContract, Contract!Spec

=============================================================================
