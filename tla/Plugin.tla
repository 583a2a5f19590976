------------------------------- MODULE Plugin -------------------------------
(***************************************************************************)
(* The tokenizer library as the broker uses it: when its functions are     *)
(* called, on which objects, and what becomes of the objects on each of    *)
(* the ways out of the broker.  Destructors run on every exception, since  *)
(* main() catches it, and none run when an assertion aborts.               *)
(***************************************************************************)
EXTENDS Integers, Sequences

CONSTANT Solution

VARIABLES
    pc,         \* where the broker is
    cur,        \* the solution of the current command
    members,    \* members of BrokerImpl that are constructed
    tokenizer,  \* tokenizer[s]: is sol.tokenizer set?
    status,     \* sol.tokenizerStatus
    outbuf,     \* is there something in sol.outbuf?
    objects,    \* objects[s]: tokenizer_new() less tokenizer_delete(), for s
    verdict,    \* verdict[s]: the last answer of tokenizer_parse() for s
    call        \* the last call into the library, and what it found there

vars == <<pc, cur, members, tokenizer, status, outbuf, objects, verdict, call>>

Status == {"CONTINUE", "ACCEPTED", "FAIL"}
Down == {"exited", "aborted"}

\* The members in the order of their declaration.  (The first two, values
\* only, are left out.)
MembersSolutionsFirst ==  \* mutant: declared before the library
    <<"solutions_", "tokenizerLibrary_", "sharedTokenizerFactory_", "killerIO_", "killer_">>
Members ==
    <<"tokenizerLibrary_", "sharedTokenizerFactory_", "killerIO_", "killer_", "solutions_">>

Loaded == \E i \in DOMAIN members : members[i] = "tokenizerLibrary_"
Call(f, s) == [function |-> f, loaded |-> Loaded, exists |-> objects[s] > 0,
               verdict |-> verdict[s]]
Functions == {"none", "tokenizer_new", "tokenizer_parse", "tokenizer_what", "tokenizer_delete"}

TypeOK ==
    /\ pc \in Down \cup {"construct", "idle", "begin", "talk", "result", "kill", "leave", "unwind"}
    /\ cur \in Solution
    /\ members = SubSeq(Members, 1, Len(members))
    /\ tokenizer \in [Solution -> BOOLEAN] /\ outbuf \in [Solution -> BOOLEAN]
    /\ status \in [Solution -> Status] /\ verdict \in [Solution -> Status]
    /\ objects \in [Solution -> 0 .. 1]
    /\ call \in [function : Functions, loaded : BOOLEAN, exists : BOOLEAN, verdict : Status]

Init ==
    /\ pc = "construct" /\ cur \in Solution /\ members = <<>>
    /\ tokenizer = [s \in Solution |-> FALSE] /\ outbuf = [s \in Solution |-> FALSE]
    /\ status = [s \in Solution |-> "CONTINUE"] /\ verdict = status
    /\ objects = [s \in Solution |-> 0]
    /\ call = [function |-> "none", loaded |-> TRUE, exists |-> FALSE, verdict |-> "CONTINUE"]

-----------------------------------------------------------------------------
\* The four functions of the library.  Each of them may also abort.

New(s) ==
    /\ call' = Call("tokenizer_new", s)
    /\ objects' = [objects EXCEPT ![s] = @ + 1]
    /\ verdict' = [verdict EXCEPT ![s] = "CONTINUE"]

\* SharedTokenizerFactory::Instance::operator() turns the sign of the result
\* into a status.
Parse(s, v) ==
    /\ call' = Call("tokenizer_parse", s)
    /\ verdict' = [verdict EXCEPT ![s] = v]
    /\ status' = [status EXCEPT ![s] = v]
    /\ UNCHANGED objects

What(s) == call' = Call("tokenizer_what", s) /\ UNCHANGED <<objects, verdict>>

\* The pointer after reset().
PointerKept(s) == tokenizer[s]  \* mutant: the object is deleted, the pointer stays
PointerReset(s) == FALSE

\* sol.tokenizer.reset(): nothing, if there is no tokenizer.
Reset(s) ==
    /\ IF tokenizer[s]
       THEN /\ call' = Call("tokenizer_delete", s)
            /\ objects' = [objects EXCEPT ![s] = @ - 1]
       ELSE UNCHANGED <<call, objects>>
    /\ tokenizer' = [tokenizer EXCEPT ![s] = PointerReset(s)]

-----------------------------------------------------------------------------
\* The constructor of BrokerImpl.

ConstructMember ==
    /\ pc = "construct" /\ Len(members) < Len(Members)
    /\ members' = Append(members, Members[Len(members) + 1])
    /\ UNCHANGED <<pc, cur, tokenizer, status, outbuf, objects, verdict, call>>

\* All solutions are frozen.
Constructed ==
    /\ pc = "construct" /\ Len(members) = Len(Members)
    /\ pc' = "idle"
    /\ UNCHANGED <<cur, members, tokenizer, status, outbuf, objects, verdict, call>>

\* The library or one of its functions is missing, or the killer is gone.
ConstructThrows ==
    /\ pc = "construct"
    /\ pc' = "unwind"
    /\ UNCHANGED <<cur, members, tokenizer, status, outbuf, objects, verdict, call>>

-----------------------------------------------------------------------------
\* BEGIN.

Begin(s) ==
    /\ pc = "idle" /\ ~tokenizer[s]
    /\ New(s)
    /\ tokenizer' = [tokenizer EXCEPT ![s] = TRUE]
    /\ status' = [status EXCEPT ![s] = "CONTINUE"]
    /\ cur' = s
    /\ pc' = IF outbuf[s] THEN "begin" ELSE "idle"
    /\ UNCHANGED <<members, outbuf>>

\* tokenizer_new() returned NULL: bad_alloc from the constructor of Instance,
\* whose destructor then does not run.
BeginThrows(s) ==
    /\ pc = "idle" /\ ~tokenizer[s]
    /\ call' = Call("tokenizer_new", s)
    /\ pc' = "unwind" /\ cur' = s
    /\ UNCHANGED <<members, tokenizer, status, outbuf, objects, verdict>>

ParseLeftovers ==
    /\ pc = "begin"
    /\ \E v \in Status :
         /\ Parse(cur, v)
         /\ \E rest \in BOOLEAN :
              /\ outbuf' = [outbuf EXCEPT ![cur] = (v = "FAIL") \/ (v = "ACCEPTED" /\ rest)]
    /\ pc' = "idle"
    /\ UNCHANGED <<cur, members, tokenizer>>

-----------------------------------------------------------------------------
\* END.  Without talking, result.status is unset (see BrokerClaims), and any
\* value but OK ends the solution.

End(s) ==
    /\ pc = "idle" /\ tokenizer[s]
    /\ cur' = s
    /\ pc' \in IF status[s] = "CONTINUE" THEN {"talk"} ELSE {"result", "kill"}
    /\ UNCHANGED <<members, tokenizer, status, outbuf, objects, verdict, call>>

\* While communicate() reads.
ReadsOnAlways == TRUE  \* mutant: reads until EAGAIN
ReadsOn == status[cur] = "CONTINUE"

ReadChunk ==
    /\ pc = "talk" /\ ReadsOn
    /\ \E v \in Status :
         /\ Parse(cur, v)
         /\ \E rest \in BOOLEAN :
              outbuf' = [outbuf EXCEPT ![cur] = v = "ACCEPTED" /\ rest]
    /\ UNCHANGED <<pc, cur, members, tokenizer>>

\* communicate() returns: with a verdict, at the end of the output, or when
\* the time is over.
TalkEnds ==
    /\ pc = "talk"
    /\ \/ pc' = "result"
       \/ status[cur] = "CONTINUE" /\ pc' = "kill"
    /\ UNCHANGED <<cur, members, tokenizer, status, outbuf, objects, verdict, call>>

\* What an END answers: the tokenizer explains a failure.
Result ==
    /\ pc = "result"
    /\ IF status[cur] = "FAIL" THEN What(cur) ELSE UNCHANGED <<objects, verdict, call>>
    /\ pc' = "leave"
    /\ UNCHANGED <<cur, members, tokenizer, status, outbuf>>

\* terminate() inside end(): the tokenizer is reset here already.
KillInEnd ==
    /\ pc = "kill"
    /\ Reset(cur)
    /\ outbuf' = [outbuf EXCEPT ![cur] = FALSE]
    /\ pc' = "leave"
    /\ UNCHANGED <<cur, members, status, verdict>>

\* The scope guard of end(), on every way out.
LeaveEnd ==
    /\ pc = "leave"
    /\ Reset(cur)
    /\ pc' = "idle"
    /\ UNCHANGED <<cur, members, status, outbuf, verdict>>

\* communicate() or the killer throws.
EndThrows ==
    /\ pc \in {"talk", "kill"}
    /\ Reset(cur)
    /\ pc' = "unwind"
    /\ UNCHANGED <<cur, members, status, outbuf, verdict>>

-----------------------------------------------------------------------------

\* TERMINATE clears the tokenizer and the buffers.
TerminateKeeps(s) ==  \* mutant: the pointer is released, not reset
    /\ tokenizer' = [tokenizer EXCEPT ![s] = FALSE]
    /\ UNCHANGED <<call, objects>>
TerminateResets(s) == Reset(s)

Terminate(s) ==
    /\ pc = "idle"
    /\ TerminateResets(s)
    /\ cur' = s
    /\ outbuf' = [outbuf EXCEPT ![s] = FALSE]
    /\ UNCHANGED <<pc, members, status, verdict>>

\* The judge or the killer is gone: EndOfFileError.
EndOfFile ==
    /\ pc = "idle"
    /\ pc' = "unwind"
    /\ UNCHANGED <<cur, members, tokenizer, status, outbuf, objects, verdict, call>>

\* The members are destroyed in reverse order; with solutions_ go the
\* tokenizers, one by one.
DestroyTokenizer ==
    /\ pc = "unwind" /\ members # <<>>
    /\ members[Len(members)] = "solutions_"
    /\ \E s \in Solution : tokenizer[s] /\ Reset(s)
    /\ UNCHANGED <<pc, cur, members, status, outbuf, verdict>>

DestroyMember ==
    /\ pc = "unwind" /\ members # <<>>
    /\ members[Len(members)] = "solutions_" => \A s \in Solution : ~tokenizer[s]
    /\ members' = SubSeq(members, 1, Len(members) - 1)
    /\ UNCHANGED <<pc, cur, tokenizer, status, outbuf, objects, verdict, call>>

Exit ==
    /\ pc = "unwind" /\ members = <<>>
    /\ pc' = "exited"
    /\ UNCHANGED <<cur, members, tokenizer, status, outbuf, objects, verdict, call>>

\* An assertion of the broker or of the library.
Abort ==
    /\ pc \in {"construct", "idle", "begin", "talk"}
    /\ pc' = "aborted"
    /\ UNCHANGED <<cur, members, tokenizer, status, outbuf, objects, verdict, call>>

Terminated == pc \in Down /\ UNCHANGED vars

Next ==
    \/ ConstructMember \/ Constructed \/ ConstructThrows
    \/ \E s \in Solution : Begin(s) \/ BeginThrows(s) \/ End(s) \/ Terminate(s)
    \/ ParseLeftovers \/ ReadChunk \/ TalkEnds \/ Result
    \/ KillInEnd \/ LeaveEnd \/ EndThrows
    \/ EndOfFile \/ DestroyTokenizer \/ DestroyMember \/ Exit
    \/ Abort \/ Terminated

Spec == Init /\ [][Next]_vars

-----------------------------------------------------------------------------
\* The library is called only while it is loaded (also by the destructors,
\* BrokerImpl.hpp:117 to 121), only about an object that exists, for more
\* input only as long as there was no verdict, which split.c:67 relies on,
\* and for an explanation only after a failure.
CallsAreLegal ==
    /\ call.loaded
    /\ call.function \in {"tokenizer_parse", "tokenizer_what", "tokenizer_delete"} => call.exists
    /\ call.function = "tokenizer_parse" => call.verdict = "CONTINUE"
    /\ call.function = "tokenizer_what" => call.verdict = "FAIL"

\* Each object is deleted once: there is one for each tokenizer that is set
\* and none besides, and none when the broker has ended by itself.
NothingLeaks ==
    /\ \A s \in Solution : objects[s] = IF tokenizer[s] THEN 1 ELSE 0
    /\ pc = "exited" => \A s \in Solution : objects[s] = 0

=============================================================================
