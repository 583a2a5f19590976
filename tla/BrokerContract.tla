--------------------------- MODULE BrokerContract ---------------------------
(***************************************************************************)
(* What class Broker promises a judge, without buffers, pipes, events or   *)
(* clocks.  Each solution has one stream of unread output and one queue of *)
(* input.  An iteration is opened, input is sent, and the iteration is     *)
(* closed by an answer:                                                    *)
(*   - OK hands over exactly the next token of the output and leaves what  *)
(*     follows it for the next iteration;                                  *)
(*   - EOF_ERROR is only said of an output that has ended without a token; *)
(*   - TOKENIZER_ERROR is only said when the output holds a rejected       *)
(*     character before any token end;                                     *)
(*   - any other answer gives the solution up.                             *)
(* Input reaches the solution in order; only a discarding end, an answer   *)
(* that gives the solution up, and terminate may drop input, and they drop *)
(* the newest bytes first.                                                 *)
(***************************************************************************)
EXTENDS Naturals, Sequences

CONSTANTS
    Solution,    \* the solutions
    Chars,       \* the characters a solution may write
    Separators,  \* what may end a token
    Rejected,    \* characters on which the tokenizer fails
    Lengths,     \* possible lengths of a message
    NoReply      \* value of reply before the first answer

VARIABLES
    iteration,  \* iteration[s]: "closed", "open" or "failed"
    separator,  \* separator[s]: the character that ends the current token
    written,    \* written[s]: every character s has written
    unread,     \* unread[s]: output bytes not consumed by an iteration
    ended,      \* ended[s]: s will not write any more
    queue,      \* queue[s]: input bytes sent to s and not read by it
    sent,       \* sent[s]: number of bytes sent to s
    reply       \* the last answer

vars == <<iteration, separator, written, unread, ended, queue, sent, reply>>

Init ==
    /\ iteration = [s \in Solution |-> "closed"]
    /\ separator \in [Solution -> Separators]
    /\ written = [s \in Solution |-> <<>>]
    /\ unread = [s \in Solution |-> <<>>]
    /\ ended = [s \in Solution |-> FALSE]
    /\ queue = [s \in Solution |-> <<>>]
    /\ sent = [s \in Solution |-> 0]
    /\ reply = NoReply

-----------------------------------------------------------------------------
\* The character of byte number n of the output of s.
Char(s, n) == written[s][n]

Ordinary(s, a, n) == Char(s, n) \notin {a} \cup Rejected

\* The first k bytes of the unread output are a token ended by a.
IsToken(s, a, k) ==
    /\ Char(s, unread[s][k]) = a
    /\ \A i \in 1 .. k - 1 : Ordinary(s, a, unread[s][i])

\* The k-th unread byte makes the tokenizer for a fail.
IsRejected(s, a, k) ==
    /\ Char(s, unread[s][k]) \in Rejected
    /\ \A i \in 1 .. k - 1 : Ordinary(s, a, unread[s][i])

NoToken(s, a) == \A i \in DOMAIN unread[s] : Ordinary(s, a, unread[s][i])

\* Drop the first k unread bytes, or keep only the first k bytes of input.
Drop(s, k) == unread' = [unread EXCEPT ![s] = SubSeq(@, k + 1, Len(@))]
Keep(s, k) == queue' = [queue EXCEPT ![s] = SubSeq(@, 1, k)]

-----------------------------------------------------------------------------
\* The solution.

Produce(s, c) ==
    /\ ~ended[s]
    /\ written' = [written EXCEPT ![s] = Append(@, c)]
    /\ unread' = [unread EXCEPT ![s] = Append(@, Len(written[s]) + 1)]
    /\ UNCHANGED <<iteration, separator, ended, queue, sent, reply>>

Consume(s) ==
    /\ queue[s] # <<>>
    /\ queue' = [queue EXCEPT ![s] = Tail(@)]
    /\ UNCHANGED <<iteration, separator, written, unread, ended, sent, reply>>

HangUp(s) ==
    /\ ended' = [ended EXCEPT ![s] = TRUE]
    /\ UNCHANGED <<iteration, separator, written, unread, queue, sent, reply>>

-----------------------------------------------------------------------------
\* The iterations.

Begin(s, a) ==
    /\ iteration[s] = "closed"
    /\ separator' = [separator EXCEPT ![s] = a]
    /\ \/ iteration' = [iteration EXCEPT ![s] = "open"]
       \/ /\ \E k \in DOMAIN unread[s] : IsRejected(s, a, k)
          /\ iteration' = [iteration EXCEPT ![s] = "failed"]
    /\ UNCHANGED <<written, unread, ended, queue, sent, reply>>

Send(s, n) ==
    /\ iteration[s] # "closed"
    /\ queue' = [queue EXCEPT ![s] = @ \o [i \in 1 .. n |-> sent[s] + i]]
    /\ sent' = [sent EXCEPT ![s] = @ + n]
    /\ UNCHANGED <<iteration, separator, written, unread, ended, reply>>

\* The tokenizer fails on output it has been given; that output is lost.
Reject(s) ==
    /\ iteration[s] = "open"
    /\ iteration' = [iteration EXCEPT ![s] = "failed"]
    /\ \E j \in DOMAIN unread[s] :
        /\ IsRejected(s, separator[s], j)
        /\ \E k \in j .. Len(unread[s]) : Drop(s, k)
    /\ UNCHANGED <<separator, written, ended, queue, sent, reply>>

\* Close the iteration with an answer that lets the solution live on.
Close(s, status, data, disc) ==
    /\ iteration' = [iteration EXCEPT ![s] = "closed"]
    /\ reply' = [solution |-> s, status |-> status, data |-> data,
                 discard |-> disc]
    /\ IF disc THEN \E k \in 0 .. Len(queue[s]) : Keep(s, k)
       ELSE UNCHANGED queue
    /\ UNCHANGED <<separator, written, ended, sent>>

EndOK(s, disc) ==
    /\ iteration[s] = "open"
    /\ \E k \in DOMAIN unread[s] :
        /\ IsToken(s, separator[s], k)
        /\ Drop(s, k)
        /\ Close(s, "OK", SubSeq(unread[s], 1, k), disc)

EndOfFile(s, disc) ==
    /\ iteration[s] = "open"
    /\ ended[s]
    /\ NoToken(s, separator[s])
    /\ Drop(s, Len(unread[s]))
    /\ Close(s, "EOF_ERROR", <<>>, disc)

TokenizerError(s, disc) ==
    /\ iteration[s] = "failed"
    /\ Close(s, "TOKENIZER_ERROR", <<>>, disc)
    /\ UNCHANGED unread

\* The solution is given up: it may be killed, output and input may be lost.
GiveUp(s) ==
    /\ iteration' = [iteration EXCEPT ![s] = "closed"]
    /\ ended' \in {ended, [ended EXCEPT ![s] = TRUE]}
    /\ \E k \in 0 .. Len(unread[s]) : Drop(s, k)
    /\ \E k \in 0 .. Len(queue[s]) : Keep(s, k)
    /\ UNCHANGED <<separator, written, sent>>

Terminate(s) == GiveUp(s) /\ UNCHANGED reply

\* The time limit, or a status nobody set.
EndGivenUp(s, disc) ==
    /\ iteration[s] # "closed"
    /\ GiveUp(s)
    /\ \E status \in {"REAL_TIME_LIMIT_EXCEEDED", "UNINIT"} :
        reply' = [solution |-> s, status |-> status, data |-> <<>>,
                  discard |-> disc]

\* The broker fails in the middle of an end: no answer is given.
Fail(s) ==
    /\ iteration[s] # "closed"
    /\ iteration' = [iteration EXCEPT ![s] = "closed"]
    /\ \E k \in 0 .. Len(unread[s]) : Drop(s, k)
    /\ UNCHANGED <<separator, written, ended, queue, sent, reply>>

Next ==
    \E s \in Solution :
        \/ \E c \in Chars : Produce(s, c)
        \/ Consume(s)
        \/ HangUp(s)
        \/ \E a \in Separators : Begin(s, a)
        \/ \E n \in Lengths : Send(s, n)
        \/ Reject(s)
        \/ \E disc \in BOOLEAN :
            \/ EndOK(s, disc)
            \/ EndOfFile(s, disc)
            \/ TokenizerError(s, disc)
            \/ EndGivenUp(s, disc)
        \/ Terminate(s)
        \/ Fail(s)

Spec == Init /\ [][Next]_vars

=============================================================================
