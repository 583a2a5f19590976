------------------------------- MODULE Split -------------------------------
(***************************************************************************)
(* The tokenizer split.c, whose separator may be several characters long,  *)
(* as the broker uses it: a new tokenizer for each iteration, first fed    *)
(* the leftovers of the previous iteration and then whatever read()        *)
(* returns, until it accepts.  The progress of the match survives from one *)
(* chunk to the next.  One action is one turn of the loop over a chunk.    *)
(***************************************************************************)
EXTENDS Naturals, Sequences

CONSTANTS
    Chars,      \* all characters
    NUL,        \* the character that ends a C string
    Arguments,  \* the tokenizer arguments the judge uses
    MaxChunk,   \* bound: bytes one read() returns
    MaxData     \* bound: bytes the solution writes in its whole life

ASSUME SplitAssumption ==
    /\ NUL \in Chars
    /\ Arguments \subseteq Seq(Chars)
    /\ MaxChunk \in Nat
    /\ MaxData \in Nat

VARIABLES
    pc,      \* "idle", "parse" (in tokenizer_parse) or "aborted"
    sep,     \* tok->sep, a C string without its NUL
    over,    \* tok->over: how much of sep the last characters match
    status,  \* "NULL" without a tokenizer, else the status of the last call
    token,   \* sol.result: the characters of the current token
    data,    \* the characters of the current chunk still to be parsed
    outbuf,  \* sol.outbuf: the characters read behind the last token
    fed      \* number of characters read so far

vars == <<pc, sep, over, status, token, data, outbuf, fed>>

\* The progress of a match never exceeds the separator, and tokenizer_parse only
\* runs on a chunk that is not empty, for a token that is not complete.
TypeOK ==
    /\ pc \in {"idle", "parse", "aborted"}
    /\ sep \in Seq(Chars)
    /\ over \in 0 .. Len(sep)
    /\ status \in {"NULL", "CONTINUE", "ACCEPTED"}
    /\ token \in Seq(Chars)
    /\ data \in Seq(Chars)
    /\ outbuf \in Seq(Chars)
    /\ fed \in Nat
    /\ pc = "parse" => data # <<>> /\ status = "CONTINUE"

Init ==
    /\ pc = "idle"
    /\ sep = <<>>
    /\ over = 0
    /\ status = "NULL"
    /\ token = <<>>
    /\ data = <<>>
    /\ outbuf = <<>>
    /\ fed = 0

-----------------------------------------------------------------------------

\* strlen(a) = n, where a is followed by a NUL of its own.
IsStrlen(a, n) ==
    /\ \A i \in 1 .. n : a[i] # NUL
    /\ n < Len(a) => a[n + 1] = NUL

InitialOverStale(n) ==  \* mutant: the progress of the previous tokenizer
    IF over <= n THEN over ELSE 0
InitialOver(n) == 0

AlwaysParse == "parse"  \* mutant: sol.outbuf.empty() is not tested
AfterBegin == IF outbuf = <<>> THEN "idle" ELSE "parse"

\* BrokerImpl::begin: tokenizer_new, then the leftovers are parsed, if any.
Begin(a) ==
    /\ pc = "idle"
    /\ status = "NULL"
    /\ a # <<>>
    /\ \E n \in 0 .. Len(a) :
        /\ IsStrlen(a, n)
        /\ sep' = SubSeq(a, 1, n)
        /\ over' = InitialOver(n)
    /\ status' = "CONTINUE"
    /\ token' = <<>>
    /\ data' = outbuf
    /\ outbuf' = <<>>
    /\ pc' = AfterBegin
    /\ UNCHANGED fed

\* assert(size) of tokenizer_new.
BeginEmpty ==
    /\ pc = "idle"
    /\ status = "NULL"
    /\ <<>> \in Arguments
    /\ pc' = "aborted"
    /\ UNCHANGED <<sep, over, status, token, data, outbuf, fed>>

\* The broker has read a chunk and calls tokenizer_parse.
Read(chunk) ==
    /\ pc = "idle"
    /\ status = "CONTINUE"
    /\ chunk # <<>>
    /\ fed + Len(chunk) <= MaxData
    /\ data' = chunk
    /\ fed' = fed + Len(chunk)
    /\ pc' = "parse"
    /\ UNCHANGED <<sep, over, status, token, outbuf>>

\* The progress of the match after character c.
NextOverForgetful(c) ==  \* mutant: c is not tried as a first character
    IF c = sep[over + 1] THEN over + 1 ELSE 0
NextOverLoose(c) ==  \* mutant: a mismatch does not reset the match
    IF c = sep[over + 1] THEN over + 1
    ELSE IF c = sep[1] THEN 1 ELSE over
NextOver(c) ==
    IF c = sep[over + 1] THEN over + 1
    ELSE IF c = sep[1] THEN 1 ELSE 0

\* A turn of the loop of tokenizer_parse, and its return at the end of the
\* chunk or with the accepted prefix; the rest of the chunk is left over.
ParseChar ==
    /\ pc = "parse"
    /\ over < Len(sep)
    /\ over' = NextOver(Head(data))
    /\ token' = Append(token, Head(data))
    /\ IF over' = Len(sep)
       THEN /\ status' = "ACCEPTED"
            /\ outbuf' = Tail(data)
            /\ data' = <<>>
            /\ pc' = "idle"
       ELSE /\ data' = Tail(data)
            /\ pc' = IF Tail(data) = <<>> THEN "idle" ELSE "parse"
            /\ UNCHANGED <<status, outbuf>>
    /\ UNCHANGED <<sep, fed>>

\* assert(tok->sep_size) and assert(tok->over < tok->sep_size).
ParseAbort ==
    /\ pc = "parse"
    /\ over >= Len(sep)
    /\ pc' = "aborted"
    /\ UNCHANGED <<sep, over, status, token, data, outbuf, fed>>

\* The iteration ends, with or without a token: tokenizer_delete.  Only
\* terminate() clears the leftovers.
End ==
    /\ pc = "idle"
    /\ status # "NULL"
    /\ status' = "NULL"
    /\ outbuf' \in {outbuf, <<>>}
    /\ UNCHANGED <<pc, sep, over, token, data, fed>>

Aborted == pc = "aborted" /\ UNCHANGED vars

Chunks == UNION {[1 .. n -> Chars] : n \in 1 .. MaxChunk}

Next ==
    \/ \E a \in Arguments : Begin(a)
    \/ BeginEmpty
    \/ \E chunk \in Chunks : Read(chunk)
    \/ ParseChar
    \/ ParseAbort
    \/ End
    \/ Aborted

Spec == Init /\ [][Next]_vars

-----------------------------------------------------------------------------
\* The first n characters of t end with the first k characters of p.
EndsWith(t, n, p, k) == k <= n /\ \A j \in 1 .. k : t[(n - k) + j] = p[j]

\* The separator occurs in the token so that it ends at position n.
Occurs(n) == EndsWith(token, n, sep, Len(sep))

(***************************************************************************)
(* Soundness, for every separator and every cut into chunks: what is       *)
(* accepted ends with the separator, even if it began in an earlier chunk  *)
(* or in the leftovers.                                                    *)
(***************************************************************************)
TokenEndsWithSeparator == status = "ACCEPTED" => sep # <<>> /\ Occurs(Len(token))

(***************************************************************************)
(* Separators for which falling back to a single character is enough: the  *)
(* first character occurs only once, or is the only one there is ("\n\n"). *)
(***************************************************************************)
FallbackSuffices ==
    \/ \A j \in 2 .. Len(sep) : sep[j] # sep[1]
    \/ \A j \in 1 .. Len(sep) : sep[j] = sep[1]

(***************************************************************************)
(* Completeness, for these separators: the first separator in the output   *)
(* ends the token, and it is the only one in it.                           *)
(***************************************************************************)
OnlyLastIsSeparator ==
    sep # <<>> =>
        \A n \in 1 .. Len(token) :
            Occurs(n) => n = Len(token) /\ status \in {"ACCEPTED", "NULL"}

FirstSeparatorEndsToken == FallbackSuffices => OnlyLastIsSeparator

(***************************************************************************)
(* The tokenizer is never called again once it has accepted, so while it   *)
(* is in use its assertions only fail if the argument is empty as a C      *)
(* string.                                                                 *)
(***************************************************************************)
AbortsOnlyWithoutSeparator == pc = "aborted" /\ status # "NULL" => sep = <<>>

=============================================================================
