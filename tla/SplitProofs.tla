---------------------------- MODULE SplitProofs ----------------------------
(***************************************************************************)
(* Proofs about the multi-character tokenizer: for every separator, every  *)
(* output and every cut of it into chunks, an accepted token ends with the *)
(* separator; and for the separators of FallbackSuffices it is the first   *)
(* one in the output.                                                      *)
(***************************************************************************)
EXTENDS Split, SequenceTheorems, TLAPS

-----------------------------------------------------------------------------

\* Appending a character c extends the match of k - 1 characters to k exactly
\* when c is the k-th character of the separator.
LEMMA ExtendMatch ==
    \A t, p \in Seq(Chars), c \in Chars : \A k \in 1 .. Len(p) :
        EndsWith(Append(t, c), Len(t) + 1, p, k)
            <=> c = p[k] /\ EndsWith(t, Len(t), p, k - 1)
<1>1. SUFFICES ASSUME NEW t, NEW p, NEW c, NEW k,
                      t \in Seq(Chars), p \in Seq(Chars), c \in Chars,
                      k \in 1 .. Len(p)
               PROVE  EndsWith(Append(t, c), Len(t) + 1, p, k)
                          <=> c = p[k] /\ EndsWith(t, Len(t), p, k - 1)
  BY Zenon
<1> DEFINE u == Append(t, c)
           len == Len(t)
<1>2. len \in Nat /\ Len(p) \in Nat /\ k \in Nat /\ k >= 1 /\ k <= Len(p)
  BY <1>1, LenProperties
<1>3. u[len + 1] = c /\ \A i \in 1 .. len : u[i] = t[i]
  BY <1>1, AppendProperties
<1> HIDE DEF u, len
<1>4. ASSUME EndsWith(u, len + 1, p, k)
      PROVE  c = p[k] /\ EndsWith(t, len, p, k - 1)
  <2>1. k <= len + 1 /\ \A j \in 1 .. k : u[((len + 1) - k) + j] = p[j]
    BY <1>4, Zenon DEF EndsWith
  <2>2. u[((len + 1) - k) + k] = p[k] /\ ((len + 1) - k) + k = len + 1
    BY <1>2, <2>1
  <2>3. ASSUME NEW j \in 1 .. k - 1
        PROVE  t[(len - (k - 1)) + j] = p[j]
    <3>1. /\ j \in 1 .. k
          /\ ((len + 1) - k) + j = (len - (k - 1)) + j
          /\ (len - (k - 1)) + j \in 1 .. len
      BY <1>2, <2>1
    <3>2. QED  BY <1>3, <2>1, <3>1
  <2>4. k - 1 <= len
    BY <1>2, <2>1
  <2>5. QED  BY <1>3, <2>2, <2>3, <2>4 DEF EndsWith
<1>5. ASSUME c = p[k], EndsWith(t, len, p, k - 1)
      PROVE  EndsWith(u, len + 1, p, k)
  <2>1. k - 1 <= len /\ \A j \in 1 .. k - 1 : t[(len - (k - 1)) + j] = p[j]
    BY <1>5 DEF EndsWith
  <2>2. ASSUME NEW j \in 1 .. k
        PROVE  u[((len + 1) - k) + j] = p[j]
    <3>1. CASE j = k
      <4>1. ((len + 1) - k) + j = len + 1
        BY <1>2, <3>1
      <4>2. QED  BY <1>3, <1>5, <3>1, <4>1
    <3>2. CASE j # k
      <4>1. /\ j \in 1 .. k - 1
            /\ ((len + 1) - k) + j = (len - (k - 1)) + j
            /\ (len - (k - 1)) + j \in 1 .. len
        BY <1>2, <2>1, <3>2
      <4>2. QED  BY <1>3, <2>1, <4>1
    <3>3. QED  BY <3>1, <3>2
  <2>3. k <= len + 1
    BY <1>2, <2>1
  <2>4. QED  BY <2>2, <2>3, Zenon DEF EndsWith
<1>6. QED  BY <1>4, <1>5 DEF u, len

\* Appending a character changes no match that ended before it.
LEMMA EarlierMatch ==
    \A t, p \in Seq(Chars), c \in Chars : \A k \in Nat, n \in 1 .. Len(t) :
        EndsWith(Append(t, c), n, p, k) <=> EndsWith(t, n, p, k)
<1>1. SUFFICES ASSUME NEW t, NEW p, NEW c, NEW k, NEW n,
                      t \in Seq(Chars), p \in Seq(Chars), c \in Chars,
                      k \in Nat, n \in 1 .. Len(t)
               PROVE  EndsWith(Append(t, c), n, p, k) <=> EndsWith(t, n, p, k)
  BY Zenon
<1> DEFINE u == Append(t, c)
<1>2. n \in Nat /\ n <= Len(t) /\ Len(t) \in Nat /\ k \in Nat
  BY <1>1, LenProperties
<1>3. \A i \in 1 .. Len(t) : u[i] = t[i]
  BY <1>1, AppendProperties
<1> HIDE DEF u
<1>4. ASSUME k <= n, NEW j \in 1 .. k
      PROVE  u[(n - k) + j] = t[(n - k) + j]
  <2>1. (n - k) + j \in 1 .. Len(t)
    BY <1>2, <1>4
  <2>2. QED  BY <1>3, <2>1
<1>5. EndsWith(u, n, p, k) <=> EndsWith(t, n, p, k)
  BY <1>4 DEF EndsWith
<1>6. QED  BY <1>5 DEF u

-----------------------------------------------------------------------------

\* The next progress of the match is a progress, and a match of that length.
LEMMA NextOverMatches ==
    ASSUME TypeOK, over < Len(sep), NEW c \in Chars,
           EndsWith(token, Len(token), sep, over)
    PROVE  /\ NextOver(c) \in 0 .. Len(sep)
           /\ EndsWith(Append(token, c), Len(token) + 1, sep, NextOver(c))
<1>1. /\ over \in Nat /\ Len(sep) \in Nat /\ Len(token) \in Nat
      /\ token \in Seq(Chars) /\ sep \in Seq(Chars)
  BY LenProperties DEF TypeOK
<1>2. over + 1 \in 1 .. Len(sep) /\ 1 \in 1 .. Len(sep) /\ (over + 1) - 1 = over
  BY <1>1
<1>3. EndsWith(token, Len(token), sep, 0)
  BY <1>1 DEF EndsWith
<1>4. CASE c = sep[over + 1]
  <2>1. NextOver(c) = over + 1
    BY <1>4 DEF NextOver
  <2>2. EndsWith(Append(token, c), Len(token) + 1, sep, over + 1)
    BY <1>1, <1>2, <1>4, ExtendMatch
  <2>3. QED  BY <1>2, <2>1, <2>2
<1>5. CASE c # sep[over + 1] /\ c = sep[1]
  <2>1. NextOver(c) = 1
    BY <1>5 DEF NextOver
  <2>2. EndsWith(Append(token, c), Len(token) + 1, sep, 1)
    BY <1>1, <1>2, <1>3, <1>5, ExtendMatch
  <2>3. QED  BY <1>2, <2>1, <2>2
<1>6. CASE c # sep[over + 1] /\ c # sep[1]
  <2>1. NextOver(c) = 0
    BY <1>6 DEF NextOver
  <2>2. EndsWith(Append(token, c), Len(token) + 1, sep, 0)
    BY <1>1 DEF EndsWith
  <2>3. QED  BY <1>1, <2>1, <2>2
<1>7. QED  BY <1>4, <1>5, <1>6

\* While a tokenizer exists, over characters of the separator are matched; it
\* has accepted if and only if that is all of the separator.
SplitInv ==
    /\ TypeOK
    /\ status # "NULL" => EndsWith(token, Len(token), sep, over)
    /\ status = "CONTINUE" => (sep = <<>> /\ over = 0) \/ over < Len(sep)
    /\ status = "ACCEPTED" => sep # <<>> /\ over = Len(sep)
    /\ AbortsOnlyWithoutSeparator

\* What one turn of the parser's loop does.
LEMMA ParseCharInv ==
    ASSUME SplitInv, ParseChar
    PROVE  SplitInv'
<1>1. /\ pc = "parse" /\ status = "CONTINUE" /\ data # <<>> /\ data \in Seq(Chars)
      /\ over < Len(sep) /\ TypeOK
      /\ sep \in Seq(Chars) /\ token \in Seq(Chars) /\ outbuf \in Seq(Chars)
  BY DEF SplitInv, ParseChar, TypeOK
<1> DEFINE c == Head(data)
<1>2. c \in Chars /\ Tail(data) \in Seq(Chars)
  BY <1>1, HeadTailProperties
<1>3. EndsWith(token, Len(token), sep, over)
  BY <1>1 DEF SplitInv
<1>4. /\ over' = NextOver(c)
      /\ token' = Append(token, c)
      /\ sep' = sep /\ fed' = fed
  BY DEF ParseChar
<1>5. /\ over' \in 0 .. Len(sep)
      /\ EndsWith(Append(token, c), Len(token) + 1, sep, over')
  BY <1>1, <1>2, <1>3, <1>4, NextOverMatches
<1>6. token' \in Seq(Chars) /\ Len(token') = Len(token) + 1
  BY <1>1, <1>2, <1>4, AppendProperties
<1> HIDE DEF c
<1>7. EndsWith(token', Len(token'), sep', over')
  BY <1>4, <1>5, <1>6
<1>8. CASE over' = Len(sep)
  <2>1. status' = "ACCEPTED" /\ outbuf' = Tail(data) /\ data' = <<>> /\ pc' = "idle"
    BY <1>8 DEF ParseChar
  <2>2. sep # <<>>
    <3>1. over \in Nat
      BY <1>1, LenProperties DEF TypeOK
    <3>2. QED  BY <1>1, <3>1, EmptySeq
  <2>3. TypeOK'
    BY <1>1, <1>2, <1>4, <1>5, <1>6, <2>1 DEF TypeOK
  <2>4. QED
    BY <1>4, <1>7, <1>8, <2>1, <2>2, <2>3 DEF SplitInv, AbortsOnlyWithoutSeparator
<1>9. CASE over' # Len(sep)
  <2>1. /\ data' = Tail(data) /\ status' = status /\ outbuf' = outbuf
        /\ pc' = IF Tail(data) = <<>> THEN "idle" ELSE "parse"
    BY <1>9 DEF ParseChar
  <2>2. TypeOK'
    BY <1>1, <1>2, <1>4, <1>5, <1>6, <2>1 DEF TypeOK
  <2>3. over' < Len(sep')
    BY <1>1, <1>4, <1>5, <1>9, LenProperties
  <2>4. QED
    BY <1>1, <1>7, <2>1, <2>2, <2>3 DEF SplitInv, AbortsOnlyWithoutSeparator
<1>10. QED  BY <1>8, <1>9

\* A new tokenizer has matched nothing.
LEMMA BeginInv ==
    ASSUME SplitInv, NEW a \in Arguments, Begin(a)
    PROVE  SplitInv'
<1>1. PICK n \in 0 .. Len(a) : sep' = SubSeq(a, 1, n) /\ over' = InitialOver(n)
  BY Zenon DEF Begin
<1>2. a \in Seq(Chars) /\ Len(a) \in Nat
  BY SplitAssumption, LenProperties
<1>3. sep' \in Seq(Chars)
  BY <1>1, <1>2, SubSeqProperties
<1>4. /\ status' = "CONTINUE" /\ token' = <<>> /\ data' = outbuf /\ outbuf' = <<>>
      /\ pc' \in {"idle", "parse"} /\ (pc' = "parse" => outbuf # <<>>) /\ fed' = fed
      /\ over' = 0
  BY <1>1 DEF Begin, InitialOver, AfterBegin
<1>5. Len(sep') \in Nat
  BY <1>3, LenProperties
<1>6. TypeOK'
  BY <1>3, <1>4, <1>5 DEF SplitInv, TypeOK
<1>7. EndsWith(token', Len(token'), sep', over')
  BY <1>4 DEF EndsWith
<1>8. (sep' = <<>> /\ over' = 0) \/ over' < Len(sep')
  BY <1>3, <1>4, <1>5, EmptySeq
<1>9. QED  BY <1>4, <1>6, <1>7, <1>8 DEF SplitInv, AbortsOnlyWithoutSeparator

\* The progress of the match is always right.
LEMMA SplitInvariant == Spec => []SplitInv
<1>1. Init => SplitInv
  BY DEF Init, SplitInv, TypeOK, AbortsOnlyWithoutSeparator
<1>2. SplitInv /\ [Next]_vars => SplitInv'
  <2> SUFFICES ASSUME SplitInv, [Next]_vars
               PROVE  SplitInv'
    OBVIOUS
  <2>1. ASSUME NEW a \in Arguments, Begin(a)
        PROVE  SplitInv'
    BY <2>1, BeginInv
  <2>2. CASE BeginEmpty
    BY <2>2 DEF BeginEmpty, SplitInv, TypeOK, AbortsOnlyWithoutSeparator
  <2>3. ASSUME NEW chunk \in Chunks, Read(chunk)
        PROVE  SplitInv'
    <3>1. chunk \in Seq(Chars) /\ Len(chunk) \in Nat
      BY SplitAssumption DEF Chunks
    <3>2. fed' \in Nat
      BY <2>3, <3>1 DEF Read, SplitInv, TypeOK
    <3>3. QED
      BY <2>3, <3>1, <3>2 DEF Read, SplitInv, TypeOK, AbortsOnlyWithoutSeparator
  <2>4. CASE ParseChar
    BY <2>4, ParseCharInv
  <2>5. CASE ParseAbort
    BY <2>5 DEF ParseAbort, SplitInv, TypeOK, AbortsOnlyWithoutSeparator
  <2>6. CASE End
    <3>1. outbuf' \in Seq(Chars)
      <4>1. outbuf \in Seq(Chars) /\ <<>> \in Seq(Chars)
        BY EmptySeq DEF SplitInv, TypeOK
      <4>2. QED  BY <2>6, <4>1 DEF End
    <3>2. QED
      BY <2>6, <3>1 DEF End, SplitInv, TypeOK, AbortsOnlyWithoutSeparator
  <2>7. CASE UNCHANGED vars
    BY <2>7 DEF vars, SplitInv, TypeOK, AbortsOnlyWithoutSeparator
  <2>8. QED
    BY <2>1, <2>2, <2>3, <2>4, <2>5, <2>6, <2>7 DEF Next, Aborted
<1>3. QED  BY <1>1, <1>2, PTL DEF Spec

(***************************************************************************)
(* The variables of the tokenizer keep their types, and tokenizer_parse    *)
(* runs on a chunk that is not empty only.                                 *)
(***************************************************************************)
THEOREM SplitTypeCorrect == Spec => []TypeOK
<1>1. SplitInv => TypeOK
  BY DEF SplitInv
<1>2. QED  BY <1>1, SplitInvariant, PTL

(***************************************************************************)
(* split.c is sound: an accepted token ends with the separator.            *)
(***************************************************************************)
THEOREM AcceptedTokenIsSound == Spec => []TokenEndsWithSeparator
<1>1. SplitInv => TokenEndsWithSeparator
  BY DEF SplitInv, TokenEndsWithSeparator, Occurs
<1>2. QED  BY <1>1, SplitInvariant, PTL

(***************************************************************************)
(* The assertions of tokenizer_parse only fail without a separator.        *)
(***************************************************************************)
THEOREM ParserDoesNotAbort == Spec => []AbortsOnlyWithoutSeparator
<1>1. SplitInv => AbortsOnlyWithoutSeparator
  BY DEF SplitInv
<1>2. QED  BY <1>1, SplitInvariant, PTL

-----------------------------------------------------------------------------
(***************************************************************************)
(* Completeness needs that over is the longest match: then no separator    *)
(* can have been passed unnoticed.  Falling back to one character keeps    *)
(* this only for the separators of FallbackSuffices.                       *)
(***************************************************************************)
LongestMatch ==
    status # "NULL" =>
        \A k \in 1 .. Len(sep) : EndsWith(token, Len(token), sep, k) => k <= over

CompleteInv ==
    /\ SplitInv
    /\ FallbackSuffices => LongestMatch
    /\ FirstSeparatorEndsToken

\* If the match is the longest before a character, it is so after it.
LEMMA LongestAfter ==
    ASSUME SplitInv, status = "CONTINUE", over < Len(sep), FallbackSuffices, LongestMatch,
           NEW c \in Chars, NEW k \in 1 .. Len(sep),
           EndsWith(Append(token, c), Len(token) + 1, sep, k)
    PROVE  k <= NextOver(c)
<1>1. /\ over \in Nat /\ Len(sep) \in Nat /\ Len(token) \in Nat /\ k \in Nat
      /\ token \in Seq(Chars) /\ sep \in Seq(Chars)
  BY LenProperties DEF SplitInv, TypeOK
<1>2. c = sep[k] /\ EndsWith(token, Len(token), sep, k - 1)
  BY <1>1, ExtendMatch
<1>3. EndsWith(token, Len(token), sep, over)
  BY DEF SplitInv
<1>4. k - 1 <= over
  <2>1. CASE k = 1
    BY <1>1, <2>1
  <2>2. CASE k # 1
    <3>1. k - 1 \in 1 .. Len(sep)
      BY <1>1, <2>2
    <3>2. QED  BY <1>2, <3>1 DEF LongestMatch
  <2>3. QED  BY <2>1, <2>2
<1>5. CASE c = sep[over + 1]
  BY <1>1, <1>4, <1>5 DEF NextOver
<1>6. CASE c # sep[over + 1]
  <2>1. k <= over
    BY <1>1, <1>2, <1>4, <1>6
  <2>2. k = 1
    <3>1. SUFFICES ASSUME k # 1
                   PROVE  FALSE
      OBVIOUS
    <3>2. CASE \A j \in 2 .. Len(sep) : sep[j] # sep[1]
      <4>1. 1 \in 1 .. k - 1 /\ (over - k) + 2 \in 1 .. over
        BY <1>1, <2>1, <3>1
      <4>2. token[(Len(token) - (k - 1)) + 1] = sep[1]
        BY <1>2, <4>1 DEF EndsWith
      <4>3. token[(Len(token) - over) + ((over - k) + 2)] = sep[(over - k) + 2]
        BY <1>3, <4>1 DEF EndsWith
      <4>4. /\ (Len(token) - over) + ((over - k) + 2) = (Len(token) - (k - 1)) + 1
            /\ (over - k) + 2 \in 2 .. Len(sep)
        BY <1>1, <2>1
      <4>5. QED  BY <3>2, <4>2, <4>3, <4>4
    <3>3. CASE \A j \in 1 .. Len(sep) : sep[j] = sep[1]
      <4>1. over + 1 \in 1 .. Len(sep)
        BY <1>1
      <4>2. QED  BY <1>2, <1>6, <3>3, <4>1
    <3>4. QED  BY <3>2, <3>3 DEF FallbackSuffices
  <2>3. QED  BY <1>2, <1>6, <2>2 DEF NextOver
<1>7. QED  BY <1>5, <1>6

\* One turn of the parser's loop passes no separator.
LEMMA ParseCharComplete ==
    ASSUME CompleteInv, ParseChar, FallbackSuffices
    PROVE  LongestMatch' /\ OnlyLastIsSeparator'
<1>1. /\ status = "CONTINUE" /\ data # <<>> /\ data \in Seq(Chars) /\ over < Len(sep)
      /\ sep \in Seq(Chars) /\ token \in Seq(Chars) /\ over \in Nat
      /\ SplitInv /\ LongestMatch
  BY LenProperties DEF CompleteInv, SplitInv, ParseChar, TypeOK
<1> DEFINE c == Head(data)
<1>2. c \in Chars
  BY <1>1, HeadTailProperties
<1>3. over' = NextOver(c) /\ token' = Append(token, c) /\ sep' = sep
  BY DEF ParseChar
<1>4. Len(token') = Len(token) + 1 /\ Len(token) \in Nat /\ Len(sep) \in Nat
  BY <1>1, <1>2, <1>3, AppendProperties, LenProperties
<1> HIDE DEF c
<1>5. ASSUME NEW k \in 1 .. Len(sep), EndsWith(token', Len(token'), sep, k)
      PROVE  k <= over'
  BY <1>1, <1>2, <1>3, <1>4, <1>5, LongestAfter
<1>6. LongestMatch'
  BY <1>3, <1>5 DEF LongestMatch
<1>7. sep # <<>>
  BY <1>1, <1>4, EmptySeq
<1>8. \A n \in 1 .. Len(token) : ~EndsWith(token, n, sep, Len(sep))
  BY <1>1, <1>7 DEF CompleteInv, FirstSeparatorEndsToken, OnlyLastIsSeparator, Occurs
<1>9. ASSUME NEW n \in 1 .. Len(token'), EndsWith(token', n, sep, Len(sep))
      PROVE  n = Len(token') /\ status' = "ACCEPTED"
  <2>1. n \notin 1 .. Len(token)
    BY <1>1, <1>2, <1>3, <1>4, <1>8, <1>9, EarlierMatch
  <2>2. n = Len(token')
    BY <1>4, <2>1
  <2>3. Len(sep) \in 1 .. Len(sep)
    BY <1>1, <1>4
  <2>4. over' = Len(sep)
    <3>1. Len(sep) <= over'
      BY <1>5, <1>9, <2>2, <2>3
    <3>2. over' \in 0 .. Len(sep')
      BY <1>1, ParseCharInv DEF SplitInv, TypeOK
    <3>3. QED  BY <1>3, <1>4, <3>1, <3>2
  <2>5. QED  BY <2>2, <2>4 DEF ParseChar
<1>10. OnlyLastIsSeparator'
  BY <1>3, <1>9 DEF OnlyLastIsSeparator, Occurs
<1>11. QED  BY <1>6, <1>10

(***************************************************************************)
(* split.c is complete for the separators of FallbackSuffices: the first   *)
(* separator in the output ends the token.                                 *)
(***************************************************************************)
THEOREM FirstSeparatorIsFound == Spec => []FirstSeparatorEndsToken
<1>1. Init => CompleteInv
  <2>1. Init => SplitInv
    BY DEF Init, SplitInv, TypeOK, AbortsOnlyWithoutSeparator
  <2>2. QED
    BY <2>1 DEF Init, CompleteInv, LongestMatch, FirstSeparatorEndsToken,
                OnlyLastIsSeparator
<1>2. CompleteInv /\ SplitInv' /\ [Next]_vars => CompleteInv'
  <2> SUFFICES ASSUME CompleteInv, SplitInv', [Next]_vars
               PROVE  CompleteInv'
    OBVIOUS
  <2> USE DEF CompleteInv
  <2>1. ASSUME NEW a \in Arguments, Begin(a)
        PROVE  CompleteInv'
    <3>1. token' = <<>> /\ Len(token') = 0
      BY <2>1, EmptySeq DEF Begin
    <3>2. LongestMatch'
      BY <3>1 DEF LongestMatch, EndsWith
    <3>3. OnlyLastIsSeparator'
      BY <3>1 DEF OnlyLastIsSeparator
    <3>4. QED  BY <3>2, <3>3 DEF FirstSeparatorEndsToken
  <2>2. CASE ParseChar
    <3>1. FallbackSuffices' <=> FallbackSuffices
      BY <2>2 DEF ParseChar, FallbackSuffices
    <3>2. QED  BY <2>2, <3>1, ParseCharComplete DEF FirstSeparatorEndsToken
  <2>3. CASE End
    BY <2>3 DEF End, FallbackSuffices, LongestMatch, FirstSeparatorEndsToken,
                OnlyLastIsSeparator, Occurs
  <2>4. CASE UNCHANGED <<sep, over, status, token>>
    BY <2>4 DEF FallbackSuffices, LongestMatch, FirstSeparatorEndsToken,
                OnlyLastIsSeparator, Occurs
  <2>5. QED
    BY <2>1, <2>2, <2>3, <2>4
       DEF Next, BeginEmpty, Read, ParseAbort, Aborted, vars
<1>3. CompleteInv => FirstSeparatorEndsToken
  BY DEF CompleteInv
<1>4. QED  BY <1>1, <1>2, <1>3, SplitInvariant, PTL DEF Spec

=============================================================================
