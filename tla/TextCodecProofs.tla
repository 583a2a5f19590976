-------------------------- MODULE TextCodecProofs --------------------------
(***************************************************************************)
(* Proofs about TextCodec, for any fields, any number of messages and any  *)
(* foreign text.                                                           *)
(*                                                                         *)
(* A text is built by FlattenSeq and has no bounded length, so what is     *)
(* said of it rests on induction over sequences, which is done here with   *)
(* sets: a set of sequences that contains the empty one and with each one  *)
(* its extensions contains them all.  The inductive invariant CodecInv is  *)
(* that the text of what was received, with that of the line the reader is *)
(* in and the text it has not read, is the text that has arrived; and,     *)
(* between the two programs, that the reader is at a place in a message    *)
(* that was sent.                                                          *)
(***************************************************************************)
EXTENDS TextCodec, SequenceTheorems, WellFoundedInduction, TLAPS

-----------------------------------------------------------------------------
\* Induction, with sets in the place of predicates.

\* A nonempty set of natural numbers has a least element.
LEMMA LeastElement ==
    ASSUME NEW T \in SUBSET Nat, T # {}
    PROVE  \E x \in T : \A y \in T : x <= y
<1>1. PICK x \in T : \A y \in T : <<y, x>> \notin OpToRel(<, Nat)
  BY NatLessThanWellFounded, WFMin
<1>2. \A y \in T : ~ (y < x)
  BY <1>1 DEF OpToRel
<1>3. QED  BY <1>2, SMT

\* A set that holds 0 and the successor of each of its elements holds every
\* natural number.
LEMMA InductiveNumbers ==
    ASSUME NEW T \in SUBSET Nat, 0 \in T, \A n \in T : n + 1 \in T
    PROVE  T = Nat
<1>1. SUFFICES ASSUME Nat \ T # {} PROVE FALSE
  OBVIOUS
<1>2. PICK x \in Nat \ T : \A y \in Nat \ T : x <= y
  BY <1>1, LeastElement
<1>3. x # 0 /\ x - 1 \in Nat /\ x - 1 + 1 = x
  BY <1>2
<1>4. x - 1 \in T
  BY <1>2, <1>3
<1>5. QED  BY <1>2, <1>3, <1>4

\* A set of sequences that holds the empty one, and with each one those that
\* are longer by one element, holds them all.
LEMMA InductiveSequences ==
    ASSUME NEW S, NEW T \in SUBSET Seq(S), <<>> \in T,
           \A s \in T, x \in S : Append(s, x) \in T
    PROVE  T = Seq(S)
<1> DEFINE N == {n \in Nat : \A s \in Seq(S) : Len(s) = n => s \in T}
<1>1. 0 \in N
  BY EmptySeq
<1>2. ASSUME NEW n \in N PROVE n + 1 \in N
  <2>1. SUFFICES ASSUME NEW s \in Seq(S), Len(s) = n + 1 PROVE s \in T
    BY DEF N
  <2>2. s # <<>>
    BY <2>1
  <2>3. PICK r \in Seq(S), x \in S : s = Append(r, x)
    BY <2>2, SequenceEmptyOrAppend
  <2>4. Len(r) = n
    BY <2>1, <2>3, AppendProperties, LenProperties
  <2>5. r \in T
    BY <2>4
  <2>6. QED  BY <2>3, <2>5
<1> HIDE DEF N
<1>3. N = Nat
  <2>1. N \in SUBSET Nat
    BY DEF N
  <2>2. QED  BY <1>1, <1>2, <2>1, InductiveNumbers
<1>4. \A s \in Seq(S) : Len(s) \in N
  BY <1>3, LenProperties
<1>5. QED  BY <1>4 DEF N

-----------------------------------------------------------------------------
\* Prefixes.

\* Two elements.
LEMMA TwoElements ==
    ASSUME NEW S, NEW x \in S, NEW y \in S
    PROVE  <<x>> \o <<y>> = <<x, y>>
<1> DEFINE p == <<x>> \o <<y>>
           q == <<x, y>>
<1>1. <<x>> \in Seq(S) /\ <<y>> \in Seq(S) /\ Len(<<x>>) = 1 /\ Len(<<y>>) = 1
  OBVIOUS
<1>2. p \in Seq(S) /\ Len(p) = 2
  BY <1>1, ConcatProperties
<1>3. p[1] = x /\ p[2] = y
  BY <1>1
<1>4. q \in Seq(S) /\ Len(q) = 2 /\ q[1] = x /\ q[2] = y
  OBVIOUS
<1> HIDE DEF p, q
<1>5. ASSUME NEW i \in 1 .. 2 PROVE p[i] = q[i]
  <2>1. i = 1 \/ i = 2
    OBVIOUS
  <2>2. QED  BY <2>1, <1>3, <1>4
<1>6. p = q
  BY <1>2, <1>4, <1>5, SeqEqual
<1>7. QED  BY <1>6 DEF p, q

\* A prefix, as the front of a concatenation.
LEMMA PrefixConcat ==
    ASSUME NEW S, NEW p \in Seq(S), NEW r \in Seq(S)
    PROVE  IsPrefix(p, p \o r)
<1>1. /\ p \o r \in Seq(S) /\ Len(p \o r) = Len(p) + Len(r) /\ Len(p) \in Nat /\ Len(r) \in Nat
      /\ \A i \in 1 .. Len(p) : (p \o r)[i] = p[i]
  BY ConcatProperties, LenProperties
<1>2. SubSeq(p, 1, Len(p)) = SubSeq(p \o r, 1, Len(p))
  BY <1>1
<1>3. QED  BY <1>1, <1>2 DEF IsPrefix

LEMMA PrefixRest ==
    ASSUME NEW S, NEW p \in Seq(S), NEW t \in Seq(S), IsPrefix(p, t)
    PROVE  \E v \in Seq(S) : t = p \o v
<1> DEFINE v == SubSeq(t, Len(p) + 1, Len(t))
<1>1. Len(p) \in Nat /\ Len(t) \in Nat /\ Len(p) <= Len(t)
  BY LenProperties DEF IsPrefix
<1>2. SubSeq(t, 1, Len(p)) = p
  BY SubSeqFull DEF IsPrefix
<1>3. v \in Seq(S)
  BY <1>1, SubSeqProperties, ElementOfSeq
<1>4. SubSeq(t, 1, Len(p)) \o SubSeq(t, Len(p) + 1, Len(t)) = SubSeq(t, 1, Len(t))
  <2>1. 1 \in 1 .. Len(t) + 1 /\ Len(p) \in 1 - 1 .. Len(t) /\ Len(t) \in Len(p) .. Len(t)
    BY <1>1
  <2>2. QED  BY <2>1, ConcatAdjacentSubSeq
<1>5. t = p \o v
  BY <1>2, <1>4, SubSeqFull
<1>6. QED  BY <1>3, <1>5

\* The first n + 1 elements are the first n and the next one.
LEMMA NextPrefix ==
    ASSUME NEW S, NEW s \in Seq(S), NEW n \in 0 .. Len(s) - 1
    PROVE  /\ SubSeq(s, 1, n) \in Seq(S) /\ Len(SubSeq(s, 1, n)) = n
           /\ s[n + 1] \in S
           /\ SubSeq(s, 1, n + 1) = Append(SubSeq(s, 1, n), s[n + 1])
<1>1. Len(s) \in Nat /\ n + 1 \in 1 .. Len(s)
  BY LenProperties
<1>2. SubSeq(s, 1, n) \in Seq(S) /\ Len(SubSeq(s, 1, n)) = n
  BY <1>1, SubSeqProperties, ElementOfSeq
<1>3. s[n + 1] \in S
  BY <1>1, ElementOfSeq
<1>4. SubSeq(s, 1, n + 1) = SubSeq(s, 1, n + 1 - 1) \o <<s[n + 1]>>
  <2>1. 1 \in 1 .. Len(s) /\ n + 1 \in 1 .. Len(s)
    BY <1>1
  <2>2. QED  BY <2>1, SubSeqRecursiveSecond
<1>5. QED  BY <1>1, <1>2, <1>3, <1>4, AppendIsConcat

-----------------------------------------------------------------------------
\* FlattenSeq.

\* g[i] is the first i elements of q, one after the other.
Accumulates(g, q) ==
    /\ DOMAIN g = 1 .. Len(q)
    /\ \A i \in 1 .. Len(q) : g[i] = IF i = 1 THEN q[i] ELSE g[i - 1] \o q[i]

\* There is such a function.
LEMMA AccumulatorExists ==
    ASSUME NEW S, NEW q \in Seq(S)
    PROVE  \E g : g = [i \in 1 .. Len(q) |-> IF i = 1 THEN q[i] ELSE g[i - 1] \o q[i]]
<1> DEFINE T == {p \in Seq(S) : \E g : Accumulates(g, p)}
<1>1. <<>> \in T
  <2>1. Accumulates(<<>>, <<>>)
    BY DEF Accumulates
  <2>2. QED  BY <2>1
<1>2. ASSUME NEW p \in T, NEW x \in S PROVE Append(p, x) \in T
  <2>1. PICK g : Accumulates(g, p)
    OBVIOUS
  <2> DEFINE n == Len(p) + 1
             r == Append(p, x)
             h == [i \in 1 .. n |-> IF i < n THEN g[i]
                                    ELSE IF i = 1 THEN x ELSE g[i - 1] \o x]
  <2>2. p \in Seq(S) /\ Len(p) \in Nat /\ r \in Seq(S) /\ Len(r) = n
    BY AppendProperties, LenProperties
  <2>3. \A i \in 1 .. Len(p) : r[i] = p[i]
    BY <2>2, AppendProperties
  <2>4. r[n] = x
    BY <2>2, AppendProperties
  <2> HIDE DEF r
  <2>5. ASSUME NEW i \in 1 .. n PROVE h[i] = IF i = 1 THEN r[i] ELSE h[i - 1] \o r[i]
    <3>1. CASE i < n
      <4>1. i \in 1 .. Len(p) /\ h[i] = g[i] /\ (i # 1 => h[i - 1] = g[i - 1])
        BY <3>1, <2>2
      <4>2. QED  BY <4>1, <2>1, <2>3 DEF Accumulates
    <3>2. CASE i = n
      <4>1. h[i] = IF i = 1 THEN x ELSE g[i - 1] \o x
        BY <3>2, <2>2
      <4>2. i # 1 => h[i - 1] = g[i - 1]
        BY <3>2, <2>2
      <4>3. QED  BY <3>2, <4>1, <4>2, <2>4
    <3>3. QED  BY <3>1, <3>2, <2>2
  <2>6. Accumulates(h, r)
    BY <2>2, <2>5 DEF Accumulates
  <2>7. QED  BY <2>2, <2>6 DEF r
<1>3. T = Seq(S)
  <2> HIDE DEF T
  <2>1. T \in SUBSET Seq(S)
    BY DEF T
  <2>2. QED  BY <1>1, <1>2, <2>1, InductiveSequences
<1>4. PICK g : Accumulates(g, q)
  BY <1>3
<1>5. [i \in 1 .. Len(q) |-> g[i]] = [i \in 1 .. Len(q) |-> IF i = 1 THEN q[i] ELSE g[i - 1] \o q[i]]
  BY <1>4 DEF Accumulates
<1> DEFINE h == [i \in 1 .. Len(q) |-> g[i]]
<1>6. h = [i \in 1 .. Len(q) |-> IF i = 1 THEN q[i] ELSE h[i - 1] \o q[i]]
  <2>1. ASSUME NEW i \in 1 .. Len(q) PROVE h[i] = IF i = 1 THEN q[i] ELSE h[i - 1] \o q[i]
    <3>1. i # 1 => h[i - 1] = g[i - 1]
      BY LenProperties
    <3>2. QED  BY <3>1, <1>4 DEF Accumulates
  <2>2. QED  BY <2>1
<1>7. QED  BY <1>6

\* FlattenSeq is its last value.
LEMMA FlattenAccumulates ==
    ASSUME NEW S, NEW q \in Seq(S), q # <<>>
    PROVE  \E g : Accumulates(g, q) /\ FlattenSeq(q) = g[Len(q)]
<1> DEFINE f == CHOOSE g : g = [i \in 1 .. Len(q) |-> IF i = 1 THEN q[i] ELSE g[i - 1] \o q[i]]
<1>1. Len(q) # 0
  BY EmptySeq
<1>2. FlattenSeq(q) = f[Len(q)]
  BY <1>1, Zenon DEF FlattenSeq
<1>3. f = [i \in 1 .. Len(q) |-> IF i = 1 THEN q[i] ELSE f[i - 1] \o q[i]]
  BY AccumulatorExists, Zenon
<1> HIDE DEF f
<1>4. Accumulates(f, q)
  BY <1>3 DEF Accumulates
<1>5. QED  BY <1>2, <1>4

\* Two of them agree where their sequences do.
LEMMA AccumulatorsAgree ==
    ASSUME NEW S, NEW p \in Seq(S), NEW x \in S, NEW g, NEW h,
           Accumulates(g, p), Accumulates(h, Append(p, x))
    PROVE  \A i \in 1 .. Len(p) : g[i] = h[i]
<1> DEFINE T == {i \in Nat : i \in 1 .. Len(p) => g[i] = h[i]}
<1>1. /\ Len(p) \in Nat /\ Len(Append(p, x)) = Len(p) + 1
      /\ \A i \in 1 .. Len(p) : Append(p, x)[i] = p[i]
  BY AppendProperties, LenProperties
<1>2. 0 \in T
  OBVIOUS
<1>3. ASSUME NEW n \in T PROVE n + 1 \in T
  <2>1. SUFFICES ASSUME n + 1 \in 1 .. Len(p) PROVE g[n + 1] = h[n + 1]
    OBVIOUS
  <2>2. n + 1 \in 1 .. Len(p) + 1 /\ (n + 1 # 1 => n \in 1 .. Len(p)) /\ n + 1 - 1 = n
    BY <2>1, <1>1
  <2> DEFINE m == n + 1
  <2>3. m \in 1 .. Len(p) /\ m \in 1 .. Len(Append(p, x)) /\ m - 1 = n /\ Append(p, x)[m] = p[m]
    BY <2>1, <2>2, <1>1
  <2> HIDE DEF m
  <2>4. g[m] = IF m = 1 THEN p[m] ELSE g[m - 1] \o p[m]
    BY <2>3 DEF Accumulates
  <2>5. h[m] = IF m = 1 THEN Append(p, x)[m] ELSE h[m - 1] \o Append(p, x)[m]
    BY <2>3, Zenon DEF Accumulates
  <2>6. QED  BY <2>1, <2>2, <2>3, <2>4, <2>5 DEF m
<1>4. T = Nat
  <2> HIDE DEF T
  <2>1. T \in SUBSET Nat
    BY DEF T
  <2>2. QED  BY <1>2, <1>3, <2>1, InductiveNumbers
<1>5. QED  BY <1>4

\* What FlattenSeq returns, one element after the other.
LEMMA FlattenEmpty == FlattenSeq(<<>>) = <<>>
BY DEF FlattenSeq

LEMMA FlattenAppendNonempty ==
    ASSUME NEW S, NEW p \in Seq(S), NEW x \in S, p # <<>>
    PROVE  FlattenSeq(Append(p, x)) = FlattenSeq(p) \o x
<1>1. /\ Append(p, x) \in Seq(S) /\ Append(p, x) # <<>>
      /\ Len(Append(p, x)) = Len(p) + 1 /\ Append(p, x)[Len(p) + 1] = x
      /\ Len(p) \in Nat \ {0}
  BY AppendProperties, EmptySeq, LenProperties
<1>2. PICK g : Accumulates(g, p) /\ FlattenSeq(p) = g[Len(p)]
  BY FlattenAccumulates
<1>3. PICK h : Accumulates(h, Append(p, x)) /\ FlattenSeq(Append(p, x)) = h[Len(p) + 1]
  BY <1>1, FlattenAccumulates
<1>4. h[Len(p) + 1] = h[Len(p)] \o x
  <2> DEFINE m == Len(p) + 1
  <2>1. m \in 1 .. Len(Append(p, x)) /\ m # 1 /\ m - 1 = Len(p) /\ Append(p, x)[m] = x
    BY <1>1
  <2> HIDE DEF m
  <2>2. h[m] = IF m = 1 THEN Append(p, x)[m] ELSE h[m - 1] \o Append(p, x)[m]
    BY <2>1, <1>3, Zenon DEF Accumulates
  <2>3. QED  BY <2>1, <2>2 DEF m
<1>5. g[Len(p)] = h[Len(p)]
  BY <1>1, <1>2, <1>3, AccumulatorsAgree
<1>6. QED  BY <1>2, <1>3, <1>4, <1>5

LEMMA FlattenOne ==
    ASSUME NEW S, NEW x \in S
    PROVE  FlattenSeq(<<x>>) = x
<1>1. <<x>> \in Seq(S) /\ <<x>> # <<>> /\ Len(<<x>>) = 1
  OBVIOUS
<1>2. PICK h : Accumulates(h, <<x>>) /\ FlattenSeq(<<x>>) = h[1]
  BY <1>1, FlattenAccumulates
<1>3. QED  BY <1>2 DEF Accumulates

LEMMA FlattenAppend ==
    ASSUME NEW S, NEW p \in Seq(Seq(S)), NEW x \in Seq(S)
    PROVE  FlattenSeq(Append(p, x)) = FlattenSeq(p) \o x
<1>1. CASE p = <<>>
  <2>1. Append(p, x) = <<x>> /\ <<>> \o x = x
    BY <1>1
  <2>2. FlattenSeq(<<x>>) = x
    BY FlattenOne
  <2>3. QED  BY <2>1, <2>2, <1>1, FlattenEmpty
<1>2. CASE p # <<>>
  BY <1>2, FlattenAppendNonempty
<1>3. QED  BY <1>1, <1>2

LEMMA FlattenType ==
    ASSUME NEW S, NEW p \in Seq(Seq(S))
    PROVE  FlattenSeq(p) \in Seq(S)
<1> DEFINE T == {q \in Seq(Seq(S)) : FlattenSeq(q) \in Seq(S)}
<1>1. <<>> \in T
  <2>1. <<>> \in Seq(Seq(S)) /\ <<>> \in Seq(S)
    BY EmptySeq
  <2>2. QED  BY <2>1, FlattenEmpty
<1>2. ASSUME NEW q \in T, NEW x \in Seq(S) PROVE Append(q, x) \in T
  <2>1. FlattenSeq(Append(q, x)) = FlattenSeq(q) \o x
    BY FlattenAppend
  <2>2. QED  BY <2>1, AppendProperties, ConcatProperties
<1>3. T = Seq(Seq(S))
  <2> HIDE DEF T
  <2>1. T \in SUBSET Seq(Seq(S))
    BY DEF T
  <2>2. QED  BY <1>1, <1>2, <2>1, InductiveSequences
<1>4. QED  BY <1>3

\* Flattened, a sequence of sequences is its first n elements and the rest.
LEMMA FlattenConcat ==
    ASSUME NEW S, NEW p \in Seq(Seq(S)), NEW r \in Seq(Seq(S))
    PROVE  FlattenSeq(p \o r) = FlattenSeq(p) \o FlattenSeq(r)
<1> DEFINE T == {q \in Seq(Seq(S)) : FlattenSeq(p \o q) = FlattenSeq(p) \o FlattenSeq(q)}
<1>1. <<>> \in T
  <2>1. p \o <<>> = p /\ FlattenSeq(p) \o <<>> = FlattenSeq(p)
    BY FlattenType, ConcatEmptySeq
  <2>2. <<>> \in Seq(Seq(S))
    BY EmptySeq
  <2>3. QED  BY <2>1, <2>2, FlattenEmpty
<1>2. ASSUME NEW q \in T, NEW x \in Seq(S) PROVE Append(q, x) \in T
  <2>1. p \o q \in Seq(Seq(S)) /\ Append(q, x) \in Seq(Seq(S)) /\ <<x>> \in Seq(Seq(S))
    BY ConcatProperties, AppendProperties
  <2>2. p \o (q \o <<x>>) = (p \o q) \o <<x>>
    BY <2>1
  <2>3. p \o Append(q, x) = Append(p \o q, x) /\ p \o q \in Seq(Seq(S)) /\ Append(q, x) \in Seq(Seq(S))
    BY <2>1, <2>2, AppendIsConcat
  <2>4. FlattenSeq(Append(p \o q, x)) = FlattenSeq(p \o q) \o x
    BY <2>3, FlattenAppend
  <2>5. FlattenSeq(Append(q, x)) = FlattenSeq(q) \o x
    BY FlattenAppend
  <2>6. FlattenSeq(p) \in Seq(S) /\ FlattenSeq(q) \in Seq(S)
    BY FlattenType
  <2>7. (FlattenSeq(p) \o FlattenSeq(q)) \o x = FlattenSeq(p) \o (FlattenSeq(q) \o x)
    <3> DEFINE u == FlattenSeq(p)
               v == FlattenSeq(q)
    <3> HIDE DEF u, v, T
    <3>1. u \in Seq(S) /\ v \in Seq(S) /\ x \in Seq(S)
      BY <2>6 DEF u, v
    <3>2. (u \o v) \o x = u \o (v \o x)
      BY <3>1, SMTT(30)
    <3>3. QED  BY <3>2 DEF u, v
  <2>8. QED  BY <2>3, <2>4, <2>5, <2>7
<1>3. T = Seq(Seq(S))
  <2> HIDE DEF T
  <2>1. T \in SUBSET Seq(Seq(S))
    BY DEF T
  <2>2. QED  BY <1>1, <1>2, <2>1, InductiveSequences
<1>4. QED  BY <1>3

\* The part behind element n.
LEMMA FlattenSplit ==
    ASSUME NEW S, NEW p \in Seq(Seq(S)), NEW n \in 0 .. Len(p) - 1
    PROVE  \E w \in Seq(S) : FlattenSeq(p) = FlattenSeq(SubSeq(p, 1, n)) \o (p[n + 1] \o w)
<1>1. Len(p) \in Nat /\ p[n + 1] \in Seq(S)
  BY LenProperties, ElementOfSeq
<1> DEFINE a == SubSeq(p, 1, n)
           b == SubSeq(p, n + 2, Len(p))
<1>2. a \in Seq(Seq(S)) /\ b \in Seq(Seq(S))
  BY <1>1, SubSeqProperties, ElementOfSeq
<1>3. p = Append(a, p[n + 1]) \o b
  <2>1. /\ SubSeq(p, 1, n + 1) = a \o <<p[n + 1]>>
        /\ SubSeq(p, 1, n + 1) \o b = p
    <3>1. n + 1 \in 1 .. Len(p) /\ n + 1 - 1 = n /\ n + 1 + 1 = n + 2 /\ n + 1 \in 1 - 1 .. Len(p)
          /\ Len(p) \in n + 1 .. Len(p) /\ 1 \in 1 .. Len(p) /\ 1 \in 1 .. Len(p) + 1
          /\ n + 1 \in 1 .. n + 1 + Len(p)
      BY <1>1
    <3>2. SubSeq(p, 1, n + 1) = SubSeq(p, 1, n + 1 - 1) \o <<p[n + 1]>>
      BY <3>1, SubSeqRecursiveSecond
    <3>3. SubSeq(p, 1, n + 1) \o SubSeq(p, n + 1 + 1, Len(p)) = SubSeq(p, 1, Len(p))
      BY <3>1, ConcatAdjacentSubSeq
    <3>4. QED  BY <3>1, <3>2, <3>3, SubSeqFull
  <2>2. Append(a, p[n + 1]) = a \o <<p[n + 1]>>
    BY <1>1, <1>2, AppendIsConcat
  <2>3. QED  BY <2>1, <2>2
<1> HIDE DEF a, b
<1>4. FlattenSeq(p) = FlattenSeq(Append(a, p[n + 1])) \o FlattenSeq(b)
  <2>1. Append(a, p[n + 1]) \in Seq(Seq(S))
    BY <1>1, <1>2
  <2>2. QED  BY <2>1, <1>2, <1>3, FlattenConcat
<1>5. FlattenSeq(Append(a, p[n + 1])) = FlattenSeq(a) \o p[n + 1]
  BY <1>1, <1>2, FlattenAppend
<1>6. FlattenSeq(a) \in Seq(S) /\ FlattenSeq(b) \in Seq(S)
  BY <1>2, FlattenType
<1>7. (FlattenSeq(a) \o p[n + 1]) \o FlattenSeq(b) = FlattenSeq(a) \o (p[n + 1] \o FlattenSeq(b))
  <2> DEFINE u == FlattenSeq(a)
             v == p[n + 1]
             w == FlattenSeq(b)
  <2>1. u \in Seq(S) /\ v \in Seq(S) /\ w \in Seq(S)
    BY <1>1, <1>6
  <2> HIDE DEF u, v, w
  <2>2. (u \o v) \o w = u \o (v \o w)
    BY <2>1, SMTT(30)
  <2>3. QED  BY <2>2 DEF u, v, w
<1>8. QED  BY <1>4, <1>5, <1>6, <1>7 DEF a

-----------------------------------------------------------------------------
\* The text of a message.

\* The code of a special character behind the backslash.
Code(c) == IF c = "NL" THEN "n" ELSE c

LEMMA EscapeCases ==
    ASSUME NEW c \in Chars
    PROVE  /\ Escape(c) \in Seq(Chars)
           /\ c \in Special => Escape(c) = <<"BS", Code(c)>>
           /\ c \notin Special => Escape(c) = <<c>>
<1>1. CASE c = "SP"
  BY <1>1 DEF Escape, Code, Chars, Special
<1>2. CASE c = "NL"
  BY <1>2 DEF Escape, Code, Chars, Special
<1>3. CASE c = "BS"
  BY <1>3 DEF Escape, Code, Chars, Special
<1>4. CASE c \notin Special
  <2>1. Escape(c) = <<c>>
    BY <1>4 DEF Escape, Special
  <2>2. QED  BY <1>4, <2>1
<1>5. QED  BY <1>1, <1>2, <1>3, <1>4 DEF Special

\* The parts of an escaped field.
Escapes(field) == [i \in DOMAIN field |-> Escape(field[i])]

LEMMA EscapesType ==
    ASSUME NEW f \in Seq(Chars)
    PROVE  Escapes(f) \in Seq(Seq(Chars)) /\ Len(Escapes(f)) = Len(f)
<1>1. Len(f) \in Nat /\ DOMAIN f = 1 .. Len(f) /\ \A i \in 1 .. Len(f) : Escape(f[i]) \in Seq(Chars)
  BY LenProperties, ElementOfSeq, EscapeCases
<1>2. QED  BY <1>1 DEF Escapes

LEMMA EscapedAppend ==
    ASSUME NEW f \in Seq(Chars), NEW c \in Chars
    PROVE  Escaped(Append(f, c)) = Escaped(f) \o Escape(c)
<1>1. Append(f, c) \in Seq(Chars) /\ Escape(c) \in Seq(Chars)
  BY AppendProperties, EscapeCases
<1>2. Escapes(Append(f, c)) = Append(Escapes(f), Escape(c))
  <2>1. /\ Escapes(Append(f, c)) \in Seq(Seq(Chars)) /\ Len(Escapes(Append(f, c))) = Len(f) + 1
        /\ Escapes(f) \in Seq(Seq(Chars)) /\ Len(Escapes(f)) = Len(f) /\ Len(f) \in Nat
    BY <1>1, EscapesType, AppendProperties, LenProperties
  <2>2. Append(Escapes(f), Escape(c)) \in Seq(Seq(Chars)) /\ Len(Append(Escapes(f), Escape(c))) = Len(f) + 1
    BY <1>1, <2>1, AppendProperties
  <2>3. ASSUME NEW i \in 1 .. Len(f) + 1
        PROVE  Escapes(Append(f, c))[i] = Append(Escapes(f), Escape(c))[i]
    <3>1. DOMAIN Append(f, c) = 1 .. Len(f) + 1 /\ DOMAIN f = 1 .. Len(f)
      BY <1>1, <2>1, AppendProperties, LenProperties
    <3>2. CASE i \in 1 .. Len(f)
      BY <3>1, <3>2, <2>1, <1>1 DEF Escapes
    <3>3. CASE i = Len(f) + 1
      BY <3>1, <3>3, <2>1, <1>1 DEF Escapes
    <3>4. QED  BY <3>2, <3>3, <2>1
  <2>4. QED  BY <2>1, <2>2, <2>3, SeqEqual
<1>3. QED  BY <1>1, <1>2, EscapesType, FlattenAppend DEF Escaped, Escapes

LEMMA EscapedType ==
    ASSUME NEW f \in Seq(Chars)
    PROVE  Escaped(f) \in Seq(Chars)
BY EscapesType, FlattenType DEF Escaped, Escapes

LEMMA EscapedEmpty == Escaped(<<>>) = <<>>
<1>1. Escapes(<<>>) = <<>>
  BY DEF Escapes
<1>2. QED  BY <1>1, FlattenEmpty DEF Escaped, Escapes

\* What an escaped field is behind its first n characters.
LEMMA EscapedSplit ==
    ASSUME NEW f \in Seq(Chars), NEW n \in 0 .. Len(f) - 1
    PROVE  \E w \in Seq(Chars) : Escaped(f) = Escaped(SubSeq(f, 1, n)) \o (Escape(f[n + 1]) \o w)
<1>1. Len(f) \in Nat /\ DOMAIN f = 1 .. Len(f) /\ n + 1 \in 1 .. Len(f)
  BY LenProperties
<1>2. PICK w \in Seq(Chars) :
          FlattenSeq(Escapes(f)) = FlattenSeq(SubSeq(Escapes(f), 1, n)) \o (Escapes(f)[n + 1] \o w)
  <2> DEFINE e == Escapes(f)
  <2>1. e \in Seq(Seq(Chars)) /\ n \in 0 .. Len(e) - 1
    BY EscapesType
  <2> HIDE DEF e
  <2>2. \E w \in Seq(Chars) : FlattenSeq(e) = FlattenSeq(SubSeq(e, 1, n)) \o (e[n + 1] \o w)
    BY <2>1, FlattenSplit
  <2>3. QED  BY <2>2 DEF e
<1>3. SubSeq(Escapes(f), 1, n) = Escapes(SubSeq(f, 1, n))
  <2>1. Escapes(f) \in Seq(Seq(Chars)) /\ Len(Escapes(f)) = Len(f)
    BY EscapesType
  <2>2. \A i \in 1 .. n : Escapes(f)[i] = Escape(f[i])
    BY <1>1 DEF Escapes
  <2>3. QED  BY <1>1, <2>1, <2>2 DEF Escapes
<1>4. Escapes(f)[n + 1] = Escape(f[n + 1])
  BY <1>1 DEF Escapes
<1>5. QED  BY <1>2, <1>3, <1>4 DEF Escaped, Escapes

\* A line without its newline: the fields, with their separators.
Separated(i, field) == IF i = 1 THEN Escaped(field) ELSE <<"SP">> \o Escaped(field)
Parts(message) == [i \in DOMAIN message |-> Separated(i, message[i])]
Body(message) == FlattenSeq(Parts(message))

LEMMA SeparatedType ==
    ASSUME NEW i, NEW f \in Seq(Chars)
    PROVE  Separated(i, f) \in Seq(Chars)
<1>1. Escaped(f) \in Seq(Chars) /\ <<"SP">> \in Seq(Chars)
  BY EscapedType DEF Chars, Special
<1>2. <<"SP">> \o Escaped(f) \in Seq(Chars)
  BY <1>1, ConcatProperties
<1>3. QED  BY <1>1, <1>2 DEF Separated

LEMMA PartsType ==
    ASSUME NEW m \in Seq(Seq(Chars))
    PROVE  Parts(m) \in Seq(Seq(Chars)) /\ Len(Parts(m)) = Len(m)
<1>1. Len(m) \in Nat /\ DOMAIN m = 1 .. Len(m) /\ \A i \in 1 .. Len(m) : Separated(i, m[i]) \in Seq(Chars)
  BY LenProperties, ElementOfSeq, SeparatedType
<1>2. QED  BY <1>1 DEF Parts

LEMMA BodyType ==
    ASSUME NEW m \in Seq(Seq(Chars))
    PROVE  Body(m) \in Seq(Chars)
BY PartsType, FlattenType DEF Body

LEMMA BodyEmpty == Body(<<>>) = <<>>
<1>1. Parts(<<>>) = <<>>
  BY DEF Parts
<1>2. QED  BY <1>1, FlattenEmpty DEF Body

\* A separator follows every field.
Separator(message) == IF message = <<>> THEN <<>> ELSE <<"SP">>

LEMMA BodyAppend ==
    ASSUME NEW m \in Seq(Seq(Chars)), NEW f \in Seq(Chars)
    PROVE  Body(Append(m, f)) = Body(m) \o (Separator(m) \o Escaped(f))
<1> DEFINE p == Separated(Len(m) + 1, f)
<1>1. Append(m, f) \in Seq(Seq(Chars)) /\ p \in Seq(Chars)
  BY AppendProperties, SeparatedType
<1>2. p = Separator(m) \o Escaped(f)
  <2>1. Escaped(f) \in Seq(Chars) /\ Len(m) \in Nat /\ (m = <<>> <=> Len(m) = 0)
    BY EscapedType, LenProperties, EmptySeq
  <2>2. <<>> \o Escaped(f) = Escaped(f)
    BY <2>1, ConcatEmptySeq
  <2>3. QED  BY <2>1, <2>2 DEF Separated, Separator
<1> HIDE DEF p
<1>3. Parts(Append(m, f)) = Append(Parts(m), p)
  <2>1. /\ Parts(Append(m, f)) \in Seq(Seq(Chars)) /\ Len(Parts(Append(m, f))) = Len(m) + 1
        /\ Parts(m) \in Seq(Seq(Chars)) /\ Len(Parts(m)) = Len(m) /\ Len(m) \in Nat
    BY <1>1, PartsType, AppendProperties, LenProperties
  <2>2. Append(Parts(m), p) \in Seq(Seq(Chars)) /\ Len(Append(Parts(m), p)) = Len(m) + 1
    <3> DEFINE q == Parts(m)
    <3> HIDE DEF q
    <3>1. q \in Seq(Seq(Chars)) /\ Len(q) = Len(m)
      BY <2>1 DEF q
    <3>2. Append(q, p) \in Seq(Seq(Chars)) /\ Len(Append(q, p)) = Len(q) + 1
      BY <1>1, <3>1, AppendProperties
    <3>3. QED  BY <3>1, <3>2 DEF q
  <2>3. ASSUME NEW i \in 1 .. Len(m) + 1
        PROVE  Parts(Append(m, f))[i] = Append(Parts(m), p)[i]
    <3>1. DOMAIN Append(m, f) = 1 .. Len(m) + 1 /\ DOMAIN m = 1 .. Len(m)
      BY <1>1, <2>1, AppendProperties, LenProperties
    <3>2. CASE i \in 1 .. Len(m)
      BY <3>1, <3>2, <2>1, <1>1 DEF Parts
    <3>3. CASE i = Len(m) + 1
      BY <3>1, <3>3, <2>1, <1>1 DEF Parts, p
    <3>4. QED  BY <3>2, <3>3, <2>1
  <2>4. QED  BY <2>1, <2>2, <2>3, SeqEqual
<1>4. FlattenSeq(Append(Parts(m), p)) = FlattenSeq(Parts(m)) \o p
  BY <1>1, PartsType, FlattenAppend
<1>5. QED  BY <1>2, <1>3, <1>4 DEF Body

\* What a line is behind its first n fields.
LEMMA BodySplit ==
    ASSUME NEW m \in Seq(Seq(Chars)), NEW n \in 0 .. Len(m) - 1
    PROVE  \E w \in Seq(Chars) : Body(m) = Body(SubSeq(m, 1, n)) \o (Separated(n + 1, m[n + 1]) \o w)
<1>1. Len(m) \in Nat /\ DOMAIN m = 1 .. Len(m) /\ n + 1 \in 1 .. Len(m)
  BY LenProperties
<1>2. PICK w \in Seq(Chars) :
          FlattenSeq(Parts(m)) = FlattenSeq(SubSeq(Parts(m), 1, n)) \o (Parts(m)[n + 1] \o w)
  <2>1. Parts(m) \in Seq(Seq(Chars)) /\ n \in 0 .. Len(Parts(m)) - 1
    BY PartsType
  <2>2. QED  BY <2>1, FlattenSplit
<1>3. SubSeq(Parts(m), 1, n) = Parts(SubSeq(m, 1, n))
  <2>1. Parts(m) \in Seq(Seq(Chars)) /\ Len(Parts(m)) = Len(m)
    BY PartsType
  <2>2. \A i \in 1 .. n : Parts(m)[i] = Separated(i, m[i])
    BY <1>1 DEF Parts
  <2>3. QED  BY <1>1, <2>1, <2>2 DEF Parts
<1>4. Parts(m)[n + 1] = Separated(n + 1, m[n + 1])
  BY <1>1 DEF Parts
<1>5. QED  BY <1>2, <1>3, <1>4 DEF Body

LEMMA LineIsBody ==
    ASSUME NEW m
    PROVE  Line(m) = Body(m) \o <<"NL">>
BY DEF Line, Body, Parts, Separated

LEMMA LineType ==
    ASSUME NEW m \in Seq(Seq(Chars))
    PROVE  Line(m) \in Seq(Chars)
<1>1. Body(m) \in Seq(Chars) /\ <<"NL">> \in Seq(Chars)
  BY BodyType DEF Chars, Special
<1>2. QED  BY <1>1, LineIsBody, ConcatProperties

\* The text of several messages.
Lines(messages) == [i \in DOMAIN messages |-> Line(messages[i])]

LEMMA LinesType ==
    ASSUME NEW q \in Seq(Seq(Seq(Chars)))
    PROVE  Lines(q) \in Seq(Seq(Chars)) /\ Len(Lines(q)) = Len(q)
<1>1. Len(q) \in Nat /\ DOMAIN q = 1 .. Len(q) /\ \A i \in 1 .. Len(q) : Line(q[i]) \in Seq(Chars)
  BY LenProperties, ElementOfSeq, LineType
<1>2. QED  BY <1>1 DEF Lines

LEMMA TextType ==
    ASSUME NEW q \in Seq(Seq(Seq(Chars)))
    PROVE  Text(q) \in Seq(Chars)
BY LinesType, FlattenType DEF Text, Lines

LEMMA TextEmpty == Text(<<>>) = <<>>
<1>1. Lines(<<>>) = <<>>
  BY DEF Lines
<1>2. QED  BY <1>1, FlattenEmpty DEF Text, Lines

LEMMA TextAppend ==
    ASSUME NEW q \in Seq(Seq(Seq(Chars))), NEW m \in Seq(Seq(Chars))
    PROVE  Text(Append(q, m)) = Text(q) \o Line(m)
<1>1. Append(q, m) \in Seq(Seq(Seq(Chars))) /\ Line(m) \in Seq(Chars)
  BY AppendProperties, LineType
<1>2. Lines(Append(q, m)) = Append(Lines(q), Line(m))
  <2>1. /\ Lines(Append(q, m)) \in Seq(Seq(Chars)) /\ Len(Lines(Append(q, m))) = Len(q) + 1
        /\ Lines(q) \in Seq(Seq(Chars)) /\ Len(Lines(q)) = Len(q) /\ Len(q) \in Nat
    BY <1>1, LinesType, AppendProperties, LenProperties
  <2>2. Append(Lines(q), Line(m)) \in Seq(Seq(Chars)) /\ Len(Append(Lines(q), Line(m))) = Len(q) + 1
    <3> DEFINE l == Lines(q)
               x == Line(m)
    <3> HIDE DEF l, x
    <3>1. l \in Seq(Seq(Chars)) /\ Len(l) = Len(q) /\ x \in Seq(Chars)
      BY <1>1, <2>1 DEF l, x
    <3>2. Append(l, x) \in Seq(Seq(Chars)) /\ Len(Append(l, x)) = Len(l) + 1
      BY <3>1, AppendProperties
    <3>3. QED  BY <3>1, <3>2 DEF l, x
  <2>3. ASSUME NEW i \in 1 .. Len(q) + 1
        PROVE  Lines(Append(q, m))[i] = Append(Lines(q), Line(m))[i]
    <3>1. DOMAIN Append(q, m) = 1 .. Len(q) + 1 /\ DOMAIN q = 1 .. Len(q)
      BY <1>1, <2>1, AppendProperties, LenProperties
    <3>2. CASE i \in 1 .. Len(q)
      BY <3>1, <3>2, <2>1, <1>1 DEF Lines
    <3>3. CASE i = Len(q) + 1
      BY <3>1, <3>3, <2>1, <1>1 DEF Lines
    <3>4. QED  BY <3>2, <3>3, <2>1
  <2>4. QED  BY <2>1, <2>2, <2>3, SeqEqual
<1>3. QED  BY <1>1, <1>2, LinesType, FlattenAppend DEF Text, Lines

LEMMA TextSplit ==
    ASSUME NEW q \in Seq(Seq(Seq(Chars))), NEW n \in 0 .. Len(q) - 1
    PROVE  \E w \in Seq(Chars) : Text(q) = Text(SubSeq(q, 1, n)) \o (Line(q[n + 1]) \o w)
<1>1. Len(q) \in Nat /\ DOMAIN q = 1 .. Len(q) /\ n + 1 \in 1 .. Len(q)
  BY LenProperties
<1>2. PICK w \in Seq(Chars) :
          FlattenSeq(Lines(q)) = FlattenSeq(SubSeq(Lines(q), 1, n)) \o (Lines(q)[n + 1] \o w)
  <2> DEFINE e == Lines(q)
  <2>1. e \in Seq(Seq(Chars)) /\ n \in 0 .. Len(e) - 1
    BY LinesType
  <2> HIDE DEF e
  <2>2. \E w \in Seq(Chars) : FlattenSeq(e) = FlattenSeq(SubSeq(e, 1, n)) \o (e[n + 1] \o w)
    BY <2>1, FlattenSplit
  <2>3. QED  BY <2>2 DEF e
<1>3. SubSeq(Lines(q), 1, n) = Lines(SubSeq(q, 1, n))
  <2>1. Lines(q) \in Seq(Seq(Chars)) /\ Len(Lines(q)) = Len(q)
    BY LinesType
  <2>2. \A i \in 1 .. n : Lines(q)[i] = Line(q[i])
    BY <1>1 DEF Lines
  <2>3. QED  BY <1>1, <2>1, <2>2 DEF Lines
<1>4. Lines(q)[n + 1] = Line(q[n + 1])
  BY <1>1 DEF Lines
<1>5. QED  BY <1>2, <1>3, <1>4 DEF Text, Lines

-----------------------------------------------------------------------------
\* Strings of characters.  The provers know too much of \o and tuples and get
\* lost in it; of ++ and One they know what is stated here.
Strings == Seq(Chars)
u ++ v == u \o v
One(c) == <<c>>

LEMMA JoinFacts ==
    /\ <<>> \in Strings
    /\ \A a, b \in Strings : a ++ b \in Strings
    /\ \A a, b, c \in Strings : (a ++ b) ++ c = a ++ (b ++ c)
    /\ \A a \in Strings : <<>> ++ a = a /\ a ++ <<>> = a
<1>1. <<>> \in Strings
  BY EmptySeq DEF Strings
<1>2. \A a, b \in Strings : a ++ b \in Strings
  BY ConcatProperties DEF Strings, ++
<1>3. \A a, b, c \in Strings : (a ++ b) ++ c = a ++ (b ++ c)
  BY DEF Strings, ++
<1>4. \A a \in Strings : <<>> ++ a = a /\ a ++ <<>> = a
  BY ConcatEmptySeq DEF Strings, ++
<1>5. QED  BY <1>1, <1>2, <1>3, <1>4

LEMMA JoinCancels ==
    ASSUME NEW a \in Strings, NEW b \in Strings, NEW c \in Strings, a ++ b = a ++ c
    PROVE  b = c
<1> DEFINE x == a ++ b
           y == a ++ c
<1>1. /\ a \in Seq(Chars) /\ b \in Seq(Chars) /\ c \in Seq(Chars)
      /\ Len(a) \in Nat /\ Len(b) \in Nat /\ Len(c) \in Nat
  BY LenProperties DEF Strings
<1>2. Len(x) = Len(a) + Len(b) /\ \A i \in 1 .. Len(b) : x[Len(a) + i] = b[i]
  BY <1>1 DEF ++
<1>3. Len(y) = Len(a) + Len(c) /\ \A i \in 1 .. Len(c) : y[Len(a) + i] = c[i]
  BY <1>1 DEF ++
<1> HIDE DEF x, y
<1>4. x = y
  BY DEF x, y
<1>5. Len(b) = Len(c)
  BY <1>1, <1>2, <1>3, <1>4
<1>6. \A i \in 1 .. Len(b) : b[i] = c[i]
  BY <1>2, <1>3, <1>4, <1>5
<1>7. QED  BY <1>1, <1>5, <1>6, SeqEqual

LEMMA OneFacts ==
    ASSUME NEW c \in Chars
    PROVE  /\ One(c) \in Strings
           /\ \A a \in Strings : /\ One(c) ++ a # <<>>
                                 /\ Head(One(c) ++ a) = c
                                 /\ Tail(One(c) ++ a) = a
<1>1. One(c) \in Strings
  BY DEF One, Strings
<1>2. ASSUME NEW a \in Strings
      PROVE  One(c) ++ a # <<>> /\ Head(One(c) ++ a) = c /\ Tail(One(c) ++ a) = a
  <2> DEFINE s == <<c>> \o a
  <2>1. a \in Seq(Chars) /\ Len(a) \in Nat /\ <<c>> \in Seq(Chars)
    BY LenProperties DEF Strings
  <2>2. s \in Seq(Chars) /\ Len(s) = 1 + Len(a) /\ s[1] = c /\ \A i \in 1 .. Len(a) : s[i + 1] = a[i]
    BY <2>1
  <2> HIDE DEF s
  <2>3. s # <<>>
    BY <2>1, <2>2, EmptySeq
  <2>4. Head(s) = c
    BY <2>2, <2>3
  <2>5. Tail(s) = a
    <3>1. Tail(s) \in Seq(Chars) /\ Len(Tail(s)) = Len(a) /\ \A i \in 1 .. Len(Tail(s)) : Tail(s)[i] = s[i + 1]
      BY <2>1, <2>2, <2>3, HeadTailProperties
    <3>2. QED  BY <2>1, <2>2, <3>1, SeqEqual
  <2>6. QED  BY <2>3, <2>4, <2>5 DEF s, One, ++
<1>3. QED  BY <1>1, <1>2

LEMMA FirstAndRest ==
    ASSUME NEW s \in Strings, s # <<>>
    PROVE  Head(s) \in Chars /\ Tail(s) \in Strings /\ s = One(Head(s)) ++ Tail(s)
<1>1. Head(s) \in Chars /\ Tail(s) \in Strings
  BY HeadTailProperties DEF Strings
<1> DEFINE h == Head(s)
           t == One(h) ++ Tail(s)
<1>2. h \in Chars /\ t \in Strings /\ t # <<>> /\ Head(t) = h /\ Tail(t) = Tail(s)
  BY <1>1, OneFacts, JoinFacts
<1> HIDE DEF t
<1>3. t = s
  <2>1. s \in Seq(Chars) /\ t \in Seq(Chars) /\ Len(s) \in Nat \ {0} /\ Len(t) \in Nat \ {0}
    BY <1>2, EmptySeq DEF Strings
  <2>2. Len(Tail(s)) = Len(s) - 1 /\ Len(Tail(t)) = Len(t) - 1
    BY <1>2, <2>1, HeadTailProperties
  <2>3. /\ \A i \in 1 .. Len(s) - 1 : Tail(s)[i] = s[i + 1]
        /\ \A i \in 1 .. Len(t) - 1 : Tail(t)[i] = t[i + 1]
    BY <1>2, <2>1, <2>2, HeadTailProperties
  <2>4. Len(s) = Len(t)
    <3>1. Len(Tail(t)) = Len(Tail(s))
      BY <1>2
    <3>2. Len(t) - 1 = Len(s) - 1
      BY <2>2, <3>1
    <3>3. QED  BY <2>1, <3>2
  <2>5. ASSUME NEW i \in 1 .. Len(s) PROVE s[i] = t[i]
    <3>1. CASE i = 1
      BY <1>2, <2>1, <3>1
    <3>2. CASE i # 1
      <4>1. i - 1 \in 1 .. Len(s) - 1 /\ i - 1 + 1 = i
        BY <2>1, <3>2
      <4>2. Tail(s)[i - 1] = s[i - 1 + 1] /\ Tail(t)[i - 1] = t[i - 1 + 1]
        BY <2>3, <2>4, <4>1
      <4>3. QED  BY <1>2, <4>1, <4>2
    <3>3. QED  BY <3>1, <3>2
  <2>6. QED  BY <2>1, <2>4, <2>5, SeqEqual
<1>4. QED  BY <1>1, <1>3 DEF t

LEMMA HeadOfJoin ==
    ASSUME NEW s \in Strings, s # <<>>, NEW v \in Strings
    PROVE  s ++ v # <<>> /\ Head(s ++ v) = Head(s)
<1> DEFINE h == Head(s)
           t == Tail(s)
<1>1. h \in Chars /\ t \in Strings /\ s = One(h) ++ t
  BY FirstAndRest
<1> HIDE DEF h, t
<1>2. (One(h) ++ t) ++ v = One(h) ++ (t ++ v) /\ t ++ v \in Strings
  BY <1>1, OneFacts, JoinFacts
<1>3. One(h) ++ (t ++ v) # <<>> /\ Head(One(h) ++ (t ++ v)) = h
  BY <1>1, <1>2, OneFacts
<1>4. s ++ v = One(h) ++ (t ++ v)
  BY <1>1, <1>2
<1>5. QED  BY <1>3, <1>4 DEF h

LEMMA AppendEnds ==
    ASSUME NEW S, NEW a \in Seq(S), NEW c \in S
    PROVE  Last(Append(a, c)) = c /\ Front(Append(a, c)) = a
<1>1. /\ Len(Append(a, c)) = Len(a) + 1 /\ Append(a, c)[Len(a) + 1] = c /\ Len(a) \in Nat
      /\ \A i \in 1 .. Len(a) : Append(a, c)[i] = a[i]
  BY AppendProperties, LenProperties
<1>2. Last(Append(a, c)) = c
  BY <1>1 DEF Last
<1>3. Front(Append(a, c)) = a
  <2>1. SubSeq(Append(a, c), 1, Len(a)) = SubSeq(a, 1, Len(a))
    BY <1>1
  <2>2. SubSeq(a, 1, Len(a)) = a
    BY SubSeqFull
  <2>3. Len(Append(a, c)) - 1 = Len(a)
    BY <1>1
  <2>4. QED  BY <2>1, <2>2, <2>3 DEF Front
<1>4. QED  BY <1>2, <1>3

LEMMA AppendJoins ==
    ASSUME NEW a \in Strings, NEW c \in Chars
    PROVE  /\ Append(a, c) = a ++ One(c)
           /\ Append(a, c) \in Strings
           /\ Last(a ++ One(c)) = c
           /\ Front(a ++ One(c)) = a
<1>1. Append(a, c) = a ++ One(c)
  BY AppendIsConcat DEF Strings, One, ++
<1>2. Append(a, c) \in Strings
  BY AppendProperties DEF Strings
<1>3. QED  BY <1>1, <1>2, AppendEnds DEF Strings

LEMMA PrefixFacts ==
    /\ \A p, r \in Strings : IsPrefix(p, p ++ r)
    /\ \A p, t \in Strings : IsPrefix(p, t) => \E v \in Strings : t = p ++ v
<1>1. \A p, r \in Strings : IsPrefix(p, p ++ r)
  BY PrefixConcat DEF Strings, ++
<1>2. \A p, t \in Strings : IsPrefix(p, t) => \E v \in Strings : t = p ++ v
  BY PrefixRest DEF Strings, ++
<1>3. QED  BY <1>1, <1>2

-----------------------------------------------------------------------------
\* What is known of the text of fields, lines and messages.
LEMMA CharFacts ==
    /\ "SP" \in Chars /\ "NL" \in Chars /\ "BS" \in Chars
    /\ \A c \in Special : c \in Chars /\ Code(c) \in Chars
BY DEF Chars, Special, Code

LEMMA EscapeFacts ==
    ASSUME NEW c \in Chars
    PROVE  /\ Escape(c) \in Strings
           /\ c \in Special => Escape(c) = One("BS") ++ One(Code(c))
           /\ c \notin Special => Escape(c) = One(c)
<1>1. c \in Special => One("BS") ++ One(Code(c)) = <<"BS", Code(c)>>
  BY CharFacts, TwoElements DEF One, ++
<1>2. QED  BY <1>1, EscapeCases DEF Strings, One

LEMMA EscapedFacts ==
    /\ Escaped(<<>>) = <<>>
    /\ \A f \in Strings : Escaped(f) \in Strings
    /\ \A f \in Strings, c \in Chars : Escaped(Append(f, c)) = Escaped(f) ++ Escape(c)
BY EscapedEmpty, EscapedType, EscapedAppend DEF Strings, ++

LEMMA BodyFacts ==
    /\ Body(<<>>) = <<>>
    /\ \A m \in Seq(Strings) : Body(m) \in Strings
    /\ \A m : Separator(m) \in Strings
    /\ \A m \in Seq(Strings), f \in Strings :
           Body(Append(m, f)) = Body(m) ++ (Separator(m) ++ Escaped(f))
<1>1. \A m : Separator(m) \in Strings
  <2>1. <<>> \in Strings /\ <<"SP">> \in Strings
    BY EmptySeq DEF Strings, Chars, Special
  <2>2. QED  BY <2>1 DEF Separator
<1>2. QED  BY <1>1, BodyEmpty, BodyType, BodyAppend DEF Strings, ++

LEMMA LineFacts ==
    \A m \in Seq(Strings) : Line(m) \in Strings /\ Line(m) = Body(m) ++ One("NL")
BY LineType, LineIsBody DEF Strings, ++, One

LEMMA TextFacts ==
    /\ Text(<<>>) = <<>>
    /\ \A q \in Seq(Seq(Strings)) : Text(q) \in Strings
    /\ \A q \in Seq(Seq(Strings)), m \in Seq(Strings) : Text(Append(q, m)) = Text(q) ++ Line(m)
BY TextEmpty, TextType, TextAppend DEF Strings, ++

-----------------------------------------------------------------------------
\* A line that is not complete.

\* What the reader has taken of the line it is in: the complete fields, the
\* characters of the next one and a backslash that is still alone.
Pending(s) == IF s = "ESCAPE" THEN One("BS") ELSE <<>>
Unfinished(b, s) == Escaped(b) ++ Pending(s)
OpenLine(f, b, s) == Body(f) ++ (Separator(f) ++ Unfinished(b, s))

LEMMA OpenLineType ==
    /\ \A s : Pending(s) \in Strings
    /\ \A b \in Strings : \A s : Unfinished(b, s) \in Strings
    /\ \A f \in Seq(Strings), b \in Strings : \A s : OpenLine(f, b, s) \in Strings
<1>1. \A s : Pending(s) \in Strings
  BY JoinFacts, OneFacts, CharFacts DEF Pending
<1>2. \A b \in Strings : \A s : Unfinished(b, s) \in Strings
  BY <1>1, EscapedFacts, JoinFacts DEF Unfinished
<1>3. ASSUME NEW f \in Seq(Strings), NEW b \in Strings, NEW s
      PROVE  OpenLine(f, b, s) \in Strings
  <2>1. Body(f) \in Strings /\ Separator(f) \in Strings /\ Unfinished(b, s) \in Strings
    BY <1>2, BodyFacts
  <2>2. QED  BY <2>1, JoinFacts DEF OpenLine
<1>4. QED  BY <1>1, <1>2, <1>3

\* Without a lone backslash it is the line of its fields without the newline.
LEMMA OpenLineIsBody ==
    ASSUME NEW f \in Seq(Strings), NEW b \in Strings, NEW s, s # "ESCAPE"
    PROVE  OpenLine(f, b, s) = Body(Append(f, b))
<1>1. Unfinished(b, s) = Escaped(b)
  BY EscapedFacts, JoinFacts DEF Unfinished, Pending
<1>2. QED  BY <1>1, BodyFacts DEF OpenLine

LEMMA OpenLineEmpty == OpenLine(<<>>, <<>>, "INIT") = <<>>
BY BodyFacts, EscapedFacts, JoinFacts DEF OpenLine, Unfinished, Pending, Separator

\* The next character goes to the field, and changes nothing in front of it.
LEMMA OpenLineGrows ==
    ASSUME NEW f \in Seq(Strings), NEW b \in Strings, NEW s, NEW d \in Strings, NEW t,
           NEW c \in Chars, Unfinished(d, t) = Unfinished(b, s) ++ One(c)
    PROVE  OpenLine(f, d, t) = OpenLine(f, b, s) ++ One(c)
<1>1. /\ Body(f) \in Strings /\ Separator(f) \in Strings /\ Unfinished(b, s) \in Strings
      /\ One(c) \in Strings
  BY BodyFacts, OpenLineType, OneFacts
<1>2. Separator(f) ++ (Unfinished(b, s) ++ One(c)) = (Separator(f) ++ Unfinished(b, s)) ++ One(c)
  BY <1>1, JoinFacts
<1>3. Separator(f) ++ Unfinished(b, s) \in Strings
  BY <1>1, JoinFacts
<1>4. Body(f) ++ ((Separator(f) ++ Unfinished(b, s)) ++ One(c)) = OpenLine(f, b, s) ++ One(c)
  BY <1>1, <1>3, JoinFacts DEF OpenLine
<1>5. QED  BY <1>2, <1>4 DEF OpenLine

\* The three ways in which it grows within a field.
LEMMA UnfinishedGrows ==
    ASSUME NEW b \in Strings, NEW s, s # "ESCAPE"
    PROVE  /\ \A c \in Chars \ Special : Unfinished(Append(b, c), s) = Unfinished(b, s) ++ One(c)
           /\ Unfinished(b, "ESCAPE") = Unfinished(b, s) ++ One("BS")
           /\ \A c \in Special :
                  Unfinished(Append(b, c), s) = Unfinished(b, "ESCAPE") ++ One(Code(c))
<1>1. Escaped(b) \in Strings /\ Unfinished(b, s) = Escaped(b)
  BY EscapedFacts, JoinFacts DEF Unfinished, Pending
<1>2. ASSUME NEW c \in Chars PROVE Unfinished(Append(b, c), s) = Escaped(b) ++ Escape(c)
  <2>1. Escaped(Append(b, c)) \in Strings /\ Escaped(Append(b, c)) = Escaped(b) ++ Escape(c)
    BY EscapedFacts, AppendJoins
  <2>2. QED  BY <2>1, JoinFacts DEF Unfinished, Pending
<1>3. ASSUME NEW c \in Chars \ Special PROVE Unfinished(Append(b, c), s) = Unfinished(b, s) ++ One(c)
  BY <1>1, <1>2, EscapeFacts
<1>4. Unfinished(b, "ESCAPE") = Unfinished(b, s) ++ One("BS")
  BY <1>1 DEF Unfinished, Pending
<1>5. ASSUME NEW c \in Special
      PROVE  Unfinished(Append(b, c), s) = Unfinished(b, "ESCAPE") ++ One(Code(c))
  <2>1. c \in Chars /\ One("BS") \in Strings /\ One(Code(c)) \in Strings
    BY CharFacts, OneFacts
  <2>2. Unfinished(Append(b, c), s) = Escaped(b) ++ (One("BS") ++ One(Code(c)))
    BY <1>2, <2>1, EscapeFacts
  <2>3. QED  BY <1>1, <1>4, <2>1, <2>2, JoinFacts
<1>6. QED  BY <1>3, <1>4, <1>5

\* A separator begins the next field.
LEMMA OpenLineNextField ==
    ASSUME NEW f \in Seq(Strings), NEW b \in Strings, NEW s, s # "ESCAPE"
    PROVE  OpenLine(Append(f, b), <<>>, "INIT") = OpenLine(f, b, s) ++ One("SP")
<1>1. Separator(Append(f, b)) = One("SP")
  BY AppendProperties DEF Separator, One
<1>2. Unfinished(<<>>, "INIT") = <<>>
  BY EscapedFacts, JoinFacts DEF Unfinished, Pending
<1>3. One("SP") \in Strings
  BY OneFacts, CharFacts
<1>4. QED  BY <1>1, <1>2, <1>3, JoinFacts, OpenLineIsBody DEF OpenLine

\* A newline completes the line.
LEMMA OpenLineEnds ==
    ASSUME NEW f \in Seq(Strings), NEW b \in Strings, NEW s, s # "ESCAPE"
    PROVE  Line(Append(f, b)) = OpenLine(f, b, s) ++ One("NL")
<1>1. Append(f, b) \in Seq(Strings)
  BY AppendProperties
<1>2. QED  BY <1>1, OpenLineIsBody, LineFacts

-----------------------------------------------------------------------------
\* The next character of a text that is written: behind c characters of field
\* f + 1 of a message.
Expected(msg, f, c, s) ==
    IF c < Len(msg[f + 1])
    THEN IF s = "ESCAPE" THEN Code(msg[f + 1][c + 1])
         ELSE IF msg[f + 1][c + 1] \in Special THEN "BS" ELSE msg[f + 1][c + 1]
    ELSE IF f + 1 < Len(msg) THEN "SP" ELSE "NL"

LEMMA FrontType ==
    ASSUME NEW S, NEW s \in Seq(S), NEW n \in 0 .. Len(s)
    PROVE  SubSeq(s, 1, n) \in Seq(S) /\ Len(SubSeq(s, 1, n)) = n
<1>1. Len(s) \in Nat
  BY LenProperties
<1>2. QED  BY <1>1, SubSeqProperties, ElementOfSeq

\* In a field.
LEMMA NextInField ==
    ASSUME NEW b \in Strings, NEW c \in 0 .. Len(b) - 1, NEW s, s = "ESCAPE" => b[c + 1] \in Special
    PROVE  LET x == IF s = "ESCAPE" THEN Code(b[c + 1])
                    ELSE IF b[c + 1] \in Special THEN "BS" ELSE b[c + 1]
           IN  /\ x \in Chars
               /\ \E w \in Strings :
                      Escaped(b) = Unfinished(SubSeq(b, 1, c), s) ++ (One(x) ++ w)
<1> DEFINE e == SubSeq(b, 1, c)
           a == b[c + 1]
           u == Escaped(e)
<1>1. e \in Strings /\ a \in Chars /\ u \in Strings /\ Escape(a) \in Strings
  BY NextPrefix, EscapedFacts, EscapeFacts DEF Strings
<1>2. PICK w \in Strings : Escaped(b) = u ++ (Escape(a) ++ w)
  BY EscapedSplit DEF Strings, ++
<1> HIDE DEF e, a, u
<1>3. CASE a \notin Special
  <2>1. Escape(a) = One(a) /\ s # "ESCAPE"
    BY <1>1, <1>3, EscapeFacts DEF a
  <2>2. Unfinished(e, s) = u
    BY <1>1, <2>1, JoinFacts DEF Unfinished, Pending, u
  <2>3. QED  BY <1>1, <1>2, <1>3, <2>1, <2>2 DEF a, e
<1>4. CASE a \in Special
  <2>1. /\ Escape(a) = One("BS") ++ One(Code(a))
        /\ One("BS") \in Strings /\ One(Code(a)) \in Strings /\ "BS" \in Chars /\ Code(a) \in Chars
    BY <1>1, <1>4, EscapeFacts, OneFacts, CharFacts
  <2>2. Escape(a) ++ w = One("BS") ++ (One(Code(a)) ++ w)
    BY <2>1, JoinFacts
  <2>3. One(Code(a)) ++ w \in Strings
    BY <2>1, JoinFacts
  <2>4. CASE s = "ESCAPE"
    <3>1. Unfinished(e, s) = u ++ One("BS")
      BY <2>4 DEF Unfinished, Pending, u
    <3>2. u ++ (One("BS") ++ (One(Code(a)) ++ w)) = (u ++ One("BS")) ++ (One(Code(a)) ++ w)
      BY <1>1, <2>1, <2>3, JoinFacts
    <3>3. QED  BY <1>2, <2>1, <2>2, <2>4, <3>1, <3>2 DEF a, e
  <2>5. CASE s # "ESCAPE"
    <3>1. Unfinished(e, s) = u
      BY <1>1, <2>5, JoinFacts DEF Unfinished, Pending, u
    <3>2. QED  BY <1>2, <1>4, <2>1, <2>2, <2>3, <2>5, <3>1 DEF a, e
  <2>6. QED  BY <2>4, <2>5
<1>5. QED  BY <1>3, <1>4

\* In a line.
LEMMA NextInLine ==
    ASSUME NEW msg \in Seq(Strings), NEW f \in 0 .. Len(msg) - 1, NEW c \in 0 .. Len(msg[f + 1]),
           NEW s, s = "ESCAPE" => c < Len(msg[f + 1]) /\ msg[f + 1][c + 1] \in Special
    PROVE  /\ Expected(msg, f, c, s) \in Chars
           /\ \E w \in Strings :
                  Line(msg) = OpenLine(SubSeq(msg, 1, f), SubSeq(msg[f + 1], 1, c), s)
                              ++ (One(Expected(msg, f, c, s)) ++ w)
<1> DEFINE g == SubSeq(msg, 1, f)
           b == msg[f + 1]
           e == SubSeq(b, 1, c)
           x == Expected(msg, f, c, s)
           nl == One("NL")
<1>1. /\ g \in Seq(Strings) /\ b \in Strings /\ e \in Strings /\ Len(g) = f
      /\ Len(msg) \in Nat /\ Len(b) \in Nat
      /\ SubSeq(msg, 1, f + 1) = Append(g, b)
  <2>1. g \in Seq(Strings) /\ b \in Strings /\ Len(g) = f /\ SubSeq(msg, 1, f + 1) = Append(g, b)
    BY NextPrefix
  <2>2. e \in Strings
    BY <2>1, FrontType DEF Strings
  <2>3. QED  BY <2>1, <2>2, LenProperties DEF Strings
<1>2. nl \in Strings /\ One("SP") \in Strings
  BY OneFacts, CharFacts
<1>3. Line(msg) = Body(msg) ++ nl /\ Body(msg) \in Strings
  BY LineFacts, BodyFacts
<1>4. Body(g) \in Strings /\ Separator(g) \in Strings
  BY <1>1, BodyFacts
<1>5. Separated(f + 1, b) = Separator(g) ++ Escaped(b) /\ Escaped(b) \in Strings
  <2>1. g = <<>> <=> f + 1 = 1
    BY <1>1, EmptySeq
  <2>2. Escaped(b) \in Strings /\ <<>> ++ Escaped(b) = Escaped(b)
    BY <1>1, EscapedFacts, JoinFacts
  <2>3. QED  BY <2>1, <2>2 DEF Separated, Separator, ++
<1>6. PICK v \in Strings : Body(msg) = Body(g) ++ ((Separator(g) ++ Escaped(b)) ++ v)
  <2>1. PICK v \in Seq(Chars) : Body(msg) = Body(g) \o (Separated(f + 1, b) \o v)
    BY BodySplit DEF Strings
  <2>2. QED  BY <1>5, <2>1 DEF Strings, ++
<1> HIDE DEF g, b, e, nl
<1>7. CASE c < Len(b)
  <2>1. b[c + 1] \in Special \/ s # "ESCAPE"
    BY DEF b
  <2>2. x = IF s = "ESCAPE" THEN Code(b[c + 1])
            ELSE IF b[c + 1] \in Special THEN "BS" ELSE b[c + 1]
    BY <1>7 DEF Expected, b
  <2> HIDE DEF x
  <2>3. c \in 0 .. Len(b) - 1
    BY <1>1, <1>7 DEF b
  <2>4. x \in Chars
    BY <1>1, <2>1, <2>2, <2>3, NextInField
  <2>5. PICK w \in Strings : Escaped(b) = Unfinished(e, s) ++ (One(x) ++ w)
    BY <1>1, <2>1, <2>2, <2>3, NextInField DEF e
  <2> DEFINE t == (w ++ v) ++ nl
             un == Unfinished(e, s)
             sep == Separator(g)
             bd == Body(g)
             o == One(x)
  <2>6. /\ t \in Strings /\ un \in Strings /\ sep \in Strings /\ bd \in Strings /\ o \in Strings
        /\ w ++ v \in Strings /\ o ++ w \in Strings /\ sep ++ un \in Strings
    BY <1>1, <1>2, <1>4, <2>4, OpenLineType, OneFacts, JoinFacts
  <2>7. Line(msg) = (bd ++ ((sep ++ (un ++ (o ++ w))) ++ v)) ++ nl
    BY <1>3, <1>6, <2>5
  <2> HIDE DEF un, sep, bd, o
  <2>8. (sep ++ (un ++ (o ++ w))) ++ v = (sep ++ un) ++ (o ++ (w ++ v))
    <3>1. sep ++ (un ++ (o ++ w)) = (sep ++ un) ++ (o ++ w)
      BY <2>6, JoinFacts
    <3>2. ((sep ++ un) ++ (o ++ w)) ++ v = (sep ++ un) ++ ((o ++ w) ++ v)
      BY <2>6, JoinFacts
    <3>3. (o ++ w) ++ v = o ++ (w ++ v)
      BY <2>6, JoinFacts
    <3>4. QED  BY <3>1, <3>2, <3>3
  <2>9. (bd ++ ((sep ++ un) ++ (o ++ (w ++ v)))) ++ nl = (bd ++ (sep ++ un)) ++ (o ++ t)
    <3> DEFINE p == sep ++ un
               q == w ++ v
    <3>1. p \in Strings /\ q \in Strings
      BY <2>6
    <3> HIDE DEF p, q
    <3>2. o ++ q \in Strings /\ bd ++ p \in Strings
      BY <2>6, <3>1, JoinFacts
    <3>3. bd ++ (p ++ (o ++ q)) = (bd ++ p) ++ (o ++ q)
      BY <2>6, <3>1, <3>2, JoinFacts
    <3>4. ((bd ++ p) ++ (o ++ q)) ++ nl = (bd ++ p) ++ ((o ++ q) ++ nl)
      BY <1>2, <3>2, JoinFacts
    <3>5. (o ++ q) ++ nl = o ++ (q ++ nl)
      BY <1>2, <2>6, <3>1, JoinFacts
    <3>6. QED  BY <3>3, <3>4, <3>5 DEF p, q
  <2>10. Line(msg) = OpenLine(g, e, s) ++ (o ++ t)
    BY <2>7, <2>8, <2>9 DEF OpenLine, un, sep, bd
  <2>11. QED  BY <2>4, <2>6, <2>10 DEF g, e, b, o, x
<1>8. CASE c = Len(b)
  <2>1. s # "ESCAPE" /\ e = b
    BY <1>1, <1>8, SubSeqFull DEF b, e, Strings
  <2>2. OpenLine(g, e, s) = Body(Append(g, b)) /\ OpenLine(g, e, s) \in Strings
    BY <1>1, <2>1, OpenLineIsBody, OpenLineType
  <2>3. CASE f + 1 < Len(msg)
    <3>1. x = "SP"
      BY <1>1, <1>8, <2>3 DEF Expected, b
    <3> DEFINE h == msg[f + 1 + 1]
    <3>2. f + 1 \in 0 .. Len(msg) - 1 /\ h \in Strings
      BY <1>1, <2>3, NextPrefix
    <3>3. PICK r \in Strings : Body(msg) = OpenLine(g, e, s) ++ ((One("SP") ++ Escaped(h)) ++ r)
      <4>1. PICK r \in Seq(Chars) :
                Body(msg) = Body(SubSeq(msg, 1, f + 1)) \o (Separated(f + 1 + 1, h) \o r)
        BY <3>2, BodySplit DEF Strings
      <4>2. Separated(f + 1 + 1, h) = One("SP") ++ Escaped(h)
        BY <3>2 DEF Separated, ++, One
      <4>3. QED  BY <1>1, <2>2, <4>1, <4>2 DEF Strings, ++
    <3> DEFINE u == OpenLine(g, e, s)
               k == Escaped(h)
               o == One("SP")
    <3>4. u \in Strings /\ k \in Strings /\ o \in Strings
      BY <1>2, <2>2, <3>2, EscapedFacts
    <3> HIDE DEF u, k, o
    <3>5. (u ++ ((o ++ k) ++ r)) ++ nl = u ++ (o ++ ((k ++ r) ++ nl))
      <4>1. k ++ r \in Strings /\ o ++ (k ++ r) \in Strings /\ (o ++ k) ++ r = o ++ (k ++ r)
        BY <3>4, JoinFacts
      <4>2. (u ++ (o ++ (k ++ r))) ++ nl = u ++ ((o ++ (k ++ r)) ++ nl)
        BY <1>2, <3>4, <4>1, JoinFacts
      <4>3. (o ++ (k ++ r)) ++ nl = o ++ ((k ++ r) ++ nl)
        BY <1>2, <3>4, <4>1, JoinFacts
      <4>4. QED  BY <4>1, <4>2, <4>3
    <3>6. (k ++ r) ++ nl \in Strings
      BY <1>2, <3>4, JoinFacts
    <3>7. Line(msg) = u ++ (o ++ ((k ++ r) ++ nl))
      BY <1>3, <3>3, <3>5 DEF u, k, o
    <3>8. QED  BY <3>1, <3>6, <3>7, CharFacts DEF u, o, g, e, b
  <2>4. CASE f + 1 = Len(msg)
    <3>1. x = "NL"
      BY <1>1, <1>8, <2>4 DEF Expected, b
    <3>2. msg = Append(g, b)
      BY <1>1, <2>4, SubSeqFull
    <3>3. Line(msg) = OpenLine(g, e, s) ++ (nl ++ <<>>)
      BY <1>2, <1>3, <2>2, <3>2, JoinFacts
    <3>4. QED  BY <3>1, <3>3, CharFacts, JoinFacts DEF nl, g, e, b
  <2>5. QED  BY <1>1, <2>3, <2>4
<1>9. QED  BY <1>1, <1>7, <1>8 DEF b

\* In a text.
Continues(q, m, f, c, s) ==
    /\ Expected(q[m + 1], f, c, s) \in Chars
    /\ \E w \in Strings :
           Text(q) = (Text(SubSeq(q, 1, m))
                      ++ OpenLine(SubSeq(q[m + 1], 1, f), SubSeq(q[m + 1][f + 1], 1, c), s))
                     ++ (One(Expected(q[m + 1], f, c, s)) ++ w)

LEMMA NextInText ==
    ASSUME NEW q \in Seq(Seq(Strings)), NEW m \in 0 .. Len(q) - 1,
           NEW f \in 0 .. Len(q[m + 1]) - 1, NEW c \in 0 .. Len(q[m + 1][f + 1]),
           NEW s, s = "ESCAPE" => c < Len(q[m + 1][f + 1]) /\ q[m + 1][f + 1][c + 1] \in Special
    PROVE  Continues(q, m, f, c, s)
<1> DEFINE msg == q[m + 1]
           x == Expected(msg, f, c, s)
           l == OpenLine(SubSeq(msg, 1, f), SubSeq(msg[f + 1], 1, c), s)
           t == Text(SubSeq(q, 1, m))
           o == One(x)
<1>1. msg \in Seq(Strings) /\ SubSeq(q, 1, m) \in Seq(Seq(Strings))
  BY NextPrefix
<1>2. PICK v \in Strings : Text(q) = t ++ (Line(msg) ++ v)
  <2>1. PICK v \in Seq(Chars) : Text(q) = Text(SubSeq(q, 1, m)) \o (Line(q[m + 1]) \o v)
    BY TextSplit DEF Strings
  <2>2. QED  BY <2>1 DEF Strings, ++
<1>3. t \in Strings
  BY <1>1, TextFacts
<1> HIDE DEF msg
<1>4. x \in Chars /\ \E w \in Strings : Line(msg) = l ++ (One(x) ++ w)
  BY <1>1, NextInLine DEF msg
<1>5. PICK w \in Strings : Line(msg) = l ++ (o ++ w)
  BY <1>4
<1>6. l \in Strings /\ o \in Strings
  <2>1. SubSeq(msg, 1, f) \in Seq(Strings) /\ msg[f + 1] \in Strings
    BY <1>1, NextPrefix DEF msg
  <2>2. SubSeq(msg[f + 1], 1, c) \in Strings
    BY <2>1, FrontType DEF msg, Strings
  <2>3. QED  BY <1>4, <2>1, <2>2, OpenLineType, OneFacts
<1> HIDE DEF x, l, t, o
<1>7. t ++ ((l ++ (o ++ w)) ++ v) = (t ++ l) ++ (o ++ (w ++ v))
  <2>1. o ++ w \in Strings /\ w ++ v \in Strings /\ o ++ (w ++ v) \in Strings
    BY <1>6, JoinFacts
  <2>2. (l ++ (o ++ w)) ++ v = l ++ ((o ++ w) ++ v) /\ (o ++ w) ++ v = o ++ (w ++ v)
    BY <1>6, <2>1, JoinFacts
  <2>3. t ++ (l ++ (o ++ (w ++ v))) = (t ++ l) ++ (o ++ (w ++ v))
    BY <1>3, <1>6, <2>1, JoinFacts
  <2>4. QED  BY <2>2, <2>3
<1>8. Text(q) = (t ++ l) ++ (o ++ (w ++ v)) /\ w ++ v \in Strings
  BY <1>2, <1>5, <1>7, JoinFacts
<1>9. QED  BY <1>4, <1>8 DEF Continues, msg, x, l, t, o

-----------------------------------------------------------------------------
\* The inductive invariant.

\* The stream, and that an escape that is complete left its character.
SentBy == IF reader = "unescape" THEN Commands ELSE Results
StreamInv ==
    /\ reader \in {"unescape", "_split"} /\ origin \in {"complete", "cut", "foreign"}
    /\ sent \in Seq(Seq(Strings)) /\ arrived \in Strings /\ text \in Strings
    /\ origin # "foreign" =>
        /\ \A i \in 1 .. Len(sent) : sent[i] \in SentBy
        /\ IsPrefix(arrived, Text(sent))
        /\ origin = "complete" => arrived = Text(sent)
    /\ state = "ORDINAL" => \E i \in 1 .. Len(buf) : buf[i] \in Special

\* The reader is in a message that was sent: behind f fields and c characters
\* of the next one.
Within(m, f, c) ==
    /\ received = SubSeq(sent, 1, m)
    /\ fields = SubSeq(sent[m + 1], 1, f)
    /\ buf = SubSeq(sent[m + 1][f + 1], 1, c)
    /\ state = "ESCAPE" =>
        c < Len(sent[m + 1][f + 1]) /\ sent[m + 1][f + 1][c + 1] \in Special
Inside ==
    \E m \in 0 .. Len(sent) - 1 : \E f \in 0 .. Len(sent[m + 1]) - 1 :
        \E c \in 0 .. Len(sent[m + 1][f + 1]) : Within(m, f, c)

\* It has read them all.
Behind == received = sent /\ fields = <<>> /\ buf = <<>> /\ state = "INIT"

\* In a line.
InLine ==
    /\ ~end
    /\ arrived = (Text(received) ++ OpenLine(fields, buf, state)) ++ text
    /\ origin # "foreign" => Behind \/ Inside

\* At the newline of a line.
LineRead ==
    /\ end /\ fields # <<>> /\ state = "INIT"
    /\ arrived = (Text(received) ++ Line(fields)) ++ text
    /\ origin # "foreign" =>
        \E m \in 0 .. Len(sent) - 1 : received = SubSeq(sent, 1, m) /\ fields = sent[m + 1]

\* What a message r that was cut is of s.
Damaged(r, s) ==
    IF reader = "unescape" THEN Truncated(r, s)
    ELSE Len(r) = 2 /\ r[1] = s[1] /\ r[2] # <<>> /\ IsPrefix(r[2], s[2])

\* In a line that ended with the stream.
CutLine ==
    /\ end /\ text = <<>> /\ fields # <<>> /\ state = "INIT"
    /\ \/ Text(received) ++ Line(fields) = Append(arrived, "NL")
       \/ /\ reader = "_split"
          /\ arrived = (Text(received) ++ Body(fields)) ++ One("SP")
          /\ HasArity(fields) => origin = "foreign"
    /\ origin # "foreign" =>
        /\ origin = "cut"
        /\ \E m \in 0 .. Len(sent) - 1 :
             /\ received = SubSeq(sent, 1, m)
             /\ reader = "unescape" \/ HasArity(fields) => Damaged(fields, sent[m + 1])

\* What was received when the stream has ended.
Delivered ==
    origin # "foreign" =>
        \/ received = sent
        \/ /\ origin = "cut"
           /\ \E m \in 0 .. Len(sent) - 1 :
                \/ received = SubSeq(sent, 1, m)
                \/ /\ Len(received) = m + 1
                   /\ SubSeq(received, 1, m) = SubSeq(sent, 1, m)
                   /\ Damaged(received[m + 1], sent[m + 1])

\* Behind the end of the stream.
Over ==
    /\ text = <<>> /\ fields = <<>> /\ buf = <<>> /\ state = "INIT"
    /\ Canonical /\ Delivered

CodecInv ==
    /\ TypeOK
    /\ StreamInv
    /\ outcome = "reading" => InLine \/ LineRead \/ CutLine \/ Over
    /\ outcome # "reading" => Canonical /\ Delivered
    /\ AbortsOnlyBehindBackslash

\* The messages that are sent.
LEMMA MessageFacts ==
    /\ Word \in Strings
    /\ \A i \in 1 .. Len(Word) : Word[i] \notin Special
    /\ \A s \in Commands : s \in Seq(Strings) /\ Len(s) \in 2 .. 4 /\ s[1] = Word /\ s[2] = Word
    /\ \A s \in Results : s \in Seq(Strings) /\ Len(s) = 2
<1>1. Word \in Strings
  <2>1. {"a", "n"} \subseteq Chars
    BY DEF Chars
  <2>2. QED  BY <2>1, CodecAssumption, SeqMonotonic DEF Strings
<1>2. \A i \in 1 .. Len(Word) : Word[i] \notin Special
  <2>1. \A i \in 1 .. Len(Word) : Word[i] \in {"a", "n"}
    BY CodecAssumption, ElementOfSeq
  <2>2. QED  BY <2>1 DEF Special
<1>3. \A d \in Data : d \in Strings
  <2>1. {"a", "n", "SP", "NL", "BS"} = Chars
    BY DEF Chars, Special
  <2>2. QED  BY <2>1, CodecAssumption DEF Strings
<1>4. <<>> \in Strings
  BY JoinFacts
<1>5. ASSUME NEW s \in Commands
      PROVE  s \in Seq(Strings) /\ Len(s) \in 2 .. 4 /\ s[1] = Word /\ s[2] = Word
  <2>1. CASE s = <<Word, Word>>
    BY <1>1, <2>1
  <2>2. ASSUME NEW a \in Data, s = <<Word, Word, a>>
        PROVE  s \in Seq(Strings) /\ Len(s) \in 2 .. 4 /\ s[1] = Word /\ s[2] = Word
    BY <1>1, <1>3, <2>2
  <2>3. ASSUME NEW a \in Data, NEW b \in {<<>>, Word}, s = <<Word, Word, a, b>>
        PROVE  s \in Seq(Strings) /\ Len(s) \in 2 .. 4 /\ s[1] = Word /\ s[2] = Word
    <3>1. b \in Strings
      BY <1>1, <1>4
    <3>2. QED  BY <1>1, <1>3, <2>3, <3>1
  <2>4. QED  BY <2>1, <2>2, <2>3 DEF Commands
<1>6. ASSUME NEW s \in Results PROVE s \in Seq(Strings) /\ Len(s) = 2
  <2>1. PICK d \in Data : s = <<Word, d>>
    BY DEF Results
  <2>2. QED  BY <1>1, <1>3, <2>1
<1>7. QED  BY <1>1, <1>2, <1>5, <1>6

LEMMA SentFacts ==
    ASSUME StreamInv, origin # "foreign", NEW m \in 0 .. Len(sent) - 1
    PROVE  /\ sent[m + 1] \in SentBy /\ sent[m + 1] \in Seq(Strings)
           /\ Len(sent[m + 1]) \in Nat \ {0, 1}
           /\ \A f \in 0 .. Len(sent[m + 1]) - 1 : sent[m + 1][f + 1] \in Strings
<1>1. m + 1 \in 1 .. Len(sent)
  BY LenProperties DEF StreamInv
<1>2. sent[m + 1] \in SentBy
  BY <1>1 DEF StreamInv
<1>3. sent[m + 1] \in Seq(Strings) /\ Len(sent[m + 1]) \in 2 .. 4
  BY <1>2, MessageFacts DEF SentBy
<1>4. \A f \in 0 .. Len(sent[m + 1]) - 1 : sent[m + 1][f + 1] \in Strings
  BY <1>3, NextPrefix
<1>5. Len(sent[m + 1]) \in Nat \ {0, 1}
  <2> DEFINE n == Len(sent[m + 1])
  <2>1. n \in 2 .. 4
    BY <1>3
  <2> HIDE DEF n
  <2>2. n \in Nat \ {0, 1}
    BY <2>1
  <2>3. QED  BY <2>2 DEF n
<1>6. sent[m + 1] \in Seq(Strings)
  BY <1>3
<1>7. QED  BY <1>2, <1>4, <1>5, <1>6

\* The types, as the lemmas about texts need them.
LEMMA CodecTypes ==
    ASSUME TypeOK, StreamInv
    PROVE  /\ buf \in Strings /\ fields \in Seq(Strings) /\ received \in Seq(Seq(Strings))
           /\ arrived \in Strings /\ text \in Strings /\ sent \in Seq(Seq(Strings))
           /\ Text(received) \in Strings /\ OpenLine(fields, buf, state) \in Strings
           /\ Line(fields) \in Strings
<1>1. /\ buf \in Strings /\ fields \in Seq(Strings) /\ received \in Seq(Seq(Strings))
      /\ arrived \in Strings /\ text \in Strings /\ sent \in Seq(Seq(Strings))
  BY DEF TypeOK, StreamInv, Strings
<1>2. QED  BY <1>1, TextFacts, OpenLineType, LineFacts

\* Between the two programs the next character is the one that was written.
LEMMA NextCharacter ==
    ASSUME TypeOK, StreamInv, InLine, origin # "foreign"
    PROVE  \/ Behind /\ text = <<>>
           \/ \E m \in 0 .. Len(sent) - 1 : \E f \in 0 .. Len(sent[m + 1]) - 1 :
                \E c \in 0 .. Len(sent[m + 1][f + 1]) :
                   /\ Within(m, f, c)
                   /\ text # <<>> => Head(text) = Expected(sent[m + 1], f, c, state)
                   /\ origin = "complete" => text # <<>>
<1> DEFINE p == Text(received) ++ OpenLine(fields, buf, state)
<1>1. p \in Strings /\ text \in Strings /\ sent \in Seq(Seq(Strings)) /\ received \in Seq(Seq(Strings))
  BY CodecTypes, JoinFacts
<1>2. arrived = p ++ text
  BY DEF InLine
<1>3. PICK v \in Strings : Text(sent) = arrived ++ v /\ (origin = "complete" => v = <<>>)
  <2>1. arrived \in Strings /\ Text(sent) \in Strings /\ IsPrefix(arrived, Text(sent))
    BY CodecTypes, TextFacts DEF StreamInv
  <2>2. CASE origin = "complete"
    <3>1. Text(sent) = arrived ++ <<>>
      BY <2>1, <2>2, JoinFacts DEF StreamInv
    <3>2. QED  BY <3>1, JoinFacts
  <2>3. CASE origin # "complete"
    BY <2>1, <2>3, PrefixFacts
  <2>4. QED  BY <2>2, <2>3
<1>4. Text(sent) = p ++ (text ++ v) /\ text ++ v \in Strings
  BY <1>1, <1>2, <1>3, JoinFacts
<1>5. CASE Behind
  <2>1. p = Text(sent) ++ <<>>
    BY <1>5, OpenLineEmpty DEF Behind
  <2>2. Text(sent) \in Strings
    BY <1>1, TextFacts
  <2>3. p ++ (text ++ v) = p ++ <<>>
    BY <1>1, <1>4, <2>1, <2>2, JoinFacts
  <2>4. text ++ v = <<>>
    BY <1>1, <1>4, <2>3, JoinFacts, JoinCancels
  <2>5. text = <<>>
    <3>1. SUFFICES ASSUME text # <<>> PROVE FALSE
      OBVIOUS
    <3>2. QED  BY <1>1, <2>4, <3>1, HeadOfJoin
  <2>6. QED  BY <1>5, <2>5
<1>6. CASE Inside
  <2>1. PICK m \in 0 .. Len(sent) - 1 : \E f \in 0 .. Len(sent[m + 1]) - 1 :
            \E c \in 0 .. Len(sent[m + 1][f + 1]) : Within(m, f, c)
    BY <1>6 DEF Inside
  <2>2. PICK f \in 0 .. Len(sent[m + 1]) - 1 :
            \E c \in 0 .. Len(sent[m + 1][f + 1]) : Within(m, f, c)
    BY <2>1
  <2>3. PICK c \in 0 .. Len(sent[m + 1][f + 1]) : Within(m, f, c)
    BY <2>2
  <2> DEFINE x == Expected(sent[m + 1], f, c, state)
  <2>4. state = "ESCAPE" => c < Len(sent[m + 1][f + 1]) /\ sent[m + 1][f + 1][c + 1] \in Special
    BY <2>3 DEF Within
  <2>5. Continues(sent, m, f, c, state)
    BY <1>1, <2>4, NextInText
  <2> HIDE DEF x
  <2>6. x \in Chars /\ \E w \in Strings : Text(sent) = p ++ (One(x) ++ w)
    BY <2>3, <2>5 DEF Continues, Within, x
  <2>7. PICK w \in Strings : Text(sent) = p ++ (One(x) ++ w)
    BY <2>6
  <2> HIDE DEF p
  <2>8. text ++ v = One(x) ++ w
    <3>1. One(x) ++ w \in Strings
      BY <2>6, OneFacts, JoinFacts
    <3>2. p ++ (text ++ v) = p ++ (One(x) ++ w)
      BY <1>4, <2>7
    <3>3. QED  BY <1>1, <1>4, <3>1, <3>2, JoinCancels
  <2>9. ASSUME text # <<>> PROVE Head(text) = x
    <3>1. Head(text ++ v) = Head(text)
      BY <1>1, <2>9, HeadOfJoin
    <3>2. Head(One(x) ++ w) = x
      BY <2>6, OneFacts
    <3>3. QED  BY <2>8, <3>1, <3>2
  <2>10. ASSUME origin = "complete" PROVE text # <<>>
    <3>1. text ++ v = text
      BY <1>1, <1>3, <2>10, JoinFacts
    <3>2. QED  BY <2>6, <2>8, <3>1, OneFacts
  <2>11. Within(m, f, c) /\ (text # <<>> => Head(text) = Expected(sent[m + 1], f, c, state))
    BY <2>3, <2>9 DEF x
  <2>12. QED  BY <2>10, <2>11
<1>7. QED  BY <1>5, <1>6 DEF InLine

LEMMA CodecInit == Init => CodecInv
<1> SUFFICES ASSUME Init PROVE CodecInv
  OBVIOUS
<1> USE DEF Init
<1>1. sent \in Seq(Seq(Strings)) /\ (origin # "foreign" => \A i \in 1 .. Len(sent) : sent[i] \in SentBy)
  <2>1. CASE sent = <<>>
    BY <2>1, EmptySeq
  <2>2. CASE \E k \in 0 .. Messages :
               sent \in [1 .. k -> IF reader = "unescape" THEN Commands ELSE Results]
    <3>1. PICK k \in 0 .. Messages : sent \in [1 .. k -> SentBy]
      BY <2>2 DEF SentBy
    <3>2. SentBy \subseteq Seq(Strings)
      BY MessageFacts DEF SentBy
    <3>3. k \in Nat
      BY CodecAssumption
    <3>4. sent \in Seq(Seq(Strings)) /\ Len(sent) = k
      BY <3>1, <3>2, <3>3
    <3>5. QED  BY <3>1, <3>4
  <2>3. QED  BY <2>1, <2>2
<1>2. /\ arrived \in Strings
      /\ origin # "foreign" =>
           IsPrefix(arrived, Text(sent)) /\ (origin = "complete" => arrived = Text(sent))
  <2>1. CASE origin = "foreign"
    <3>1. PICK k \in 0 .. Foreign : arrived \in [1 .. k -> Chars]
      BY <2>1
    <3>2. k \in Nat
      BY CodecAssumption
    <3>3. QED  BY <2>1, <3>1, <3>2 DEF Strings
  <2>2. CASE origin # "foreign"
    <3>1. PICK k \in 0 .. Len(Text(sent)) :
              /\ arrived = SubSeq(Text(sent), 1, k)
              /\ origin = IF k < Len(Text(sent)) THEN "cut" ELSE "complete"
      BY <2>2
    <3> DEFINE t == Text(sent)
    <3>2. t \in Seq(Chars) /\ Len(t) \in Nat
      BY <1>1, TextFacts, LenProperties DEF Strings
    <3> HIDE DEF t
    <3>3. arrived \in Seq(Chars) /\ Len(arrived) = k
      BY <3>1, <3>2, FrontType DEF t
    <3>4. IsPrefix(arrived, t)
      <4>1. SubSeq(arrived, 1, k) = arrived
        BY <3>3, SubSeqFull
      <4>2. QED  BY <3>1, <3>2, <3>3, <4>1 DEF t, IsPrefix
    <3>5. origin = "complete" => arrived = t
      <4>1. origin = "complete" => k = Len(t)
        BY <3>1, <3>2 DEF t
      <4>2. QED  BY <3>1, <3>2, <4>1, SubSeqFull DEF t
    <3>6. QED  BY <3>3, <3>4, <3>5 DEF t, Strings
  <2>3. QED  BY <2>1, <2>2
<1>3. reader \in {"unescape", "_split"} /\ origin \in {"complete", "cut", "foreign"}
  OBVIOUS
<1>4. TypeOK
  <2>1. /\ <<>> \in Seq(Chars) /\ <<>> \in Seq(Seq(Chars)) /\ <<>> \in Seq(Seq(Seq(Chars)))
    BY EmptySeq
  <2>2. QED  BY <2>1 DEF TypeOK
<1>5. StreamInv
  BY <1>1, <1>2, <1>3 DEF StreamInv
<1>6. InLine
  <2>1. arrived = (Text(<<>>) ++ OpenLine(<<>>, <<>>, "INIT")) ++ text
    BY <1>2, TextFacts, OpenLineEmpty, JoinFacts
  <2>2. ASSUME origin # "foreign" PROVE Behind \/ Inside
    <3>1. CASE sent = <<>>
      BY <3>1 DEF Behind
    <3>2. CASE sent # <<>>
      <4>1. 0 \in 0 .. Len(sent) - 1
        BY <1>1, <3>2, EmptySeq
      <4>2. /\ Len(sent[0 + 1]) \in Nat \ {0, 1}
            /\ \A f \in 0 .. Len(sent[0 + 1]) - 1 : sent[0 + 1][f + 1] \in Strings
        BY <1>5, <2>2, <4>1, SentFacts
      <4>3. 0 \in 0 .. Len(sent[0 + 1]) - 1
        BY <4>2
      <4>4. sent[0 + 1][0 + 1] \in Strings
        BY <4>2, <4>3
      <4>5. 0 \in 0 .. Len(sent[0 + 1][0 + 1])
        BY <4>4, LenProperties DEF Strings
      <4>6. Within(0, 0, 0)
        BY SubSeqEmpty DEF Within
      <4>7. QED  BY <4>1, <4>3, <4>5, <4>6 DEF Inside
    <3>3. QED  BY <3>1, <3>2
  <2>3. QED  BY <2>1, <2>2 DEF InLine
<1>7. QED  BY <1>4, <1>5, <1>6 DEF CodecInv, AbortsOnlyBehindBackslash

\* What a step leaves alone.
LEMMA StreamKept ==
    ASSUME StreamInv, UNCHANGED writerVars, text' \in Strings,
           state' = "ORDINAL" => \E i \in 1 .. Len(buf') : buf'[i] \in Special
    PROVE  StreamInv'
BY DEF StreamInv, SentBy, writerVars

LEMMA ReceivedKept ==
    ASSUME UNCHANGED <<writerVars, received>>
    PROVE  (Canonical => Canonical') /\ (Delivered => Delivered')
BY DEF Canonical, Delivered, Damaged, Truncated, writerVars

\* Whatever is complete is a front of what has arrived.
LEMMA FrontIsCanonical ==
    ASSUME TypeOK, StreamInv, NEW x \in Strings, arrived = Text(received) ++ x
    PROVE  Canonical
<1>1. arrived \in Strings /\ Text(received) \in Strings /\ "NL" \in Chars /\ One("NL") \in Strings
  BY CodecTypes, OneFacts, CharFacts
<1>2. Append(arrived, "NL") = Text(received) ++ (x ++ One("NL")) /\ x ++ One("NL") \in Strings
  <2> DEFINE t == Text(received)
             o == One("NL")
             a == arrived
  <2>1. Append(a, "NL") = a ++ o
    BY <1>1, AppendJoins
  <2>2. t \in Strings /\ o \in Strings /\ a = t ++ x
    BY <1>1
  <2> HIDE DEF t, o, a
  <2>3. (t ++ x) ++ o = t ++ (x ++ o) /\ x ++ o \in Strings
    BY <2>2, JoinFacts
  <2>4. QED  BY <2>1, <2>2, <2>3 DEF t, o, a
<1>3. IsPrefix(Text(received), Append(arrived, "NL"))
  <2> DEFINE t == Text(received)
             y == x ++ One("NL")
  <2>1. t \in Strings /\ y \in Strings /\ Append(arrived, "NL") = t ++ y
    BY <1>1, <1>2
  <2> HIDE DEF t, y
  <2>2. IsPrefix(t, t ++ y)
    BY <2>1, PrefixFacts
  <2>3. QED  BY <2>1, <2>2 DEF t
<1>4. QED  BY <1>3 DEF Canonical

LEMMA InLineIsCanonical ==
    ASSUME TypeOK, StreamInv, InLine
    PROVE  Canonical
<1>1. /\ Text(received) \in Strings /\ OpenLine(fields, buf, state) \in Strings /\ text \in Strings
      /\ arrived = (Text(received) ++ OpenLine(fields, buf, state)) ++ text
  BY CodecTypes DEF InLine
<1>2. arrived = Text(received) ++ (OpenLine(fields, buf, state) ++ text)
  BY <1>1, JoinFacts
<1>3. QED  BY <1>1, <1>2, JoinFacts, FrontIsCanonical

LEMMA LineReadIsCanonical ==
    ASSUME TypeOK, StreamInv, LineRead
    PROVE  Canonical
<1>1. /\ Text(received) \in Strings /\ Line(fields) \in Strings /\ text \in Strings
      /\ arrived = (Text(received) ++ Line(fields)) ++ text
  BY CodecTypes DEF LineRead
<1>2. arrived = Text(received) ++ (Line(fields) ++ text)
  BY <1>1, JoinFacts
<1>3. QED  BY <1>1, <1>2, JoinFacts, FrontIsCanonical

\* Of a stream that was cut, the messages in front of the cut were received.
LEMMA EndDelivers ==
    ASSUME TypeOK, StreamInv, InLine, text = <<>>
    PROVE  Delivered
<1>1. SUFFICES ASSUME origin # "foreign" PROVE received = sent \/
               (origin = "cut" /\ \E m \in 0 .. Len(sent) - 1 : received = SubSeq(sent, 1, m))
  BY DEF Delivered
<1>2. CASE Behind
  BY <1>2 DEF Behind
<1>3. CASE ~Behind
  <2>1. PICK m \in 0 .. Len(sent) - 1 : \E f \in 0 .. Len(sent[m + 1]) - 1 :
            \E c \in 0 .. Len(sent[m + 1][f + 1]) : Within(m, f, c) /\ origin # "complete"
    BY <1>1, <1>3, NextCharacter
  <2>2. received = SubSeq(sent, 1, m) /\ origin = "cut"
    BY <1>1, <2>1 DEF Within, StreamInv
  <2>3. QED  BY <2>2
<1>4. QED  BY <1>2, <1>3

-----------------------------------------------------------------------------
\* The steps.

\* While the line is open, its text moves from text to the fields.
LEMMA TextMoves ==
    ASSUME TypeOK, StreamInv, InLine, text # <<>>, NEW h, h = Head(text),
           NEW l \in Strings, l = OpenLine(fields, buf, state) ++ One(h)
    PROVE  /\ h \in Chars /\ Tail(text) \in Strings
           /\ arrived = (Text(received) ++ l) ++ Tail(text)
<1> DEFINE t == Text(received)
           o == OpenLine(fields, buf, state)
           r == Tail(text)
<1>1. t \in Strings /\ o \in Strings /\ text \in Strings
  BY CodecTypes
<1>2. h \in Chars /\ r \in Strings /\ text = One(h) ++ r /\ One(h) \in Strings
  BY <1>1, FirstAndRest, OneFacts
<1>3. arrived = (t ++ o) ++ (One(h) ++ r)
  BY <1>2 DEF InLine
<1> HIDE DEF t, o, r
<1>4. (t ++ o) ++ (One(h) ++ r) = ((t ++ o) ++ One(h)) ++ r
  <2>1. t ++ o \in Strings
    BY <1>1, JoinFacts
  <2>2. QED  BY <1>2, <2>1, JoinFacts
<1>5. (t ++ o) ++ One(h) = t ++ (o ++ One(h))
  BY <1>1, <1>2, JoinFacts
<1>6. arrived = (t ++ (o ++ One(h))) ++ r
  BY <1>3, <1>4, <1>5
<1>7. QED  BY <1>2, <1>6 DEF t, o, r

\* A character that is read as part of a field is the one that was written
\* there, and a separator or a newline is read behind its last character.
LEMMA FieldCharacter ==
    ASSUME StreamInv, origin # "foreign",
           NEW m \in 0 .. Len(sent) - 1, NEW f \in 0 .. Len(sent[m + 1]) - 1,
           NEW c \in 0 .. Len(sent[m + 1][f + 1]), Within(m, f, c),
           NEW h, h = Expected(sent[m + 1], f, c, state)
    PROVE  LET b == sent[m + 1][f + 1]
           IN  \/ /\ state = "ESCAPE" /\ c < Len(b)
                  /\ b[c + 1] \in Special /\ h = Code(b[c + 1])
               \/ /\ state # "ESCAPE" /\ c < Len(b)
                  /\ b[c + 1] \in Special /\ h = "BS"
               \/ /\ state # "ESCAPE" /\ c < Len(b)
                  /\ b[c + 1] \notin Special /\ h = b[c + 1]
               \/ /\ state # "ESCAPE" /\ c = Len(b)
                  /\ h = IF f + 1 < Len(sent[m + 1]) THEN "SP" ELSE "NL"
<1>1. sent[m + 1][f + 1] \in Strings
  BY SentFacts
<1>2. Len(sent[m + 1][f + 1]) \in Nat
  BY <1>1, LenProperties DEF Strings
<1>3. state = "ESCAPE" => c < Len(sent[m + 1][f + 1]) /\ sent[m + 1][f + 1][c + 1] \in Special
  BY DEF Within
<1>4. c < Len(sent[m + 1][f + 1]) \/ c = Len(sent[m + 1][f + 1])
  BY <1>2
<1>5. QED  BY <1>2, <1>3, <1>4 DEF Expected

LEMMA CharacterKeepsInv ==
    ASSUME CodecInv, Character
    PROVE  CodecInv'
<1> PICK h : h = Head(text)
  OBVIOUS
<1>1. TypeOK /\ StreamInv /\ InLine /\ outcome = "reading"
  BY DEF CodecInv, Character, LineRead, CutLine, Over
<1>2. h \in Chars /\ Tail(text) \in Strings
  BY <1>1, CodecTypes, FirstAndRest DEF Character
<1>3. buf \in Strings /\ fields \in Seq(Strings)
  BY <1>1, CodecTypes
<1>4. /\ UNCHANGED <<reader, sent, arrived, origin, fields, end, received, outcome>>
      /\ text' = Tail(text) /\ text # <<>> /\ UNCHANGED writerVars
  BY DEF Character, writerVars
<1>5. \/ Ordinary(h) /\ h \notin Special
      \/ BeginEscape(h)
      \/ Unescape(h)
  <2>1. ~AtEndOfField(h) /\ (Ordinary(h) \/ BeginEscape(h) \/ Unescape(h))
    BY DEF Character
  <2>2. ASSUME Ordinary(h) PROVE h \notin Special
    BY <2>1, <2>2 DEF Ordinary, AtEndOfField, Separates, Special
  <2>3. QED  BY <2>1, <2>2
<1>6. /\ buf' \in Strings /\ state' \in {"INIT", "ORDINAL", "ESCAPE"}
      /\ state' = "ORDINAL" => \E i \in 1 .. Len(buf') : buf'[i] \in Special
      /\ Unfinished(buf', state') = Unfinished(buf, state) ++ One(h)
  <2>1. CASE Ordinary(h) /\ h \notin Special
    <3>1. state # "ESCAPE" /\ buf' = Append(buf, h) /\ state' = state
      BY <2>1 DEF Ordinary, AfterOrdinary
    <3>2. /\ buf' \in Strings /\ Len(buf) \in Nat /\ Len(buf') = Len(buf) + 1
          /\ \A i \in 1 .. Len(buf) : buf'[i] = buf[i]
      BY <1>2, <1>3, <3>1, AppendProperties, LenProperties DEF Strings
    <3>3. state = "ORDINAL" => \E i \in 1 .. Len(buf') : buf'[i] \in Special
      BY <1>1, <3>2 DEF StreamInv
    <3>4. Unfinished(Append(buf, h), state) = Unfinished(buf, state) ++ One(h)
      BY <1>2, <1>3, <2>1, <3>1, UnfinishedGrows
    <3>5. state \in {"INIT", "ORDINAL", "ESCAPE"}
      BY <1>1 DEF TypeOK
    <3>6. QED  BY <3>1, <3>2, <3>3, <3>4, <3>5
  <2>2. CASE BeginEscape(h)
    <3>1. state # "ESCAPE" /\ buf' = buf /\ state' = "ESCAPE" /\ h = "BS"
      BY <2>2 DEF BeginEscape
    <3>2. Unfinished(buf, "ESCAPE") = Unfinished(buf, state) ++ One("BS")
      BY <1>3, <3>1, UnfinishedGrows
    <3>3. QED  BY <1>3, <3>1, <3>2
  <2>3. CASE Unescape(h)
    <3> DEFINE x == IF h = "n" THEN "NL" ELSE h
    <3>1. state = "ESCAPE" /\ buf' = Append(buf, x) /\ state' = "ORDINAL" /\ h \in {"BS", "SP", "n"}
      BY <2>3 DEF Unescape
    <3>2. x \in Special /\ Code(x) = h
      BY <3>1 DEF Special, Code
    <3>3. x \in Chars
      BY <3>2, CharFacts
    <3> HIDE DEF x
    <3>4. buf' \in Strings /\ Len(buf') \in Nat /\ Len(buf') >= 1 /\ buf'[Len(buf')] = x
      BY <1>3, <3>1, <3>3, AppendProperties, LenProperties DEF Strings
    <3>5. Unfinished(Append(buf, x), "ORDINAL") = Unfinished(buf, "ESCAPE") ++ One(Code(x))
      BY <1>3, <3>2, UnfinishedGrows
    <3>6. \E i \in 1 .. Len(buf') : buf'[i] \in Special
      BY <3>2, <3>4
    <3>7. QED  BY <3>1, <3>2, <3>4, <3>5, <3>6
  <2>4. QED  BY <1>5, <2>1, <2>2, <2>3
<1>7. OpenLine(fields, buf', state') = OpenLine(fields, buf, state) ++ One(h)
  BY <1>2, <1>3, <1>6, OpenLineGrows
<1>8. arrived = (Text(received) ++ OpenLine(fields, buf', state')) ++ Tail(text)
  <2>1. OpenLine(fields, buf', state') \in Strings
    BY <1>3, <1>6, OpenLineType
  <2>2. QED  BY <1>1, <1>4, <1>7, <2>1, TextMoves
<1>9. ASSUME origin # "foreign" PROVE Inside'
  <2>1. PICK m \in 0 .. Len(sent) - 1 : \E f \in 0 .. Len(sent[m + 1]) - 1 :
            \E c \in 0 .. Len(sent[m + 1][f + 1]) :
                Within(m, f, c) /\ h = Expected(sent[m + 1], f, c, state)
    BY <1>1, <1>4, <1>9, NextCharacter
  <2>2. PICK f \in 0 .. Len(sent[m + 1]) - 1 : \E c \in 0 .. Len(sent[m + 1][f + 1]) :
                Within(m, f, c) /\ h = Expected(sent[m + 1], f, c, state)
    BY <2>1
  <2>3. PICK c \in 0 .. Len(sent[m + 1][f + 1]) :
                Within(m, f, c) /\ h = Expected(sent[m + 1], f, c, state)
    BY <2>2
  <2>4. PICK b : b = sent[m + 1][f + 1]
    OBVIOUS
  <2>5. b \in Strings /\ Len(b) \in Nat /\ c \in 0 .. Len(b) /\ buf = SubSeq(b, 1, c)
    <3>1. b \in Strings
      BY <1>1, <1>9, <2>4, SentFacts
    <3>2. QED  BY <2>3, <2>4, <3>1, LenProperties DEF Within, Strings
  <2>6. \/ state = "ESCAPE" /\ c < Len(b) /\ b[c + 1] \in Special /\ h = Code(b[c + 1])
        \/ state # "ESCAPE" /\ c < Len(b) /\ b[c + 1] \in Special /\ h = "BS"
        \/ state # "ESCAPE" /\ c < Len(b) /\ b[c + 1] \notin Special /\ h = b[c + 1]
        \/ state # "ESCAPE" /\ c = Len(b) /\ h \in {"SP", "NL"}
    BY <1>1, <1>9, <2>3, <2>4, FieldCharacter
  <2>7. c < Len(b) => Append(buf, b[c + 1]) = SubSeq(b, 1, c + 1) /\ c + 1 \in 0 .. Len(b)
    <3>1. SUFFICES ASSUME c < Len(b) PROVE Append(buf, b[c + 1]) = SubSeq(b, 1, c + 1) /\ c + 1 \in 0 .. Len(b)
      OBVIOUS
    <3>2. c \in 0 .. Len(b) - 1
      BY <2>5, <3>1
    <3>3. QED  BY <2>5, <3>1, <3>2, NextPrefix DEF Strings
  <2>8. \E d \in 0 .. Len(b) : buf' = SubSeq(b, 1, d)
                               /\ (state' = "ESCAPE" => d < Len(b) /\ b[d + 1] \in Special)
    <3>1. CASE Ordinary(h) /\ h \notin Special
      <4>1. state # "ESCAPE" /\ buf' = Append(buf, h) /\ state' = state
        BY <3>1 DEF Ordinary, AfterOrdinary
      <4>2. h \notin {"BS", "SP", "NL"}
        BY <3>1 DEF Special
      <4>3. c < Len(b) /\ h = b[c + 1]
        BY <2>6, <4>1, <4>2
      <4>4. QED  BY <2>7, <4>1, <4>3
    <3>2. CASE BeginEscape(h)
      <4>1. state # "ESCAPE" /\ buf' = buf /\ state' = "ESCAPE" /\ h = "BS"
        BY <3>2 DEF BeginEscape
      <4>2. c < Len(b) /\ b[c + 1] \in Special
        BY <2>6, <4>1 DEF Special
      <4>3. QED  BY <2>5, <4>1, <4>2
    <3>3. CASE Unescape(h)
      <4>1. /\ state = "ESCAPE" /\ state' = "ORDINAL" /\ h \in {"BS", "SP", "n"}
            /\ buf' = Append(buf, IF h = "n" THEN "NL" ELSE h)
        BY <3>3 DEF Unescape
      <4>2. c < Len(b) /\ b[c + 1] \in Special /\ h = Code(b[c + 1])
        BY <2>6, <4>1
      <4>3. b[c + 1] = IF h = "n" THEN "NL" ELSE h
        BY <4>2 DEF Special, Code
      <4>4. QED  BY <2>7, <4>1, <4>2, <4>3
    <3>4. QED  BY <1>5, <3>1, <3>2, <3>3
  <2>9. PICK d \in 0 .. Len(b) :
            buf' = SubSeq(b, 1, d) /\ (state' = "ESCAPE" => d < Len(b) /\ b[d + 1] \in Special)
    BY <2>8
  <2>10. Within(m, f, d)'
    BY <1>4, <2>3, <2>4, <2>9 DEF Within
  <2>11. QED  BY <1>4, <2>4, <2>10 DEF Inside
<1>10. InLine'
  <2>1. ~end' /\ arrived' = (Text(received') ++ OpenLine(fields', buf', state')) ++ text'
    BY <1>1, <1>4, <1>8 DEF InLine
  <2>2. QED  BY <1>4, <1>9, <2>1 DEF InLine
<1>11. TypeOK'
  BY <1>1, <1>4, <1>6 DEF TypeOK, InLine, Strings
<1>12. StreamInv'
  BY <1>1, <1>2, <1>4, <1>6, StreamKept
<1>13. QED  BY <1>1, <1>4, <1>10, <1>11, <1>12 DEF CodecInv, AbortsOnlyBehindBackslash

\* Between the two programs a field that ends is the one that was sent.
LEMMA FieldEnds ==
    ASSUME TypeOK, StreamInv, InLine, origin # "foreign", text # <<>>, AtEndOfField(Head(text))
    PROVE  \E m \in 0 .. Len(sent) - 1 : \E f \in 0 .. Len(sent[m + 1]) - 1 :
              /\ received = SubSeq(sent, 1, m)
              /\ fields = SubSeq(sent[m + 1], 1, f) /\ Len(fields) = f
              /\ buf = sent[m + 1][f + 1]
              /\ Append(fields, buf) = SubSeq(sent[m + 1], 1, f + 1)
              /\ Head(text) = IF f + 1 < Len(sent[m + 1]) THEN "SP" ELSE "NL"
<1> PICK h : h = Head(text)
  OBVIOUS
<1>1. PICK m \in 0 .. Len(sent) - 1 : \E f \in 0 .. Len(sent[m + 1]) - 1 :
          \E c \in 0 .. Len(sent[m + 1][f + 1]) :
              Within(m, f, c) /\ h = Expected(sent[m + 1], f, c, state)
  BY NextCharacter
<1>2. PICK f \in 0 .. Len(sent[m + 1]) - 1 : \E c \in 0 .. Len(sent[m + 1][f + 1]) :
              Within(m, f, c) /\ h = Expected(sent[m + 1], f, c, state)
  BY <1>1
<1>3. PICK c \in 0 .. Len(sent[m + 1][f + 1]) :
              Within(m, f, c) /\ h = Expected(sent[m + 1], f, c, state)
  BY <1>2
<1>4. PICK b, l : b = sent[m + 1][f + 1] /\ l = Len(sent[m + 1])
  OBVIOUS
<1>5. h \in {"SP", "NL"} /\ state # "ESCAPE"
  BY DEF AtEndOfField, Separates
<1>6. \/ state = "ESCAPE" /\ c < Len(b) /\ b[c + 1] \in Special /\ h = Code(b[c + 1])
      \/ state # "ESCAPE" /\ c < Len(b) /\ b[c + 1] \in Special /\ h = "BS"
      \/ state # "ESCAPE" /\ c < Len(b) /\ b[c + 1] \notin Special /\ h = b[c + 1]
      \/ state # "ESCAPE" /\ c = Len(b) /\ h = IF f + 1 < l THEN "SP" ELSE "NL"
  BY <1>3, <1>4, FieldCharacter
<1>7. c = Len(b) /\ h = IF f + 1 < l THEN "SP" ELSE "NL"
  BY <1>5, <1>6 DEF Special
<1>8. sent[m + 1] \in Seq(Strings) /\ b \in Strings
  BY <1>4, SentFacts
<1>9. buf = b
  BY <1>3, <1>4, <1>7, <1>8, SubSeqFull DEF Within, Strings
<1>10. fields = SubSeq(sent[m + 1], 1, f) /\ received = SubSeq(sent, 1, m)
  BY <1>3 DEF Within
<1>11. Len(fields) = f /\ Append(fields, buf) = SubSeq(sent[m + 1], 1, f + 1)
  BY <1>4, <1>8, <1>9, <1>10, NextPrefix
<1>12. QED  BY <1>4, <1>7, <1>9, <1>10, <1>11

LEMMA EndOfFieldKeepsInv ==
    ASSUME CodecInv, EndOfField
    PROVE  CodecInv'
<1> PICK h : h = Head(text)
  OBVIOUS
<1>1. TypeOK /\ StreamInv /\ InLine /\ outcome = "reading"
  BY DEF CodecInv, EndOfField, LineRead, CutLine, Over
<1>2. /\ UNCHANGED <<reader, sent, arrived, origin, received, outcome>> /\ UNCHANGED writerVars
      /\ text' = Tail(text) /\ text # <<>> /\ state # "ESCAPE" /\ h \in {"SP", "NL"}
      /\ fields' = Append(fields, buf) /\ buf' = <<>> /\ state' = "INIT" /\ end' = (h = "NL")
  BY DEF EndOfField, AtEndOfField, Separates, Reset, writerVars
<1>3. h \in Chars /\ Tail(text) \in Strings
  BY <1>1, <1>2, CodecTypes, FirstAndRest
<1>4. buf \in Strings /\ fields \in Seq(Strings) /\ received \in Seq(Seq(Strings)) /\ buf' \in Strings
  BY <1>1, <1>2, CodecTypes, JoinFacts
<1>5. fields' \in Seq(Strings) /\ fields' # <<>> /\ Len(fields') = Len(fields) + 1
  BY <1>2, <1>4, AppendProperties
<1>6. TypeOK'
  BY <1>1, <1>2, <1>4, <1>5 DEF TypeOK, Strings
<1>7. StreamInv'
  BY <1>1, <1>2, <1>3, StreamKept
<1>8. ASSUME origin # "foreign"
      PROVE  \E m \in 0 .. Len(sent) - 1 : \E f \in 0 .. Len(sent[m + 1]) - 1 :
                /\ received = SubSeq(sent, 1, m)
                /\ fields' = SubSeq(sent[m + 1], 1, f + 1)
                /\ h = IF f + 1 < Len(sent[m + 1]) THEN "SP" ELSE "NL"
  <2>1. AtEndOfField(Head(text))
    BY DEF EndOfField
  <2>2. QED  BY <1>1, <1>2, <1>8, <2>1, FieldEnds
<1>9. CASE h = "SP"
  <2>1. OpenLine(fields', <<>>, "INIT") = OpenLine(fields, buf, state) ++ One(h)
    BY <1>2, <1>4, <1>9, OpenLineNextField
  <2>2. OpenLine(fields', <<>>, "INIT") \in Strings
    BY <1>5, JoinFacts, OpenLineType
  <2>3. arrived = (Text(received) ++ OpenLine(fields', <<>>, "INIT")) ++ Tail(text)
    BY <1>1, <1>2, <2>1, <2>2, TextMoves
  <2>4. ASSUME origin # "foreign" PROVE Inside'
    <3>1. PICK m \in 0 .. Len(sent) - 1 : \E f \in 0 .. Len(sent[m + 1]) - 1 :
                /\ received = SubSeq(sent, 1, m)
                /\ fields' = SubSeq(sent[m + 1], 1, f + 1)
                /\ h = IF f + 1 < Len(sent[m + 1]) THEN "SP" ELSE "NL"
      BY <1>8, <2>4
    <3>2. PICK f \in 0 .. Len(sent[m + 1]) - 1 :
                /\ received = SubSeq(sent, 1, m)
                /\ fields' = SubSeq(sent[m + 1], 1, f + 1)
                /\ f + 1 < Len(sent[m + 1])
      BY <1>9, <3>1
    <3>3. sent[m + 1] \in Seq(Strings) /\ Len(sent[m + 1]) \in Nat
      BY <1>1, <2>4, SentFacts, LenProperties
    <3>4. f + 1 \in 0 .. Len(sent[m + 1]) - 1
      BY <3>2, <3>3
    <3>5. sent[m + 1][f + 1 + 1] \in Strings
      BY <3>3, <3>4, NextPrefix
    <3>6. 0 \in 0 .. Len(sent[m + 1][f + 1 + 1])
      BY <3>5, LenProperties DEF Strings
    <3>7. SubSeq(sent[m + 1][f + 1 + 1], 1, 0) = <<>>
      BY SubSeqEmpty
    <3>8. Within(m, f + 1, 0)'
      BY <1>2, <3>2, <3>7 DEF Within
    <3>9. QED  BY <1>2, <3>4, <3>6, <3>8 DEF Inside
  <2>5. InLine'
    BY <1>2, <1>9, <2>3, <2>4 DEF InLine
  <2>6. QED  BY <1>1, <1>2, <1>6, <1>7, <2>5 DEF CodecInv, AbortsOnlyBehindBackslash
<1>10. CASE h = "NL"
  <2>1. Line(fields') = OpenLine(fields, buf, state) ++ One(h)
    BY <1>2, <1>4, <1>10, OpenLineEnds
  <2>2. Line(fields') \in Strings
    BY <1>5, LineFacts
  <2>3. arrived = (Text(received) ++ Line(fields')) ++ Tail(text)
    BY <1>1, <1>2, <2>1, <2>2, TextMoves
  <2>4. ASSUME origin # "foreign"
        PROVE  \E m \in 0 .. Len(sent) - 1 : received = SubSeq(sent, 1, m) /\ fields' = sent[m + 1]
    <3>1. PICK m \in 0 .. Len(sent) - 1 : \E f \in 0 .. Len(sent[m + 1]) - 1 :
                /\ received = SubSeq(sent, 1, m)
                /\ fields' = SubSeq(sent[m + 1], 1, f + 1)
                /\ h = IF f + 1 < Len(sent[m + 1]) THEN "SP" ELSE "NL"
      BY <1>8, <2>4
    <3>2. PICK f \in 0 .. Len(sent[m + 1]) - 1 :
                /\ received = SubSeq(sent, 1, m)
                /\ fields' = SubSeq(sent[m + 1], 1, f + 1)
                /\ ~ (f + 1 < Len(sent[m + 1]))
      BY <1>10, <3>1
    <3>3. sent[m + 1] \in Seq(Strings) /\ Len(sent[m + 1]) \in Nat
      BY <1>1, <2>4, SentFacts, LenProperties
    <3>4. f + 1 = Len(sent[m + 1])
      BY <3>2, <3>3
    <3>5. QED  BY <3>2, <3>3, <3>4, SubSeqFull
  <2>5. LineRead'
    BY <1>2, <1>5, <1>10, <2>3, <2>4 DEF LineRead
  <2>6. QED  BY <1>1, <1>2, <1>6, <1>7, <2>5 DEF CodecInv, AbortsOnlyBehindBackslash
<1>11. QED  BY <1>2, <1>9, <1>10

\* When the reader stops, what it has received is all that counts.
LEMMA StopKeepsInv ==
    ASSUME TypeOK, StreamInv, Canonical, Delivered, outcome' \in {"eof", "failed"},
           UNCHANGED <<writerVars, text, state, buf, received>>,
           fields' \in {fields, <<>>}, end' \in {end, FALSE}
    PROVE  CodecInv'
<1>1. TypeOK'
  <2>1. fields' \in Seq(Seq(Chars))
    <3>1. <<>> \in Seq(Seq(Chars)) /\ fields \in Seq(Seq(Chars))
      BY EmptySeq DEF TypeOK
    <3>2. QED  BY <3>1
  <2>2. end' \in BOOLEAN /\ (end' => buf' = <<>>)
    <3>1. CASE end' = FALSE
      BY <3>1
    <3>2. CASE end' = end
      BY <3>2 DEF TypeOK
    <3>3. QED  BY <3>1, <3>2
  <2>3. QED  BY <2>1, <2>2 DEF TypeOK
<1>2. StreamInv'
  <2>1. text' \in Strings /\ (state' = "ORDINAL" => \E i \in 1 .. Len(buf') : buf'[i] \in Special)
    BY DEF StreamInv
  <2>2. QED  BY <2>1, StreamKept
<1>3. Canonical' /\ Delivered'
  BY ReceivedKept
<1>4. QED  BY <1>1, <1>2, <1>3 DEF CodecInv, AbortsOnlyBehindBackslash

LEMMA ForeignDelivers == origin = "foreign" => Delivered
BY DEF Delivered

LEMMA UnknownEscapeKeepsInv ==
    ASSUME CodecInv, UnknownEscape
    PROVE  CodecInv'
<1> PICK h : h = Head(text)
  OBVIOUS
<1>1. TypeOK /\ StreamInv /\ InLine /\ outcome = "reading"
  BY DEF CodecInv, UnknownEscape, LineRead, CutLine, Over
<1>2. /\ text # <<>> /\ state = "ESCAPE" /\ h \notin {"BS", "SP", "n"} /\ outcome' = "aborted"
      /\ UNCHANGED <<writerVars, text, state, buf, fields, end, received>>
  BY DEF UnknownEscape
<1>3. origin = "foreign"
  <2>1. SUFFICES ASSUME origin # "foreign" PROVE FALSE
    OBVIOUS
  <2>2. PICK m \in 0 .. Len(sent) - 1 : \E f \in 0 .. Len(sent[m + 1]) - 1 :
            \E c \in 0 .. Len(sent[m + 1][f + 1]) :
                Within(m, f, c) /\ h = Expected(sent[m + 1], f, c, state)
    BY <1>1, <1>2, <2>1, NextCharacter
  <2>3. PICK f \in 0 .. Len(sent[m + 1]) - 1 : \E c \in 0 .. Len(sent[m + 1][f + 1]) :
                Within(m, f, c) /\ h = Expected(sent[m + 1], f, c, state)
    BY <2>2
  <2>4. PICK c \in 0 .. Len(sent[m + 1][f + 1]) :
                Within(m, f, c) /\ h = Expected(sent[m + 1], f, c, state)
    BY <2>3
  <2>5. sent[m + 1][f + 1][c + 1] \in Special /\ h = Code(sent[m + 1][f + 1][c + 1])
    BY <1>1, <1>2, <2>1, <2>4, FieldCharacter
  <2>6. QED  BY <1>2, <2>5 DEF Special, Code
<1>4. TypeOK'
  BY <1>1, <1>2 DEF TypeOK
<1>5. StreamInv'
  <2>1. text' \in Strings /\ (state' = "ORDINAL" => \E i \in 1 .. Len(buf') : buf'[i] \in Special)
    BY <1>1, <1>2 DEF StreamInv
  <2>2. QED  BY <1>1, <1>2, <2>1, StreamKept
<1>6. Canonical' /\ Delivered'
  BY <1>1, <1>2, <1>3, InLineIsCanonical, ForeignDelivers, ReceivedKept
<1>7. origin' = "foreign"
  BY <1>2, <1>3 DEF writerVars
<1>8. QED  BY <1>2, <1>4, <1>5, <1>6, <1>7 DEF CodecInv, AbortsOnlyBehindBackslash

LEMMA BadCastKeepsInv ==
    ASSUME CodecInv, BadCast
    PROVE  CodecInv'
<1>1. TypeOK /\ StreamInv /\ InLine /\ outcome = "reading"
  BY DEF CodecInv, BadCast, LineRead, CutLine, Over
<1>2. Canonical
  BY <1>1, InLineIsCanonical
<1>3. Delivered
  <2>1. CASE text = <<>>
    BY <1>1, <2>1, EndDelivers
  <2>2. CASE text # <<>>
    <3>1. SUFFICES ASSUME origin # "foreign" PROVE FALSE
      BY ForeignDelivers
    <3>2. AtEndOfField(Head(text)) /\ ~Castable(buf)
      BY <2>2 DEF BadCast
    <3>3. PICK m \in 0 .. Len(sent) - 1 : \E f \in 0 .. Len(sent[m + 1]) - 1 :
              Len(fields) = f /\ buf = sent[m + 1][f + 1]
      BY <1>1, <2>2, <3>1, <3>2, FieldEnds
    <3>4. PICK f \in 0 .. Len(sent[m + 1]) - 1 : Len(fields) = f /\ buf = sent[m + 1][f + 1]
      BY <3>3
    <3>5. reader = "unescape" /\ f < 2 /\ buf # Word
      BY <3>2, <3>4 DEF Castable
    <3>6. sent[m + 1] \in Commands
      BY <1>1, <3>1, <3>5, SentFacts DEF SentBy
    <3>7. sent[m + 1][1] = Word /\ sent[m + 1][2] = Word
      BY <3>6, MessageFacts
    <3>8. f = 0 \/ f = 1
      BY <3>5
    <3>9. f + 1 = 1 \/ f + 1 = 2
      BY <3>8
    <3>10. QED  BY <3>4, <3>5, <3>7, <3>9
  <2>3. QED  BY <2>1, <2>2
<1>4. QED  BY <1>1, <1>2, <1>3, StopKeepsInv DEF BadCast

LEMMA EndsInEscapeKeepsInv ==
    ASSUME CodecInv, EndsInEscape
    PROVE  CodecInv'
<1>1. TypeOK /\ StreamInv /\ InLine /\ outcome = "reading"
  BY DEF CodecInv, EndsInEscape, LineRead, CutLine, Over
<1>2. /\ text = <<>> /\ state = "ESCAPE" /\ outcome' = "aborted"
      /\ UNCHANGED <<writerVars, text, state, buf, fields, end, received>>
  BY DEF EndsInEscape
<1>3. Canonical' /\ Delivered'
  BY <1>1, <1>2, InLineIsCanonical, EndDelivers, ReceivedKept
<1>4. origin # "foreign" => origin = "cut"
  <2>1. SUFFICES ASSUME origin # "foreign" PROVE origin # "complete"
    BY <1>1 DEF StreamInv
  <2>2. ~Behind
    BY <1>2 DEF Behind
  <2>3. QED  BY <1>1, <1>2, <2>1, <2>2, NextCharacter
<1>5. Last(arrived) = "BS"
  <2> DEFINE t == Text(received)
             d == Body(fields)
             e == Separator(fields)
             u == Escaped(buf)
             o == One("BS")
  <2>1. t \in Strings /\ d \in Strings /\ e \in Strings /\ u \in Strings /\ o \in Strings
    BY <1>1, CodecTypes, BodyFacts, EscapedFacts, OneFacts, CharFacts
  <2>2. arrived = (t ++ (d ++ (e ++ (u ++ o)))) ++ <<>>
    BY <1>1, <1>2 DEF InLine, OpenLine, Unfinished, Pending
  <2> HIDE DEF t, d, e, u, o
  <2>3. e ++ (u ++ o) = (e ++ u) ++ o /\ e ++ u \in Strings
    BY <2>1, JoinFacts
  <2>4. d ++ ((e ++ u) ++ o) = (d ++ (e ++ u)) ++ o /\ d ++ (e ++ u) \in Strings
    BY <2>1, <2>3, JoinFacts
  <2>5. t ++ ((d ++ (e ++ u)) ++ o) = (t ++ (d ++ (e ++ u))) ++ o /\ t ++ (d ++ (e ++ u)) \in Strings
    BY <2>1, <2>4, JoinFacts
  <2>6. (t ++ (d ++ (e ++ u))) ++ o \in Strings
    BY <2>1, <2>5, JoinFacts
  <2>7. arrived = (t ++ (d ++ (e ++ u))) ++ o
    BY <2>2, <2>3, <2>4, <2>5, <2>6, JoinFacts
  <2>8. QED  BY <2>5, <2>7, AppendJoins, CharFacts DEF o
<1>6. TypeOK'
  BY <1>1, <1>2 DEF TypeOK
<1>7. StreamInv'
  <2>1. text' \in Strings /\ (state' = "ORDINAL" => \E i \in 1 .. Len(buf') : buf'[i] \in Special)
    BY <1>1, <1>2 DEF StreamInv
  <2>2. QED  BY <1>1, <1>2, <2>1, StreamKept
<1>8. AbortsOnlyBehindBackslash'
  BY <1>2, <1>4, <1>5 DEF AbortsOnlyBehindBackslash, writerVars
<1>9. QED  BY <1>2, <1>3, <1>6, <1>7, <1>8 DEF CodecInv

LEMMA ArchiveEOFKeepsInv ==
    ASSUME CodecInv, ArchiveEOF
    PROVE  CodecInv'
<1>1. TypeOK /\ StreamInv /\ (InLine \/ Over) /\ outcome = "reading" /\ text = <<>>
  BY DEF CodecInv, ArchiveEOF, LineRead, CutLine
<1>2. Canonical /\ Delivered
  <2>1. CASE InLine
    BY <1>1, <2>1, InLineIsCanonical, EndDelivers
  <2>2. CASE Over
    BY <2>2 DEF Over
  <2>3. QED  BY <1>1, <2>1, <2>2
<1>3. QED  BY <1>1, <1>2, StopKeepsInv DEF ArchiveEOF

\* A line that ends with the stream has the text that has arrived.
LEMMA CutText ==
    ASSUME TypeOK, StreamInv, InLine, text = <<>>, state # "ESCAPE"
    PROVE  Text(received) ++ Line(Append(fields, buf)) = Append(arrived, "NL")
<1> DEFINE t == Text(received)
           o == OpenLine(fields, buf, state)
           n == One("NL")
           a == arrived
<1>1. t \in Strings /\ o \in Strings /\ n \in Strings /\ a \in Strings
  BY CodecTypes, OneFacts, CharFacts
<1>2. Line(Append(fields, buf)) = o ++ n
  BY CodecTypes, OpenLineEnds
<1>3. a = (t ++ o) ++ <<>>
  BY DEF InLine
<1>4. Append(a, "NL") = a ++ n
  BY <1>1, CharFacts, AppendJoins
<1> HIDE DEF t, o, n, a
<1>5. a = t ++ o
  BY <1>1, <1>3, JoinFacts
<1>6. (t ++ o) ++ n = t ++ (o ++ n)
  BY <1>1, JoinFacts
<1>7. QED  BY <1>2, <1>4, <1>5, <1>6 DEF t, a

LEMMA CutIsCanonical ==
    ASSUME TypeOK, StreamInv, CutLine
    PROVE  Canonical
<1>1. /\ Text(received) \in Strings /\ Line(fields) \in Strings /\ Body(fields) \in Strings
      /\ One("SP") \in Strings
  BY CodecTypes, BodyFacts, OneFacts, CharFacts
<1>2. CASE Text(received) ++ Line(fields) = Append(arrived, "NL")
  <2>1. IsPrefix(Text(received), Text(received) ++ Line(fields))
    BY <1>1, PrefixFacts
  <2>2. QED  BY <1>2, <2>1 DEF Canonical
<1>3. CASE arrived = (Text(received) ++ Body(fields)) ++ One("SP")
  <2>1. arrived = Text(received) ++ (Body(fields) ++ One("SP")) /\ Body(fields) ++ One("SP") \in Strings
    BY <1>1, <1>3, JoinFacts
  <2>2. QED  BY <2>1, FrontIsCanonical
<1>4. QED  BY <1>2, <1>3 DEF CutLine

LEMMA CutDelivers ==
    ASSUME CutLine
    PROVE  Delivered
BY DEF CutLine, Delivered

LEMMA FrontIsPrefix ==
    ASSUME NEW S, NEW s \in Seq(S), NEW n \in 0 .. Len(s)
    PROVE  IsPrefix(SubSeq(s, 1, n), s)
<1>1. SubSeq(s, 1, n) \in Seq(S) /\ Len(SubSeq(s, 1, n)) = n /\ Len(s) \in Nat
  BY FrontType, LenProperties
<1>2. SubSeq(SubSeq(s, 1, n), 1, n) = SubSeq(s, 1, n)
  BY <1>1, SubSeqFull
<1>3. QED  BY <1>1, <1>2 DEF IsPrefix

LEMMA ArchiveCutKeepsInv ==
    ASSUME CodecInv, ArchiveCut
    PROVE  CodecInv'
<1>1. TypeOK /\ StreamInv /\ InLine /\ outcome = "reading"
  BY DEF CodecInv, ArchiveCut, LineRead, CutLine, Over
<1>2. /\ UNCHANGED <<reader, sent, arrived, origin, text, received, outcome>> /\ UNCHANGED writerVars
      /\ reader = "unescape" /\ text = <<>> /\ state = "ORDINAL" /\ Castable(buf)
      /\ fields' = Append(fields, buf) /\ buf' = <<>> /\ state' = "INIT" /\ end' = TRUE
  BY DEF ArchiveCut, Reset, writerVars
<1>3. buf \in Strings /\ fields \in Seq(Strings) /\ received \in Seq(Seq(Strings)) /\ buf' \in Strings
  BY <1>1, <1>2, CodecTypes, JoinFacts
<1>4. fields' \in Seq(Strings) /\ fields' # <<>> /\ Len(fields') = Len(fields) + 1 /\ Len(fields) \in Nat
  BY <1>2, <1>3, AppendProperties, LenProperties
<1>5. TypeOK'
  BY <1>1, <1>2, <1>3, <1>4 DEF TypeOK, Strings
<1>6. StreamInv'
  <2>1. text' \in Strings
    BY <1>1, <1>2 DEF StreamInv
  <2>2. QED  BY <1>1, <1>2, <2>1, StreamKept
<1>7. Text(received) ++ Line(fields') = Append(arrived, "NL")
  BY <1>1, <1>2, CutText
<1>8. PICK i \in 1 .. Len(buf) : buf[i] \in Special
  BY <1>1, <1>2 DEF StreamInv
<1>9. Len(fields) >= 2
  <2>1. buf # Word
    BY <1>8, MessageFacts
  <2>2. QED  BY <1>2, <1>4, <2>1 DEF Castable
<1>10. ASSUME origin # "foreign"
       PROVE  /\ origin = "cut"
              /\ \E m \in 0 .. Len(sent) - 1 : received = SubSeq(sent, 1, m) /\ Truncated(fields', sent[m + 1])
  <2>1. ~Behind
    BY <1>2 DEF Behind
  <2>2. PICK m \in 0 .. Len(sent) - 1 : \E f \in 0 .. Len(sent[m + 1]) - 1 :
            \E c \in 0 .. Len(sent[m + 1][f + 1]) : Within(m, f, c) /\ origin # "complete"
    BY <1>1, <1>2, <1>10, <2>1, NextCharacter
  <2>3. PICK f \in 0 .. Len(sent[m + 1]) - 1 :
            \E c \in 0 .. Len(sent[m + 1][f + 1]) : Within(m, f, c) /\ origin # "complete"
    BY <2>2
  <2>4. PICK c \in 0 .. Len(sent[m + 1][f + 1]) : Within(m, f, c) /\ origin # "complete"
    BY <2>3
  <2>5. origin = "cut"
    BY <1>1, <1>10, <2>4 DEF StreamInv
  <2>6. PICK s, b : s = sent[m + 1] /\ b = s[f + 1]
    OBVIOUS
  <2>7. s \in Seq(Strings) /\ Len(s) \in Nat /\ b \in Strings /\ f \in 0 .. Len(s) - 1 /\ c \in 0 .. Len(b)
    BY <1>1, <1>10, <2>6, SentFacts, LenProperties
  <2>8. received = SubSeq(sent, 1, m) /\ fields = SubSeq(s, 1, f) /\ buf = SubSeq(b, 1, c)
    BY <2>4, <2>6 DEF Within
  <2>9. Len(fields) = f /\ f >= 2 /\ Len(fields') = f + 1 /\ f + 1 \in 3 .. Len(s)
    <3>1. Len(fields) = f
      BY <2>7, <2>8, NextPrefix
    <3>2. QED  BY <1>4, <1>9, <2>7, <3>1
  <2>10. Front(fields') = SubSeq(s, 1, f) /\ Last(fields') = buf
    BY <1>2, <1>3, <2>8, AppendEnds
  <2>11. IsPrefix(buf, s[f + 1])
    BY <2>6, <2>7, <2>8, FrontIsPrefix DEF Strings
  <2>12. \E k \in DOMAIN buf : buf[k] \in Special
    BY <1>3, <1>8, LenProperties DEF Strings
  <2>13. f + 1 - 1 = f
    BY <2>7
  <2>14. Truncated(fields', s)
    BY <2>9, <2>10, <2>11, <2>12, <2>13 DEF Truncated
  <2>15. QED  BY <2>5, <2>6, <2>8, <2>14
<1>11. CutLine'
  BY <1>2, <1>4, <1>7, <1>10 DEF CutLine, Damaged, Truncated
<1>12. QED  BY <1>1, <1>2, <1>5, <1>6, <1>11 DEF CodecInv, AbortsOnlyBehindBackslash

LEMMA SplitAtEOFKeepsInv ==
    ASSUME CodecInv, SplitAtEOF
    PROVE  CodecInv'
<1>1. TypeOK /\ StreamInv /\ (InLine \/ Over) /\ outcome = "reading"
  BY DEF CodecInv, SplitAtEOF, LineRead, CutLine
<1>2. /\ UNCHANGED <<reader, sent, arrived, origin, text, received, outcome>> /\ UNCHANGED writerVars
      /\ reader = "_split" /\ text = <<>> /\ state # "ESCAPE"
      /\ buf' = <<>> /\ state' = "INIT" /\ end' = TRUE
      /\ buf # <<>> => fields' = Append(fields, buf)
      /\ buf = <<>> => fields' = fields
  BY DEF SplitAtEOF, Reset, writerVars
<1>3. buf \in Strings /\ fields \in Seq(Strings) /\ received \in Seq(Seq(Strings)) /\ buf' \in Strings
  BY <1>1, <1>2, CodecTypes, JoinFacts
<1>4. fields' \in Seq(Strings)
  <2>1. Append(fields, buf) \in Seq(Strings)
    BY <1>3, AppendProperties
  <2>2. QED  BY <1>2, <1>3, <2>1
<1>5. TypeOK'
  BY <1>1, <1>2, <1>3, <1>4 DEF TypeOK, Strings
<1>6. StreamInv'
  <2>1. text' \in Strings
    BY <1>1, <1>2 DEF StreamInv
  <2>2. QED  BY <1>1, <1>2, <2>1, StreamKept
<1>7. CASE Over
  <2>1. Canonical' /\ Delivered'
    BY <1>2, <1>7, ReceivedKept DEF Over
  <2>2. Over'
    BY <1>2, <1>7, <2>1 DEF Over
  <2>3. QED  BY <1>1, <1>2, <1>5, <1>6, <2>2 DEF CodecInv, AbortsOnlyBehindBackslash
<1>8. CASE InLine /\ buf = <<>> /\ fields = <<>>
  <2>1. Canonical' /\ Delivered'
    BY <1>1, <1>2, <1>8, InLineIsCanonical, EndDelivers, ReceivedKept
  <2>2. Over'
    BY <1>2, <1>8, <2>1 DEF Over
  <2>3. QED  BY <1>1, <1>2, <1>5, <1>6, <2>2 DEF CodecInv, AbortsOnlyBehindBackslash
\* Between the two programs the line that the stream ends in was cut.
<1>9. ASSUME InLine, origin # "foreign", ~Behind
      PROVE  /\ origin = "cut"
             /\ \E m \in 0 .. Len(sent) - 1 : \E f \in 0 .. 1 : \E b \in Strings :
                   /\ received = SubSeq(sent, 1, m)
                   /\ fields = SubSeq(sent[m + 1], 1, f) /\ Len(fields) = f
                   /\ sent[m + 1] \in Seq(Strings) /\ Len(sent[m + 1]) = 2
                   /\ b = sent[m + 1][f + 1] /\ IsPrefix(buf, b)
  <2>1. PICK m \in 0 .. Len(sent) - 1 : \E f \in 0 .. Len(sent[m + 1]) - 1 :
            \E c \in 0 .. Len(sent[m + 1][f + 1]) : Within(m, f, c) /\ origin # "complete"
    BY <1>1, <1>2, <1>9, NextCharacter
  <2>2. PICK f \in 0 .. Len(sent[m + 1]) - 1 :
            \E c \in 0 .. Len(sent[m + 1][f + 1]) : Within(m, f, c) /\ origin # "complete"
    BY <2>1
  <2>3. PICK c \in 0 .. Len(sent[m + 1][f + 1]) : Within(m, f, c) /\ origin # "complete"
    BY <2>2
  <2>4. origin = "cut"
    BY <1>1, <1>9, <2>3 DEF StreamInv
  <2>5. sent[m + 1] \in Seq(Strings) /\ Len(sent[m + 1]) = 2
    <3>1. sent[m + 1] \in Results
      BY <1>1, <1>2, <1>9, SentFacts DEF SentBy
    <3>2. QED  BY <3>1, MessageFacts
  <2>6. f \in 0 .. 1 /\ sent[m + 1][f + 1] \in Strings
    BY <1>1, <1>9, <2>5, SentFacts
  <2>7. Len(fields) = f /\ received = SubSeq(sent, 1, m) /\ fields = SubSeq(sent[m + 1], 1, f)
    BY <2>3, <2>5, NextPrefix DEF Within
  <2>8. IsPrefix(buf, sent[m + 1][f + 1])
    BY <2>3, <2>6, FrontIsPrefix DEF Within, Strings
  <2>9. QED  BY <2>4, <2>5, <2>6, <2>7, <2>8
<1>10. CASE InLine /\ buf = <<>> /\ fields # <<>>
  <2>1. fields' = fields /\ ~Behind
    BY <1>2, <1>10 DEF Behind
  <2>2. arrived = (Text(received) ++ Body(fields)) ++ One("SP")
    <3> DEFINE t == Text(received)
               d == Body(fields)
               n == One("SP")
    <3>1. t \in Strings /\ d \in Strings /\ n \in Strings
      BY <1>1, <1>3, CodecTypes, BodyFacts, OneFacts, CharFacts
    <3>2. Separator(fields) = n
      BY <1>10 DEF Separator, One
    <3>3. Unfinished(buf, state) = <<>>
      BY <1>2, <1>10, EscapedFacts, JoinFacts DEF Unfinished, Pending
    <3>4. arrived = (t ++ (d ++ (n ++ <<>>))) ++ <<>>
      BY <1>2, <1>10, <3>2, <3>3 DEF InLine, OpenLine
    <3> HIDE DEF t, d, n
    <3>5. n ++ <<>> = n /\ d ++ n \in Strings /\ t ++ (d ++ n) \in Strings
      BY <3>1, JoinFacts
    <3>6. arrived = t ++ (d ++ n)
      BY <3>4, <3>5, JoinFacts
    <3>7. t ++ (d ++ n) = (t ++ d) ++ n
      BY <3>1, JoinFacts
    <3>8. QED  BY <3>6, <3>7 DEF t, d, n
  <2>3. HasArity(fields) => origin = "foreign"
    BY <1>9, <1>10, <2>1 DEF HasArity
  <2>4. CutLine'
    BY <1>2, <1>9, <1>10, <2>1, <2>2, <2>3 DEF CutLine, HasArity
  <2>5. QED  BY <1>1, <1>2, <1>5, <1>6, <2>4 DEF CodecInv, AbortsOnlyBehindBackslash
<1>11. CASE InLine /\ buf # <<>>
  <2>1. /\ fields' = Append(fields, buf) /\ ~Behind /\ fields' # <<>>
        /\ Len(fields') = Len(fields) + 1 /\ fields'[Len(fields) + 1] = buf
        /\ \A i \in 1 .. Len(fields) : fields'[i] = fields[i]
    BY <1>2, <1>3, <1>11, AppendProperties DEF Behind
  <2>2. Text(received) ++ Line(fields') = Append(arrived, "NL")
    BY <1>1, <1>2, <1>11, <2>1, CutText
  <2>3. ASSUME origin # "foreign"
        PROVE  /\ origin = "cut"
               /\ \E m \in 0 .. Len(sent) - 1 :
                    /\ received = SubSeq(sent, 1, m)
                    /\ HasArity(fields') =>
                         /\ Len(fields') = 2 /\ fields'[1] = sent[m + 1][1]
                         /\ fields'[2] # <<>> /\ IsPrefix(fields'[2], sent[m + 1][2])
    <3>1. PICK m \in 0 .. Len(sent) - 1 : \E f \in 0 .. 1 : \E b \in Strings :
                   /\ received = SubSeq(sent, 1, m)
                   /\ fields = SubSeq(sent[m + 1], 1, f) /\ Len(fields) = f
                   /\ sent[m + 1] \in Seq(Strings) /\ Len(sent[m + 1]) = 2
                   /\ b = sent[m + 1][f + 1] /\ IsPrefix(buf, b)
      BY <1>9, <1>11, <2>1, <2>3
    <3>2. PICK f \in 0 .. 1 :
                   /\ received = SubSeq(sent, 1, m)
                   /\ fields = SubSeq(sent[m + 1], 1, f) /\ Len(fields) = f
                   /\ sent[m + 1] \in Seq(Strings) /\ Len(sent[m + 1]) = 2
                   /\ IsPrefix(buf, sent[m + 1][f + 1])
      BY <3>1
    <3>3. ASSUME HasArity(fields')
          PROVE  /\ Len(fields') = 2 /\ fields'[1] = sent[m + 1][1]
                 /\ fields'[2] # <<>> /\ IsPrefix(fields'[2], sent[m + 1][2])
      <4>1. f = 1 /\ Len(fields') = 2
        BY <2>1, <3>2, <3>3 DEF HasArity
      <4>2. fields[1] = sent[m + 1][1]
        <5>1. PICK s : s = sent[m + 1]
          OBVIOUS
        <5>2. s \in Seq(Strings) /\ Len(s) = 2 /\ fields = SubSeq(s, 1, 1)
          BY <3>2, <4>1, <5>1
        <5>3. fields[1] = s[1]
          BY <5>2
        <5>4. QED  BY <5>1, <5>3
      <4>3. fields'[1] = fields[1] /\ fields'[2] = buf
        BY <2>1, <3>2, <4>1
      <4>4. IsPrefix(buf, sent[m + 1][2])
        BY <3>2, <4>1
      <4>5. QED  BY <1>11, <4>1, <4>2, <4>3, <4>4
    <3>4. QED  BY <1>9, <1>11, <2>1, <2>3, <3>2, <3>3
  <2>4. CutLine'
    BY <1>2, <2>1, <2>2, <2>3 DEF CutLine, HasArity, Damaged
  <2>5. QED  BY <1>1, <1>2, <1>5, <1>6, <2>4 DEF CodecInv, AbortsOnlyBehindBackslash
<1>12. QED  BY <1>1, <1>7, <1>8, <1>10, <1>11

\* The next message is one that was sent.
LEMMA DeliverLine ==
    ASSUME TypeOK, StreamInv, LineRead, received' = Append(received, fields),
           fields' = <<>>, end' = FALSE, outcome' = "reading",
           UNCHANGED <<writerVars, text, state, buf>>
    PROVE  TypeOK' /\ StreamInv' /\ InLine'
<1>1. /\ buf = <<>> /\ state = "INIT" /\ buf' = <<>> /\ state' = "INIT"
      /\ UNCHANGED <<reader, sent, arrived, origin>>
  BY DEF TypeOK, LineRead, writerVars
<1>2. fields \in Seq(Strings) /\ received \in Seq(Seq(Strings)) /\ text \in Strings
  BY CodecTypes
<1>3. received' \in Seq(Seq(Strings)) /\ Text(received') = Text(received) ++ Line(fields)
  BY <1>2, AppendProperties, TextFacts
<1>4. InLine'
  <2>1. arrived = (Text(received') ++ OpenLine(<<>>, <<>>, "INIT")) ++ text
    <3>1. Text(received') \in Strings
      BY <1>3, TextFacts
    <3>2. QED  BY <1>3, <3>1, OpenLineEmpty, JoinFacts DEF LineRead
  <2>2. ASSUME origin # "foreign" PROVE Behind' \/ Inside'
    <3>1. PICK m \in 0 .. Len(sent) - 1 : received = SubSeq(sent, 1, m) /\ fields = sent[m + 1]
      BY <2>2 DEF LineRead
    <3>2. sent \in Seq(Seq(Strings)) /\ Len(sent) \in Nat
      BY LenProperties DEF StreamInv
    <3>3. received' = SubSeq(sent, 1, m + 1)
      BY <3>1, <3>2, NextPrefix
    <3>4. CASE m + 1 = Len(sent)
      <4>1. received' = sent
        BY <3>2, <3>3, <3>4, SubSeqFull
      <4>2. QED  BY <1>1, <4>1 DEF Behind
    <3>5. CASE m + 1 # Len(sent)
      <4> DEFINE k == m + 1
      <4>1. k \in 0 .. Len(sent) - 1 /\ received' = SubSeq(sent, 1, k)
        BY <3>2, <3>3, <3>5
      <4> HIDE DEF k
      <4>2. /\ Len(sent[k + 1]) \in Nat \ {0, 1} /\ sent[k + 1] \in Seq(Strings)
            /\ \A f \in 0 .. Len(sent[k + 1]) - 1 : sent[k + 1][f + 1] \in Strings
        BY <2>2, <4>1, SentFacts
      <4>3. 0 \in 0 .. Len(sent[k + 1]) - 1
        BY <4>2
      <4>4. sent[k + 1][0 + 1] \in Strings
        BY <4>2, <4>3
      <4>5. 0 \in 0 .. Len(sent[k + 1][0 + 1])
        BY <4>4, LenProperties DEF Strings
      <4>6. /\ SubSeq(sent[k + 1], 1, 0) = <<>>
            /\ SubSeq(sent[k + 1][0 + 1], 1, 0) = <<>>
        BY SubSeqEmpty
      <4>7. Within(k, 0, 0)'
        BY <1>1, <4>1, <4>6 DEF Within
      <4>8. QED  BY <1>1, <4>1, <4>3, <4>5, <4>7 DEF Inside
    <3>6. QED  BY <3>4, <3>5
  <2>3. QED  BY <1>1, <2>1, <2>2 DEF InLine
<1>5. TypeOK'
  <2>1. <<>> \in Seq(Chars) /\ <<>> \in Seq(Seq(Chars)) /\ received' \in Seq(Seq(Seq(Chars)))
    BY <1>3, EmptySeq DEF Strings
  <2>2. /\ state' = "INIT" /\ buf' = <<>> /\ fields' = <<>> /\ end' = FALSE
        /\ outcome' = "reading"
    BY <1>1
  <2>3. QED  BY <2>1, <2>2 DEF TypeOK
<1>6. StreamInv'
  <2>1. text' \in Strings
    BY <1>2
  <2>2. QED  BY <1>1, <2>1, StreamKept
<1>7. QED  BY <1>4, <1>5, <1>6

\* Or it is what is left of one.
LEMMA DeliverCut ==
    ASSUME TypeOK, StreamInv, CutLine, received' = Append(received, fields),
           fields' = <<>>, end' = FALSE, outcome' = "reading",
           UNCHANGED <<writerVars, text, state, buf>>,
           reader = "unescape" \/ HasArity(fields)
    PROVE  TypeOK' /\ StreamInv' /\ Over'
<1>1. /\ buf = <<>> /\ state = "INIT" /\ buf' = <<>> /\ state' = "INIT" /\ text' = <<>>
      /\ UNCHANGED <<reader, sent, arrived, origin>>
  BY DEF TypeOK, CutLine, writerVars
<1>2. /\ fields \in Seq(Strings) /\ received \in Seq(Seq(Strings)) /\ text \in Strings
      /\ arrived \in Strings /\ sent \in Seq(Seq(Strings))
  BY CodecTypes
<1>3. received' \in Seq(Seq(Strings)) /\ Text(received') = Text(received) ++ Line(fields)
  BY <1>2, AppendProperties, TextFacts
<1>4. Canonical'
  <2>1. CASE Text(received) ++ Line(fields) = Append(arrived, "NL")
    <3>1. Text(received') = Append(arrived, "NL") /\ Text(received') \in Strings
      BY <1>3, <2>1, TextFacts
    <3>2. IsPrefix(Text(received'), Append(arrived, "NL"))
      <4> DEFINE t == Text(received')
      <4>1. t \in Strings /\ t = Append(arrived, "NL")
        BY <3>1
      <4> HIDE DEF t
      <4>2. IsPrefix(t, t ++ <<>>) /\ t ++ <<>> = t
        BY <4>1, JoinFacts, PrefixFacts
      <4>3. QED  BY <4>1, <4>2 DEF t
    <3>3. QED  BY <1>1, <3>2 DEF Canonical
  <2>2. CASE /\ reader = "_split"
             /\ arrived = (Text(received) ++ Body(fields)) ++ One("SP")
             /\ HasArity(fields) => origin = "foreign"
    <3> DEFINE t == Text(received)
               d == Body(fields)
               n == One("NL")
               l == Line(fields)
               a == arrived
    <3>1. t \in Strings /\ d \in Strings /\ n \in Strings /\ l = d ++ n
      BY <1>2, TextFacts, BodyFacts, LineFacts, OneFacts, CharFacts
    <3>2. a = (t ++ d) ++ One("SP")
      BY <2>2
    <3> HIDE DEF t, d, n, l, a
    <3>3. t ++ d \in Strings
      BY <3>1, JoinFacts
    <3>4. Last(a) = "SP" /\ Front(a) = t ++ d
      BY <3>2, <3>3, AppendJoins, CharFacts
    <3>5. t ++ l = (t ++ d) ++ n
      BY <3>1, JoinFacts
    <3>6. (t ++ d) ++ n = Append(t ++ d, "NL")
      BY <3>3, AppendJoins, CharFacts DEF n
    <3>7. Text(received') = Append(Front(arrived), "NL") /\ Last(arrived) = "SP"
      BY <1>3, <3>4, <3>5, <3>6 DEF t, l, a
    <3>8. reader = "_split" /\ origin = "foreign"
      BY <2>2
    <3>9. QED  BY <1>1, <3>7, <3>8 DEF Canonical
  <2>3. QED  BY <2>1, <2>2 DEF CutLine
<1>5. Delivered'
  <2>1. SUFFICES ASSUME origin # "foreign" PROVE Delivered'
    BY <1>1 DEF Delivered
  <2>2. PICK m \in 0 .. Len(sent) - 1 :
            received = SubSeq(sent, 1, m) /\ Damaged(fields, sent[m + 1])
    BY <2>1 DEF CutLine
  <2>3. /\ Len(received) = m /\ Len(received') = m + 1 /\ received'[m + 1] = fields
        /\ SubSeq(received', 1, m) = SubSeq(sent, 1, m)
    <3>1. Len(received) = m
      BY <1>2, <2>2, NextPrefix
    <3>2. Len(received') = m + 1 /\ received'[m + 1] = fields
      BY <1>2, <3>1, AppendProperties
    <3>3. Front(received') = received
      BY <1>2, AppendEnds
    <3>4. m + 1 - 1 = m
      OBVIOUS
    <3>5. QED  BY <2>2, <3>1, <3>2, <3>3, <3>4 DEF Front
  <2>4. Damaged(received[m + 1], sent[m + 1])'
    BY <1>1, <2>2, <2>3 DEF Damaged, Truncated
  <2>5. origin = "cut"
    BY <2>1 DEF CutLine
  <2>6. m \in 0 .. Len(sent') - 1 /\ origin' = "cut" /\ SubSeq(received', 1, m) = SubSeq(sent', 1, m)
    BY <1>1, <2>3, <2>5
  <2>7. QED  BY <2>3, <2>4, <2>6 DEF Delivered
<1>6. Over'
  BY <1>1, <1>4, <1>5 DEF Over
<1>7. TypeOK'
  <2>1. <<>> \in Seq(Chars) /\ <<>> \in Seq(Seq(Chars)) /\ received' \in Seq(Seq(Seq(Chars)))
    BY <1>3, EmptySeq DEF Strings
  <2>2. /\ state' = "INIT" /\ buf' = <<>> /\ fields' = <<>> /\ end' = FALSE
        /\ outcome' = "reading"
    BY <1>1
  <2>3. QED  BY <2>1, <2>2 DEF TypeOK
<1>8. StreamInv'
  <2>1. text' \in Strings
    BY <1>2
  <2>2. QED  BY <1>1, <2>1, StreamKept
<1>9. QED  BY <1>6, <1>7, <1>8

\* Between the two programs a line that ends with a newline is a message.
LEMMA ShortLineIsForeign ==
    ASSUME StreamInv, LineRead,
           IF reader = "unescape" THEN ~ (Len(fields) >= 2) ELSE ~HasArity(fields)
    PROVE  origin = "foreign"
<1>1. SUFFICES ASSUME origin # "foreign" PROVE FALSE
  OBVIOUS
<1>2. PICK m \in 0 .. Len(sent) - 1 : fields = sent[m + 1]
  BY <1>1 DEF LineRead
<1>3. fields \in SentBy
  BY <1>1, <1>2, SentFacts
<1>4. CASE reader = "unescape"
  BY <1>3, <1>4, MessageFacts DEF SentBy
<1>5. CASE reader # "unescape"
  BY <1>3, <1>5, MessageFacts DEF SentBy, HasArity
<1>6. QED  BY <1>4, <1>5

LEMMA RecvCommandKeepsInv ==
    ASSUME CodecInv, RecvCommand
    PROVE  CodecInv'
<1>1. TypeOK /\ StreamInv /\ (LineRead \/ CutLine \/ Over) /\ outcome = "reading"
  BY DEF CodecInv, RecvCommand, InLine
<1>2. /\ reader = "unescape" /\ fields' = <<>> /\ end' = FALSE
      /\ UNCHANGED <<writerVars, text, state, buf>>
  BY DEF RecvCommand
<1>3. CASE Len(fields) >= 2
  <2>1. received' = Append(received, fields) /\ outcome' = "reading"
    BY <1>1, <1>3 DEF RecvCommand
  <2>2. CASE LineRead
    <3>1. TypeOK' /\ StreamInv' /\ InLine'
      BY <1>1, <1>2, <2>1, <2>2, DeliverLine
    <3>2. QED  BY <2>1, <3>1 DEF CodecInv, AbortsOnlyBehindBackslash
  <2>3. CASE CutLine
    <3>1. TypeOK' /\ StreamInv' /\ Over'
      BY <1>1, <1>2, <2>1, <2>3, DeliverCut
    <3>2. QED  BY <2>1, <3>1 DEF CodecInv, AbortsOnlyBehindBackslash
  <2>4. CASE Over
    BY <1>3, <2>4, EmptySeq DEF Over
  <2>5. QED  BY <1>1, <2>2, <2>3, <2>4
<1>4. CASE ~ (Len(fields) >= 2)
  <2>1. outcome' = "eof" /\ UNCHANGED received
    BY <1>4 DEF RecvCommand
  <2>2. Canonical /\ Delivered
    <3>1. CASE LineRead
      BY <1>1, <1>2, <1>4, <3>1, LineReadIsCanonical, ShortLineIsForeign, ForeignDelivers
    <3>2. CASE CutLine
      BY <1>1, <3>2, CutIsCanonical, CutDelivers
    <3>3. CASE Over
      BY <3>3 DEF Over
    <3>4. QED  BY <1>1, <3>1, <3>2, <3>3
  <2>3. QED  BY <1>1, <1>2, <2>1, <2>2, StopKeepsInv
<1>5. QED  BY <1>3, <1>4

LEMMA FromLineKeepsInv ==
    ASSUME CodecInv, FromLine
    PROVE  CodecInv'
<1>1. TypeOK /\ StreamInv /\ (LineRead \/ CutLine \/ Over) /\ outcome = "reading"
  BY DEF CodecInv, FromLine, InLine
<1>2. /\ reader = "_split" /\ fields' = <<>> /\ end' = FALSE
      /\ UNCHANGED <<writerVars, text, state, buf>>
  BY DEF FromLine
<1>3. CASE HasArity(fields)
  <2>1. received' = Append(received, fields) /\ outcome' = "reading"
    BY <1>1, <1>3 DEF FromLine
  <2>2. CASE LineRead
    <3>1. TypeOK' /\ StreamInv' /\ InLine'
      BY <1>1, <1>2, <2>1, <2>2, DeliverLine
    <3>2. QED  BY <2>1, <3>1 DEF CodecInv, AbortsOnlyBehindBackslash
  <2>3. CASE CutLine
    <3>1. TypeOK' /\ StreamInv' /\ Over'
      BY <1>1, <1>2, <1>3, <2>1, <2>3, DeliverCut
    <3>2. QED  BY <2>1, <3>1 DEF CodecInv, AbortsOnlyBehindBackslash
  <2>4. CASE Over
    BY <1>3, <2>4, EmptySeq DEF Over, HasArity
  <2>5. QED  BY <1>1, <2>2, <2>3, <2>4
<1>4. CASE ~HasArity(fields)
  <2>1. outcome' = "failed" /\ UNCHANGED received
    BY <1>4 DEF FromLine
  <2>2. Canonical /\ Delivered
    <3>1. CASE LineRead
      BY <1>1, <1>2, <1>4, <3>1, LineReadIsCanonical, ShortLineIsForeign, ForeignDelivers
    <3>2. CASE CutLine
      BY <1>1, <3>2, CutIsCanonical, CutDelivers
    <3>3. CASE Over
      BY <3>3 DEF Over
    <3>4. QED  BY <1>1, <3>1, <3>2, <3>3
  <2>3. QED  BY <1>1, <1>2, <2>1, <2>2, StopKeepsInv
<1>5. QED  BY <1>3, <1>4

-----------------------------------------------------------------------------
\* CodecInv is an invariant.
LEMMA CodecStep == CodecInv /\ [Next]_vars => CodecInv'
<1> SUFFICES ASSUME CodecInv, [Next]_vars PROVE CodecInv'
  OBVIOUS
<1>1. CASE Character
  BY <1>1, CharacterKeepsInv
<1>2. CASE UnknownEscape
  BY <1>2, UnknownEscapeKeepsInv
<1>3. CASE EndOfField
  BY <1>3, EndOfFieldKeepsInv
<1>4. CASE BadCast
  BY <1>4, BadCastKeepsInv
<1>5. CASE EndsInEscape
  BY <1>5, EndsInEscapeKeepsInv
<1>6. CASE ArchiveEOF
  BY <1>6, ArchiveEOFKeepsInv
<1>7. CASE ArchiveCut
  BY <1>7, ArchiveCutKeepsInv
<1>8. CASE RecvCommand
  BY <1>8, RecvCommandKeepsInv
<1>9. CASE SplitAtEOF
  BY <1>9, SplitAtEOFKeepsInv
<1>10. CASE FromLine
  BY <1>10, FromLineKeepsInv
<1>11. CASE Done \/ UNCHANGED vars
  <2>1. UNCHANGED <<reader, sent, arrived, origin, text, state, buf, fields, end, received, outcome>>
    BY <1>11 DEF Done, vars
  <2>2. Canonical' = Canonical /\ Delivered' = Delivered
    BY <2>1 DEF Canonical, Delivered, Damaged, Truncated
  <2>3. TypeOK' = TypeOK /\ StreamInv' = StreamInv /\ AbortsOnlyBehindBackslash' = AbortsOnlyBehindBackslash
    BY <2>1 DEF TypeOK, StreamInv, SentBy, AbortsOnlyBehindBackslash
  <2>4. InLine' = InLine /\ LineRead' = LineRead /\ CutLine' = CutLine /\ Over' = Over
    BY <2>1, <2>2 DEF InLine, LineRead, CutLine, Over, Behind, Inside, Within, Damaged, Truncated
  <2>5. QED  BY <2>1, <2>2, <2>3, <2>4 DEF CodecInv
<1>12. QED  BY <1>1, <1>2, <1>3, <1>4, <1>5, <1>6, <1>7, <1>8, <1>9, <1>10, <1>11 DEF Next

\* The inductive invariant holds in every behaviour: no character of the stream
\* is lost, repeated or moved to another field by the readers' automata.
THEOREM CodecInvariant == Spec => []CodecInv
<1>1. QED  BY CodecInit, CodecStep, PTL DEF Spec

\* What was received, at any time: messages that were sent, and at the end
\* perhaps one that was cut.
LEMMA ReceivedShape ==
    ASSUME CodecInv, origin # "foreign"
    PROVE  \A i \in DOMAIN received :
               \/ received[i] = sent[i]
               \/ origin = "cut" /\ i = Len(received) /\ Damaged(received[i], sent[i])
<1>1. TypeOK /\ StreamInv /\ sent \in Seq(Seq(Strings)) /\ received \in Seq(Seq(Strings))
  BY CodecTypes DEF CodecInv
<1>2. Len(sent) \in Nat /\ Len(received) \in Nat /\ DOMAIN received = 1 .. Len(received)
  BY <1>1, LenProperties
<1>3. \/ received = sent
      \/ \E m \in 0 .. Len(sent) - 1 : received = SubSeq(sent, 1, m)
      \/ /\ origin = "cut"
         /\ \E m \in 0 .. Len(sent) - 1 :
               /\ Len(received) = m + 1
               /\ SubSeq(received, 1, m) = SubSeq(sent, 1, m)
               /\ Damaged(received[m + 1], sent[m + 1])
  <2>1. CASE InLine
    <3>1. CASE Behind
      BY <3>1 DEF Behind
    <3>2. CASE Inside
      BY <3>2 DEF Inside, Within
    <3>3. QED  BY <2>1, <3>1, <3>2 DEF InLine
  <2>2. CASE LineRead
    BY <2>2 DEF LineRead
  <2>3. CASE CutLine
    BY <2>3 DEF CutLine
  <2>4. CASE Delivered
    BY <2>4 DEF Delivered
  <2>5. QED  BY <2>1, <2>2, <2>3, <2>4 DEF CodecInv, Over
<1>4. CASE received = sent
  BY <1>4
<1>5. ASSUME NEW m \in 0 .. Len(sent) - 1, SubSeq(received, 1, m) = SubSeq(sent, 1, m),
             Len(received) >= m, NEW i \in 1 .. m
      PROVE  received[i] = sent[i]
  <2>1. SubSeq(received, 1, m)[i] = received[i] /\ SubSeq(sent, 1, m)[i] = sent[i]
    BY <1>1, <1>2, <1>5
  <2>2. QED  BY <1>5, <2>1
<1>6. ASSUME NEW m \in 0 .. Len(sent) - 1, received = SubSeq(sent, 1, m)
      PROVE  \A i \in DOMAIN received : received[i] = sent[i]
  <2>1. Len(received) = m
    BY <1>1, <1>6, NextPrefix
  <2>2. SubSeq(received, 1, m) = received
    BY <1>1, <2>1, SubSeqFull
  <2>3. QED  BY <1>2, <1>5, <1>6, <2>1, <2>2
<1>7. ASSUME NEW m \in 0 .. Len(sent) - 1, origin = "cut", Len(received) = m + 1,
             SubSeq(received, 1, m) = SubSeq(sent, 1, m), Damaged(received[m + 1], sent[m + 1])
      PROVE  \A i \in DOMAIN received :
                 received[i] = sent[i] \/ (i = Len(received) /\ Damaged(received[i], sent[i]))
  <2>1. SUFFICES ASSUME NEW i \in 1 .. m + 1
                 PROVE received[i] = sent[i] \/ (i = m + 1 /\ Damaged(received[i], sent[i]))
    BY <1>2, <1>7
  <2>2. CASE i = m + 1
    BY <1>7, <2>2
  <2>3. CASE i # m + 1
    <3>1. i \in 1 .. m /\ Len(received) >= m
      BY <1>7, <2>3
    <3>2. QED  BY <1>5, <1>7, <3>1
  <2>4. QED  BY <2>2, <2>3
<1>8. QED  BY <1>3, <1>4, <1>6, <1>7

\* The automata and archives of both readers keep their state well typed: no
\* character is left in the buffer behind the end of a line.
THEOREM CodecTyped == Spec => []TypeOK
<1>1. CodecInv => TypeOK
  BY DEF CodecInv
<1>2. QED  BY <1>1, CodecInvariant, PTL

\* What one side writes with its escapes, the other side's automaton reads: the
\* same messages in the same order, whatever the fields hold.
THEOREM CodecRoundTrip == Spec => []RoundTrip
<1>1. CodecInv => RoundTrip
  BY DEF CodecInv, RoundTrip, Delivered
<1>2. QED  BY <1>1, CodecInvariant, PTL

\* Of whatever stream, the messages the readers deliver are, when they are
\* written again, the text that has arrived.
THEOREM CodecCanonical == Spec => []Canonical
<1>1. CodecInv => Canonical
  <2>1. SUFFICES ASSUME CodecInv PROVE Canonical
    OBVIOUS
  <2>2. TypeOK /\ StreamInv /\ (InLine \/ LineRead \/ CutLine \/ Canonical)
    BY <2>1 DEF CodecInv, Over
  <2>3. QED  BY <2>2, InLineIsCanonical, LineReadIsCanonical, CutIsCanonical
<1>2. QED  BY <1>1, CodecInvariant, PTL

\* A command is executed as it was sent; of a stream that was cut the last one
\* may have lost its end, behind a special character.
THEOREM CodecCutCommand == Spec => []CutCommandIsSpecial
<1>1. CodecInv => CutCommandIsSpecial
  BY ReceivedShape DEF CutCommandIsSpecial, Damaged
<1>2. QED  BY <1>1, CodecInvariant, PTL

\* A result has the status that was sent, and of a stream that was cut perhaps
\* only the beginning of its data.
THEOREM CodecCutResult == Spec => []CutResultKeepsStatus
<1>1. CodecInv => CutResultKeepsStatus
  <2>1. SUFFICES ASSUME CodecInv, reader = "_split", origin # "foreign", NEW i \in DOMAIN received
                 PROVE  \/ received[i] = sent[i]
                        \/ /\ origin = "cut" /\ i = Len(received) /\ Len(received[i]) = 2
                           /\ received[i][1] = sent[i][1]
                           /\ received[i][2] # <<>> /\ IsPrefix(received[i][2], sent[i][2])
    BY DEF CutResultKeepsStatus
  <2>2. QED  BY <2>1, ReceivedShape DEF Damaged
<1>2. QED  BY <1>1, CodecInvariant, PTL

\* Between the two programs the assertions of the readers only fail on a stream
\* that was cut behind a backslash.
THEOREM CodecAborts == Spec => []AbortsOnlyBehindBackslash
<1>1. CodecInv => AbortsOnlyBehindBackslash
  BY DEF CodecInv
<1>2. QED  BY <1>1, CodecInvariant, PTL

=============================================================================
