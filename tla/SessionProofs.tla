--------------------------- MODULE SessionProofs ---------------------------
(***************************************************************************)
(* Results belong to their ENDs, judge and broker do not wait for each     *)
(* other, and the session is a queue of calls: for any capacities of the   *)
(* pipes, and any number of commands and of ENDs on the way.               *)
(***************************************************************************)
EXTENDS Session, SequenceTheorems, TLAPS

-----------------------------------------------------------------------------
\* Moving lines from one buffer to the next.

LEMMA MoveSome ==
    ASSUME NEW S, NEW q \in Seq(S), NEW k \in 1 .. Len(q)
    PROVE  /\ SubSeq(q, 1, k) \in Seq(S) /\ SubSeq(q, k + 1, Len(q)) \in Seq(S)
           /\ SubSeq(q, 1, k) \o SubSeq(q, k + 1, Len(q)) = q
           /\ Len(SubSeq(q, k + 1, Len(q))) <= Len(q)
<1>1. Len(q) \in Nat /\ \A i \in 1 .. Len(q) : q[i] \in S
  BY ElementOfSeq, LenProperties
<1>2. SubSeq(q, 1, k) \in Seq(S)
  BY <1>1, SubSeqProperties
<1>3. /\ SubSeq(q, k + 1, Len(q)) \in Seq(S)
      /\ Len(SubSeq(q, k + 1, Len(q))) <= Len(q)
  BY <1>1, SubSeqProperties
<1>4. /\ 1 \in 1 .. Len(q) + 1
      /\ k \in 1 - 1 .. Len(q)
      /\ Len(q) \in k .. Len(q)
  BY <1>1
<1>5. SubSeq(q, 1, k) \o SubSeq(q, k + 1, Len(q)) = SubSeq(q, 1, Len(q))
  BY <1>4, ConcatAdjacentSubSeq, Zenon
<1>6. QED  BY <1>2, <1>3, <1>5, SubSeqFull, Zenon

LEMMA MoveOne ==
    ASSUME NEW S, NEW p \in Seq(S), NEW q \in Seq(S), q # <<>>
    PROVE  /\ Append(p, Head(q)) \o Tail(q) = p \o q
           /\ <<Head(q)>> \o Tail(q) = q
<1>1. Head(q) \in S /\ Tail(q) \in Seq(S) /\ <<Head(q)>> \in Seq(S)
  BY HeadTailProperties
<1>2. Append(p, Head(q)) = p \o <<Head(q)>>
  BY <1>1, AppendIsConcat
<1>3. <<Head(q)>> \o Tail(q) = q
  OBVIOUS
<1>4. (p \o <<Head(q)>>) \o Tail(q) = p \o (<<Head(q)>> \o Tail(q))
  BY <1>1, ConcatAssociative
<1>5. QED  BY <1>2, <1>3, <1>4, Zenon

\* The first line of two buffers is the first line of the first that has one.
LEMMA FirstOfTwo ==
    ASSUME NEW S, NEW p \in Seq(S), NEW q \in Seq(S), p # <<>>
    PROVE  /\ p \o q # <<>>
           /\ Head(p \o q) = Head(p) /\ Tail(p \o q) = Tail(p) \o q
<1>1. Head(p) \in S /\ Tail(p) \in Seq(S) /\ <<Head(p)>> \in Seq(S)
  BY HeadTailProperties
<1>2. <<Head(p)>> \o Tail(p) = p
  BY MoveOne, Zenon
<1>3. p \o q = <<Head(p)>> \o (Tail(p) \o q)
  BY <1>1, <1>2, ConcatAssociative
<1>4. Tail(p) \o q \in Seq(S)
  BY <1>1, ConcatProperties
<1>5. \A e \in S, r \in Seq(S) : /\ <<e>> \o r # <<>>
                                /\ Head(<<e>> \o r) = e /\ Tail(<<e>> \o r) = r
  OBVIOUS
<1>6. QED  BY <1>1, <1>3, <1>4, <1>5

LEMMA AppendToSecond ==
    ASSUME NEW S, NEW p \in Seq(S), NEW q \in Seq(S), NEW e \in S
    PROVE  p \o Append(q, e) = Append(p \o q, e)
<1>1. <<e>> \in Seq(S) /\ p \o q \in Seq(S)
  BY ConcatProperties
<1>2. Append(q, e) = q \o <<e>> /\ Append(p \o q, e) = (p \o q) \o <<e>>
  BY <1>1, AppendIsConcat
<1>3. QED  BY <1>1, <1>2, ConcatAssociative

\* Losing the second of two buffers leaves a front of the two.
LEMMA LoseSecond ==
    ASSUME NEW S, NEW p \in Seq(S), NEW q \in Seq(S)
    PROVE  /\ Len(p) \in 0 .. Len(p \o q) /\ p = SubSeq(p \o q, 1, Len(p))
           /\ 0 \in 0 .. Len(p \o q) /\ <<>> = SubSeq(p \o q, 1, 0)
<1> DEFINE r == p \o q
<1>1. /\ r \in Seq(S) /\ Len(r) = Len(p) + Len(q)
      /\ \A i \in 1 .. Len(p) : r[i] = p[i]
      /\ Len(p) \in Nat /\ Len(q) \in Nat
  BY ConcatProperties, LenProperties
<1> HIDE DEF r
<1>2. \A i \in 1 .. Len(p) : r[i] \in S
  BY <1>1, ElementOfSeq
<1> DEFINE t == SubSeq(r, 1, Len(p))
<1>3. /\ t \in Seq(S) /\ Len(t) = Len(p)
      /\ \A i \in 1 .. Len(p) : t[i] = r[i]
  BY <1>1, <1>2, SubSeqProperties
<1> HIDE DEF t
<1>4. p = t
  BY <1>1, <1>3, SeqEqual
<1>5. SubSeq(r, 1, 0) = <<>>
  BY SubSeqEmpty
<1>6. QED  BY <1>1, <1>4, <1>5 DEF r, t

-----------------------------------------------------------------------------
(***************************************************************************)
(* The ENDs without result are p, the results on their way to the judge a, *)
(* the commands on their way to the broker, and in it, f, and n commands   *)
(* were printed.  Results have no number of their own, so that they fit is *)
(* a matter of counting: they are the first of the ENDs in p (Agree), and  *)
(* the ENDs in f are the other ones (Outstanding).                         *)
(***************************************************************************)
Agree(p, a) == Len(a) <= Len(p) /\ \A i \in 1 .. Len(a) : a[i] = p[i]

Rising(p, n) ==
    /\ \A i \in 1 .. Len(p) : p[i] <= n
    /\ \A i, j \in 1 .. Len(p) : i < j => p[i] < p[j]

Outstanding(p, a, f, n) ==
    /\ \A j \in 1 .. Len(f) : f[j].n = n - Len(f) + j
    /\ \A j \in 1 .. Len(f) :
         f[j].type = "END" <=> \E i \in Len(a) + 1 .. Len(p) : p[i] = f[j].n
    /\ \A i \in Len(a) + 1 .. Len(p) : p[i] > n - Len(f)

\* A command is printed.
LEMMA OneMorePending ==
    ASSUME NEW p \in Seq(Nat), NEW a \in Seq(Nat), NEW n \in Nat, Agree(p, a), Rising(p, n)
    PROVE  /\ Agree(p, a) /\ Rising(p, n + 1)
           /\ Agree(Append(p, n + 1), a) /\ Rising(Append(p, n + 1), n + 1)
<1> DEFINE q == Append(p, n + 1)
<1>1. Len(p) \in Nat /\ Len(a) \in Nat /\ Len(a) <= Len(p)
  BY LenProperties DEF Agree
<1>2. \A i \in 1 .. Len(p) : p[i] \in Nat
  BY ElementOfSeq
<1>3. /\ Len(q) = Len(p) + 1 /\ q[Len(p) + 1] = n + 1
      /\ \A i \in 1 .. Len(p) : q[i] = p[i]
  BY AppendProperties
<1> HIDE DEF q
<1>4. Agree(q, a)
  BY <1>1, <1>3 DEF Agree
<1>5. Rising(p, n + 1)
  BY <1>1, <1>2 DEF Rising
<1>6. Rising(q, n + 1)
  <2>1. ASSUME NEW i \in 1 .. Len(q) PROVE q[i] <= n + 1
    <3>1. CASE i = Len(p) + 1
      BY <1>3, <3>1
    <3>2. CASE i \in 1 .. Len(p)
      BY <1>3, <1>5, <3>2 DEF Rising
    <3>3. QED  BY <1>1, <1>3, <3>1, <3>2
  <2>2. ASSUME NEW i \in 1 .. Len(q), NEW j \in 1 .. Len(q), i < j PROVE q[i] < q[j]
    <3>1. i \in 1 .. Len(p) /\ q[i] = p[i] /\ p[i] \in Nat /\ p[i] <= n
      BY <1>1, <1>2, <1>3, <2>2 DEF Rising
    <3>2. CASE j = Len(p) + 1
      BY <1>3, <3>1, <3>2
    <3>3. CASE j \in 1 .. Len(p)
      BY <1>3, <2>2, <3>1, <3>3 DEF Rising
    <3>4. QED  BY <1>1, <1>3, <3>2, <3>3
  <2>3. QED  BY <2>1, <2>2 DEF Rising
<1>7. QED  BY <1>4, <1>5, <1>6 DEF q

LEMMA OneMoreCommand ==
    ASSUME NEW p \in Seq(Nat), NEW a \in Seq(Nat), NEW f \in Seq(Command), NEW n \in Nat,
           NEW c \in Command, c.n = n + 1, Agree(p, a), Rising(p, n), Outstanding(p, a, f, n),
           NEW q, q = IF c.type = "END" THEN Append(p, n + 1) ELSE p
    PROVE  Outstanding(q, a, Append(f, c), n + 1)
<1> DEFINE g == Append(f, c)
<1>1. /\ g \in Seq(Command) /\ Len(g) = Len(f) + 1 /\ g[Len(f) + 1] = c
      /\ \A j \in 1 .. Len(f) : g[j] = f[j]
  BY AppendProperties
<1>2. Len(p) \in Nat /\ Len(a) \in Nat /\ Len(f) \in Nat /\ Len(a) <= Len(p)
  BY LenProperties DEF Agree
<1>3. \A i \in 1 .. Len(p) : p[i] \in Nat
  BY ElementOfSeq
<1> HIDE DEF g
<1>4. ASSUME NEW j \in 1 .. Len(g) PROVE g[j].n = (n + 1) - Len(g) + j
  <2>1. CASE j = Len(f) + 1
    <3>1. g[j].n = n + 1
      BY <1>1, <2>1
    <3>2. QED  BY <1>1, <1>2, <2>1, <3>1
  <2>2. CASE j \in 1 .. Len(f)
    <3>1. g[j].n = n - Len(f) + j
      BY <1>1, <2>2 DEF Outstanding
    <3>2. QED  BY <1>1, <1>2, <2>2, <3>1
  <2>3. QED  BY <1>1, <1>2, <2>1, <2>2
<1>5. CASE c.type = "END"
  <2>1. /\ Len(q) = Len(p) + 1 /\ q[Len(p) + 1] = n + 1
        /\ \A i \in 1 .. Len(p) : q[i] = p[i]
    BY <1>5, AppendProperties
  <2>4. \A i \in Len(a) + 1 .. Len(q) : q[i] > (n + 1) - Len(g)
    BY <1>1, <1>2, <1>3, <2>1 DEF Outstanding
  <2>5. ASSUME NEW j \in 1 .. Len(g)
        PROVE  g[j].type = "END" <=> \E i \in Len(a) + 1 .. Len(q) : q[i] = g[j].n
    <3>0. j = Len(f) + 1 \/ j \in 1 .. Len(f)
      BY <1>1, <1>2
    <3>1. CASE j = Len(f) + 1
      <4>1. g[j].type = "END" /\ g[j].n = n + 1
        BY <1>1, <1>5, <3>1
      <4>2. Len(p) + 1 \in Len(a) + 1 .. Len(q)
        BY <1>2, <2>1
      <4>3. QED  BY <2>1, <4>1, <4>2
    <3>2. CASE j \in 1 .. Len(f)
      <4>1. g[j] = f[j] /\ f[j].n # n + 1
        <5>1. f[j].n = n - Len(f) + j
          BY <3>2 DEF Outstanding
        <5>2. QED  BY <1>1, <1>2, <3>2, <5>1
      <4>2. f[j].type = "END" <=> \E i \in Len(a) + 1 .. Len(p) : p[i] = f[j].n
        BY <3>2 DEF Outstanding
      <4>3. (\E i \in Len(a) + 1 .. Len(p) : p[i] = f[j].n)
                <=> \E i \in Len(a) + 1 .. Len(q) : q[i] = f[j].n
        <5>1. ASSUME NEW i \in Len(a) + 1 .. Len(p), p[i] = f[j].n
              PROVE  i \in Len(a) + 1 .. Len(q) /\ q[i] = f[j].n
          BY <1>2, <2>1, <5>1, SMTT(30)
        <5>2. ASSUME NEW i \in Len(a) + 1 .. Len(q), q[i] = f[j].n
              PROVE  i \in Len(a) + 1 .. Len(p) /\ p[i] = f[j].n
          <6>1. i # Len(p) + 1
            BY <2>1, <4>1, <5>2
          <6>2. i \in Len(a) + 1 .. Len(p)
            BY <1>2, <2>1, <6>1
          <6>3. QED  BY <1>2, <2>1, <5>2, <6>2
        <5>3. QED  BY <5>1, <5>2
      <4>4. QED  BY <4>1, <4>2, <4>3
    <3>3. QED  BY <3>0, <3>1, <3>2, Zenon
  <2>6. QED  BY <1>4, <2>4, <2>5 DEF Outstanding, g
<1>6. CASE c.type # "END"
  <2>1. q = p
    BY <1>6
  <2>3. \A i \in Len(a) + 1 .. Len(q) : q[i] > (n + 1) - Len(g)
    BY <1>1, <1>2, <1>3, <2>1 DEF Outstanding
  <2>4. ASSUME NEW j \in 1 .. Len(g)
        PROVE  g[j].type = "END" <=> \E i \in Len(a) + 1 .. Len(q) : q[i] = g[j].n
    <3>0. j = Len(f) + 1 \/ j \in 1 .. Len(f)
      BY <1>1, <1>2
    <3>1. CASE j = Len(f) + 1
      <4>1. \A i \in Len(a) + 1 .. Len(p) : p[i] # n + 1
        BY <1>2, <1>3 DEF Rising
      <4>2. QED  BY <1>1, <1>6, <2>1, <3>1, <4>1
    <3>2. CASE j \in 1 .. Len(f)
      BY <1>1, <2>1, <3>2 DEF Outstanding
    <3>3. QED  BY <3>0, <3>1, <3>2, Zenon
  <2>5. QED  BY <1>4, <2>3, <2>4 DEF Outstanding, g
<1>7. QED  BY <1>5, <1>6

\* The broker has done with its command: an END is answered, nothing else is.
LEMMA OneCommandLess ==
    ASSUME NEW p \in Seq(Nat), NEW a \in Seq(Nat), NEW f \in Seq(Command), NEW n \in Nat,
           f # <<>>, Agree(p, a), Rising(p, n), Outstanding(p, a, f, n),
           NEW b, b = IF Head(f).type = "END" THEN Append(a, Head(f).n) ELSE a
    PROVE  Agree(p, b) /\ Outstanding(p, b, Tail(f), n)
<1> DEFINE g == Tail(f)
<1>1. /\ Head(f) = f[1] /\ Len(f) \in Nat /\ Len(f) >= 1
      /\ g \in Seq(Command) /\ Len(g) = Len(f) - 1
      /\ \A j \in 1 .. Len(g) : g[j] = f[j + 1]
  BY HeadTailProperties, EmptySeq
<1>2. Len(p) \in Nat /\ Len(a) \in Nat /\ Len(a) <= Len(p)
  BY LenProperties DEF Agree
<1>3. \A i \in 1 .. Len(p) : p[i] \in Nat
  BY ElementOfSeq
<1>4. f[1].n = n - Len(f) + 1 /\ f[1].n \in Nat
  <2>1. f[1] \in Command
    BY <1>1, ElementOfSeq
  <2>2. 1 \in 1 .. Len(f)
    BY <1>1
  <2>3. QED  BY <2>1, <2>2, SessionAssumption DEF Outstanding, Command
<1> HIDE DEF g
<1>5. ASSUME NEW j \in 1 .. Len(g) PROVE g[j].n = n - Len(g) + j
  <2>1. g[j] = f[j + 1] /\ j + 1 \in 1 .. Len(f)
    BY <1>1
  <2>2. f[j + 1].n = n - Len(f) + (j + 1)
    BY <2>1 DEF Outstanding
  <2>3. QED  BY <1>1, <2>1, <2>2
<1>6. CASE f[1].type = "END"
  <2>1. /\ Len(b) = Len(a) + 1 /\ b[Len(a) + 1] = f[1].n
        /\ \A i \in 1 .. Len(a) : b[i] = a[i]
    BY <1>1, <1>4, <1>6, AppendProperties
  <2>2. PICK i \in Len(a) + 1 .. Len(p) : p[i] = f[1].n
    BY <1>1, <1>6 DEF Outstanding
  <2>3. i = Len(a) + 1
    <3>1. SUFFICES ASSUME i > Len(a) + 1 PROVE FALSE
      BY <1>2
    <3>2. p[Len(a) + 1] < p[i]
      <4>1. i \in 1 .. Len(p) /\ Len(a) + 1 \in 1 .. Len(p)
        BY <1>2, <2>2, <3>1
      <4>2. QED  BY <3>1, <4>1 DEF Rising
    <3>3. p[Len(a) + 1] > n - Len(f)
      <4>1. Len(a) + 1 \in Len(a) + 1 .. Len(p)
        BY <1>2, <2>2
      <4>2. QED  BY <4>1, Zenon DEF Outstanding
    <3>4. p[Len(a) + 1] \in Nat /\ p[i] \in Nat
      BY <1>2, <1>3, <2>2
    <3>5. QED  BY <1>1, <1>4, <2>2, <3>2, <3>3, <3>4, SMTT(30)
  <2>4. Agree(p, b)
    BY <1>2, <2>1, <2>2, <2>3 DEF Agree
  <2>5. \A k \in Len(b) + 1 .. Len(p) : p[k] > n - Len(g)
    <3>1. SUFFICES ASSUME NEW k \in Len(b) + 1 .. Len(p) PROVE p[k] > n - Len(g)
      OBVIOUS
    <3>2. p[i] < p[k]
      BY <1>2, <2>1, <2>2, <2>3 DEF Rising
    <3>3. p[k] \in Nat
      BY <1>2, <1>3, <2>1
    <3>4. QED  BY <1>1, <1>4, <2>2, <3>2, <3>3
  <2>6. ASSUME NEW j \in 1 .. Len(g)
        PROVE  g[j].type = "END" <=> \E k \in Len(b) + 1 .. Len(p) : p[k] = g[j].n
    <3>1. g[j] = f[j + 1] /\ j + 1 \in 1 .. Len(f) /\ f[j + 1].n # f[1].n
      <4>1. g[j] = f[j + 1] /\ j + 1 \in 1 .. Len(f)
        BY <1>1
      <4>2. f[j + 1].n = n - Len(f) + (j + 1)
        BY <4>1 DEF Outstanding
      <4>3. QED  BY <1>1, <1>4, <4>1, <4>2
    <3>2. f[j + 1].type = "END" <=> \E k \in Len(a) + 1 .. Len(p) : p[k] = f[j + 1].n
      BY <3>1 DEF Outstanding
    <3>3. (\E k \in Len(a) + 1 .. Len(p) : p[k] = f[j + 1].n)
              <=> \E k \in Len(b) + 1 .. Len(p) : p[k] = f[j + 1].n
      <4>1. ASSUME NEW k \in Len(a) + 1 .. Len(p), p[k] = f[j + 1].n
            PROVE  k \in Len(b) + 1 .. Len(p)
        <5>1. k # Len(a) + 1
          BY <2>2, <2>3, <3>1, <4>1
        <5>2. QED  BY <1>2, <2>1, <5>1
      <4>2. \A k \in Len(b) + 1 .. Len(p) : k \in Len(a) + 1 .. Len(p)
        BY <1>2, <2>1
      <4>3. QED  BY <4>1, <4>2
    <3>4. QED  BY <3>1, <3>2, <3>3
  <2>7. QED  BY <1>5, <2>4, <2>5, <2>6 DEF Outstanding, g
<1>7. CASE f[1].type # "END"
  <2>1. b = a
    BY <1>1, <1>7
  <2>2. \A k \in Len(a) + 1 .. Len(p) : p[k] # f[1].n
    BY <1>1, <1>7, SMTT(30) DEF Outstanding
  <2>3. \A k \in Len(a) + 1 .. Len(p) : p[k] > n - Len(g)
    <3>1. SUFFICES ASSUME NEW k \in Len(a) + 1 .. Len(p) PROVE p[k] > n - Len(g)
      OBVIOUS
    <3>2. p[k] > n - Len(f) /\ p[k] # n - Len(f) + 1
      BY <1>4, <2>2 DEF Outstanding
    <3>3. p[k] \in Nat
      BY <1>2, <1>3
    <3>4. \A x, y, z, w \in Int : x > y - z /\ x # y - z + 1 /\ w = z - 1 => x > y - w
      OBVIOUS
    <3>5. p[k] \in Int /\ n \in Int /\ Len(f) \in Int /\ Len(g) \in Int /\ Len(g) = Len(f) - 1
      BY <1>1, <3>3
    <3>6. QED  BY <3>2, <3>4, <3>5, Zenon
  <2>4. ASSUME NEW j \in 1 .. Len(g)
        PROVE  g[j].type = "END" <=> \E k \in Len(b) + 1 .. Len(p) : p[k] = g[j].n
    <3>1. g[j] = f[j + 1] /\ j + 1 \in 1 .. Len(f)
      BY <1>1
    <3>2. QED  BY <2>1, <3>1 DEF Outstanding
  <2>5. QED  BY <1>5, <2>1, <2>3, <2>4 DEF Outstanding, g
<1>8. QED  BY <1>6, <1>7

\* The judge reads a result: that of its oldest END.
LEMMA OneResultLess ==
    ASSUME NEW p \in Seq(Nat), NEW a \in Seq(Nat), NEW f, NEW n \in Nat,
           a # <<>>, Agree(p, a), Rising(p, n)
    PROVE  /\ p # <<>> /\ Head(a) = Head(p)
           /\ Agree(Tail(p), Tail(a)) /\ Rising(Tail(p), n)
           /\ Outstanding(p, a, f, n) => Outstanding(Tail(p), Tail(a), f, n)
<1>1. Len(a) \in Nat /\ Len(a) >= 1 /\ Len(p) \in Nat /\ Len(p) >= Len(a)
  BY EmptySeq, LenProperties DEF Agree
<1>2. p # <<>>
  BY <1>1
<1>3. /\ Head(a) = a[1] /\ Head(p) = p[1]
      /\ Len(Tail(a)) = Len(a) - 1 /\ Len(Tail(p)) = Len(p) - 1
      /\ \A i \in 1 .. Len(Tail(a)) : Tail(a)[i] = a[i + 1]
      /\ \A i \in 1 .. Len(Tail(p)) : Tail(p)[i] = p[i + 1]
  BY <1>2, HeadTailProperties
<1> DEFINE q == Tail(p)
           b == Tail(a)
<1> HIDE DEF q, b
<1>4. /\ Len(b) = Len(a) - 1 /\ \A i \in 1 .. Len(b) : b[i] = a[i + 1]
      /\ Len(q) = Len(p) - 1 /\ \A i \in 1 .. Len(q) : q[i] = p[i + 1]
  BY <1>3 DEF q, b
<1>5. Head(a) = Head(p) /\ Agree(q, b)
  <2>1. a[1] = p[1]
    BY <1>1 DEF Agree
  <2>2. ASSUME NEW i \in 1 .. Len(b) PROVE b[i] = q[i]
    <3>1. i + 1 \in 1 .. Len(a) /\ i \in 1 .. Len(q)
      BY <1>1, <1>4
    <3>2. QED  BY <1>4, <3>1 DEF Agree
  <2>3. Len(b) <= Len(q)
    BY <1>1, <1>4
  <2>4. QED  BY <1>3, <2>1, <2>2, <2>3 DEF Agree
<1>6. Rising(q, n)
  <2>1. \A i \in 1 .. Len(p) : p[i] \in Nat
    BY ElementOfSeq
  <2>2. \A i \in 1 .. Len(q) : i + 1 \in 1 .. Len(p)
    BY <1>1, <1>4
  <2>3. \A i, j \in 1 .. Len(q) : i < j => i + 1 < j + 1
    BY <1>1, <1>4
  <2>4. QED  BY <1>4, <2>2, <2>3 DEF Rising
<1>7. ASSUME Outstanding(p, a, f, n) PROVE Outstanding(q, b, f, n)
  <2>1. ASSUME NEW m
        PROVE  (\E i \in Len(a) + 1 .. Len(p) : p[i] = m)
                 <=> \E i \in Len(b) + 1 .. Len(q) : q[i] = m
    <3>1. ASSUME NEW i \in Len(a) + 1 .. Len(p), p[i] = m
          PROVE  i - 1 \in Len(b) + 1 .. Len(q) /\ q[i - 1] = m
      <4>1. i - 1 \in Len(b) + 1 .. Len(q) /\ i - 1 \in 1 .. Len(q) /\ (i - 1) + 1 = i
        BY <1>1, <1>4
      <4>2. q[i - 1] = p[(i - 1) + 1]
        BY <1>4, <4>1, Zenon
      <4>3. QED  BY <3>1, <4>1, <4>2
    <3>2. ASSUME NEW i \in Len(b) + 1 .. Len(q), q[i] = m
          PROVE  i + 1 \in Len(a) + 1 .. Len(p) /\ p[i + 1] = m
      BY <1>1, <1>4, <3>2, SMTT(30)
    <3>3. QED  BY <3>1, <3>2
  <2>2. \A i \in Len(b) + 1 .. Len(q) : q[i] > n - Len(f)
    <3>1. \A i \in Len(b) + 1 .. Len(q) : i + 1 \in Len(a) + 1 .. Len(p) /\ q[i] = p[i + 1]
      BY <1>1, <1>4
    <3>2. QED  BY <1>7, <3>1 DEF Outstanding
  <2>3. QED  BY <1>7, <2>1, <2>2, Zenon DEF Outstanding
<1>8. QED  BY <1>2, <1>5, <1>6, <1>7 DEF q, b

-----------------------------------------------------------------------------
(***************************************************************************)
(* Types.                                                                  *)
(***************************************************************************)
LEMMA SessionTypes ==
    ASSUME TypeOK
    PROVE  /\ stdout \in Seq(Command) /\ commands \in Seq(Command) /\ input \in Seq(Command)
           /\ command \in Seq(Command)
           /\ results \in Seq(1 .. MaxCommands) /\ stdin \in Seq(1 .. MaxCommands)
           /\ pending \in Seq(1 .. MaxCommands) /\ printed \in 0 .. MaxCommands
           /\ MaxCommands \in Nat
  BY SessionAssumption DEF TypeOK

\* What is moved from one buffer to another keeps its type.
LEMMA QueueTypes ==
    ASSUME NEW S, NEW q \in Seq(S), q # <<>>
    PROVE  /\ Head(q) \in S /\ Tail(q) \in Seq(S) /\ Len(Tail(q)) = Len(q) - 1
           /\ <<Head(q)>> \in Seq(S) /\ Len(<<Head(q)>>) = 1 /\ Len(q) \in Nat
  BY HeadTailProperties, LenProperties

LEMMA SessionStart == Init => TypeOK
  BY SessionAssumption, EmptySeq DEF Init, TypeOK

\* A step keeps the types, if a judge that reads a result has asked for it.
LEMMA SessionStepTypes ==
    ASSUME TypeOK, judge = "read" /\ stdin # <<>> => pending # <<>>, [Next]_vars
    PROVE  TypeOK'
<1> USE SessionAssumption
<1>0. <<>> \in Seq(Command) /\ Len(<<>>) = 0 /\ <<>> \in Seq(1 .. MaxCommands)
  OBVIOUS
<1>1. ASSUME NEW t \in Types, GiveCommand(t) PROVE TypeOK'
  <2>1. printed + 1 \in 1 .. MaxCommands
    BY <1>1 DEF GiveCommand, TypeOK
  <2>2. [n |-> printed + 1, type |-> t] \in Command
    BY <2>1 DEF Command
  <2>3. stdout' \in Seq(Command)
    BY <1>1, <2>2, AppendProperties, SessionTypes DEF GiveCommand
  <2>4. pending' \in Seq(1 .. MaxCommands) /\ Len(pending') <= Ahead
    <3>1. CASE t = "END"
      <4>1. pending' = Append(pending, printed + 1) /\ Len(pending) < Ahead
        BY <1>1, <3>1 DEF GiveCommand
      <4>2. /\ pending' \in Seq(1 .. MaxCommands) /\ Len(pending') = Len(pending) + 1
            /\ Len(pending) \in Nat
        BY <2>1, <4>1, AppendProperties, LenProperties, SessionTypes
      <4>3. QED  BY <4>1, <4>2
    <3>2. CASE t # "END"
      BY <1>1, <3>2 DEF GiveCommand, TypeOK
    <3>3. QED  BY <3>1, <3>2
  <2>5. judge' \in {"flush", "read", "ready"} /\ printed' \in 0 .. MaxCommands
    BY <1>1, <2>1 DEF GiveCommand, TypeOK
  <2>6. QED  BY <1>1, <2>3, <2>4, <2>5 DEF GiveCommand, TypeOK
<1>2. CASE Flush
  <2>1. /\ stdout' \in Seq(Command) /\ commands' \in Seq(Command)
        /\ Len(commands') = Len(commands) + 1 /\ Len(commands) < CommandPipe
        /\ Len(commands) \in Nat
    BY <1>2, QueueTypes, AppendProperties, LenProperties, SessionTypes DEF Flush, Room
  <2>2. QED  BY <1>2, <2>1 DEF Flush, TypeOK
<1>3. CASE Flushed \/ JudgeReturns \/ JudgeExits \/ KillerDies
  BY <1>3 DEF Flushed, JudgeReturns, JudgeExits, KillerDies, judgeVars, TypeOK
<1>4. CASE ReadResults
  <2>1. PICK k \in 1 .. Len(results) :
          /\ stdin' = SubSeq(results, 1, k)
          /\ results' = SubSeq(results, k + 1, Len(results))
    BY <1>4 DEF ReadResults
  <2>2. /\ stdin' \in Seq(1 .. MaxCommands) /\ results' \in Seq(1 .. MaxCommands)
        /\ Len(results') <= Len(results)
    BY <2>1, MoveSome, SessionTypes
  <2>3. Len(results') <= ResultPipe
    <3>1. Len(results) \in Nat /\ Len(results') \in Nat /\ Len(results) <= ResultPipe
      BY <2>2, LenProperties, SessionTypes DEF TypeOK
    <3>2. QED  BY <2>2, <3>1
  <2>4. QED  BY <1>4, <2>2, <2>3, Zenon DEF ReadResults, TypeOK
<1>5. CASE ReadLine
  <2>1. pending # <<>> /\ stdin # <<>>
    BY <1>5 DEF ReadLine
  <2>2. /\ pending' \in Seq(1 .. MaxCommands) /\ stdin' \in Seq(1 .. MaxCommands)
        /\ Head(pending) \in 1 .. MaxCommands /\ Head(stdin) \in 1 .. MaxCommands
        /\ Len(pending') = Len(pending) - 1 /\ Len(pending) \in Nat
    BY <1>5, <2>1, QueueTypes, SessionTypes DEF ReadLine
  <2>3. Len(pending') <= Ahead
    BY <2>2 DEF TypeOK
  <2>4. got' \in (0 .. MaxCommands) \X (0 .. MaxCommands)
    <3>1. got' = <<Head(stdin), Head(pending)>>
      BY <1>5 DEF ReadLine
    <3>2. Head(stdin) \in 0 .. MaxCommands /\ Head(pending) \in 0 .. MaxCommands
      BY <2>2
    <3>3. QED  BY <3>1, <3>2
  <2>5. judge' \in {"ready", "read"}
    BY <1>5 DEF ReadLine
  <2>6. QED  BY <1>5, <2>2, <2>3, <2>4, <2>5 DEF ReadLine, TypeOK
<1>6. CASE JudgeFails \/ JudgeDies
  BY <1>0, <1>6 DEF JudgeFails, JudgeDies, TypeOK
<1>7. CASE Boot \/ RecvEOF
  <2>1. /\ broker \in {"boot", "recv"} /\ broker' \in {"recv", "exited"} /\ command' = command
        /\ UNCHANGED <<judge, printed, pending, stdout, commands, input, results, stdin, killer, got>>
    BY <1>7 DEF Boot, RecvEOF, judgeVars
  <2>2. broker' \notin {"run", "send"} /\ broker \notin {"run", "send"}
    BY <2>1
  <2>3. QED  BY <2>1, <2>2 DEF TypeOK
<1>8. CASE KillerEOF \/ RunFails \/ SendFails
  <2>1. /\ broker' \in {"exited", "failed"} /\ command' = <<>>
        /\ UNCHANGED <<judge, printed, pending, stdout, commands, input, results, stdin, killer, got>>
    BY <1>8 DEF KillerEOF, RunFails, SendFails, judgeVars
  <2>2. broker' \notin {"run", "send"} /\ Len(command') # 1 /\ command' \in Seq(Command)
    BY <1>0, <2>1
  <2>3. QED  BY <2>1, <2>2 DEF TypeOK
<1>9. CASE ReadCommands
  <2>1. PICK k \in 1 .. Len(commands) :
          /\ input' = SubSeq(commands, 1, k)
          /\ commands' = SubSeq(commands, k + 1, Len(commands))
    BY <1>9 DEF ReadCommands
  <2>2. /\ input' \in Seq(Command) /\ commands' \in Seq(Command)
        /\ Len(commands') <= Len(commands)
    BY <2>1, MoveSome, SessionTypes
  <2>3. Len(commands') <= CommandPipe
    <3>1. Len(commands) \in Nat /\ Len(commands') \in Nat /\ Len(commands) <= CommandPipe
      BY <2>2, LenProperties, SessionTypes DEF TypeOK
    <3>2. QED  BY <2>2, <3>1
  <2>4. QED  BY <1>9, <2>2, <2>3, Zenon DEF ReadCommands, judgeVars, TypeOK
<1>10. CASE RecvCommand
  <2>1. /\ command' \in Seq(Command) /\ Len(command') = 1 /\ input' \in Seq(Command)
    BY <1>10, QueueTypes, SessionTypes DEF RecvCommand, Leftover
  <2>2. QED  BY <1>10, <2>1 DEF RecvCommand, judgeVars, TypeOK
<1>11. CASE Execute
  <2>1. /\ \/ broker' = "send" /\ command' = command /\ Len(command) = 1
           \/ broker' = "recv" /\ command' = <<>>
        /\ UNCHANGED <<judge, printed, pending, stdout, commands, input, results, stdin, killer, got>>
    BY <1>11 DEF Execute, judgeVars, TypeOK
  <2>2. broker' \in {"run", "send"} <=> Len(command') = 1
    BY <1>0, <2>1
  <2>3. command' \in Seq(Command)
    BY <1>0, <2>1 DEF TypeOK
  <2>4. QED  BY <2>1, <2>2, <2>3 DEF TypeOK
<1>12. CASE SendResult
  <2>1. command # <<>>
    <3>1. Len(command) = 1
      BY <1>12 DEF SendResult, TypeOK
    <3>2. QED  BY <1>0, <3>1
  <2>2. Head(command).n \in 1 .. MaxCommands
    <3>1. Head(command) \in Command
      BY <2>1, QueueTypes, SessionTypes
    <3>2. QED  BY <3>1 DEF Command
  <2>3. /\ results' \in Seq(1 .. MaxCommands) /\ Len(results') = Len(results) + 1
        /\ Len(results) \in Nat /\ Len(results) < ResultPipe
    BY <1>12, <2>2, AppendProperties, LenProperties, SessionTypes DEF SendResult, Room
  <2>4. Len(results') <= ResultPipe
    BY <2>3
  <2>5. /\ broker' = "recv" /\ command' = <<>>
        /\ UNCHANGED <<judge, printed, pending, stdout, commands, input, stdin, killer, got>>
    BY <1>12 DEF SendResult, judgeVars
  <2>6. broker' \notin {"run", "send"} /\ Len(command') # 1 /\ command' \in Seq(Command)
    BY <1>0, <2>5
  <2>7. QED  BY <2>3, <2>4, <2>5, <2>6 DEF TypeOK
<1>13. CASE UNCHANGED vars
  BY <1>13 DEF vars, TypeOK
<1>14. QED
  BY <1>1, <1>2, <1>3, <1>4, <1>5, <1>6, <1>7, <1>8, <1>9, <1>10, <1>11, <1>12, <1>13
  DEF Next, JudgeStep, BrokerStep, Terminated

-----------------------------------------------------------------------------
(***************************************************************************)
(* What each step does to the commands and to the results on their way.    *)
(***************************************************************************)

\* Commands the broker has not taken, and those it has not done with either.
Waiting == input \o commands \o stdout
Taken == IF broker \in {"run", "send"} THEN command ELSE <<>>
Flow == Taken \o Waiting

\* Results the judge has not read.
Answers == stdin \o results

LEMMA FlowTypes ==
    ASSUME TypeOK
    PROVE  /\ Waiting \in Seq(Command) /\ Taken \in Seq(Command) /\ Flow \in Seq(Command)
           /\ Answers \in Seq(1 .. MaxCommands) /\ Answers \in Seq(Nat)
           /\ pending \in Seq(Nat) /\ input \o commands \in Seq(Command)
<1>1. Taken \in Seq(Command)
  BY SessionTypes, EmptySeq DEF Taken
<1>2. input \o commands \in Seq(Command)
  BY SessionTypes, ConcatProperties
<1>3. Waiting \in Seq(Command)
  BY <1>2, SessionTypes, ConcatProperties DEF Waiting
<1>4. Flow \in Seq(Command)
  BY <1>1, <1>3, ConcatProperties DEF Flow
<1>5. Answers \in Seq(1 .. MaxCommands)
  BY SessionTypes, ConcatProperties DEF Answers
<1>6. Seq(1 .. MaxCommands) \subseteq Seq(Nat)
  <2>1. 1 .. MaxCommands \subseteq Nat
    BY SessionTypes
  <2>2. QED  BY <2>1, SeqMonotonic, Zenon
<1>7. QED  BY <1>1, <1>2, <1>3, <1>4, <1>5, <1>6, SessionTypes

\* The command the broker has taken.
LEMMA OneTaken ==
    ASSUME TypeOK, broker \in {"run", "send"}
    PROVE  /\ command # <<>> /\ Head(command) \in Command /\ Tail(command) = <<>>
           /\ Flow # <<>> /\ Head(Flow) = Head(command) /\ Tail(Flow) = Waiting
<1>1. command \in Seq(Command) /\ Len(command) = 1
  BY DEF TypeOK
<1>2. command # <<>> /\ Head(command) \in Command
  <2>1. command # <<>>
    BY <1>1, EmptySeq
  <2>2. QED  BY <1>1, <2>1, QueueTypes
<1>3. Tail(command) = <<>>
  <2>1. Len(Tail(command)) = 0 /\ Tail(command) \in Seq(Command)
    BY <1>1, <1>2, QueueTypes
  <2>2. QED  BY <2>1, EmptySeq
<1>4. Flow = command \o Waiting
  BY DEF Flow, Taken
<1>5. Flow # <<>> /\ Head(Flow) = Head(command) /\ Tail(Flow) = Tail(command) \o Waiting
  BY <1>1, <1>2, <1>4, FirstOfTwo, FlowTypes
<1>6. Tail(command) \o Waiting = Waiting
  BY <1>3, ConcatEmptySeq, FlowTypes
<1>7. QED  BY <1>2, <1>3, <1>5, <1>6

LEMMA GiveEffect ==
    ASSUME TypeOK, NEW t \in Types, GiveCommand(t)
    PROVE  /\ [n |-> printed + 1, type |-> t] \in Command /\ printed' = printed + 1
           /\ Waiting' = Append(Waiting, [n |-> printed + 1, type |-> t])
           /\ Taken' = Taken
           /\ Flow' = Append(Flow, [n |-> printed + 1, type |-> t])
           /\ Answers' = Answers
<1> DEFINE c == [n |-> printed + 1, type |-> t]
<1>1. printed + 1 \in 1 .. MaxCommands /\ printed' = printed + 1
  BY SessionAssumption DEF GiveCommand, TypeOK
<1>2. c \in Command
  BY <1>1 DEF Command
<1>3. /\ stdout' = Append(stdout, c)
      /\ UNCHANGED <<commands, input, broker, command, results, stdin>>
  BY DEF GiveCommand
<1> HIDE DEF c
<1>4. Waiting' = Append(Waiting, c)
  <2>1. Waiting' = (input \o commands) \o Append(stdout, c)
    BY <1>3 DEF Waiting
  <2>2. input \o commands \in Seq(Command) /\ stdout \in Seq(Command)
    BY FlowTypes, SessionTypes
  <2>3. (input \o commands) \o Append(stdout, c) = Append((input \o commands) \o stdout, c)
    BY <1>2, <2>2, AppendToSecond
  <2>4. QED  BY <2>1, <2>3, Zenon DEF Waiting
<1>5. Taken' = Taken /\ Answers' = Answers
  BY <1>3 DEF Taken, Answers
<1>6. Flow' = Append(Flow, c)
  <2>1. Flow' = Taken \o Append(Waiting, c)
    BY <1>4, <1>5 DEF Flow
  <2>2. QED  BY <1>2, <2>1, AppendToSecond, FlowTypes DEF Flow
<1>7. QED  BY <1>1, <1>2, <1>4, <1>5, <1>6 DEF c

\* Lines that are moved towards the broker stay in order.
LEMMA MoveEffect ==
    ASSUME TypeOK, Flush \/ ReadCommands
    PROVE  Waiting' = Waiting /\ Taken' = Taken /\ Flow' = Flow /\ Answers' = Answers
<1>1. Taken' = Taken /\ Answers' = Answers
  BY DEF Flush, ReadCommands, judgeVars, Taken, Answers
<1>2. CASE Flush
  <2>1. /\ Waiting' = (input \o Append(commands, Head(stdout))) \o Tail(stdout)
        /\ stdout # <<>>
    BY <1>2 DEF Flush, Waiting
  <2>2. Head(stdout) \in Command /\ Tail(stdout) \in Seq(Command)
    BY <2>1, QueueTypes, SessionTypes
  <2>3. input \o Append(commands, Head(stdout)) = Append(input \o commands, Head(stdout))
    <3>1. input \in Seq(Command) /\ commands \in Seq(Command)
      BY SessionTypes
    <3>2. QED  BY <2>2, <3>1, AppendToSecond
  <2>4. Append(input \o commands, Head(stdout)) \o Tail(stdout) = (input \o commands) \o stdout
    BY <2>1, MoveOne, FlowTypes, SessionTypes
  <2>5. Waiting' = Waiting
    BY <2>1, <2>3, <2>4, Zenon DEF Waiting
  <2>6. QED  BY <1>1, <2>5, Zenon DEF Flow
<1>3. CASE ReadCommands
  <2>1. PICK k \in 1 .. Len(commands) :
          /\ input' = SubSeq(commands, 1, k)
          /\ commands' = SubSeq(commands, k + 1, Len(commands))
    BY <1>3 DEF ReadCommands
  <2>2. input' \o commands' = commands
    BY <2>1, MoveSome, SessionTypes
  <2>3. input \o commands = commands
    <3>1. input = <<>>
      BY <1>3 DEF ReadCommands
    <3>2. QED  BY <3>1, ConcatEmptySeq, SessionTypes
  <2>4. stdout' = stdout
    BY <1>3 DEF ReadCommands, judgeVars
  <2>5. Waiting' = Waiting
    BY <2>2, <2>3, <2>4, Zenon DEF Waiting
  <2>6. QED  BY <1>1, <2>5, Zenon DEF Flow
<1>4. QED  BY <1>2, <1>3

LEMMA RecvEffect ==
    ASSUME TypeOK, RecvCommand
    PROVE  /\ Waiting # <<>> /\ command' = <<Head(Waiting)>> /\ Waiting' = Tail(Waiting)
           /\ Flow' = Flow /\ Answers' = Answers
<1>1. /\ broker = "recv" /\ broker' = "run" /\ input # <<>>
      /\ command' = <<Head(input)>> /\ input' = Tail(input)
      /\ UNCHANGED <<commands, stdout, results, stdin>>
  BY DEF RecvCommand, Leftover, judgeVars
<1>2. /\ input \o commands # <<>>
      /\ Head(input \o commands) = Head(input)
      /\ Tail(input \o commands) = Tail(input) \o commands
  BY <1>1, FirstOfTwo, SessionTypes
<1>3. /\ Waiting # <<>> /\ Head(Waiting) = Head(input \o commands)
      /\ Tail(Waiting) = Tail(input \o commands) \o stdout
  <2> DEFINE f == input \o commands
  <2>1. f \in Seq(Command) /\ stdout \in Seq(Command) /\ f # <<>>
    BY <1>2, FlowTypes, SessionTypes
  <2>2. Waiting = f \o stdout
    BY DEF Waiting
  <2> HIDE DEF f
  <2>3. Waiting # <<>> /\ Head(Waiting) = Head(f) /\ Tail(Waiting) = Tail(f) \o stdout
    BY <2>1, <2>2, FirstOfTwo
  <2>4. QED  BY <2>3 DEF f
<1>4. command' = <<Head(Waiting)>> /\ Waiting' = Tail(Waiting)
  BY <1>1, <1>2, <1>3 DEF Waiting
<1>5. Flow' = Waiting
  <2>1. Flow' = <<Head(Waiting)>> \o Tail(Waiting)
    BY <1>1, <1>4 DEF Flow, Taken
  <2>2. QED  BY <1>3, <2>1, MoveOne, FlowTypes
<1>6. Flow = Waiting
  <2>1. Flow = <<>> \o Waiting
    BY <1>1 DEF Flow, Taken
  <2>2. QED  BY <2>1, ConcatEmptySeq, FlowTypes
<1>7. QED  BY <1>1, <1>3, <1>4, <1>5, <1>6 DEF Answers

LEMMA ExecuteEffect ==
    ASSUME TypeOK, Execute
    PROVE  /\ Waiting' = Waiting /\ Answers' = Answers
           /\ \/ /\ Head(command).type = "END" /\ broker' = "send" /\ command' = command
                 /\ Flow' = Flow
              \/ /\ Head(command).type # "END" /\ broker' = "recv" /\ command' = <<>>
                 /\ Flow' = Tail(Flow)
<1>1. broker = "run" /\ UNCHANGED <<input, commands, stdout, stdin, results>>
  BY DEF Execute, judgeVars
<1>2. Waiting' = Waiting /\ Answers' = Answers
  BY <1>1 DEF Waiting, Answers
<1>3. CASE Head(command).type = "END"
  <2>1. broker' = "send" /\ command' = command
    BY <1>3 DEF Execute, HasResult
  <2>2. Flow' = Flow
    BY <1>1, <1>2, <2>1 DEF Flow, Taken
  <2>3. QED  BY <1>2, <1>3, <2>1, <2>2
<1>4. CASE Head(command).type # "END"
  <2>1. broker' = "recv" /\ command' = <<>>
    BY <1>4 DEF Execute, HasResult
  <2>2. Flow' = <<>> \o Waiting
    BY <1>2, <2>1 DEF Flow, Taken
  <2>3. Flow' = Tail(Flow)
    BY <1>1, <2>2, OneTaken, ConcatEmptySeq, FlowTypes
  <2>4. QED  BY <1>2, <1>4, <2>1, <2>3
<1>5. QED  BY <1>3, <1>4

LEMMA SendEffect ==
    ASSUME TypeOK, SendResult
    PROVE  /\ Waiting' = Waiting /\ Flow' = Tail(Flow)
           /\ Answers' = Append(Answers, Head(command).n)
<1>1. /\ broker = "send" /\ broker' = "recv" /\ command' = <<>>
      /\ results' = Append(results, Head(command).n)
      /\ UNCHANGED <<input, commands, stdout, stdin>>
  BY DEF SendResult, judgeVars
<1>2. Waiting' = Waiting
  BY <1>1 DEF Waiting
<1>3. Flow' = Tail(Flow)
  <2>1. Flow' = <<>> \o Waiting
    BY <1>1, <1>2 DEF Flow, Taken
  <2>2. QED  BY <1>1, <2>1, OneTaken, ConcatEmptySeq, FlowTypes
<1>4. Answers' = Append(Answers, Head(command).n)
  <2>1. Head(command).n \in 1 .. MaxCommands
    <3>1. Head(command) \in Command
      BY <1>1, OneTaken
    <3>2. QED  BY <3>1 DEF Command
  <2>2. Answers' = stdin \o Append(results, Head(command).n)
    BY <1>1 DEF Answers
  <2>3. stdin \in Seq(1 .. MaxCommands) /\ results \in Seq(1 .. MaxCommands)
    BY SessionTypes
  <2>4. stdin \o Append(results, Head(command).n)
           = Append(stdin \o results, Head(command).n)
    BY <2>1, <2>3, AppendToSecond
  <2>5. QED  BY <2>2, <2>4, Zenon DEF Answers
<1>5. QED  BY <1>2, <1>3, <1>4

LEMMA ReadResultsEffect ==
    ASSUME TypeOK, ReadResults
    PROVE  Answers' = Answers /\ Waiting' = Waiting /\ Flow' = Flow
<1>1. PICK k \in 1 .. Len(results) :
        /\ stdin' = SubSeq(results, 1, k)
        /\ results' = SubSeq(results, k + 1, Len(results))
  BY DEF ReadResults
<1>2. stdin' \o results' = results
  BY <1>1, MoveSome, SessionTypes
<1>3. stdin \o results = results
  <2>1. stdin = <<>>
    BY DEF ReadResults
  <2>2. QED  BY <2>1, ConcatEmptySeq, SessionTypes
<1>4. Waiting' = Waiting /\ Flow' = Flow
  BY DEF ReadResults, Waiting, Flow, Taken
<1>5. QED  BY <1>2, <1>3, <1>4, Zenon DEF Answers

LEMMA ReadLineEffect ==
    ASSUME TypeOK, ReadLine
    PROVE  /\ Answers # <<>> /\ Head(Answers) = Head(stdin) /\ Answers' = Tail(Answers)
           /\ Waiting' = Waiting /\ Flow' = Flow
<1>1. stdin # <<>> /\ stdin' = Tail(stdin) /\ results' = results
  BY DEF ReadLine
<1>2. /\ Answers # <<>> /\ Head(Answers) = Head(stdin)
      /\ Tail(Answers) = Tail(stdin) \o results
  <2>1. stdin \in Seq(1 .. MaxCommands) /\ results \in Seq(1 .. MaxCommands)
    BY SessionTypes
  <2>2. QED  BY <1>1, <2>1, FirstOfTwo, Zenon DEF Answers
<1>3. Waiting' = Waiting /\ Flow' = Flow
  BY DEF ReadLine, Waiting, Flow, Taken
<1>4. QED  BY <1>1, <1>2, <1>3 DEF Answers

-----------------------------------------------------------------------------
(***************************************************************************)
(* The inductive invariant.                                                *)
(***************************************************************************)
SessionInv ==
    /\ Rising(pending, printed)
    /\ judge # "failed" => Agree(pending, Answers)
    /\ judge # "failed" /\ BrokerUp => Outstanding(pending, Answers, Flow, printed)
    /\ broker = "send" => Head(command).type = "END"
    /\ AnswerMatchesEnd
    /\ judge = "done" => stdout = <<>>

\* A judge that reads a result has asked for it.
LEMMA ReaderWaits ==
    ASSUME TypeOK, SessionInv, judge # "failed", stdin # <<>>
    PROVE  Answers # <<>> /\ pending # <<>>
<1>1. Answers # <<>>
  BY FirstOfTwo, SessionTypes DEF Answers
<1>2. pending # <<>>
  <2>1. Agree(pending, Answers) /\ Rising(pending, printed) /\ printed \in Nat
    BY SessionTypes DEF SessionInv
  <2>2. pending \in Seq(Nat) /\ Answers \in Seq(Nat)
    BY FlowTypes
  <2>3. QED  BY <1>1, <2>1, <2>2, OneResultLess, Zenon
<1>3. QED  BY <1>1, <1>2

\* What a step has to leave alone in order not to disturb the invariant.
LEMMA Undisturbed ==
    ASSUME SessionInv, pending' = pending, printed' = printed, got' = got,
           judge' # "failed" => judge # "failed" /\ Answers' = Answers,
           judge' # "failed" /\ BrokerUp' => BrokerUp /\ Flow' = Flow,
           broker' = "send" => Head(command').type = "END",
           judge' = "done" => stdout' = <<>>
    PROVE  SessionInv'
<1>1. Rising(pending', printed')
  BY DEF SessionInv
<1>2. judge' # "failed" => Agree(pending', Answers')
  BY DEF SessionInv
<1>3. judge' # "failed" /\ BrokerUp' => Outstanding(pending', Answers', Flow', printed')
  BY DEF SessionInv
<1>4. AnswerMatchesEnd'
  BY DEF SessionInv, AnswerMatchesEnd
<1>5. QED  BY <1>1, <1>2, <1>3, <1>4 DEF SessionInv

LEMMA GiveKeeps ==
    ASSUME TypeOK, SessionInv, NEW t \in Types, GiveCommand(t)
    PROVE  SessionInv'
<1> DEFINE c == [n |-> printed + 1, type |-> t]
<1>1. /\ c \in Command /\ c.n = printed + 1 /\ c.type = t /\ printed' = printed + 1
      /\ Flow' = Append(Flow, c) /\ Answers' = Answers
  BY GiveEffect
<1>2. /\ judge = "ready" /\ judge' \in {"flush", "read", "ready"}
      /\ pending' = IF t = "END" THEN Append(pending, printed + 1) ELSE pending
      /\ UNCHANGED <<broker, command, got>>
  BY DEF GiveCommand
<1> HIDE DEF c
<1>3. printed \in Nat
  BY SessionTypes
<1>4. Rising(pending, printed) /\ Agree(pending, Answers)
  BY <1>2 DEF SessionInv
<1>5. Rising(pending', printed') /\ Agree(pending', Answers')
  BY <1>1, <1>2, <1>3, <1>4, OneMorePending, FlowTypes
<1>6. BrokerUp' => Outstanding(pending', Answers', Flow', printed')
  <2>1. SUFFICES ASSUME BrokerUp PROVE Outstanding(pending', Answers, Append(Flow, c), printed + 1)
    BY <1>1, <1>2 DEF BrokerUp
  <2>2. Outstanding(pending, Answers, Flow, printed)
    BY <1>2, <2>1 DEF SessionInv
  <2>3. pending' = IF c.type = "END" THEN Append(pending, printed + 1) ELSE pending
    BY <1>1, <1>2
  <2>4. QED  BY <1>1, <1>3, <1>4, <2>2, <2>3, OneMoreCommand, FlowTypes
<1>7. AnswerMatchesEnd' /\ judge' # "done" /\ (broker' = "send" => Head(command').type = "END")
  BY <1>2 DEF SessionInv, AnswerMatchesEnd
<1>8. QED  BY <1>5, <1>6, <1>7, Zenon DEF SessionInv

LEMMA ReadLineKeeps ==
    ASSUME TypeOK, SessionInv, ReadLine
    PROVE  SessionInv'
<1>1. /\ judge = "read" /\ stdin # <<>> /\ got' = <<Head(stdin), Head(pending)>>
      /\ pending' = Tail(pending) /\ judge' \in {"ready", "read"}
      /\ UNCHANGED <<printed, broker, command>>
  BY DEF ReadLine
<1>2. Answers # <<>> /\ Head(Answers) = Head(stdin) /\ Answers' = Tail(Answers) /\ Flow' = Flow
  BY ReadLineEffect
<1>3. Agree(pending, Answers) /\ Rising(pending, printed) /\ printed \in Nat
  BY <1>1, SessionTypes DEF SessionInv
<1>4. /\ Head(Answers) = Head(pending)
      /\ Agree(Tail(pending), Tail(Answers)) /\ Rising(Tail(pending), printed)
      /\ Outstanding(pending, Answers, Flow, printed)
           => Outstanding(Tail(pending), Tail(Answers), Flow, printed)
  BY <1>2, <1>3, OneResultLess, FlowTypes
<1>5. Agree(pending', Answers') /\ Rising(pending', printed')
  BY <1>1, <1>2, <1>4
<1>6. BrokerUp' => Outstanding(pending', Answers', Flow', printed')
  BY <1>1, <1>2, <1>4 DEF SessionInv, BrokerUp
<1>7. AnswerMatchesEnd' /\ judge' # "done" /\ (broker' = "send" => Head(command').type = "END")
  BY <1>1, <1>2, <1>4 DEF SessionInv, AnswerMatchesEnd
<1>8. QED  BY <1>5, <1>6, <1>7, Zenon DEF SessionInv

\* The broker has done with a command.
LEMMA DoneKeeps ==
    ASSUME TypeOK, SessionInv, broker \in {"run", "send"}, broker' = "recv",
           Flow' = Tail(Flow),
           judge # "failed" =>
             Answers' = IF Head(command).type = "END"
                        THEN Append(Answers, Head(command).n) ELSE Answers,
           UNCHANGED judgeVars
    PROVE  SessionInv'
<1>1. UNCHANGED <<judge, printed, pending, stdout, got>>
  BY DEF judgeVars
<1>2. Rising(pending', printed')
  BY <1>1 DEF SessionInv
<1>3. ASSUME judge # "failed"
      PROVE  Agree(pending', Answers') /\ Outstanding(pending', Answers', Flow', printed')
  <2>1. /\ Agree(pending, Answers) /\ Rising(pending, printed) /\ printed \in Nat
        /\ Outstanding(pending, Answers, Flow, printed)
    BY <1>3, SessionTypes DEF SessionInv, BrokerUp
  <2>2. Flow # <<>> /\ Head(Flow) = Head(command)
    BY OneTaken
  <2>3. Answers' = IF Head(Flow).type = "END" THEN Append(Answers, Head(Flow).n) ELSE Answers
    BY <1>3, <2>2
  <2>4. Agree(pending, Answers') /\ Outstanding(pending, Answers', Tail(Flow), printed)
    BY <2>1, <2>2, <2>3, OneCommandLess, FlowTypes
  <2>5. QED  BY <1>1, <2>4
<1>4. AnswerMatchesEnd' /\ (judge' = "done" => stdout' = <<>>)
  BY <1>1 DEF SessionInv, AnswerMatchesEnd
<1>5. QED  BY <1>1, <1>2, <1>3, <1>4 DEF SessionInv

LEMMA SessionStep ==
    ASSUME TypeOK, SessionInv, [Next]_vars
    PROVE  SessionInv'
<1>1. ASSUME NEW t \in Types, GiveCommand(t) PROVE SessionInv'
  BY <1>1, GiveKeeps
<1>2. CASE Flush \/ ReadCommands
  <2>1. Answers' = Answers /\ Flow' = Flow
    BY <1>2, MoveEffect
  <2>2. /\ UNCHANGED <<judge, printed, pending, broker, command, got>>
        /\ judge = "done" => stdout' = stdout
    BY <1>2 DEF Flush, ReadCommands, judgeVars
  <2>3. QED  BY <2>1, <2>2, Undisturbed DEF SessionInv, BrokerUp
<1>3. CASE Flushed \/ JudgeReturns \/ JudgeExits \/ KillerDies \/ UNCHANGED vars
  <2>1. Answers' = Answers /\ Flow' = Flow
    BY <1>3 DEF Flushed, JudgeReturns, JudgeExits, KillerDies, judgeVars, vars,
                Answers, Flow, Taken, Waiting
  <2>2. /\ UNCHANGED <<printed, pending, stdout, broker, command, got>>
        /\ judge' = judge \/ judge \in {"flush", "ready", "exit"}
        /\ judge' = "done" => judge = "done" \/ stdout = <<>>
    BY <1>3 DEF Flushed, JudgeReturns, JudgeExits, KillerDies, judgeVars, vars
  <2>3. QED  BY <2>1, <2>2, Undisturbed DEF SessionInv, BrokerUp
<1>4. CASE ReadResults
  <2>1. Answers' = Answers /\ Flow' = Flow
    BY <1>4, ReadResultsEffect
  <2>2. UNCHANGED <<judge, printed, pending, stdout, broker, command, got>>
    BY <1>4 DEF ReadResults
  <2>3. QED  BY <2>1, <2>2, Undisturbed DEF SessionInv, BrokerUp
<1>5. CASE ReadLine
  BY <1>5, ReadLineKeeps
<1>6. CASE JudgeFails \/ JudgeDies
  <2>1. judge' = "failed" /\ UNCHANGED <<printed, pending, broker, command, got>>
    BY <1>6 DEF JudgeFails, JudgeDies
  <2>2. QED  BY <2>1, Undisturbed DEF SessionInv
<1>7. CASE Boot
  <2>1. /\ broker = "boot" /\ broker' = "recv"
        /\ UNCHANGED <<judge, printed, pending, stdout, stdin, got, commands, input, command, results>>
    BY <1>7 DEF Boot, judgeVars
  <2>2. Answers' = Answers /\ Flow' = Flow
    BY <2>1 DEF Answers, Flow, Taken, Waiting
  <2>3. QED  BY <2>1, <2>2, Undisturbed DEF SessionInv, BrokerUp
<1>8. CASE RecvEOF \/ KillerEOF \/ RunFails \/ SendFails
  <2>1. /\ broker' \in {"exited", "failed"}
        /\ UNCHANGED <<judge, printed, pending, stdout, stdin, got, results>>
    BY <1>8 DEF RecvEOF, KillerEOF, RunFails, SendFails, judgeVars
  <2>2. Answers' = Answers /\ ~BrokerUp'
    BY <2>1 DEF Answers, BrokerUp
  <2>3. QED  BY <2>1, <2>2, Undisturbed DEF SessionInv
<1>9. CASE RecvCommand
  <2>1. Answers' = Answers /\ Flow' = Flow
    BY <1>9, RecvEffect
  <2>2. /\ broker = "recv" /\ broker' = "run"
        /\ UNCHANGED <<judge, printed, pending, stdout, got>>
    BY <1>9 DEF RecvCommand, judgeVars
  <2>3. QED  BY <2>1, <2>2, Undisturbed DEF SessionInv, BrokerUp
<1>10. CASE Execute
  <2>1. broker = "run" /\ UNCHANGED judgeVars
    BY <1>10 DEF Execute
  <2>2. CASE Head(command).type = "END"
    <3>1. broker' = "send" /\ command' = command /\ Flow' = Flow /\ Answers' = Answers
      BY <1>10, <2>2, ExecuteEffect
    <3>2. UNCHANGED <<judge, printed, pending, stdout, got>>
      BY <2>1 DEF judgeVars
    <3>3. QED  BY <2>1, <2>2, <3>1, <3>2, Undisturbed DEF SessionInv, BrokerUp
  <2>3. CASE Head(command).type # "END"
    <3>1. broker' = "recv" /\ Flow' = Tail(Flow) /\ Answers' = Answers
      BY <1>10, <2>3, ExecuteEffect
    <3>2. QED  BY <2>1, <2>3, <3>1, DoneKeeps
  <2>4. QED  BY <2>2, <2>3
<1>11. CASE SendResult
  <2>1. broker = "send" /\ broker' = "recv" /\ UNCHANGED judgeVars
    BY <1>11 DEF SendResult
  <2>2. Flow' = Tail(Flow) /\ Answers' = Append(Answers, Head(command).n)
    BY <1>11, SendEffect
  <2>3. Head(command).type = "END"
    BY <2>1 DEF SessionInv
  <2>4. QED  BY <2>1, <2>2, <2>3, DoneKeeps
<1>12. QED
  BY <1>1, <1>2, <1>3, <1>4, <1>5, <1>6, <1>7, <1>8, <1>9, <1>10, <1>11
  DEF Next, JudgeStep, BrokerStep, Terminated

LEMMA SessionInvariant == Spec => [](TypeOK /\ SessionInv)
<1>1. Init => TypeOK /\ SessionInv
  <2>1. ASSUME Init PROVE SessionInv
    <3>1. /\ Answers = <<>> /\ Flow = <<>> /\ pending = <<>> /\ printed = 0
          /\ judge = "ready" /\ broker = "boot" /\ got = <<0, 0>>
      BY <2>1 DEF Init, Answers, Flow, Taken, Waiting
    <3>2. Len(<<>>) = 0
      OBVIOUS
    <3>3. Agree(<<>>, <<>>) /\ Rising(<<>>, 0) /\ Outstanding(<<>>, <<>>, <<>>, 0)
      BY <3>2 DEF Agree, Rising, Outstanding
    <3>4. QED  BY <3>1, <3>3 DEF SessionInv, AnswerMatchesEnd
  <2>2. QED  BY <2>1, SessionStart
<1>2. TypeOK /\ SessionInv /\ [Next]_vars => (TypeOK /\ SessionInv)'
  <2> SUFFICES ASSUME TypeOK, SessionInv, [Next]_vars PROVE TypeOK' /\ SessionInv'
    OBVIOUS
  <2>1. judge = "read" /\ stdin # <<>> => pending # <<>>
    BY ReaderWaits
  <2>2. QED  BY <2>1, SessionStepTypes, SessionStep
<1>3. QED  BY <1>1, <1>2, PTL DEF Spec

-----------------------------------------------------------------------------
(***************************************************************************)
(* What a session guarantees.                                              *)
(***************************************************************************)

\* Every variable keeps its type: in particular the judge never has more than
\* Ahead ENDs without result, no pipe holds more than its capacity, and the
\* broker has one command while it runs it or sends its result.
THEOREM SessionTypeCorrect == Spec => []TypeOK
BY SessionInvariant, PTL

\* The result the judge reads for an END (judge.py:140) is the one the broker
\* has sent for this END: commands without result, lines read in bulk and
\* several ENDs on the way never shift the answers.
THEOREM AnswersMatch == Spec => []AnswerMatchesEnd
<1>1. SessionInv => AnswerMatchesEnd
  BY DEF SessionInv
<1>2. QED  BY <1>1, SessionInvariant, PTL

\* The broker never waits for room for a result while the judge waits for
\* room for a command: the results on their way and the one the broker
\* sends all belong to ENDs without result, and there are at most Ahead.
THEOREM NoDeadlock == Spec => []NeverBothBlocked
<1>1. TypeOK /\ SessionInv => NeverBothBlocked
  <2> SUFFICES ASSUME TypeOK, SessionInv, judge \in {"flush", "exit"}, broker = "send",
                      Len(results) = ResultPipe
               PROVE  FALSE
    BY DEF NeverBothBlocked
  <2>1. Outstanding(pending, Answers, Flow, printed)
    BY DEF SessionInv, BrokerUp
  <2>2. Flow # <<>> /\ Flow \in Seq(Command) /\ Head(Flow).type = "END"
    BY OneTaken, FlowTypes DEF SessionInv
  <2>3. Flow[1].type = "END" /\ 1 \in 1 .. Len(Flow)
    <3>1. Head(Flow) = Flow[1] /\ Len(Flow) \in Nat /\ Len(Flow) # 0
      BY <2>2, EmptySeq, HeadTailProperties
    <3>2. QED  BY <2>2, <3>1
  <2>4. PICK i \in Len(Answers) + 1 .. Len(pending) : pending[i] = Flow[1].n
    BY <2>1, <2>3 DEF Outstanding
  <2>5. Len(Answers) = Len(stdin) + Len(results) /\ Len(stdin) \in Nat /\ Len(pending) \in Nat
    BY ConcatProperties, LenProperties, SessionTypes DEF Answers
  <2>6. Len(pending) <= Ahead /\ Ahead <= ResultPipe /\ Ahead \in Int /\ ResultPipe \in Int
    BY SessionAssumption DEF TypeOK
  <2>7. QED  BY <2>4, <2>5, <2>6
<1>2. QED  BY <1>1, SessionInvariant, PTL

\* If the broker exits with code 0 although the killer lives (broker.cpp:46),
\* then the judge failed or each of its commands was executed.
THEOREM CompleteAtExit == Spec => []ExitZeroIsComplete
<1>1. Init => ExitZeroIsComplete
  BY DEF Init, ExitZeroIsComplete
<1>2. TypeOK /\ SessionInv /\ ExitZeroIsComplete /\ [Next]_vars => ExitZeroIsComplete'
  <2> SUFFICES ASSUME TypeOK, SessionInv, ExitZeroIsComplete, [Next]_vars,
                      broker' = "exited", judge' # "failed", killer'
               PROVE  judge' = "done" /\ (stdout \o commands \o input)' = <<>>
    BY DEF ExitZeroIsComplete
  <2>1. CASE RecvEOF
    <3>1. /\ ~JudgeUp /\ input = <<>> /\ commands = <<>>
          /\ UNCHANGED <<judge, stdout, commands, input>>
      BY <2>1 DEF RecvEOF, StreamEnded, judgeVars
    <3>2. judge = "done"
      BY <3>1 DEF JudgeUp, TypeOK
    <3>3. stdout = <<>>
      BY <3>2 DEF SessionInv
    <3>4. <<>> \o <<>> \o <<>> = <<>>
      OBVIOUS
    <3>5. QED  BY <3>1, <3>2, <3>3, <3>4
  <2>2. CASE broker = "exited"
    <3>1. /\ killer /\ judge # "failed" => judge = "done"
          /\ killer /\ judge # "failed" => stdout \o commands \o input = <<>>
      BY <2>2 DEF ExitZeroIsComplete
    <3>2. CASE \E t \in Types : GiveCommand(t)
      BY <3>1, <3>2 DEF GiveCommand
    <3>3. CASE JudgeStep \/ JudgeReturns \/ JudgeDies
      BY <2>2, <3>1, <3>3
      DEF JudgeStep, Flush, Flushed, ReadResults, ReadLine, JudgeFails, JudgeExits,
          JudgeReturns, JudgeDies, BrokerUp
    <3>4. CASE BrokerStep
      BY <2>2, <3>4
      DEF BrokerStep, Boot, ReadCommands, RecvCommand, RecvEOF, Execute, KillerEOF,
          CallsKiller, RunFails, SendResult, SendFails
    <3>5. CASE KillerDies \/ UNCHANGED vars
      <4>1. UNCHANGED <<judge, stdout, commands, input>> /\ killer
        BY <3>5 DEF KillerDies, judgeVars, vars
      <4>2. QED  BY <3>1, <4>1
    <3>6. QED  BY <3>2, <3>3, <3>4, <3>5 DEF Next, Terminated
  <2>3. CASE broker # "exited" /\ ~RecvEOF
    <3>1. CASE \E t \in Types : GiveCommand(t)
      BY <2>3, <3>1 DEF GiveCommand
    <3>2. CASE JudgeStep \/ JudgeReturns \/ JudgeDies
      BY <2>3, <3>2
      DEF JudgeStep, Flush, Flushed, ReadResults, ReadLine, JudgeFails, JudgeExits,
          JudgeReturns, JudgeDies
    <3>3. CASE BrokerStep
      BY <2>3, <3>3
      DEF BrokerStep, Boot, ReadCommands, RecvCommand, Execute, KillerEOF,
          RunFails, SendResult, SendFails
    <3>4. CASE KillerDies \/ UNCHANGED vars
      BY <2>3, <3>4 DEF KillerDies, vars
    <3>5. QED  BY <3>1, <3>2, <3>3, <3>4 DEF Next, Terminated
  <2>4. QED  BY <2>1, <2>2, <2>3
<1>3. QED  BY <1>1, <1>2, SessionInvariant, PTL DEF Spec

-----------------------------------------------------------------------------
(***************************************************************************)
(* The session is a queue of calls.                                        *)
(***************************************************************************)

\* What the session is to SessionContract.
Todo == IF BrokerUp THEN Waiting ELSE <<>>
Running == IF broker = "run" THEN command ELSE <<>>
Owed == IF broker = "send" THEN Append(Answers, Head(command).n) ELSE Answers
Up == BrokerUp /\ judge # "failed"

\* One of the processes ends.
Ends ==
    /\ \E k \in 0 .. Len(Todo) : Todo' = SubSeq(Todo, 1, k)
    /\ Running' \in {Running, <<>>}
    /\ \E k \in 0 .. Len(Owed) : Owed' = SubSeq(Owed, 1, k)
    /\ Up' = FALSE

LEMMA SessionView ==
    /\ UNCHANGED <<Todo, Running, Owed, Up>> => UNCHANGED Contract!vars
    /\ \A c : Up /\ Todo' = Append(Todo, c) /\ UNCHANGED <<Running, Owed, Up>>
              => Contract!Issue(c)
    /\ /\ Todo # <<>> /\ Running = <<>> /\ Running' = <<Head(Todo)>> /\ Todo' = Tail(Todo)
       /\ UNCHANGED <<Owed, Up>>
       => Contract!Take
    /\ /\ Running # <<>> /\ Running' = <<>> /\ UNCHANGED <<Todo, Up>>
       /\ Owed' = IF Head(Running).type = "END" THEN Append(Owed, Head(Running).n) ELSE Owed
       => Contract!Finish
    /\ Owed # <<>> /\ Owed' = Tail(Owed) /\ UNCHANGED <<Todo, Running, Up>>
       => Contract!Return
    /\ Ends => Contract!Lose
  BY DEF Contract!vars, Contract!Issue, Contract!Take, Contract!Finish, Contract!Return,
         Contract!Lose, Ends, Todo, Running, Owed, Up, Waiting, Answers

LEMMA ViewTypes ==
    ASSUME TypeOK
    PROVE  Todo \in Seq(Command) /\ Owed \in Seq(1 .. MaxCommands)
<1>1. Todo \in Seq(Command)
  BY FlowTypes, EmptySeq DEF Todo
<1>2. ASSUME broker = "send" PROVE Head(command).n \in 1 .. MaxCommands
  <2>1. Head(command) \in Command
    BY <1>2, OneTaken
  <2>2. QED  BY <2>1 DEF Command
<1>3. Owed \in Seq(1 .. MaxCommands)
  BY <1>2, FlowTypes, AppendProperties DEF Owed
<1>4. QED  BY <1>1, <1>3

\* What may be left of a queue when a process ends.
LEMMA Fronts ==
    ASSUME NEW S, NEW q \in Seq(S)
    PROVE  /\ \E k \in 0 .. Len(q) : q = SubSeq(q, 1, k)
           /\ \E k \in 0 .. Len(q) : <<>> = SubSeq(q, 1, k)
<1>1. Len(q) \in Nat
  BY LenProperties
<1>2. Len(q) \in 0 .. Len(q) /\ 0 \in 0 .. Len(q)
  BY <1>1
<1>3. q = SubSeq(q, 1, Len(q)) /\ <<>> = SubSeq(q, 1, 0)
  BY SubSeqFull, SubSeqEmpty
<1>4. QED  BY <1>2, <1>3, Zenon

LEMMA FrontOfTwo ==
    ASSUME NEW S, NEW p \in Seq(S), NEW q \in Seq(S)
    PROVE  \E k \in 0 .. Len(p \o q) : p = SubSeq(p \o q, 1, k)
<1>1. Len(p) \in 0 .. Len(p \o q) /\ p = SubSeq(p \o q, 1, Len(p))
  BY LoseSecond
<1>2. QED  BY <1>1, Zenon

\* The session behaves like a queue of calls to the broker (SessionContract):
\* every command is executed at most once, in the order given, and results
\* come back in the order of their ENDs; what an end of a process loses are
\* the newest commands and the newest results.
THEOREM SessionImplementsContract == Spec => ImplementsSession
<1>1. Init => Contract!Init
  <2> SUFFICES ASSUME Init PROVE Contract!Init
    OBVIOUS
  <2>1. <<>> \o <<>> = <<>>
    OBVIOUS
  <2>2. QED  BY <2>1 DEF Init, BrokerUp, Contract!Init
<1>2. TypeOK /\ SessionInv /\ [Next]_vars => [Contract!Next]_(Contract!vars)
  <2> SUFFICES ASSUME TypeOK, SessionInv, [Next]_vars
               PROVE  Contract!Next \/ UNCHANGED Contract!vars
    OBVIOUS
  <2>0. ASSUME UNCHANGED <<Todo, Running, Owed, Up>> PROVE UNCHANGED Contract!vars
    BY <2>0, SessionView
  <2>1. ASSUME NEW t \in Types, GiveCommand(t)
        PROVE  Contract!Next \/ UNCHANGED Contract!vars
    <3> DEFINE c == [n |-> printed + 1, type |-> t]
    <3>1. c \in Command /\ Waiting' = Append(Waiting, c) /\ Answers' = Answers
      BY <2>1, GiveEffect
    <3>2. judge # "failed" /\ judge' # "failed" /\ UNCHANGED <<broker, command>>
      BY <2>1 DEF GiveCommand
    <3> HIDE DEF c
    <3>3. UNCHANGED <<Running, Owed, Up>>
      BY <3>1, <3>2 DEF Running, Owed, Up, BrokerUp
    <3>4. CASE BrokerUp
      <4>1. Up /\ Todo' = Append(Todo, c)
        BY <3>1, <3>2, <3>4 DEF Up, Todo, BrokerUp
      <4>2. Contract!Issue(c)
        BY <3>3, <4>1, SessionView
      <4>3. QED  BY <3>1, <4>2 DEF Contract!Next
    <3>5. CASE ~BrokerUp
      <4>1. Todo' = Todo
        BY <3>2, <3>5 DEF Todo, BrokerUp
      <4>2. QED  BY <2>0, <3>3, <4>1
    <3>6. QED  BY <3>4, <3>5
  <2>2. CASE Flush \/ ReadCommands
    <3>1. Waiting' = Waiting /\ Answers' = Answers
      BY <2>2, MoveEffect
    <3>2. UNCHANGED <<judge, broker, command>>
      BY <2>2 DEF Flush, ReadCommands, judgeVars
    <3>3. QED  BY <2>0, <3>1, <3>2 DEF Todo, Running, Owed, Up, BrokerUp
  <2>3. CASE Flushed \/ JudgeReturns \/ JudgeExits \/ KillerDies \/ UNCHANGED vars
    <3>1. /\ UNCHANGED <<broker, command, Waiting, Answers>>
          /\ (judge' = "failed") = (judge = "failed")
      BY <2>3 DEF Flushed, JudgeReturns, JudgeExits, KillerDies, judgeVars, vars,
                  Waiting, Answers
    <3>2. QED  BY <2>0, <3>1 DEF Todo, Running, Owed, Up, BrokerUp
  <2>4. CASE ReadResults
    <3>1. Waiting' = Waiting /\ Answers' = Answers
      BY <2>4, ReadResultsEffect
    <3>2. UNCHANGED <<judge, broker, command>>
      BY <2>4 DEF ReadResults
    <3>3. QED  BY <2>0, <3>1, <3>2 DEF Todo, Running, Owed, Up, BrokerUp
  <2>5. CASE ReadLine
    <3>1. Answers # <<>> /\ Answers' = Tail(Answers) /\ Waiting' = Waiting
      BY <2>5, ReadLineEffect
    <3>2. judge # "failed" /\ judge' # "failed" /\ UNCHANGED <<broker, command>>
      BY <2>5 DEF ReadLine
    <3>3. UNCHANGED <<Todo, Running, Up>>
      BY <3>1, <3>2 DEF Todo, Running, Up, BrokerUp
    <3>4. Owed # <<>> /\ Owed' = Tail(Owed)
      <4>1. CASE broker = "send"
        <5> DEFINE n == Head(command).n
        <5>1. n \in 1 .. MaxCommands
          <6>1. Head(command) \in Command
            BY <4>1, OneTaken
          <6>2. QED  BY <6>1 DEF Command
        <5>2. Owed = Append(Answers, n) /\ Owed' = Append(Tail(Answers), n)
          BY <3>1, <3>2, <4>1 DEF Owed
        <5> HIDE DEF n
        <5>3. /\ Answers \in Seq(1 .. MaxCommands) /\ <<n>> \in Seq(1 .. MaxCommands)
              /\ Tail(Answers) \in Seq(1 .. MaxCommands)
          BY <3>1, <5>1, FlowTypes, QueueTypes
        <5>4. Owed = Answers \o <<n>> /\ Owed' = Tail(Answers) \o <<n>>
          BY <5>1, <5>2, <5>3, AppendIsConcat
        <5>5. QED  BY <3>1, <5>3, <5>4, FirstOfTwo
      <4>2. CASE broker # "send"
        BY <3>1, <3>2, <4>2 DEF Owed
      <4>3. QED  BY <4>1, <4>2
    <3>5. Contract!Return
      BY <3>3, <3>4, SessionView
    <3>6. QED  BY <3>5 DEF Contract!Next
  <2>6. CASE JudgeFails \/ JudgeDies
    <3>1. /\ judge' = "failed" /\ stdout' = <<>>
          /\ UNCHANGED <<commands, input, broker, command, results, stdin>>
      BY <2>6 DEF JudgeFails, JudgeDies
    <3>2. Running' = Running /\ Owed' = Owed /\ Up' = FALSE
      BY <3>1 DEF Running, Owed, Up, Answers
    <3>3. \E k \in 0 .. Len(Todo) : Todo' = SubSeq(Todo, 1, k)
      <4>1. CASE BrokerUp
        <5>1. input \o commands \in Seq(Command) /\ stdout \in Seq(Command)
          BY FlowTypes, SessionTypes
        <5>2. Todo = (input \o commands) \o stdout
          BY <4>1 DEF Todo, Waiting
        <5>3. Todo' = input \o commands
          <6>1. Todo' = (input \o commands) \o <<>>
            BY <3>1, <4>1 DEF Todo, Waiting, BrokerUp
          <6>2. QED  BY <5>1, <6>1, ConcatEmptySeq
        <5>4. \E k \in 0 .. Len((input \o commands) \o stdout) :
                input \o commands = SubSeq((input \o commands) \o stdout, 1, k)
          BY <5>1, FrontOfTwo
        <5>5. QED  BY <5>2, <5>3, <5>4, Zenon
      <4>2. CASE ~BrokerUp
        <5>1. Todo' = <<>>
          BY <3>1, <4>2 DEF Todo, BrokerUp
        <5>2. QED  BY <5>1, ViewTypes, Fronts
      <4>3. QED  BY <4>1, <4>2
    <3>4. \E k \in 0 .. Len(Owed) : Owed' = SubSeq(Owed, 1, k)
      BY <3>2, ViewTypes, Fronts
    <3>5. Contract!Lose
      BY <3>2, <3>3, <3>4, SessionView DEF Ends
    <3>6. QED  BY <3>5 DEF Contract!Next
  <2>7. CASE Boot
    <3>1. /\ broker = "boot" /\ broker' = "recv"
          /\ UNCHANGED <<judge, Waiting, Answers>>
      BY <2>7 DEF Boot, judgeVars, Waiting, Answers
    <3>2. QED  BY <2>0, <3>1 DEF Todo, Running, Owed, Up, BrokerUp
  <2>8. CASE RecvEOF \/ KillerEOF \/ RunFails \/ SendFails
    <3>1. /\ broker' \in {"exited", "failed"}
          /\ UNCHANGED <<stdin, results>>
      BY <2>8 DEF RecvEOF, KillerEOF, RunFails, SendFails, judgeVars
    <3>2. Todo' = <<>> /\ Running' = <<>> /\ Owed' = Answers /\ Up' = FALSE
      BY <3>1 DEF Todo, Running, Owed, Up, BrokerUp, Answers
    <3>3. \E k \in 0 .. Len(Todo) : Todo' = SubSeq(Todo, 1, k)
      BY <3>2, ViewTypes, Fronts
    <3>4. \E k \in 0 .. Len(Owed) : Owed' = SubSeq(Owed, 1, k)
      <4>1. CASE broker = "send"
        <5> DEFINE n == Head(command).n
        <5>1. n \in 1 .. MaxCommands
          <6>1. Head(command) \in Command
            BY <4>1, OneTaken
          <6>2. QED  BY <6>1 DEF Command
        <5>2. Owed = Append(Answers, n)
          BY <4>1 DEF Owed
        <5> HIDE DEF n
        <5>3. Answers \in Seq(1 .. MaxCommands) /\ <<n>> \in Seq(1 .. MaxCommands)
          BY <5>1, FlowTypes
        <5>4. Owed = Answers \o <<n>>
          BY <5>1, <5>2, <5>3, AppendIsConcat
        <5>5. QED  BY <3>2, <5>3, <5>4, FrontOfTwo
      <4>2. CASE broker # "send"
        <5>1. Owed' = Owed
          BY <3>2, <4>2 DEF Owed
        <5>2. QED  BY <5>1, ViewTypes, Fronts
      <4>3. QED  BY <4>1, <4>2
    <3>5. Contract!Lose
      BY <3>2, <3>3, <3>4, SessionView DEF Ends
    <3>6. QED  BY <3>5 DEF Contract!Next
  <2>9. CASE RecvCommand
    <3>1. /\ Waiting # <<>> /\ command' = <<Head(Waiting)>> /\ Waiting' = Tail(Waiting)
          /\ Answers' = Answers
      BY <2>9, RecvEffect
    <3>2. broker = "recv" /\ broker' = "run" /\ judge' = judge
      BY <2>9 DEF RecvCommand, judgeVars
    <3>3. /\ Todo = Waiting /\ Todo' = Waiting' /\ Running = <<>> /\ Running' = command'
          /\ UNCHANGED <<Owed, Up>>
      BY <3>1, <3>2 DEF Todo, Running, Owed, Up, BrokerUp
    <3>4. Contract!Take
      BY <3>1, <3>3, SessionView
    <3>5. QED  BY <3>4 DEF Contract!Next
  <2>10. CASE Execute
    <3>1. broker = "run" /\ judge' = judge /\ command # <<>> /\ Waiting' = Waiting /\ Answers' = Answers
      BY <2>10, OneTaken, ExecuteEffect DEF Execute, judgeVars
    <3>2. \/ Head(command).type = "END" /\ broker' = "send" /\ command' = command
          \/ Head(command).type # "END" /\ broker' = "recv"
      BY <2>10, ExecuteEffect
    <3>3. Running = command /\ Running' = <<>> /\ UNCHANGED <<Todo, Up>>
      BY <3>1, <3>2 DEF Todo, Running, Up, BrokerUp
    <3>4. Owed' = IF Head(Running).type = "END"
                  THEN Append(Owed, Head(Running).n) ELSE Owed
      BY <3>1, <3>2, <3>3 DEF Owed
    <3>5. Contract!Finish
      BY <3>1, <3>3, <3>4, SessionView
    <3>6. QED  BY <3>5 DEF Contract!Next
  <2>11. CASE SendResult
    <3>1. Waiting' = Waiting /\ Answers' = Append(Answers, Head(command).n)
      BY <2>11, SendEffect
    <3>2. broker = "send" /\ broker' = "recv" /\ judge' = judge
      BY <2>11 DEF SendResult, judgeVars
    <3>3. QED  BY <2>0, <3>1, <3>2 DEF Todo, Running, Owed, Up, BrokerUp
  <2>12. QED
    BY <2>1, <2>2, <2>3, <2>4, <2>5, <2>6, <2>7, <2>8, <2>9, <2>10, <2>11
    DEF Next, JudgeStep, BrokerStep, Terminated
<1>3. QED  BY <1>1, <1>2, SessionInvariant, PTL DEF Spec, ImplementsSession, Contract!Spec

=============================================================================
