---------------------------- MODULE PluginProofs ----------------------------
(***************************************************************************)
(* The use of the tokenizer library, for any set of solutions.             *)
(***************************************************************************)
EXTENDS Plugin, SequenceTheorems, TLAPS

MemberNames ==
    {"tokenizerLibrary_", "sharedTokenizerFactory_", "killerIO_", "killer_", "solutions_"}

\* The members, one by one: the library is the first, the solutions, which
\* hold the tokenizers, are the last.
LEMMA MembersList ==
    /\ Members \in Seq(MemberNames) /\ Len(Members) = 5
    /\ Members[1] = "tokenizerLibrary_" /\ Members[5] = "solutions_"
    /\ \A i \in 1 .. 4 : Members[i] # "solutions_"
<1>1. Members \in Seq(MemberNames)
  BY DEF Members, MemberNames
<1>2. Len(Members) = 5
  BY DEF Members
<1>3. Members[1] = "tokenizerLibrary_" /\ Members[5] = "solutions_"
  BY DEF Members
<1>4. /\ Members[1] # "solutions_" /\ Members[2] # "solutions_"
      /\ Members[3] # "solutions_" /\ Members[4] # "solutions_"
  BY DEF Members
<1>5. \A i \in 1 .. 4 : i = 1 \/ i = 2 \/ i = 3 \/ i = 4
  OBVIOUS
<1>6. QED  BY <1>1, <1>2, <1>3, <1>4, <1>5

\* The constructed members are the first ones of the list.
MembersOK ==
    /\ members \in Seq(MemberNames)
    /\ Len(members) \in 0 .. 5
    /\ \A i \in 1 .. Len(members) : members[i] = Members[i]

LEMMA MembersArePrefix ==
    ASSUME MembersOK
    PROVE  members = SubSeq(Members, 1, Len(members))
<1> DEFINE k == Len(members)
           q == SubSeq(Members, 1, k)
<1>1. k \in 0 .. 5 /\ members \in Seq(MemberNames)
  BY DEF MembersOK
<1>2. \A i \in 1 .. k : Members[i] \in MemberNames
  BY <1>1, MembersList, ElementOfSeq
<1>3. q \in Seq(MemberNames) /\ Len(q) = k /\ \A i \in 1 .. k : q[i] = Members[i]
  BY <1>1, <1>2, SubSeqProperties
<1>4. \A i \in 1 .. k : members[i] = q[i]
  BY <1>3 DEF MembersOK
<1> HIDE DEF q
<1>5. members = q
  BY <1>1, <1>3, <1>4, SeqEqual
<1>6. QED  BY <1>5 DEF q

LEMMA ConstructOne ==
    ASSUME MembersOK, ConstructMember
    PROVE  MembersOK'
<1>1. /\ Len(members) \in 0 .. 4 /\ members \in Seq(MemberNames)
      /\ members' = Append(members, Members[Len(members) + 1])
  BY MembersList DEF MembersOK, ConstructMember
<1>2. Members[Len(members) + 1] \in MemberNames
  <2>0. Len(Members) = 5 /\ Len(members) \in 0 .. 4
    BY <1>1, MembersList
  <2>1. Len(members) + 1 \in 1 .. Len(Members)
    <3>1. \A n, m : n \in 0 .. 4 /\ m = 5 => n + 1 \in 1 .. m
      OBVIOUS
    <3>2. QED  BY <2>0, <3>1, Zenon
  <2>2. QED  BY <2>1, MembersList, ElementOfSeq
<1>3. /\ members' \in Seq(MemberNames) /\ Len(members') = Len(members) + 1
      /\ \A i \in 1 .. Len(members) : members'[i] = members[i]
      /\ members'[Len(members) + 1] = Members[Len(members) + 1]
  BY <1>1, <1>2, AppendProperties
<1>4. \A i \in 1 .. Len(members') : members'[i] = Members[i]
  BY <1>1, <1>3 DEF MembersOK
<1>5. Len(members') \in 0 .. 5
  <2>1. \A n \in 0 .. 4 : n + 1 \in 0 .. 5
    OBVIOUS
  <2>2. QED  BY <1>1, <1>3, <2>1, Zenon
<1>6. QED  BY <1>3, <1>4, <1>5, Zenon DEF MembersOK

LEMMA DestroyOne ==
    ASSUME MembersOK, DestroyMember
    PROVE  MembersOK' /\ Len(members') < Len(members)
<1> DEFINE k == Len(members)
<1>1. /\ k \in 1 .. 5 /\ members \in Seq(MemberNames)
      /\ members' = SubSeq(members, 1, k - 1)
  BY EmptySeq DEF MembersOK, DestroyMember
<1>2. \A i \in 1 .. k - 1 : members[i] \in MemberNames
  BY <1>1, ElementOfSeq
<1> DEFINE q == SubSeq(members, 1, k - 1)
<1>3. q \in Seq(MemberNames) /\ Len(q) = k - 1 /\ \A i \in 1 .. k - 1 : q[i] = members[i]
  <2>1. /\ q \in Seq(MemberNames)
        /\ Len(q) = IF 1 <= k - 1 THEN (k - 1) - 1 + 1 ELSE 0
        /\ \A i \in 1 .. (k - 1) - 1 + 1 : q[i] = members[1 + i - 1]
    BY <1>1, <1>2, SubSeqProperties, k - 1 \in Int
  <2> HIDE DEF q
  <2>2. ASSUME NEW i \in 1 .. k - 1 PROVE q[i] = members[i]
    <3>1. i \in 1 .. (k - 1) - 1 + 1 /\ 1 + i - 1 = i
      BY <1>1
    <3>2. QED  BY <2>1, <3>1
  <2>3. Len(q) = k - 1
    <3>1. \A j \in 1 .. 5 : (IF 1 <= j - 1 THEN (j - 1) - 1 + 1 ELSE 0) = j - 1
      OBVIOUS
    <3>2. QED  BY <1>1, <2>1, <3>1, Zenon
  <2>4. QED  BY <2>1, <2>2, <2>3
<1> HIDE DEF q
<1>4. members' = q
  BY <1>1 DEF q
<1>5. \A i \in 1 .. k - 1 : members'[i] = Members[i]
  BY <1>1, <1>3, <1>4 DEF MembersOK
<1>6. Len(members') \in 0 .. 5 /\ Len(members') < Len(members)
  <2>1. \A n \in 1 .. 5 : n - 1 \in 0 .. 5 /\ n - 1 < n
    OBVIOUS
  <2>2. QED  BY <1>1, <1>3, <1>4, <2>1, Zenon
<1>7. QED  BY <1>3, <1>4, <1>5, <1>6, Zenon DEF MembersOK

\* The library is loaded as long as there is any member.
LEMMA LibraryIsFirst ==
    ASSUME MembersOK, Len(members) > 0
    PROVE  Loaded
<1>1. Len(members) \in 1 .. 5 /\ DOMAIN members = 1 .. Len(members)
  BY LenProperties DEF MembersOK
<1>2. 1 \in DOMAIN members /\ members[1] = "tokenizerLibrary_"
  BY <1>1, MembersList DEF MembersOK
<1>3. QED  BY <1>2 DEF Loaded

\* Tokenizers are destroyed before any other member is.
LEMMA SolutionsAreLast ==
    ASSUME MembersOK, members # <<>>
    PROVE  members[Len(members)] = "solutions_" <=> Len(members) = 5
<1>1. Len(members) \in 1 .. 5
  BY EmptySeq DEF MembersOK
<1>2. members[Len(members)] = Members[Len(members)]
  BY <1>1 DEF MembersOK
<1>3. QED  BY <1>1, <1>2, MembersList

-----------------------------------------------------------------------------
(***************************************************************************)
(* What the broker knows of its tokenizers: they exist only while all      *)
(* members do, each has one object of the library, whose last verdict is   *)
(* the status, and a command that uses one finds it set.                   *)
(***************************************************************************)
Types ==
    /\ pc \in Down \cup {"construct", "idle", "begin", "talk", "result", "kill", "leave", "unwind"}
    /\ cur \in Solution
    /\ tokenizer \in [Solution -> BOOLEAN] /\ outbuf \in [Solution -> BOOLEAN]
    /\ status \in [Solution -> Status] /\ verdict \in [Solution -> Status]
    /\ objects \in [Solution -> 0 .. 1]
    /\ call \in [function : Functions, loaded : BOOLEAN, exists : BOOLEAN, verdict : Status]

Complete ==
    /\ pc \in {"idle", "begin", "talk", "result", "kill", "leave"} => Len(members) = 5
    /\ \A s \in Solution : tokenizer[s] => Len(members) = 5
    /\ pc = "exited" => Len(members) = 0

Objects ==
    \A s \in Solution :
        /\ objects[s] = IF tokenizer[s] THEN 1 ELSE 0
        /\ tokenizer[s] => verdict[s] = status[s]

InUse ==
    /\ pc \in {"begin", "talk", "result"} => tokenizer[cur]
    /\ pc = "begin" => status[cur] = "CONTINUE"

PluginInv == Types /\ MembersOK /\ Complete /\ Objects /\ InUse /\ CallsAreLegal

\* What a call of the library finds while the library is loaded.
LEMMA CallFound ==
    ASSUME PluginInv, Loaded, NEW s \in Solution, NEW f \in Functions
    PROVE  /\ Call(f, s) \in [function : Functions, loaded : BOOLEAN, exists : BOOLEAN, verdict : Status]
           /\ Call(f, s).function = f /\ Call(f, s).verdict = verdict[s]
           /\ Call(f, s).loaded
           /\ Call(f, s).exists <=> objects[s] > 0
<1>1. verdict[s] \in Status /\ Loaded \in BOOLEAN /\ (objects[s] > 0) \in BOOLEAN
  BY DEF PluginInv, Types, Loaded
<1>2. Call(f, s) = [function |-> f, loaded |-> Loaded, exists |-> objects[s] > 0,
                    verdict |-> verdict[s]]
  BY DEF Call
<1> DEFINE Record(a, b, v) == [function |-> f, loaded |-> a, exists |-> b, verdict |-> v]
<1>3. ASSUME NEW a \in BOOLEAN, NEW b \in BOOLEAN, NEW v \in Status
      PROVE  /\ Record(a, b, v) \in [function : Functions, loaded : BOOLEAN, exists : BOOLEAN, verdict : Status]
             /\ Record(a, b, v).function = f /\ Record(a, b, v).verdict = v
             /\ Record(a, b, v).loaded = a /\ Record(a, b, v).exists = b
  OBVIOUS
<1>4. Call(f, s) = Record(Loaded, objects[s] > 0, verdict[s])
  BY <1>2
<1> HIDE DEF Record
<1>5. PICK a \in BOOLEAN, b \in BOOLEAN : a = Loaded /\ b = (objects[s] > 0)
  BY <1>1, Zenon
<1>6. Call(f, s) = Record(a, b, verdict[s])
  BY <1>4, <1>5, Zenon
<1>7. /\ Call(f, s) \in [function : Functions, loaded : BOOLEAN, exists : BOOLEAN, verdict : Status]
      /\ Call(f, s).function = f /\ Call(f, s).verdict = verdict[s]
      /\ Call(f, s).loaded = a /\ Call(f, s).exists = b
  <2>1. verdict[s] \in Status
    BY <1>1
  <2> HIDE DEF Call
  <2>2. QED  BY <1>3, <1>6, <2>1
<1>8. a = TRUE /\ (b <=> objects[s] > 0)
  BY <1>5
<1>9. QED  BY <1>7, <1>8

\* reset() leaves no object behind, whether or not there was one.
LEMMA ResetKeeps ==
    ASSUME PluginInv, NEW s \in Solution, Reset(s), UNCHANGED <<members, status, verdict>>
    PROVE  /\ tokenizer' = [tokenizer EXCEPT ![s] = FALSE]
           /\ objects' \in [Solution -> 0 .. 1]
           /\ call' \in [function : Functions, loaded : BOOLEAN, exists : BOOLEAN, verdict : Status]
           /\ Objects' /\ CallsAreLegal'
<1>1. tokenizer' = [tokenizer EXCEPT ![s] = FALSE]
  BY DEF Reset, PointerReset
<1>2. CASE ~tokenizer[s]
  <2>1. UNCHANGED <<call, objects>>
    BY <1>2 DEF Reset
  <2>2. tokenizer' = tokenizer
    BY <1>1, <1>2 DEF PluginInv, Types
  <2>3. QED  BY <1>1, <2>1, <2>2 DEF PluginInv, Types, Objects, CallsAreLegal
<1>3. CASE tokenizer[s]
  <2>1. /\ objects[s] = 1 /\ objects' = [objects EXCEPT ![s] = 0]
        /\ call' = Call("tokenizer_delete", s)
    BY <1>3 DEF Reset, PluginInv, Objects
  <2>2. Loaded
    BY <1>3, LibraryIsFirst DEF PluginInv, Complete
  <2>3. /\ call' \in [function : Functions, loaded : BOOLEAN, exists : BOOLEAN, verdict : Status]
        /\ CallsAreLegal'
    BY <2>1, <2>2, CallFound DEF Functions, CallsAreLegal
  <2>4. Objects' /\ objects' \in [Solution -> 0 .. 1]
    BY <1>1, <2>1 DEF PluginInv, Types, Objects
  <2>5. QED  BY <1>1, <2>3, <2>4
<1>4. QED  BY <1>2, <1>3

\* One call of tokenizer_parse().
LEMMA ParseKeeps ==
    ASSUME PluginInv, cur \in Solution, tokenizer[cur], status[cur] = "CONTINUE",
           \E v \in Status : Parse(cur, v),
           UNCHANGED <<cur, members, tokenizer>>, outbuf' \in [Solution -> BOOLEAN],
           \/ pc = "begin" /\ pc' = "idle"
           \/ pc = "talk" /\ pc' = "talk"
    PROVE  PluginInv'
<1>1. PICK v \in Status : Parse(cur, v)
  OBVIOUS
<1>2. /\ call' = Call("tokenizer_parse", cur)
      /\ verdict' = [verdict EXCEPT ![cur] = v] /\ status' = [status EXCEPT ![cur] = v]
      /\ objects' = objects
  BY <1>1 DEF Parse
<1>3. Loaded /\ objects[cur] = 1 /\ verdict[cur] = "CONTINUE"
  <2>1. Len(members) = 5 /\ MembersOK /\ objects[cur] = 1 /\ verdict[cur] = "CONTINUE"
    BY DEF PluginInv, Complete, Objects
  <2>2. QED  BY <2>1, LibraryIsFirst
<1>4. call' \in [function : Functions, loaded : BOOLEAN, exists : BOOLEAN, verdict : Status] /\ CallsAreLegal'
  BY <1>2, <1>3, CallFound DEF Functions, CallsAreLegal
<1>5. Objects'
  BY <1>2 DEF PluginInv, Types, Objects
<1>6. Types' /\ Complete' /\ InUse' /\ MembersOK'
  BY <1>2, <1>4 DEF PluginInv, Types, Complete, InUse, MembersOK
<1>7. QED  BY <1>4, <1>5, <1>6 DEF PluginInv

LEMMA PluginInvariant == Spec => []PluginInv
<1>1. Init => PluginInv
  <2> SUFFICES ASSUME Init PROVE PluginInv
    OBVIOUS
  <2>1. Types
    BY DEF Init, Types, Down, Status, Functions
  <2>2. members \in Seq(MemberNames) /\ Len(members) = 0
    BY EmptySeq DEF Init
  <2>3. MembersOK
    BY <2>2 DEF MembersOK
  <2>4. QED  BY <2>1, <2>3 DEF Init, PluginInv, Complete, Objects, InUse, CallsAreLegal
<1>2. PluginInv /\ [Next]_vars => PluginInv'
  <2> SUFFICES ASSUME PluginInv, [Next]_vars PROVE PluginInv'
    OBVIOUS
  <2>1. CASE ConstructMember
    <3>1. MembersOK'
      BY <2>1, ConstructOne DEF PluginInv
    <3>2. /\ pc = "construct" /\ Len(members) \in 0 .. 4
          /\ UNCHANGED <<pc, cur, tokenizer, status, outbuf, objects, verdict, call>>
      BY <2>1, MembersList DEF PluginInv, MembersOK, ConstructMember
    <3>3. \A s \in Solution : ~tokenizer[s]
      <4>1. Len(members) # 5
        BY <3>2
      <4>2. QED  BY <4>1, Zenon DEF PluginInv, Complete
    <3>4. Types' /\ Complete' /\ Objects' /\ InUse' /\ CallsAreLegal'
      BY <3>2, <3>3 DEF PluginInv, Types, Complete, Objects, InUse, CallsAreLegal
    <3>5. QED  BY <3>1, <3>4 DEF PluginInv
  <2>2. CASE Constructed
    BY <2>2, MembersList DEF PluginInv, Types, MembersOK, Complete, Objects, InUse, CallsAreLegal, Constructed
  <2>3. CASE ConstructThrows
    BY <2>3 DEF PluginInv, Types, MembersOK, Complete, Objects, InUse, CallsAreLegal, ConstructThrows
  <2>4. ASSUME NEW s \in Solution, Begin(s) PROVE PluginInv'
    <3>1. pc = "idle" /\ ~tokenizer[s] /\ Len(members) = 5 /\ Loaded
      BY <2>4, LibraryIsFirst, SMTT(30) DEF Begin, PluginInv, Complete
    <3>2. /\ call' = Call("tokenizer_new", s)
          /\ objects' = [objects EXCEPT ![s] = objects[s] + 1]
          /\ verdict' = [verdict EXCEPT ![s] = "CONTINUE"]
          /\ tokenizer' = [tokenizer EXCEPT ![s] = TRUE]
          /\ status' = [status EXCEPT ![s] = "CONTINUE"]
          /\ cur' = s /\ pc' \in {"begin", "idle"}
          /\ members' = members /\ outbuf' = outbuf
      BY <2>4 DEF Begin, New
    <3>3. call' \in [function : Functions, loaded : BOOLEAN, exists : BOOLEAN, verdict : Status] /\ CallsAreLegal'
      BY <3>1, <3>2, CallFound DEF Functions, CallsAreLegal
    <3>4. objects[s] = 0
      BY <3>1 DEF PluginInv, Objects
    <3>5. Objects' /\ objects' \in [Solution -> 0 .. 1]
      BY <3>1, <3>2, <3>4 DEF PluginInv, Types, Objects
    <3>6. Types' /\ Complete' /\ InUse'
      BY <3>1, <3>2, <3>3, <3>5 DEF PluginInv, Types, Complete, InUse, Status
    <3>7. QED  BY <3>2, <3>3, <3>5, <3>6 DEF PluginInv, MembersOK
  <2>5. ASSUME NEW s \in Solution, BeginThrows(s) PROVE PluginInv'
    <3>1. pc = "idle" /\ Loaded
      BY <2>5, LibraryIsFirst DEF BeginThrows, PluginInv, Complete
    <3>2. /\ call' = Call("tokenizer_new", s) /\ pc' = "unwind" /\ cur' = s
          /\ UNCHANGED <<members, tokenizer, status, outbuf, objects, verdict>>
      BY <2>5 DEF BeginThrows
    <3>3. call' \in [function : Functions, loaded : BOOLEAN, exists : BOOLEAN, verdict : Status] /\ CallsAreLegal'
      BY <3>1, <3>2, CallFound DEF Functions, CallsAreLegal
    <3>4. Types' /\ Complete' /\ Objects' /\ InUse' /\ MembersOK'
      BY <3>1, <3>2, <3>3 DEF PluginInv, Types, Complete, Objects, InUse, MembersOK
    <3>5. QED  BY <3>3, <3>4 DEF PluginInv
  <2>6. ASSUME NEW s \in Solution, End(s) PROVE PluginInv'
    BY <2>6 DEF PluginInv, Types, MembersOK, Complete, Objects, InUse, CallsAreLegal, End
  <2>7. ASSUME NEW s \in Solution, Terminate(s) PROVE PluginInv'
    <3>1. pc = "idle" /\ Reset(s) /\ UNCHANGED <<pc, members, status, verdict>>
          /\ cur' = s /\ outbuf' = [outbuf EXCEPT ![s] = FALSE]
      BY <2>7 DEF Terminate, TerminateResets
    <3>2. /\ tokenizer' = [tokenizer EXCEPT ![s] = FALSE]
          /\ objects' \in [Solution -> 0 .. 1]
          /\ call' \in [function : Functions, loaded : BOOLEAN, exists : BOOLEAN, verdict : Status]
          /\ Objects' /\ CallsAreLegal'
      BY <3>1, ResetKeeps
    <3>3. Types' /\ Complete' /\ InUse' /\ MembersOK'
      BY <3>1, <3>2 DEF PluginInv, Types, Complete, InUse, MembersOK, Down
    <3>4. QED  BY <3>2, <3>3 DEF PluginInv
  <2>8. CASE ParseLeftovers
    <3>1. /\ pc = "begin" /\ pc' = "idle" /\ UNCHANGED <<cur, members, tokenizer>>
          /\ outbuf' \in [Solution -> BOOLEAN]
          /\ \E v \in Status : Parse(cur, v)
      BY <2>8 DEF ParseLeftovers, PluginInv, Types
    <3>2. status[cur] = "CONTINUE" /\ tokenizer[cur] /\ cur \in Solution
      BY <3>1 DEF PluginInv, Types, InUse
    <3>3. QED  BY <3>1, <3>2, ParseKeeps
  <2>9. CASE ReadChunk
    <3>1. /\ pc = "talk" /\ pc' = "talk" /\ UNCHANGED <<cur, members, tokenizer>>
          /\ outbuf' \in [Solution -> BOOLEAN] /\ status[cur] = "CONTINUE"
          /\ \E v \in Status : Parse(cur, v)
      BY <2>9 DEF ReadChunk, ReadsOn, PluginInv, Types
    <3>2. tokenizer[cur] /\ cur \in Solution
      BY <3>1 DEF PluginInv, Types, InUse
    <3>3. QED  BY <3>1, <3>2, ParseKeeps
  <2>10. CASE TalkEnds
    BY <2>10 DEF PluginInv, Types, MembersOK, Complete, Objects, InUse, CallsAreLegal, TalkEnds
  <2>11. CASE Result
    <3>1. CASE status[cur] # "FAIL"
      BY <2>11, <3>1 DEF PluginInv, Types, Complete, Objects, InUse, CallsAreLegal, MembersOK, Result
    <3>2. CASE status[cur] = "FAIL"
      <4>1. pc = "result" /\ cur \in Solution /\ tokenizer[cur] /\ Len(members) = 5
        BY <2>11 DEF Result, PluginInv, Types, Complete, InUse
      <4>2. Loaded /\ objects[cur] = 1 /\ verdict[cur] = "FAIL"
        BY <3>2, <4>1, LibraryIsFirst DEF PluginInv, Objects
      <4>3. /\ call' = Call("tokenizer_what", cur) /\ pc' = "leave"
            /\ UNCHANGED <<objects, verdict, cur, members, tokenizer, status, outbuf>>
        BY <2>11, <3>2 DEF Result, What
      <4>4. call' \in [function : Functions, loaded : BOOLEAN, exists : BOOLEAN, verdict : Status] /\ CallsAreLegal'
        BY <4>1, <4>2, <4>3, CallFound DEF Functions, CallsAreLegal
      <4>5. Types' /\ Complete' /\ Objects' /\ InUse' /\ MembersOK'
        BY <4>1, <4>3, <4>4 DEF PluginInv, Types, Complete, Objects, InUse, MembersOK
      <4>6. QED  BY <4>4, <4>5 DEF PluginInv
    <3>3. QED  BY <3>1, <3>2
  <2>12. CASE KillInEnd
    <3> DEFINE s == cur
    <3>1. /\ Reset(s) /\ UNCHANGED <<cur, members, status, verdict>>
          /\ outbuf' = [outbuf EXCEPT ![s] = FALSE]
          /\ pc = "kill" /\ pc' = "leave" /\ s \in Solution
      BY <2>12 DEF KillInEnd, PluginInv, Types
    <3>2. /\ tokenizer' = [tokenizer EXCEPT ![s] = FALSE]
          /\ objects' \in [Solution -> 0 .. 1]
          /\ call' \in [function : Functions, loaded : BOOLEAN, exists : BOOLEAN, verdict : Status]
          /\ Objects' /\ CallsAreLegal'
      BY <3>1, ResetKeeps
    <3>3. Types' /\ Complete' /\ InUse' /\ MembersOK'
      BY <3>1, <3>2 DEF PluginInv, Types, Complete, InUse, MembersOK, Down
    <3>4. QED  BY <3>2, <3>3 DEF PluginInv
  <2>13. CASE LeaveEnd
    <3> DEFINE s == cur
    <3>1. /\ Reset(s) /\ UNCHANGED <<cur, members, status, outbuf, verdict>>
          /\ pc = "leave" /\ pc' = "idle" /\ s \in Solution
      BY <2>13 DEF LeaveEnd, PluginInv, Types
    <3>2. /\ tokenizer' = [tokenizer EXCEPT ![s] = FALSE]
          /\ objects' \in [Solution -> 0 .. 1]
          /\ call' \in [function : Functions, loaded : BOOLEAN, exists : BOOLEAN, verdict : Status]
          /\ Objects' /\ CallsAreLegal'
      BY <3>1, ResetKeeps
    <3>3. Types' /\ Complete' /\ InUse' /\ MembersOK'
      BY <3>1, <3>2 DEF PluginInv, Types, Complete, InUse, MembersOK, Down
    <3>4. QED  BY <3>2, <3>3 DEF PluginInv
  <2>14. CASE EndThrows
    <3> DEFINE s == cur
    <3>1. /\ Reset(s) /\ UNCHANGED <<cur, members, status, outbuf, verdict>>
          /\ pc \in {"talk", "kill"} /\ pc' = "unwind" /\ s \in Solution
      BY <2>14 DEF EndThrows, PluginInv, Types
    <3>2. /\ tokenizer' = [tokenizer EXCEPT ![s] = FALSE]
          /\ objects' \in [Solution -> 0 .. 1]
          /\ call' \in [function : Functions, loaded : BOOLEAN, exists : BOOLEAN, verdict : Status]
          /\ Objects' /\ CallsAreLegal'
      BY <3>1, ResetKeeps
    <3>3. Types' /\ Complete' /\ InUse' /\ MembersOK'
      BY <3>1, <3>2 DEF PluginInv, Types, Complete, InUse, MembersOK, Down
    <3>4. QED  BY <3>2, <3>3 DEF PluginInv
  <2>15. CASE EndOfFile
    BY <2>15, MembersList DEF PluginInv, Types, MembersOK, Complete, Objects, InUse, CallsAreLegal, EndOfFile
  <2>16. CASE DestroyTokenizer
    <3>0. PICK s \in Solution : Reset(s)
      BY <2>16 DEF DestroyTokenizer
    <3>1. /\ Reset(s) /\ UNCHANGED <<pc, cur, members, status, outbuf, verdict>>
          /\ pc = "unwind"
      BY <2>16, <3>0 DEF DestroyTokenizer
    <3>2. /\ tokenizer' = [tokenizer EXCEPT ![s] = FALSE]
          /\ objects' \in [Solution -> 0 .. 1]
          /\ call' \in [function : Functions, loaded : BOOLEAN, exists : BOOLEAN, verdict : Status]
          /\ Objects' /\ CallsAreLegal'
      BY <3>1, ResetKeeps
    <3>3. Types' /\ Complete' /\ InUse' /\ MembersOK'
      BY <3>1, <3>2 DEF PluginInv, Types, Complete, InUse, MembersOK, Down
    <3>4. QED  BY <3>2, <3>3 DEF PluginInv
  <2>17. CASE DestroyMember
    <3>1. MembersOK' /\ Len(members) \in 1 .. 5
      BY <2>17, DestroyOne, EmptySeq DEF PluginInv, MembersOK, DestroyMember
    <3>2. \A s \in Solution : ~tokenizer[s]
      BY <2>17, <3>1, SolutionsAreLast DEF PluginInv, Complete, DestroyMember
    <3>3. QED  BY <2>17, <3>1, <3>2 DEF PluginInv, Types, Complete, Objects, InUse, CallsAreLegal, DestroyMember
  <2>18. CASE Exit
    <3>1. Len(members) = 0
      BY <2>18 DEF Exit
    <3>2. QED  BY <2>18, <3>1 DEF PluginInv, Types, Complete, Objects, InUse, CallsAreLegal, MembersOK, Exit, Down
  <2>19. CASE Abort
    BY <2>19 DEF PluginInv, Types, MembersOK, Complete, Objects, InUse, CallsAreLegal, Abort, Down
  <2>20. CASE UNCHANGED vars
    BY <2>20, MembersList DEF PluginInv, Types, MembersOK, Complete, Objects, InUse, CallsAreLegal, vars
  <2>21. QED
    BY <2>1, <2>2, <2>3, <2>4, <2>5, <2>6, <2>7, <2>8, <2>9, <2>10, <2>11, <2>12, <2>13,
       <2>14, <2>15, <2>16, <2>17, <2>18, <2>19, <2>20, Zenon DEF Next, Terminated
<1>3. QED  BY <1>1, <1>2, PTL DEF Spec

-----------------------------------------------------------------------------
\* Every variable of the use of the library keeps its type: in particular the
\* constructed members of BrokerImpl are always the first ones of the list.
THEOREM PluginTypeCorrect == Spec => []TypeOK
<1>1. PluginInv => TypeOK
  BY MembersArePrefix DEF PluginInv, Types, TypeOK
<1>2. QED  BY <1>1, PluginInvariant, PTL

\* The library is loaded at every call of one of its functions, those of the
\* destructors included; an object is parsed with, asked or deleted only while
\* it exists, parsed with only before its verdict, and asked only after FAIL.
THEOREM LibraryCallsAreLegal == Spec => []CallsAreLegal
<1>1. PluginInv => CallsAreLegal
  BY DEF PluginInv
<1>2. QED  BY <1>1, PluginInvariant, PTL

\* There is one object of the library for each tokenizer that is set, and
\* none when main() has returned.
THEOREM NoTokenizerLeaks == Spec => []NothingLeaks
<1>1. PluginInv => NothingLeaks
  BY DEF PluginInv, Complete, Objects, NothingLeaks
<1>2. QED  BY <1>1, PluginInvariant, PTL

=============================================================================
