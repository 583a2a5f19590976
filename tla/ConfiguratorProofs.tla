------------------------ MODULE ConfiguratorProofs -------------------------
(***************************************************************************)
(* What configure() connects and writes down fits together, for any        *)
(* solutions, also after calls that threw.                                 *)
(***************************************************************************)
EXTENDS Configurator, SequenceTheorems, TLAPS

-----------------------------------------------------------------------------
\* Facts about the operators.

\* The processes to connect are different ones, and the broker is none of them.
LEMMA TargetProperties ==
    ASSUME solutions \in Seq(Player)
    PROVE  /\ Targets \in Seq(Process) /\ Len(Targets) \in Nat
           /\ Len(Targets) = 2 + Len(solutions) /\ Len(solutions) \in Nat
           /\ Targets[1] = "killer" /\ Targets[2] = "judge"
           /\ \A i \in DOMAIN solutions : Targets[i + 2] = solutions[i]
           /\ \A i \in 3 .. Len(Targets) : /\ i - 2 \in DOMAIN solutions
                                           /\ Targets[i] = solutions[i - 2]
           /\ \A i \in 1 .. Len(Targets) : Targets[i] \in Process \ {"broker"}
           /\ DOMAIN Targets = 1 .. Len(Targets)
<1> DEFINE q == <<"killer", "judge">>
<1>1. /\ q \in Seq(Process) /\ Len(q) = 2 /\ q[1] = "killer" /\ q[2] = "judge"
      /\ solutions \in Seq(Process)
  <2>1. "killer" \in Process /\ "judge" \in Process
    BY DEF Process, Others
  <2>2. solutions \in Seq(Process)
    BY SeqMonotonic, Zenon DEF Process
  <2>3. QED  BY <2>1, <2>2
<1> HIDE DEF q
<1>2. /\ q \o solutions \in Seq(Process) /\ Len(q \o solutions) = 2 + Len(solutions)
      /\ \A i \in 1 .. 2 + Len(solutions) :
           (q \o solutions)[i] = IF i <= 2 THEN q[i] ELSE solutions[i - 2]
  <2>1. /\ q \o solutions \in Seq(Process)
        /\ Len(q \o solutions) = Len(q) + Len(solutions)
        /\ \A i \in 1 .. Len(q) + Len(solutions) :
             (q \o solutions)[i] = IF i <= Len(q) THEN q[i] ELSE solutions[i - Len(q)]
    BY <1>1, ConcatProperties, Zenon
  <2>2. QED  BY <1>1, <2>1, Zenon
<1>3. Targets = q \o solutions
  BY DEF Targets, q
<1>4. Len(solutions) \in Nat /\ DOMAIN solutions = 1 .. Len(solutions)
      /\ \A i \in DOMAIN solutions : solutions[i] \in Player
  BY LenProperties, ElementOfSeq
<1>5. Targets[1] = "killer" /\ Targets[2] = "judge"
  BY <1>1, <1>2, <1>3, <1>4
<1>6. \A i \in DOMAIN solutions : Targets[i + 2] = solutions[i]
  BY <1>2, <1>3, <1>4
<1>7. \A i \in 3 .. Len(Targets) : i - 2 \in DOMAIN solutions /\ Targets[i] = solutions[i - 2]
  BY <1>2, <1>3, <1>4
<1>8. \A i \in 1 .. Len(Targets) : Targets[i] \in Process \ {"broker"}
  <2> SUFFICES ASSUME NEW i \in 1 .. Len(Targets) PROVE Targets[i] \in Process \ {"broker"}
    OBVIOUS
  <2>1. CASE i = 1 \/ i = 2
    BY <1>5, <2>1 DEF Process, Others
  <2>2. CASE i \in 3 .. Len(Targets)
    <3>1. Targets[i] \in Player
      BY <1>4, <1>7, <2>2
    <3>2. QED  BY <3>1, ConfiguratorAssumption DEF Process, Others
  <2>3. QED  BY <1>2, <1>3, <1>4, <2>1, <2>2
<1>9. QED  BY <1>2, <1>3, <1>4, <1>5, <1>6, <1>7, <1>8, LenProperties

LEMMA TargetsDiffer ==
    ASSUME solutions \in Seq(Player),
           \A i, j \in DOMAIN solutions : solutions[i] = solutions[j] => i = j,
           NEW i \in 1 .. Len(Targets), NEW j \in 1 .. Len(Targets), Targets[i] = Targets[j]
    PROVE  i = j
<1>1. \A k \in 3 .. Len(Targets) : Targets[k] \notin {"killer", "judge"}
  <2> SUFFICES ASSUME NEW k \in 3 .. Len(Targets) PROVE Targets[k] \notin {"killer", "judge"}
    OBVIOUS
  <2>1. k - 2 \in DOMAIN solutions /\ Targets[k] = solutions[k - 2]
    BY TargetProperties
  <2>2. solutions[k - 2] \in Player
    BY <2>1, LenProperties, ElementOfSeq
  <2>3. QED  BY <2>1, <2>2, ConfiguratorAssumption DEF Others
<1>2. Targets[1] = "killer" /\ Targets[2] = "judge" /\ Len(Targets) \in Nat
  BY TargetProperties
<1>3. CASE i \in 3 .. Len(Targets) /\ j \in 3 .. Len(Targets)
  <2>1. /\ i - 2 \in DOMAIN solutions /\ Targets[i] = solutions[i - 2]
        /\ j - 2 \in DOMAIN solutions /\ Targets[j] = solutions[j - 2]
    BY <1>3, TargetProperties
  <2>2. i - 2 = j - 2
    BY <2>1
  <2>3. QED  BY <1>2, <2>2
<1>4. CASE i \in {1, 2}
  BY <1>1, <1>2, <1>4
<1>5. CASE j \in {1, 2}
  BY <1>1, <1>2, <1>5
<1>6. QED  BY <1>2, <1>3, <1>4, <1>5

-----------------------------------------------------------------------------
(***************************************************************************)
(* The inductive invariant.                                                *)
(***************************************************************************)

\* The broker's descriptors fd and fd + 1, of those in b, are the other ends
\* of stdin and stdout in s.
Joined(b, s, fd) ==
    /\ {fd, fd + 1} \subseteq DOMAIN b /\ {0, 1} \subseteq DOMAIN s
    /\ b[fd].end = "write" /\ s[0].end = "read" /\ b[fd].pipe = s[0].pipe
    /\ b[fd + 1].end = "read" /\ s[1].end = "write" /\ b[fd + 1].pipe = s[1].pipe

StreamsOK ==
    /\ pipes \in Nat /\ streams = [p \in Process |-> streams[p]]
    /\ \A p \in Process : \A fd \in DOMAIN streams[p] :
         streams[p][fd] \in [pipe : Nat, end : {"log", "read", "write"}]

DistinctSolutions == \A i, j \in DOMAIN solutions : solutions[i] = solutions[j] => i = j

\* What this call has connected so far.
Entries == [in : Nat, out : Nat, id : {Id(p) : p \in Process}]
Linked ==
    /\ options.entries \in Seq(Entries) /\ Len(options.entries) = done
    /\ \A i \in 1 .. done : /\ options.entries[i] = Entry(Targets[i], 1 + 2 * i)
                            /\ Joined(streams["broker"], streams[Targets[i]], 1 + 2 * i)

OptionsOf(q) ==
    [entries |-> q, defaultResourceLimits |-> settings.limits,
     defaultTokenizerArgument |-> settings.argument]

Progress ==
    /\ step # "idle" \/ configured =>
         options = OptionsOf(options.entries) /\ Linked /\ done <= Len(Targets)
    /\ step \in {"killer", "judge"} \/ configured =>
         done = Len(Targets) /\ brokerFile = Dump(options)
    /\ step = "judge" \/ configured =>
         killerFile = {Id(solutions[i]) : i \in DOMAIN solutions}
    /\ configured => step = "idle" /\ judgeArgument = Len(solutions)

ConfigInv == TypeOK /\ StreamsOK /\ ExclusiveEnds /\ DistinctSolutions /\ Progress

-----------------------------------------------------------------------------
\* The steps.

LEMMA ConfigStart == Init => ConfigInv
<1> SUFFICES ASSUME Init PROVE ConfigInv
  OBVIOUS
<1>1. solutions \in Seq(Player) /\ DistinctSolutions
  <2>1. PICK n \in 0 .. Cardinality(Player) : solutions \in [1 .. n -> Player]
    BY DEF Init
  <2>2. n \in Nat
    BY <2>1
  <2>3. solutions \in Seq(Player)
    BY <2>1, <2>2, SeqDef
  <2>4. QED  BY <2>3 DEF Init, DistinctSolutions
<1>2. streams = [p \in Process |-> <<>>] /\ pipes = 0
  BY DEF Init
<1>3. \A p \in Process : DOMAIN streams[p] = {}
  BY <1>2
<1>4. StreamsOK /\ ExclusiveEnds
  BY <1>2, <1>3 DEF StreamsOK, ExclusiveEnds
<1>5. TypeOK
  <2>1. /\ settings \in Settings /\ configured = FALSE /\ step = "idle"
        /\ done = 0 /\ throws = 0
    BY DEF Init
  <2>2. throws \in 0 .. MaxThrows
    BY <2>1, ConfiguratorAssumption
  <2>3. QED  BY <1>1, <1>3, <2>1, <2>2 DEF TypeOK
<1>6. Progress
  BY DEF Init, Progress
<1>7. QED  BY <1>1, <1>4, <1>5, <1>6 DEF ConfigInv

\* connect() binds two descriptors of the process (and its log), and the next
\* two of the broker.
LEMMA ConnectEffect ==
    ASSUME ConfigInv, Connect, NEW p, p = Targets[done + 1]
    PROVE  /\ p \in Process \ {"broker"} /\ done \in Nat /\ done + 1 \in 1 .. Len(Targets)
           /\ pipes' = pipes + 2
           /\ streams' = [q \in Process |-> streams'[q]]
           /\ \A q \in Process \ {p, "broker"} : streams'[q] = streams[q]
           /\ {0, 1} \subseteq DOMAIN streams'[p]
           /\ streams'[p][0] = ReadEnd(pipes + 1) /\ streams'[p][1] = WriteEnd(pipes + 2)
           /\ \A x \in DOMAIN streams'[p] \ {0, 1} :
                \/ x = 2 /\ streams'[p][x] = Log
                \/ x \in DOMAIN streams[p] /\ streams'[p][x] = streams[p][x]
           /\ DOMAIN streams'["broker"] = DOMAIN streams["broker"] \cup {NextFD, NextFD + 1}
           /\ streams'["broker"][NextFD] = WriteEnd(pipes + 1)
           /\ streams'["broker"][NextFD + 1] = ReadEnd(pipes + 2)
           /\ \A x \in DOMAIN streams["broker"] \ {NextFD, NextFD + 1} :
                streams'["broker"][x] = streams["broker"][x]
<1>1. done \in Nat /\ done + 1 \in 1 .. Len(Targets)
  BY TargetProperties DEF ConfigInv, TypeOK, Connect
<1>2. p \in Process \ {"broker"} /\ "broker" \in Process
  BY <1>1, TargetProperties DEF ConfigInv, TypeOK, Process, Others
<1>3. pipes \in Nat /\ PipeIn = pipes + 1 /\ PipeIn + 1 = pipes + 2 /\ pipes' = pipes + 2
  BY DEF ConfigInv, StreamsOK, Connect, PipeIn
<1> DEFINE bound == Bind(Bind(streams[p], 0, ReadEnd(PipeIn)), 1, WriteEnd(PipeIn + 1))
           ofP == IF p \in Player THEN bound ELSE Bind(bound, 2, Log)
           ofBroker == Bind(Bind(streams["broker"], NextFD, WriteEnd(PipeIn)),
                            NextFD + 1, ReadEnd(PipeIn + 1))
<1>4. streams' = [streams EXCEPT ![p] = ofP, !["broker"] = ofBroker]
  BY <1>2 DEF Connect, ConfigInv, StreamsOK
<1>5. /\ DOMAIN bound = DOMAIN streams[p] \cup {0, 1}
      /\ bound[0] = ReadEnd(PipeIn) /\ bound[1] = WriteEnd(PipeIn + 1)
      /\ \A x \in DOMAIN streams[p] : x \notin {0, 1} => bound[x] = streams[p][x]
  BY DEF Bind
<1> HIDE DEF bound
<1>6. /\ {0, 1} \subseteq DOMAIN ofP
      /\ ofP[0] = ReadEnd(PipeIn) /\ ofP[1] = WriteEnd(PipeIn + 1)
      /\ \A x \in DOMAIN ofP \ {0, 1} :
           \/ x = 2 /\ ofP[x] = Log
           \/ x \in DOMAIN streams[p] /\ ofP[x] = streams[p][x]
  <2>1. CASE p \in Player
    BY <1>5, <2>1
  <2>2. CASE p \notin Player
    <3>0. ofP = Bind(bound, 2, Log)
      BY <2>2
    <3>1. /\ DOMAIN ofP = DOMAIN bound \cup {2} /\ ofP[2] = Log
          /\ \A x \in DOMAIN bound : x # 2 => ofP[x] = bound[x]
      BY <3>0 DEF Bind
    <3>2. QED  BY <1>5, <3>1
  <2>3. QED  BY <2>1, <2>2
<1>7. NextFD # NextFD + 1
  BY <1>1 DEF NextFD
<1>8. /\ DOMAIN ofBroker = DOMAIN streams["broker"] \cup {NextFD, NextFD + 1}
      /\ ofBroker[NextFD] = WriteEnd(PipeIn) /\ ofBroker[NextFD + 1] = ReadEnd(PipeIn + 1)
      /\ \A x \in DOMAIN streams["broker"] :
           x \notin {NextFD, NextFD + 1} => ofBroker[x] = streams["broker"][x]
  BY <1>7 DEF Bind
<1> HIDE DEF ofP, ofBroker
<1>9. /\ streams' = [q \in Process |-> streams'[q]]
      /\ streams'[p] = ofP /\ streams'["broker"] = ofBroker
      /\ \A q \in Process \ {p, "broker"} : streams'[q] = streams[q]
  <2>1. DOMAIN streams = Process
    BY DEF ConfigInv, StreamsOK
  <2>2. streams' = [q \in Process |-> IF q = "broker" THEN ofBroker
                                      ELSE IF q = p THEN ofP ELSE streams[q]]
    BY <1>2, <1>4, <2>1
  <2>3. QED  BY <1>2, <2>2
<1>10. QED  BY <1>1, <1>2, <1>3, <1>6, <1>8, <1>9

\* Every descriptor is bound to what it was bound to before, to the log, or
\* to one of the four ends of the new pipes, which differ.
LEMMA NewEnds ==
    ASSUME ConfigInv, Connect, NEW p, p = Targets[done + 1],
           NEW q \in Process, NEW x \in DOMAIN streams'[q]
    PROVE  \/ x \in DOMAIN streams[q] /\ streams'[q][x] = streams[q][x]
           \/ x = 2 /\ streams'[q][x] = Log
           \/ q = p /\ x = 0 /\ streams'[q][x] = ReadEnd(pipes + 1)
           \/ q = p /\ x = 1 /\ streams'[q][x] = WriteEnd(pipes + 2)
           \/ q = "broker" /\ x = NextFD /\ streams'[q][x] = WriteEnd(pipes + 1)
           \/ q = "broker" /\ x = NextFD + 1 /\ streams'[q][x] = ReadEnd(pipes + 2)
<1>1. CASE q = p
  BY <1>1, ConnectEffect
<1>2. CASE q = "broker"
  BY <1>2, ConnectEffect
<1>3. CASE q \notin {p, "broker"}
  <2>1. streams'[q] = streams[q]
    BY <1>3, ConnectEffect
  <2>2. QED  BY <2>1
<1>4. QED  BY <1>1, <1>2, <1>3

LEMMA ConnectKeepsStreams ==
    ASSUME ConfigInv, Connect
    PROVE  /\ StreamsOK' /\ ExclusiveEnds'
           /\ \A p \in Process : \A fd \in DOMAIN streams'[p] :
                /\ fd \in Nat
                /\ streams'[p][fd].pipe \in 0 .. pipes'
                /\ streams'[p][fd] = Log <=> fd = 2
<1> DEFINE p == Targets[done + 1]
<1>1. /\ p \in Process \ {"broker"} /\ done \in Nat
      /\ pipes' = pipes + 2 /\ pipes \in Nat
      /\ streams' = [q \in Process |-> streams'[q]]
  BY ConnectEffect DEF ConfigInv, StreamsOK
<1>2. /\ NextFD = 3 + 2 * done /\ NextFD \in Nat /\ NextFD # 2 /\ NextFD + 1 # 2
      /\ NextFD # NextFD + 1 /\ NextFD + 1 \in Nat
  BY <1>1 DEF NextFD
<1>3. \A q \in Process : \A x \in DOMAIN streams[q] :
        /\ x \in Nat /\ streams[q][x].pipe \in 0 .. pipes
        /\ streams[q][x] = Log <=> x = 2
        /\ streams[q][x] \in [pipe : Nat, end : {"log", "read", "write"}]
  BY DEF ConfigInv, TypeOK, StreamsOK
<1> HIDE DEF p
<1>4. ASSUME NEW q \in Process, NEW x \in DOMAIN streams'[q]
      PROVE  /\ x \in Nat /\ streams'[q][x].pipe \in 0 .. pipes'
             /\ streams'[q][x] = Log <=> x = 2
             /\ streams'[q][x] \in [pipe : Nat, end : {"log", "read", "write"}]
  <2>1. CASE x \in DOMAIN streams[q] /\ streams'[q][x] = streams[q][x]
    <3>1. \A n \in 0 .. pipes : n \in 0 .. pipes'
      BY <1>1
    <3>2. QED  BY <1>3, <2>1, <3>1
  <2>2. CASE x = 2 /\ streams'[q][x] = Log
    BY <1>1, <2>2 DEF Log
  <2>3. CASE x = 0 /\ streams'[q][x] = ReadEnd(pipes + 1)
    BY <1>1, <2>3 DEF ReadEnd, Log
  <2>4. CASE x = 1 /\ streams'[q][x] = WriteEnd(pipes + 2)
    BY <1>1, <2>4 DEF WriteEnd, Log
  <2>5. CASE x = NextFD /\ streams'[q][x] = WriteEnd(pipes + 1)
    BY <1>1, <1>2, <2>5 DEF WriteEnd, Log
  <2>6. CASE x = NextFD + 1 /\ streams'[q][x] = ReadEnd(pipes + 2)
    BY <1>1, <1>2, <2>6 DEF ReadEnd, Log
  <2>7. QED  BY <2>1, <2>2, <2>3, <2>4, <2>5, <2>6, NewEnds DEF p
<1>5. StreamsOK'
  BY <1>1, <1>4 DEF StreamsOK
<1>6. ASSUME NEW q \in Process, NEW r \in Process,
             NEW x \in DOMAIN streams'[q], NEW y \in DOMAIN streams'[r],
             streams'[q][x] = streams'[r][y], streams'[q][x] # Log
      PROVE  q = r /\ x = y
  <2> DEFINE new == {ReadEnd(pipes + 1), WriteEnd(pipes + 2), WriteEnd(pipes + 1), ReadEnd(pipes + 2)}
  <2>1. \A o \in Process : \A z \in DOMAIN streams[o] : streams[o][z] \notin new
    BY <1>1, <1>3 DEF ReadEnd, WriteEnd
  <2>2. /\ ReadEnd(pipes + 1) # WriteEnd(pipes + 2) /\ ReadEnd(pipes + 1) # WriteEnd(pipes + 1)
        /\ ReadEnd(pipes + 1) # ReadEnd(pipes + 2) /\ WriteEnd(pipes + 2) # WriteEnd(pipes + 1)
        /\ WriteEnd(pipes + 2) # ReadEnd(pipes + 2) /\ WriteEnd(pipes + 1) # ReadEnd(pipes + 2)
    BY <1>1 DEF ReadEnd, WriteEnd
  <2>3. \/ x \in DOMAIN streams[q] /\ streams'[q][x] = streams[q][x]
        \/ q = p /\ x = 0 /\ streams'[q][x] = ReadEnd(pipes + 1)
        \/ q = p /\ x = 1 /\ streams'[q][x] = WriteEnd(pipes + 2)
        \/ q = "broker" /\ x = NextFD /\ streams'[q][x] = WriteEnd(pipes + 1)
        \/ q = "broker" /\ x = NextFD + 1 /\ streams'[q][x] = ReadEnd(pipes + 2)
    BY <1>6, NewEnds DEF p
  <2>4. \/ y \in DOMAIN streams[r] /\ streams'[r][y] = streams[r][y]
        \/ r = p /\ y = 0 /\ streams'[r][y] = ReadEnd(pipes + 1)
        \/ r = p /\ y = 1 /\ streams'[r][y] = WriteEnd(pipes + 2)
        \/ r = "broker" /\ y = NextFD /\ streams'[r][y] = WriteEnd(pipes + 1)
        \/ r = "broker" /\ y = NextFD + 1 /\ streams'[r][y] = ReadEnd(pipes + 2)
    BY <1>6, NewEnds DEF p
  <2>5. CASE /\ x \in DOMAIN streams[q] /\ streams'[q][x] = streams[q][x]
             /\ y \in DOMAIN streams[r] /\ streams'[r][y] = streams[r][y]
    <3>1. \A a, b \in Process : \A z \in DOMAIN streams[a], w \in DOMAIN streams[b] :
            streams[a][z] = streams[b][w] /\ streams[a][z] # Log => a = b /\ z = w
      BY Zenon DEF ConfigInv, ExclusiveEnds
    <3>2. streams[q][x] = streams[r][y] /\ streams[q][x] # Log
      BY <1>6, <2>5, Zenon
    <3>3. QED  BY <2>5, <3>1, <3>2
  <2> HIDE DEF p
  <2>6. CASE x \in DOMAIN streams[q] /\ streams'[q][x] = streams[q][x] /\ streams'[r][y] \in new
    BY <1>6, <2>1, <2>6
  <2>7. CASE streams'[q][x] \in new /\ y \in DOMAIN streams[r] /\ streams'[r][y] = streams[r][y]
    BY <1>6, <2>1, <2>7
  <2>8. CASE streams'[q][x] \in new /\ streams'[r][y] \in new
    BY <1>6, <2>2, <2>3, <2>4, <2>8, <2>1
  <2>9. (x \in DOMAIN streams[q] /\ streams'[q][x] = streams[q][x]) \/ streams'[q][x] \in new
    BY <2>3
  <2>10. (y \in DOMAIN streams[r] /\ streams'[r][y] = streams[r][y]) \/ streams'[r][y] \in new
    BY <2>4
  <2> HIDE DEF new
  <2>11. QED  BY <2>5, <2>6, <2>7, <2>8, <2>9, <2>10, Zenon
<1>7. ExclusiveEnds'
  BY <1>6, ZenonT(30) DEF ExclusiveEnds
<1>8. QED  BY <1>4, <1>5, <1>7

\* The processes that were connected before stay so, and one more is.
LEMMA ConnectKeepsLinked ==
    ASSUME ConfigInv, Connect
    PROVE  Linked' /\ options' = OptionsOf(options.entries)' /\ done' <= Len(Targets)'
<1> DEFINE p == Targets[done + 1]
           e == Entry(p, NextFD)
<1>1. /\ p \in Process \ {"broker"} /\ done \in Nat /\ done + 1 \in 1 .. Len(Targets)
      /\ Len(Targets) \in Nat
  BY ConnectEffect, TargetProperties DEF ConfigInv, TypeOK
<1>2. /\ Linked /\ options = OptionsOf(options.entries)
      /\ solutions' = solutions /\ settings' = settings /\ done' = done + 1
      /\ options' = [options EXCEPT !.entries = Append(options.entries, e)]
  BY DEF Connect, memberVars, ConfigInv, Progress
<1>3. Targets' = Targets
  BY <1>2 DEF Targets
<1>4. options'.entries = Append(options.entries, e) /\ options' = OptionsOf(options.entries)'
  <2>1. options' = [entries |-> Append(options.entries, e),
                    defaultResourceLimits |-> settings.limits,
                    defaultTokenizerArgument |-> settings.argument]
    <3> DEFINE q == options.entries
               r == Append(options.entries, e)
    <3>1. options = [entries |-> q, defaultResourceLimits |-> settings.limits,
                     defaultTokenizerArgument |-> settings.argument]
      BY <1>2 DEF OptionsOf
    <3>2. options' = [options EXCEPT !.entries = r]
      BY <1>2
    <3> HIDE DEF q, r
    <3>3. options' = [entries |-> r, defaultResourceLimits |-> settings.limits,
                      defaultTokenizerArgument |-> settings.argument]
      BY <3>1, <3>2
    <3>4. QED  BY <3>3 DEF r
  <2>2. QED  BY <1>2, <2>1 DEF OptionsOf
<1>5. NextFD = 1 + 2 * (done + 1) /\ NextFD \in Nat
  BY <1>1 DEF NextFD
<1>6. e \in Entries
  BY <1>1, <1>5 DEF Entry, Entries
<1>7. /\ options'.entries \in Seq(Entries) /\ Len(options'.entries) = done + 1
      /\ options'.entries[done + 1] = e
      /\ \A i \in 1 .. done : options'.entries[i] = options.entries[i]
  BY <1>2, <1>4, <1>6, AppendProperties DEF Linked
<1>8. Joined(streams'["broker"], streams'[p], NextFD)
  <2>1. /\ {0, 1} \subseteq DOMAIN streams'[p] /\ {NextFD, NextFD + 1} \subseteq DOMAIN streams'["broker"]
        /\ streams'[p][0] = ReadEnd(pipes + 1) /\ streams'[p][1] = WriteEnd(pipes + 2)
        /\ streams'["broker"][NextFD] = WriteEnd(pipes + 1)
        /\ streams'["broker"][NextFD + 1] = ReadEnd(pipes + 2)
    BY ConnectEffect
  <2>2. QED  BY <2>1 DEF Joined, ReadEnd, WriteEnd
<1>9. ASSUME NEW i \in 1 .. done
      PROVE  Joined(streams'["broker"], streams'[Targets[i]], 1 + 2 * i)
  <2>1. /\ Joined(streams["broker"], streams[Targets[i]], 1 + 2 * i)
        /\ i \in 1 .. Len(Targets) /\ i # done + 1
    BY <1>1, <1>2 DEF Linked
  <2>2. Targets[i] \in Process \ {"broker"} /\ Targets[i] # p
    <3>1. Targets[i] \in Process \ {"broker"}
      BY <2>1, TargetProperties DEF ConfigInv, TypeOK
    <3>2. Targets[i] # p
      BY <1>1, <2>1, TargetsDiffer DEF ConfigInv, TypeOK, DistinctSolutions
    <3>3. QED  BY <3>1, <3>2
  <2>3. streams'[Targets[i]] = streams[Targets[i]]
    BY <2>2, ConnectEffect
  <2>4. ASSUME NEW x \in {1 + 2 * i, 1 + 2 * i + 1}
        PROVE  x \in DOMAIN streams'["broker"] /\ streams'["broker"][x] = streams["broker"][x]
    <3>1. x \notin {NextFD, NextFD + 1}
      BY <1>1, <1>5
    <3>2. x \in DOMAIN streams["broker"]
      BY <2>1 DEF Joined
    <3>3. QED  BY <3>1, <3>2, ConnectEffect
  <2>5. QED  BY <2>1, <2>3, <2>4 DEF Joined
<1>10. ASSUME NEW i \in 1 .. done'
       PROVE  /\ options'.entries[i] = Entry(Targets[i], 1 + 2 * i)
              /\ Joined(streams'["broker"], streams'[Targets[i]], 1 + 2 * i)
  <2>1. CASE i = done + 1
    BY <1>5, <1>7, <1>8, <2>1
  <2>2. CASE i \in 1 .. done
    BY <1>2, <1>7, <1>9, <2>2 DEF Linked
  <2>3. i = done + 1 \/ i \in 1 .. done
    BY <1>1, <1>2
  <2>4. QED  BY <2>1, <2>2, <2>3, Zenon
<1>11. Linked'
  BY <1>2, <1>3, <1>7, <1>10 DEF Linked, Entries, Entry
<1>12. QED  BY <1>1, <1>2, <1>3, <1>4, <1>11

LEMMA ConnectKeeps ==
    ASSUME ConfigInv, Connect
    PROVE  ConfigInv'
<1>1. /\ step = "connect" /\ step' = "connect" /\ ~configured /\ configured' = configured
      /\ UNCHANGED <<solutions, settings, throws, brokerFile, killerFile>>
  BY DEF Connect, memberVars, ConfigInv, Progress
<1>2. done' = done + 1 /\ done \in Nat
  BY ConnectEffect DEF Connect
<1>3. Linked' /\ options' = OptionsOf(options.entries)' /\ done' <= Len(Targets)'
  BY ConnectKeepsLinked
<1>4. Progress'
  BY <1>1, <1>3 DEF Progress
<1>5. TypeOK'
  BY <1>1, <1>2, <1>3, ConnectKeepsStreams DEF ConfigInv, TypeOK
<1>6. DistinctSolutions'
  BY <1>1 DEF ConfigInv, DistinctSolutions
<1>7. QED  BY <1>4, <1>5, <1>6, ConnectKeepsStreams DEF ConfigInv

LEMMA ChangeKeeps ==
    ASSUME ConfigInv, ChangeSolutions
    PROVE  ConfigInv'
<1>1. /\ step = "idle" /\ ~configured
      /\ UNCHANGED <<settings, configured, step, done, options, streams, pipes,
                     brokerFile, killerFile, judgeArgument, throws>>
  BY DEF ChangeSolutions
<1>2. solutions' \in Seq(Player) /\ DistinctSolutions'
  <2>1. solutions \in Seq(Player) /\ Len(solutions) \in Nat /\ DOMAIN solutions = 1 .. Len(solutions)
        /\ \A i, j \in 1 .. Len(solutions) : solutions[i] = solutions[j] => i = j
    BY LenProperties DEF ConfigInv, TypeOK, DistinctSolutions
  <2>2. CASE solutions # <<>> /\ solutions' = Tail(solutions)
    <3> DEFINE q == Tail(solutions)
    <3>1. /\ q \in Seq(Player) /\ Len(q) = Len(solutions) - 1
          /\ \A i \in 1 .. Len(q) : q[i] = solutions[i + 1]
      BY <2>1, <2>2, HeadTailProperties
    <3> HIDE DEF q
    <3>2. DOMAIN q = 1 .. Len(q) /\ \A i, j \in 1 .. Len(q) : q[i] = q[j] => i = j
      <4>1. \A i \in 1 .. Len(q) : i + 1 \in 1 .. Len(solutions)
        BY <2>1, <3>1
      <4>2. ASSUME NEW i \in 1 .. Len(q), NEW j \in 1 .. Len(q), q[i] = q[j] PROVE i = j
        <5>1. solutions[i + 1] = solutions[j + 1]
          BY <3>1, <4>2
        <5>2. i + 1 = j + 1
          BY <2>1, <4>1, <5>1
        <5>3. QED  BY <2>1, <3>1, <5>2
      <4>3. QED  BY <3>1, <4>2, LenProperties
    <3>3. solutions' = q
      BY <2>2 DEF q
    <3>4. QED  BY <3>1, <3>2, <3>3 DEF DistinctSolutions
  <2>3. ASSUME NEW p \in Player, \A i \in DOMAIN solutions : solutions[i] # p,
               solutions' = Append(solutions, p)
        PROVE  solutions' \in Seq(Player) /\ DistinctSolutions'
    <3> DEFINE q == Append(solutions, p)
    <3>1. /\ q \in Seq(Player) /\ Len(q) = Len(solutions) + 1 /\ q[Len(solutions) + 1] = p
          /\ \A i \in 1 .. Len(solutions) : q[i] = solutions[i]
      BY <2>1, AppendProperties
    <3> HIDE DEF q
    <3>2. DOMAIN q = 1 .. Len(solutions) + 1
      BY <3>1, LenProperties
    <3>3. \A i \in 1 .. Len(solutions) : q[i] # p
      BY <2>1, <2>3, <3>1
    <3>4. \A i \in 1 .. Len(solutions) + 1 : i = Len(solutions) + 1 \/ i \in 1 .. Len(solutions)
      BY <2>1
    <3>5. \A i, j \in 1 .. Len(solutions) + 1 : q[i] = q[j] => i = j
      BY <2>1, <3>1, <3>3, <3>4, Zenon
    <3>6. solutions' = q
      BY <2>3 DEF q
    <3>7. QED  BY <3>1, <3>2, <3>5, <3>6 DEF DistinctSolutions
  <2>4. QED  BY <2>2, <2>3 DEF ChangeSolutions
<1>3. TypeOK'
  BY <1>1, <1>2 DEF ConfigInv, TypeOK
<1>4. StreamsOK' /\ ExclusiveEnds'
  BY <1>1 DEF ConfigInv, StreamsOK, ExclusiveEnds
<1>5. Progress'
  BY <1>1 DEF Progress
<1>6. QED  BY <1>2, <1>3, <1>4, <1>5 DEF ConfigInv

\* The call begins, and binds the log of the broker.
LEMMA ConfigureKeeps ==
    ASSUME ConfigInv, Configure
    PROVE  ConfigInv'
<1>1. /\ step = "idle" /\ ~configured /\ configured' = FALSE /\ step' = "connect" /\ done' = 0
      /\ options' = OptionsOf(<<>>)
      /\ streams' = [streams EXCEPT !["broker"] = Bind(streams["broker"], 2, Log)]
      /\ UNCHANGED <<solutions, settings, pipes, brokerFile, killerFile, judgeArgument, throws>>
  <2>1. "broker" \in Process
    BY DEF Process, Others
  <2>2. QED  BY <2>1 DEF Configure, SetsConfigured, memberVars, OptionsOf, ConfigInv, StreamsOK
<1>2. options' = OptionsOf(options.entries)' /\ options'.entries = <<>>
  BY <1>1 DEF OptionsOf
<1>3. Progress'
  <2>1. <<>> \in Seq(Entries)' /\ Len(<<>>) = 0
    OBVIOUS
  <2>2. Linked'
    <3>1. \A i \in 1 .. done' : FALSE
      BY <1>1
    <3>2. options'.entries \in Seq(Entries)' /\ Len(options'.entries) = done'
      BY <1>1, <1>2, <2>1, Zenon
    <3>3. QED  BY <3>1, <3>2, Zenon DEF Linked
  <2>3. done' <= Len(Targets)'
    <3>1. Targets' = Targets /\ Len(Targets) \in Nat
      BY <1>1, TargetProperties DEF Targets, ConfigInv, TypeOK
    <3>2. QED  BY <1>1, <3>1
  <2>4. QED  BY <1>1, <1>2, <2>2, <2>3 DEF Progress
<1>4. /\ streams' = [p \in Process |-> streams'[p]]
      /\ \A p \in Process : \A x \in DOMAIN streams'[p] :
           \/ x \in DOMAIN streams[p] /\ streams'[p][x] = streams[p][x]
           \/ x = 2 /\ streams'[p][x] = Log
  BY <1>1 DEF ConfigInv, StreamsOK, Bind
<1>5. \A p \in Process : \A x \in DOMAIN streams[p] :
        /\ x \in Nat /\ streams[p][x].pipe \in 0 .. pipes
        /\ streams[p][x] = Log <=> x = 2
        /\ streams[p][x] \in [pipe : Nat, end : {"log", "read", "write"}]
  BY DEF ConfigInv, TypeOK, StreamsOK
<1>6. pipes \in Nat /\ pipes' = pipes
  BY <1>1 DEF ConfigInv, StreamsOK
<1>7. ASSUME NEW p \in Process, NEW x \in DOMAIN streams'[p]
      PROVE  /\ x \in Nat /\ streams'[p][x].pipe \in 0 .. pipes'
             /\ streams'[p][x] = Log <=> x = 2
             /\ streams'[p][x] \in [pipe : Nat, end : {"log", "read", "write"}]
  <2>1. CASE x \in DOMAIN streams[p] /\ streams'[p][x] = streams[p][x]
    BY <1>5, <1>6, <2>1
  <2>2. CASE x = 2 /\ streams'[p][x] = Log
    BY <1>6, <2>2 DEF Log
  <2>3. QED  BY <1>4, <2>1, <2>2
<1>8. StreamsOK'
  BY <1>4, <1>6, <1>7 DEF StreamsOK
<1>9. ExclusiveEnds'
  <2>1. ASSUME NEW p \in Process, NEW q \in Process,
               NEW x \in DOMAIN streams'[p], NEW y \in DOMAIN streams'[q],
               streams'[p][x] = streams'[q][y], streams'[p][x] # Log
        PROVE  p = q /\ x = y
    <3>1. /\ x \in DOMAIN streams[p] /\ streams'[p][x] = streams[p][x]
          /\ y \in DOMAIN streams[q] /\ streams'[q][y] = streams[q][y]
      BY <1>4, <2>1
    <3>2. \A a, b \in Process : \A z \in DOMAIN streams[a], w \in DOMAIN streams[b] :
            streams[a][z] = streams[b][w] /\ streams[a][z] # Log => a = b /\ z = w
      BY Zenon DEF ConfigInv, ExclusiveEnds
    <3>3. streams[p][x] = streams[q][y] /\ streams[p][x] # Log
      BY <2>1, <3>1, Zenon
    <3>4. QED  BY <3>1, <3>2, <3>3
  <2>2. QED  BY <2>1, ZenonT(30) DEF ExclusiveEnds
<1>10. TypeOK'
  <2>1. Targets' = Targets
    BY <1>1 DEF Targets
  <2>2. done' \in Nat /\ done' <= Len(Targets)'
    BY <1>1, <2>1, TargetProperties DEF ConfigInv, TypeOK
  <2>3. QED  BY <1>1, <1>7, <2>2 DEF ConfigInv, TypeOK
<1>11. DistinctSolutions'
  BY <1>1 DEF ConfigInv, DistinctSolutions
<1>12. QED  BY <1>3, <1>8, <1>9, <1>10, <1>11 DEF ConfigInv

\* The other steps leave the streams alone.
LEMMA WriteKeeps ==
    ASSUME ConfigInv, DumpBroker \/ DumpKiller \/ Finish \/ Throw \/ UNCHANGED vars
    PROVE  ConfigInv'
<1>1. UNCHANGED <<solutions, settings, done, options, streams, pipes>>
  BY DEF DumpBroker, DumpKiller, Finish, Throw, vars, memberVars
<1>2. Targets' = Targets
  BY <1>1 DEF Targets
<1>3. StreamsOK' /\ ExclusiveEnds' /\ DistinctSolutions'
  BY <1>1 DEF ConfigInv, StreamsOK, ExclusiveEnds, DistinctSolutions
<1>4. OptionsOf(options.entries)' = OptionsOf(options.entries) /\ Linked' = Linked
      /\ Dump(options)' = Dump(options)
  BY <1>1, <1>2 DEF OptionsOf, Linked, Entries, Dump
<1>5. TypeOK'
  <2>1. step' \in {"idle", "connect", "killer", "judge"} /\ configured' \in BOOLEAN
        /\ (step' # "idle" => step # "idle") /\ throws' \in 0 .. MaxThrows
    <3>1. /\ step \in {"idle", "connect", "killer", "judge"} /\ configured \in BOOLEAN
          /\ throws \in 0 .. MaxThrows /\ MaxThrows \in Nat
      BY ConfiguratorAssumption DEF ConfigInv, TypeOK
    <3>2. CASE DumpBroker \/ DumpKiller \/ Finish
      BY <3>1, <3>2 DEF DumpBroker, DumpKiller, Finish, SetsConfigured
    <3>3. CASE Throw
      BY <3>1, <3>3 DEF Throw
    <3>4. CASE UNCHANGED vars
      BY <3>1, <3>4 DEF vars
    <3>5. QED  BY <3>2, <3>3, <3>4
  <2>2. QED  BY <1>1, <1>2, <2>1 DEF ConfigInv, TypeOK
<1>6. Progress'
  <2>1. CASE DumpBroker
    <3>1. /\ step = "connect" /\ step' = "killer" /\ ~configured /\ configured' = configured
          /\ done = Len(Targets) /\ brokerFile' = Dump(options)
      BY <2>1 DEF DumpBroker, ConfigInv, Progress
    <3>2. QED  BY <1>1, <1>2, <1>4, <3>1 DEF ConfigInv, Progress
  <2>2. CASE DumpKiller
    <3>1. /\ step = "killer" /\ step' = "judge" /\ ~configured /\ configured' = configured
          /\ brokerFile' = brokerFile
          /\ killerFile' = {Id(solutions[i]) : i \in DOMAIN solutions}
      BY <2>2 DEF DumpKiller, ConfigInv, Progress
    <3>2. QED  BY <1>1, <1>2, <1>4, <3>1 DEF ConfigInv, Progress
  <2>3. CASE Finish
    <3>1. /\ step = "judge" /\ step' = "idle" /\ UNCHANGED <<brokerFile, killerFile>>
          /\ judgeArgument' = Len(solutions)
      BY <2>3 DEF Finish
    <3>2. QED  BY <1>1, <1>2, <1>4, <3>1 DEF ConfigInv, Progress
  <2>4. CASE Throw
    <3>1. step' = "idle" /\ ~configured /\ configured' = configured
      BY <2>4 DEF Throw, ConfigInv, Progress
    <3>2. QED  BY <3>1 DEF Progress
  <2>5. CASE UNCHANGED vars
    <3>1. UNCHANGED <<step, configured, brokerFile, killerFile, judgeArgument>>
      BY <2>5 DEF vars
    <3>2. QED  BY <1>1, <1>2, <1>4, <3>1 DEF ConfigInv, Progress
  <2>6. QED  BY <2>1, <2>2, <2>3, <2>4, <2>5
<1>7. QED  BY <1>3, <1>5, <1>6 DEF ConfigInv

LEMMA ConfigInvariant == Spec => []ConfigInv
<1>1. ConfigInv /\ [Next]_vars => ConfigInv'
  BY ConnectKeeps, ChangeKeeps, ConfigureKeeps, WriteKeeps DEF Next, ConfigureAgain
<1>2. QED  BY <1>1, ConfigStart, PTL DEF Spec

-----------------------------------------------------------------------------
(***************************************************************************)
(* What configure() guarantees.                                            *)
(***************************************************************************)

\* Every variable keeps its type: stderr of every process is the log or not
\* set here, and no other descriptor ever is the log.
THEOREM ConfiguratorTypeCorrect == Spec => []TypeOK
<1>1. ConfigInv => TypeOK
  BY DEF ConfigInv
<1>2. QED  BY <1>1, ConfigInvariant, PTL

\* No two descriptors hold the same end of a pipe, so that a stream ends when
\* its one writer does (BrokerImplCommunicate.cpp:114).
THEOREM EndsAreExclusive == Spec => []ExclusiveEnds
<1>1. ConfigInv => ExclusiveEnds
  BY DEF ConfigInv
<1>2. QED  BY <1>1, ConfigInvariant, PTL

\* What the broker loads after configure().
LEMMA LoadedOptions ==
    ASSUME ConfigInv, Configured
    PROVE  /\ Loaded.entries = options.entries
           /\ Loaded.defaultResourceLimits = settings.limits
           /\ Len(Loaded.entries) = Len(Targets) /\ Linked /\ done = Len(Targets)
           /\ killerFile = {Id(solutions[i]) : i \in DOMAIN solutions}
           /\ judgeArgument = Len(solutions)
<1>1. /\ options = OptionsOf(options.entries) /\ Linked /\ done = Len(Targets)
      /\ brokerFile = Dump(options)
      /\ killerFile = {Id(solutions[i]) : i \in DOMAIN solutions}
      /\ judgeArgument = Len(solutions)
  BY DEF Configured, ConfigInv, Progress
<1>2. Loaded.entries = options.entries /\ Loaded.defaultResourceLimits = options.defaultResourceLimits
  BY <1>1 DEF Loaded, Load, Dump, Serialized, Fields
<1>3. options.defaultResourceLimits = settings.limits
  BY <1>1 DEF OptionsOf
<1>4. QED  BY <1>1, <1>2, <1>3 DEF Linked

\* The descriptors that the broker is told for a process lead to stdin and
\* stdout of this very process (Configurator.cpp:75), after any number of
\* calls that threw before and any change of the solutions between them.
THEOREM ConfiguredIsWired == Spec => []Wired
<1>1. ConfigInv => Wired
  <2> SUFFICES ASSUME ConfigInv, Configured, NEW i \in 1 .. Len(Targets)
               PROVE  LET e == Loaded.entries[i]
                          b == streams["broker"]
                          s == streams[Targets[i]]
                      IN  /\ e.id = Id(Targets[i])
                          /\ b[e.in].end = "write" /\ s[0].end = "read" /\ b[e.in].pipe = s[0].pipe
                          /\ b[e.out].end = "read" /\ s[1].end = "write" /\ b[e.out].pipe = s[1].pipe
    BY LoadedOptions, TargetProperties DEF Wired, ConfigInv, TypeOK
  <2>1. /\ Loaded.entries[i] = Entry(Targets[i], 1 + 2 * i)
        /\ Joined(streams["broker"], streams[Targets[i]], 1 + 2 * i)
    BY LoadedOptions DEF Linked
  <2>2. QED  BY <2>1 DEF Entry, Joined
<1>2. QED  BY <1>1, ConfigInvariant, PTL

\* Broker, killer and judge agree on the players and on the limits: the
\* killer may touch all players and neither itself nor the judge.
THEOREM AllPlayTheSameGame == Spec => []SameGame
<1>1. ConfigInv => SameGame
  <2> SUFFICES ASSUME ConfigInv, Configured
               PROVE  /\ killerFile = {Loaded.entries[i].id : i \in 3 .. Len(Loaded.entries)}
                      /\ Id("killer") \notin killerFile /\ Id("judge") \notin killerFile
                      /\ judgeArgument = Len(Loaded.entries) - 2
                      /\ Loaded.defaultResourceLimits = settings.limits
    BY DEF SameGame
  <2>1. /\ Len(Loaded.entries) = Len(Targets) /\ Len(Targets) = 2 + Len(solutions)
        /\ Len(solutions) \in Nat /\ DOMAIN solutions = 1 .. Len(solutions)
        /\ killerFile = {Id(solutions[i]) : i \in DOMAIN solutions}
    BY LoadedOptions, TargetProperties, LenProperties DEF ConfigInv, TypeOK
  <2>2. \A i \in 3 .. Len(Targets) : /\ i - 2 \in DOMAIN solutions
                                     /\ Loaded.entries[i].id = Id(solutions[i - 2])
    <3> SUFFICES ASSUME NEW i \in 3 .. Len(Targets)
                 PROVE  i - 2 \in DOMAIN solutions /\ Loaded.entries[i].id = Id(solutions[i - 2])
      OBVIOUS
    <3>1. Loaded.entries[i] = Entry(Targets[i], 1 + 2 * i)
      BY <2>1, LoadedOptions DEF Linked
    <3>2. i - 2 \in DOMAIN solutions /\ Targets[i] = solutions[i - 2]
      BY TargetProperties DEF ConfigInv, TypeOK
    <3>3. QED  BY <3>1, <3>2 DEF Entry
  <2>3. killerFile = {Loaded.entries[i].id : i \in 3 .. Len(Loaded.entries)}
    <3>1. ASSUME NEW i \in DOMAIN solutions
          PROVE  i + 2 \in 3 .. Len(Targets) /\ Loaded.entries[i + 2].id = Id(solutions[i])
      <4>1. i + 2 \in 3 .. Len(Targets) /\ (i + 2) - 2 = i
        BY <2>1
      <4>2. QED  BY <2>2, <4>1
    <3>2. QED  BY <2>1, <2>2, <3>1
  <2>4. \A i \in DOMAIN solutions : /\ Id(solutions[i]) # Id("killer")
                                    /\ Id(solutions[i]) # Id("judge")
    <3> SUFFICES ASSUME NEW i \in DOMAIN solutions
                 PROVE  Id(solutions[i]) # Id("killer") /\ Id(solutions[i]) # Id("judge")
      OBVIOUS
    <3>1. solutions[i] \in Player
      BY <2>1, ElementOfSeq DEF ConfigInv, TypeOK
    <3>2. /\ solutions[i] \in Process /\ "killer" \in Process /\ "judge" \in Process
          /\ solutions[i] # "killer" /\ solutions[i] # "judge"
      BY <3>1, ConfiguratorAssumption DEF Process, Others
    <3>3. QED  BY <3>2, ConfiguratorAssumption, Zenon
  <2>5. judgeArgument = Len(Loaded.entries) - 2 /\ Loaded.defaultResourceLimits = settings.limits
    BY <2>1, LoadedOptions
  <2>6. QED  BY <2>1, <2>3, <2>4, <2>5
<1>2. QED  BY <1>1, ConfigInvariant, PTL

=============================================================================
