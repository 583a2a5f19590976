----------------------------- MODULE TextCodec -----------------------------
(***************************************************************************)
(* The text protocol between judge and broker.  A message is a line of     *)
(* fields: a command is a type, an id and arguments, a result is a status  *)
(* and data.  Fields are separated by spaces; a space, a newline or a      *)
(* backslash inside a field is escaped.  Both sides write lines in the     *)
(* same way, but each reads them with an automaton of its own: unescape()  *)
(* under the InputArchive in the broker, _split() in the judge.            *)
(*                                                                         *)
(* The writer may be killed: then the stream ends at any character.  And   *)
(* anybody may write a program that prints to the broker, or reads what it *)
(* prints: a foreign stream is any sequence of characters.                 *)
(***************************************************************************)
EXTENDS Integers, Sequences, SequencesExt

CONSTANTS
    Word,      \* any field without a special character: a type, an id, a status
    Data,      \* arguments and data of results
    Messages,  \* bound: messages written before the stream ends
    Foreign    \* bound: characters of a stream written by something else

ASSUME CodecAssumption ==
    /\ Word \in Seq({"a", "n"}) /\ Word # <<>>
    /\ Data \subseteq Seq({"a", "n", "SP", "NL", "BS"})
    /\ Messages \in Nat /\ Foreign \in Nat

VARIABLES
    reader,    \* "unescape" reads commands, "_split" reads results
    sent,      \* the messages written
    arrived,   \* all characters of the stream
    text,      \* those that are not read yet
    origin,    \* "complete", "cut" (ends before what was sent) or "foreign"
    state,     \* of the automaton: INIT, ORDINAL or ESCAPE
    buf,       \* the field that is being read
    fields,    \* the fields of the current line that are complete
    end,       \* the field that was read last is the last of its line
    received,  \* the messages delivered
    outcome    \* "reading", "eof" (clean end), "failed" or "aborted"

vars == <<reader, sent, arrived, origin, text, state, buf, fields, end, received, outcome>>
writerVars == <<reader, sent, arrived, origin>>

Special == {"SP", "NL", "BS"}
Chars == {"a", "n"} \cup Special

Commands == {<<Word, Word>>} \cup {<<Word, Word, a>> : a \in Data}
            \cup {<<Word, Word, a, b>> : a \in Data, b \in {<<>>, Word}}
Results == {<<Word, d>> : d \in Data}

\* escape() and _escape().
EscapeNoBackslash(c) ==  \* mutant: the escape character itself is not escaped
    CASE c = "SP" -> <<"BS", "SP">> [] c = "NL" -> <<"BS", "n">> [] OTHER -> <<c>>
Escape(c) ==
    CASE c = "SP" -> <<"BS", "SP">>
      [] c = "NL" -> <<"BS", "n">>
      [] c = "BS" -> <<"BS", "BS">>
      [] OTHER    -> <<c>>

\* A field, and a line: a space before every field but the first.
Escaped(field) == FlattenSeq([i \in DOMAIN field |-> Escape(field[i])])
Line(message) ==
    FlattenSeq([i \in DOMAIN message |->
        IF i = 1 THEN Escaped(message[i]) ELSE <<"SP">> \o Escaped(message[i])])
    \o <<"NL">>
Text(messages) == FlattenSeq([i \in DOMAIN messages |-> Line(messages[i])])

Init ==
    /\ reader \in {"unescape", "_split"}
    /\ \/ /\ \E k \in 0 .. Messages :
               sent \in [1 .. k -> IF reader = "unescape" THEN Commands ELSE Results]
          /\ \E k \in 0 .. Len(Text(sent)) :
               /\ arrived = SubSeq(Text(sent), 1, k)
               /\ origin = IF k < Len(Text(sent)) THEN "cut" ELSE "complete"
       \/ /\ sent = <<>> /\ origin = "foreign"
          /\ \E k \in 0 .. Foreign : arrived \in [1 .. k -> Chars]
    /\ text = arrived
    /\ state = "INIT" /\ buf = <<>> /\ fields = <<>> /\ end = FALSE
    /\ received = <<>> /\ outcome = "reading"

\* The types the declarations give the variables.
TypeOK ==
    /\ state \in {"INIT", "ORDINAL", "ESCAPE"}
    /\ buf \in Seq(Chars)
    /\ fields \in Seq(Seq(Chars))
    /\ end \in BOOLEAN /\ (end => buf = <<>>)
    /\ outcome \in {"reading", "eof", "failed", "aborted"}
    /\ received \in Seq(Seq(Seq(Chars)))

-----------------------------------------------------------------------------
\* What both readers do with one character.

\* In INIT and ORDINAL an ordinary character is kept, and the state stays: it
\* is INIT until the first escape is complete.
AfterOrdinarySetsState(s) == "ORDINAL"  \* mutant: it is ORDINAL from then on
AfterOrdinary(s) == s

SeparatesEven(c) == c = "SP"  \* mutant: an escaped space separates as well
Separates(c) == c = "SP" /\ state # "ESCAPE"
AtEndOfField(c) == Separates(c) \/ (c = "NL" /\ state # "ESCAPE")

\* The buffer for the next field.
ResetForgotten(b) == b  \* mutant: no buf = []
Reset(b) == <<>>

Ordinary(c) ==
    /\ state # "ESCAPE" /\ c # "BS"
    /\ buf' = Append(buf, c)
    /\ state' = AfterOrdinary(state)

BeginEscape(c) ==
    /\ state # "ESCAPE" /\ c = "BS"
    /\ state' = "ESCAPE"
    /\ UNCHANGED buf

Unescape(c) ==
    /\ state = "ESCAPE" /\ c \in {"BS", "SP", "n"}
    /\ buf' = Append(buf, IF c = "n" THEN "NL" ELSE c)
    /\ state' = "ORDINAL"

\* A character inside a field.
Character ==
    /\ outcome = "reading" /\ text # <<>> /\ ~end
    /\ ~AtEndOfField(Head(text))
    /\ \/ Ordinary(Head(text)) \/ BeginEscape(Head(text)) \/ Unescape(Head(text))
    /\ text' = Tail(text)
    /\ UNCHANGED <<writerVars, fields, end, received, outcome>>

\* An assertion: the character behind the backslash is none of the three.
UnknownEscape ==
    /\ outcome = "reading" /\ text # <<>> /\ ~end
    /\ state = "ESCAPE" /\ ~AtEndOfField(Head(text)) /\ Head(text) \notin {"BS", "SP", "n"}
    /\ outcome' = "aborted"
    /\ UNCHANGED <<writerVars, text, state, buf, fields, end, received>>

\* lexical_cast of the type and the id, which the broker reads first.
Castable(field) == reader = "unescape" /\ Len(fields) < 2 => field = Word

\* The field is complete, and at a newline so is the line.
EndOfField ==
    /\ outcome = "reading" /\ text # <<>> /\ ~end
    /\ AtEndOfField(Head(text)) /\ Castable(buf)
    /\ fields' = Append(fields, buf) /\ buf' = Reset(buf) /\ state' = "INIT"
    /\ end' = (Head(text) = "NL")
    /\ text' = Tail(text)
    /\ UNCHANGED <<writerVars, received, outcome>>

BadCast ==
    /\ outcome = "reading" /\ ~end /\ ~Castable(buf)
    /\ \/ text # <<>> /\ AtEndOfField(Head(text))
       \/ text = <<>> /\ state = "ORDINAL"
    /\ outcome' = "failed"
    /\ UNCHANGED <<writerVars, text, state, buf, fields, end, received>>

\* The stream ends behind a backslash: an assertion on both sides.
EndsInEscape ==
    /\ outcome = "reading" /\ text = <<>> /\ ~end
    /\ state = "ESCAPE"
    /\ outcome' = "aborted"
    /\ UNCHANGED <<writerVars, text, state, buf, fields, end, received>>

-----------------------------------------------------------------------------
\* The broker: recvCommand().

\* The stream has ended, and no escape was seen in the field.
ArchiveEOF ==
    /\ outcome = "reading" /\ reader = "unescape" /\ text = <<>> /\ ~end
    /\ state = "INIT"
    /\ outcome' = "eof"
    /\ UNCHANGED <<writerVars, text, state, buf, fields, end, received>>

\* The stream has ended, and the field is taken for a complete one.
ArchiveCut ==
    /\ outcome = "reading" /\ reader = "unescape" /\ text = <<>> /\ ~end
    /\ state = "ORDINAL" /\ Castable(buf)
    /\ fields' = Append(fields, buf) /\ buf' = Reset(buf) /\ state' = "INIT"
    /\ end' = TRUE
    /\ UNCHANGED <<writerVars, text, received, outcome>>

\* Type and id are read, and the vector of arguments ends with the line.  A
\* line that ends before is an EndOfFileError as well.
RecvCommand ==
    /\ outcome = "reading" /\ reader = "unescape" /\ end
    /\ IF Len(fields) >= 2
       THEN received' = Append(received, fields) /\ UNCHANGED outcome
       ELSE outcome' = "eof" /\ UNCHANGED received
    /\ fields' = <<>> /\ end' = FALSE
    /\ UNCHANGED <<writerVars, text, state, buf>>

-----------------------------------------------------------------------------
\* The judge: Result.from_line(sys.stdin.readline()).

\* readline() returns what is there when the stream ends, and _split() drops
\* an empty last field that is not followed by a newline.
SplitAtEOF ==
    /\ outcome = "reading" /\ reader = "_split" /\ text = <<>> /\ ~end
    /\ state # "ESCAPE"
    /\ fields' = IF buf # <<>> THEN Append(fields, buf) ELSE fields
    /\ buf' = Reset(buf) /\ state' = "INIT" /\ end' = TRUE
    /\ UNCHANGED <<writerVars, text, received, outcome>>

\* Result(*fields) has two parameters.
HasArityOptional(q) == Len(q) \in {1, 2}  \* mutant: data has a default
HasArity(q) == Len(q) = 2
FromLine ==
    /\ outcome = "reading" /\ reader = "_split" /\ end
    /\ IF HasArity(fields)
       THEN received' = Append(received, fields) /\ UNCHANGED outcome
       ELSE outcome' = "failed" /\ UNCHANGED received
    /\ fields' = <<>> /\ end' = FALSE
    /\ UNCHANGED <<writerVars, text, state, buf>>

Done == outcome # "reading" /\ UNCHANGED vars

Next ==
    \/ Character \/ UnknownEscape \/ EndOfField \/ BadCast \/ EndsInEscape
    \/ ArchiveEOF \/ ArchiveCut \/ RecvCommand
    \/ SplitAtEOF \/ FromLine
    \/ Done

Spec == Init /\ [][Next]_vars

-----------------------------------------------------------------------------
\* What one side writes the other side reads, whatever characters the fields
\* hold and also if they are empty (BrokerTextInterface.cpp:20 against
\* judge.py:24, and judge.py:9 against BrokerTextInterface.cpp:47).
RoundTrip == origin = "complete" /\ outcome # "reading" => received = sent

\* A line has one meaning and a message one line: written again, what was
\* delivered is what has arrived, if a newline is added at the end of the
\* stream.  No stream is read as the messages of another one.  The judge is
\* laxer in one place: it overlooks a separator that the stream ends with.
Canonical ==
    \/ IsPrefix(Text(received), Append(arrived, "NL"))
    \/ /\ reader = "_split" /\ origin = "foreign" /\ Last(arrived) = "SP"
       /\ Text(received) = Append(Front(arrived), "NL")

\* A command is executed as it was sent.  Only the last one of a stream that
\* was cut may differ: its last field is cut, or the fields behind it are
\* missing, and then that field has a special character, because
\* BrokerTextInterface.cpp:96 takes a field without escape for the end.
Truncated(r, s) ==
    /\ Len(r) \in 3 .. Len(s)
    /\ Front(r) = SubSeq(s, 1, Len(r) - 1)
    /\ IsPrefix(Last(r), s[Len(r)])
    /\ \E i \in DOMAIN Last(r) : Last(r)[i] \in Special
CutCommandIsSpecial ==
    reader = "unescape" /\ origin # "foreign" =>
        \A i \in DOMAIN received :
            \/ received[i] = sent[i]
            \/ origin = "cut" /\ i = Len(received) /\ Truncated(received[i], sent[i])

\* A judge that gets a result gets it with the status that was sent, and data
\* that are at least the beginning of what was sent (judge.py:47): a status
\* alone, or a part of it, is no Result.
CutResultKeepsStatus ==
    reader = "_split" /\ origin # "foreign" =>
        \A i \in DOMAIN received :
            \/ received[i] = sent[i]
            \/ /\ origin = "cut" /\ i = Len(received) /\ Len(received[i]) = 2
               /\ received[i][1] = sent[i][1]
               /\ received[i][2] # <<>> /\ IsPrefix(received[i][2], sent[i][2])

\* Between the two programs the assertions of the readers
\* (BrokerTextInterface.cpp:89 and 100, judge.py:43 and 46) only fail on a
\* stream that was cut behind a backslash.
AbortsOnlyBehindBackslash ==
    outcome = "aborted" /\ origin # "foreign" =>
        origin = "cut" /\ text = <<>> /\ Last(arrived) = "BS"

=============================================================================
