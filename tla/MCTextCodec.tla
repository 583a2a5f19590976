---------------------------- MODULE MCTextCodec ----------------------------
EXTENDS TextCodec

\* All fields of up to two characters; "n" is the ordinary character that the
\* escapes use, and "a" one that they do not.
TwoLetters == <<"a", "n">>
DataChars == {"n"} \cup Special
ShortFields == {<<>>} \cup {<<c>> : c \in DataChars} \cup {<<c, d>> : c, d \in DataChars}

=============================================================================
