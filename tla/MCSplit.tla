------------------------------ MODULE MCSplit ------------------------------
(***************************************************************************)
(* Instances of the multi-character tokenizer for TLC.                     *)
(***************************************************************************)
EXTENDS Split

TwoChars == {"a", "b"}
WithNul == {"a", "b", "0"}

Strings(cs, n) == UNION {[1 .. k -> cs] : k \in 1 .. n}

\* Every separator of at most three characters, and the arguments of up to two
\* in which the C string is shorter than the argument, or empty.
ShortArguments == {<<>>} \cup Strings(TwoChars, 3) \cup Strings(WithNul, 2)

=============================================================================
