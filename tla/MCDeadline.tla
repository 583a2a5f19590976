----------------------------- MODULE MCDeadline -----------------------------
EXTENDS Deadline

\* Six bits: negative and zero limits, small ones, one whose sum overflows for
\* some instants only, one that overflows when it is scaled, and the largest.
SomeLimits == {-1, 0, 1, 3, 14, 20, Top}
SomeInstants == {0, 1, 5, 10}

=============================================================================
