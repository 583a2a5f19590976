--------------------------- MODULE MCConfigurator ---------------------------
EXTENDS Configurator

TwoPlayers == {"alice", "bob"}
OwnName(p) == p
SomeSettings == {[limits |-> "one second", argument |-> a] : a \in {"", "newline"}}

=============================================================================
