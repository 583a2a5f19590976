------------------------------ MODULE MCBroker ------------------------------
(***************************************************************************)
(* Instances of the broker for TLC.  Characters: "a" is ordinary, "n" ends *)
(* a token, "x" makes the tokenizer fail.                                  *)
(***************************************************************************)
EXTENDS BrokerClaims

AnyChar == {"a", "n", "x"}
OnlyTokens == {"n"}
TokenEnd == {"n"}
Unacceptable == {"x"}

=============================================================================
