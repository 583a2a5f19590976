---------------------------- MODULE BrokerClaims ----------------------------
(***************************************************************************)
(* A statement of the documentation about the broker that its code does    *)
(* not keep; the run that checks it ends in a counterexample.              *)
(***************************************************************************)
EXTENDS Broker

Answers(s) == reply' # reply /\ reply'.solution = s

(***************************************************************************)
(* A solution "may stay frozen (e.g. using data from previous iteration)"  *)
(* (Broker.hpp, begin): a token found complete in the data of an earlier   *)
(* iteration is what end() answers.                                        *)
(***************************************************************************)
BufferedTokenIsDelivered ==
    [][\A s \in Solution : tokenizer[s] = "ACCEPTED" /\ Answers(s)
                              => reply'.status = "OK"]_vars

=============================================================================
