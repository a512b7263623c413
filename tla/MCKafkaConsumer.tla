--------------------------- MODULE MCKafkaConsumer ---------------------------
(***************************************************************************)
(* Two members and two topics: one with a message behind another, and one  *)
(* that shows what becomes of the other topics of a member that fails.     *)
(***************************************************************************)
EXTENDS KafkaConsumer, TLC

CONSTANTS t1, t2, m1, m2

TwoAndOne == (t1 :> 2) @@ (t2 :> 1)

(* Members are interchangeable: the one that acts first is called m1. *)
FirstIsM1 ==
  ConsumerInit => status'[m2] = "running" /\ \A t \in Topics : owner'[t] # m2
==============================================================================
