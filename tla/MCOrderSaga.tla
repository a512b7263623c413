----------------------------- MODULE MCOrderSaga -----------------------------
(***************************************************************************)
(* The requests offered to OrderSaga in its runs: clients use HTTP, and    *)
(* the handlers of replies run what stockReserved and stockRejected run.   *)
(***************************************************************************)
EXTENDS OrderSaga, TLC

CONSTANTS o1, r1, r2, r3, r4, k1, k2, k3

Req(op, via) == [op |-> op, order |-> o1, via |-> via]

FromStock == {Req("confirm", "kafka"), Req("cancel", "kafka")}

ClientRequests == {Req(op, "rpc") : op \in Operations \ {"confirm"}} \cup FromStock

(* Clients that create, confirm and cancel. *)
CancelRequests ==
  {Req(op, "rpc") : op \in {"create", "reserve", "cancel"}} \cup FromStock

(* For the runs of safety properties: permuting calls of clients, or       *)
(* handlers of replies, changes nothing.                                   *)
CallSymmetry == Permutations(Calls \ Deliveries) \cup Permutations(Deliveries)

(* For the runs of liveness properties: calls begin in the order of their  *)
(* names.                                                                  *)
ArrivalOrder ==
  \A p \in {<<r1, r2>>, <<r2, r3>>, <<r3, r4>>, <<k1, k2>>, <<k2, k3>>} :
    p[2] \in Begun' => p[1] \in Begun'
==============================================================================
