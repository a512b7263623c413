--------------------------- MODULE MCOrderService ---------------------------
(***************************************************************************)
(* The requests offered to OrderService in its runs, and the two ways in   *)
(* which the runs use that calls are interchangeable.                      *)
(***************************************************************************)
EXTENDS OrderService, TLC

CONSTANTS o1, c1, c2, c3, c4, c5

Req(op, via) == [op |-> op, order |-> o1, via |-> via]

(* Every status change through the channel it normally uses, and the       *)
(* cancellation that a stock.rejected message causes.                      *)
UsualRequests == {Req(op, "rpc") : op \in Operations \ {"confirm"}}
                 \cup {Req("confirm", "kafka"), Req("cancel", "kafka")}

(* What it takes to confirm an order and to cancel it, and to ship it. *)
CancelRequests == {r \in UsualRequests : r.op \notin {"ship", "deliver"}
                                      /\ (r.op = "cancel" => r.via = "rpc")}

(* For the runs of safety properties: permuting calls changes nothing. *)
CallSymmetry == Permutations(Calls)

(* For the runs of liveness properties, where symmetry is not sound: calls *)
(* begin in the order c1, c2, ...  Every behaviour is a renaming of one    *)
(* that does.                                                              *)
ArrivalOrder ==
  LET queue == <<c1, c2, c3, c4, c5>>
  IN \A i \in 2 .. 5 :
       queue[i] \in Begun' => queue[i - 1] \in Begun'
=============================================================================
