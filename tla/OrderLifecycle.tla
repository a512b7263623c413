--------------------------- MODULE OrderLifecycle ---------------------------
(***************************************************************************)
(* What the service promises about one order, whoever calls it             *)
(* (docs/bounded-contexts.md, "Protected business invariants"): the row    *)
(* moves along the documented transitions only, and the stock of an order  *)
(* that is cancelled after it was confirmed is given back, once.  It knows *)
(* nothing of handlers, of the database or of Kafka: OrderService is the   *)
(* detailed specification, and is shown to implement this one exactly      *)
(* under the conditions its runs name.                                     *)
(***************************************************************************)
EXTENDS OrderAggregate

CONSTANT Orders   \* the order identifiers

VARIABLES
  status,         \* status[o]: the persisted status of o, or Absent
  confirmed,      \* the orders that have been confirmed at some time
  released        \* the orders whose stock compensation has been published

vars == <<status, confirmed, released>>

TypeOK ==
  /\ status \in [Orders -> Snapshot]
  /\ confirmed \subseteq Orders
  /\ released \subseteq Orders

Init ==
  /\ status = [o \in Orders |-> Absent]
  /\ confirmed = {}
  /\ released = {}

(* The status of o becomes t.                                              *)
Move(o, t) == status' = [status EXCEPT ![o] = t]

Create(o) ==
  /\ status[o] = Absent
  /\ Move(o, "PENDING")
  /\ UNCHANGED <<confirmed, released>>

Confirm(o) ==
  /\ status[o] = "PENDING"
  /\ Move(o, "CONFIRMED")
  /\ confirmed' = confirmed \cup {o}
  /\ UNCHANGED released

Cancel(o) ==
  /\ status[o] \in {"PENDING", "CONFIRMED"}
  /\ Move(o, "CANCELLED")
  /\ UNCHANGED <<confirmed, released>>

Ship(o) ==
  /\ status[o] = "CONFIRMED"
  /\ Move(o, "SHIPPED")
  /\ UNCHANGED <<confirmed, released>>

Deliver(o) ==
  /\ status[o] = "SHIPPED"
  /\ Move(o, "DELIVERED")
  /\ UNCHANGED <<confirmed, released>>

(* The stock of a confirmed order that was cancelled is given back. *)
Release(o) ==
  /\ status[o] = "CANCELLED"
  /\ o \in confirmed \ released
  /\ released' = released \cup {o}
  /\ UNCHANGED <<status, confirmed>>

Next ==
  \E o \in Orders : \/ Create(o)
                    \/ Confirm(o)
                    \/ Cancel(o)
                    \/ Ship(o)
                    \/ Deliver(o)
                    \/ Release(o)

Spec == Init /\ [][Next]_vars

-----------------------------------------------------------------------------

(* The stock of an order that was confirmed and then cancelled is given    *)
(* back in the end.                                                        *)
StockReleased ==
  \A o \in Orders :
    (status[o] = "CANCELLED" /\ o \in confirmed) ~> (o \in released)
=============================================================================
