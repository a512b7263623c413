--------------------------- MODULE OrderAggregate ---------------------------
(***************************************************************************)
(* The Order aggregate (src/domain/orders/entities/order.entity.ts) as     *)
(* pure operators: what each domain method accepts, the status it leaves   *)
(* and the domain events it records.  A method runs synchronously on one   *)
(* in-memory object, so nothing here is a state machine: OrderService      *)
(* applies these operators to the snapshot a handler has read.             *)
(*                                                                         *)
(* Products, dates and identifiers are left out: no method below branches  *)
(* on them once the order exists.                                          *)
(***************************************************************************)
(* The values of the OrderStatus enumeration. *)
Status == {"PENDING", "CONFIRMED", "CANCELLED", "SHIPPED", "DELIVERED"}

(* There is no row for the order. *)
Absent == "ABSENT"

(* What a handler can have in hand: a persisted status, or nothing. *)
Snapshot == Status \cup {Absent}

(* The methods of the domain service that change an order.  "reserve" is   *)
(* what the endpoints and topics called "confirm" run; "confirm" is only   *)
(* run for a stock.reserved message.                                       *)
Operations == {"create", "reserve", "confirm", "cancel", "ship", "deliver"}

EventTypes == {"orders.created", "orders.confirmed", "orders.cancelled",
               "orders.shipped", "orders.delivered",
               "stock.reserve", "stock.compensate"}

Errors == {"NotFound", "InvalidStatusTransition", "AlreadyCancelled",
           "AlreadyDelivered", "AlreadyShipped"}

-----------------------------------------------------------------------------

(* The status each method asks validateTransition for. *)
Target(op) ==
  CASE op = "create"  -> "PENDING"
    [] op = "reserve" -> "CONFIRMED"
    [] op = "confirm" -> "CONFIRMED"
    [] op = "cancel"  -> "CANCELLED"
    [] op = "ship"    -> "SHIPPED"
    [] op = "deliver" -> "DELIVERED"

(* Mistakes in the transition table: a cancelled order is confirmed; a     *)
(* shipped order is cancelled.                                             *)
MutantRevives(s) ==
  CASE s = "PENDING"   -> {"CONFIRMED", "CANCELLED"}
    [] s = "CONFIRMED" -> {"CANCELLED", "SHIPPED"}
    [] s = "SHIPPED"   -> {"DELIVERED"}
    [] s = "CANCELLED" -> {"CONFIRMED"}
    [] OTHER           -> {}

MutantCancelsShipped(s) ==
  CASE s = "PENDING"   -> {"CONFIRMED", "CANCELLED"}
    [] s = "CONFIRMED" -> {"CANCELLED", "SHIPPED"}
    [] s = "SHIPPED"   -> {"DELIVERED", "CANCELLED"}
    [] OTHER           -> {}

(* The targets validateTransition accepts from each status. *)
Allowed(s) ==
  CASE s = "PENDING"   -> {"CONFIRMED", "CANCELLED"}
    [] s = "CONFIRMED" -> {"CANCELLED", "SHIPPED"}
    [] s = "SHIPPED"   -> {"DELIVERED"}
    [] OTHER           -> {}

(* Whether a method returns normally on a snapshot.  Creation needs no     *)
(* snapshot; every other method is preceded by the service's null check.   *)
Accepts(s, op) ==
  IF op = "create" THEN s = Absent
                   ELSE s # Absent /\ Target(op) \in Allowed(s)

(* The error a refusal raises. *)
Refusal(s) ==
  CASE s = Absent      -> "NotFound"
    [] s = "CANCELLED" -> "AlreadyCancelled"
    [] s = "DELIVERED" -> "AlreadyDelivered"
    [] s = "SHIPPED"   -> "AlreadyShipped"
    [] OTHER           -> "InvalidStatusTransition"

(* Mistakes: a request for confirmation moves to a status of its own, or   *)
(* confirms at once.                                                       *)
MutantReserved(s, op) == IF op = "reserve" THEN "RESERVED" ELSE Target(op)
MutantConfirmsAtOnce(s, op) == Target(op)

(* The status of the object after an accepted method.  A confirmation      *)
(* request leaves the status alone: it is the reply of the stock service   *)
(* that confirms.                                                          *)
StatusAfter(s, op) == IF op = "reserve" THEN s ELSE Target(op)

(* Mistakes in cancel(): compensating whatever the status, or assigning    *)
(* the status before it is compared with CONFIRMED.                        *)
MutantAlwaysCompensates(s, op) ==
  CASE op = "create"  -> {"orders.created"}
    [] op = "reserve" -> {"stock.reserve"}
    [] op = "confirm" -> {"orders.confirmed"}
    [] op = "cancel"  -> {"orders.cancelled", "stock.compensate"}
    [] op = "ship"    -> {"orders.shipped"}
    [] op = "deliver" -> {"orders.delivered"}

MutantNeverCompensates(s, op) ==
  CASE op = "create"  -> {"orders.created"}
    [] op = "reserve" -> {"stock.reserve"}
    [] op = "confirm" -> {"orders.confirmed"}
    [] op = "cancel"  -> {"orders.cancelled"}
    [] op = "ship"    -> {"orders.shipped"}
    [] op = "deliver" -> {"orders.delivered"}

(* The domain events an accepted method records.  A set, for publishBatch  *)
(* sends the recorded events independently of each other and to different  *)
(* topics: the order in which they are pushed reaches nobody.              *)
EventsOf(s, op) ==
  CASE op = "create"  -> {"orders.created"}
    [] op = "reserve" -> {"stock.reserve"}
    [] op = "confirm" -> {"orders.confirmed"}
    [] op = "cancel"  -> {"orders.cancelled"} \cup
                         (IF s = "CONFIRMED" THEN {"stock.compensate"} ELSE {})
    [] op = "ship"    -> {"orders.shipped"}
    [] op = "deliver" -> {"orders.delivered"}
=============================================================================
