----------------------------- MODULE OrderSaga -----------------------------
(***************************************************************************)
(* The stock reservation saga: OrderService together with the Kafka        *)
(* consumer that handles the replies of the stock service                  *)
(* (src/infrastructure/messaging/providers/kafka/consumers/                *)
(* orders.consumer.ts) and with the stock service itself.                  *)
(*                                                                         *)
(* The stock service belongs to another repository.  It is modelled from   *)
(* the messages it exchanges with this one: it answers every stock.reserve *)
(* once, with stock.reserved or stock.rejected, and takes back what every  *)
(* stock.compensate names.  Its messages name an order and nothing else:   *)
(* neither side knows which request a reply or a compensation belongs to.  *)
(*                                                                         *)
(* The consumer runs one handler at a time: kafkajs handles the partitions *)
(* of all topics one after the other.  The messages that reach it through  *)
(* the orders.* topics, requests of other services, are among the calls of *)
(* OrderService.                                                           *)
(***************************************************************************)
EXTENDS OrderService

CONSTANTS
  Deliveries,    \* the calls that serve for handling replies
  Redelivers     \* whether Kafka may deliver a handled reply again

ASSUME DeliveriesAssumption ==
  /\ Deliveries \subseteq Calls
  /\ Redelivers \in BOOLEAN

VARIABLES
  replies,       \* what the stock service has answered, in Kafka
  handled,       \* which call was started for which reply
  released       \* the compensations the stock service has executed

sagaVars == <<replies, handled, released>>
allVars == <<vars, sagaVars>>

Verdicts == {"stock.reserved", "stock.rejected"}

(* cause: the call whose stock.reserve is answered, for the record only. *)
Replies == [type : Verdicts, order : Orders, cause : Calls]

SagaTypeOK ==
  /\ TypeOK
  /\ replies \subseteq Replies
  /\ handled \subseteq [call : Deliveries, reply : replies]
  /\ released \subseteq topics
  /\ \A h \in handled : pc[h.call] # "idle"

Reserved(o) == {m \in replies : m.type = "stock.reserved" /\ m.order = o}
Released(o) == {e \in released : e.order = o}

(* How often the stock of o is held. *)
Held(o) == Cardinality(Reserved(o)) - Cardinality(Released(o))

(* The offset of a reply is committed when its handler has ended, with a   *)
(* result or with the message in the dead letter topic.                    *)
Consumed(m) ==
  \E h \in handled : h.reply = m /\ answer[h.call] \in {"ok", "dlq"}

-----------------------------------------------------------------------------

SagaInit ==
  /\ Init
  /\ replies = {}
  /\ handled = {}
  /\ released = {}

(* A mistake: the handler of stock.rejected runs confirmOrder as well. *)
MutantConfirmsRejected(m) ==
  [op |-> "confirm", order |-> m.order, via |-> "kafka"]

(* What stockReserved and stockRejected run. *)
Handling(m) ==
  [op    |-> IF m.type = "stock.reserved" THEN "confirm" ELSE "cancel",
   order |-> m.order,
   via   |-> "kafka"]

(* The consumer takes the next reply, when it is not busy with another. *)
Deliver(c, m) ==
  /\ \A h \in handled : answer[h.call] # "none"
  /\ Consumed(m) => Redelivers
  /\ Handling(m) \in Offered
  /\ Begin(c, Handling(m))
  /\ handled' = handled \cup {[call |-> c, reply |-> m]}
  /\ UNCHANGED <<replies, released>>

(* The stock service answers a request: the stock suffices or does not. *)
Decide(e) ==
  /\ e.type = "stock.reserve"
  /\ \A m \in replies : m.cause # e.call
  /\ \E verdict \in Verdicts :
       replies' = replies \cup
         {[type |-> verdict, order |-> e.order, cause |-> e.call]}
  /\ UNCHANGED <<vars, handled, released>>

(* The stock service takes stock back. *)
Release(e) ==
  /\ e.type = "stock.compensate"
  /\ e \notin released
  /\ released' = released \cup {e}
  /\ UNCHANGED <<vars, replies, handled>>

(* A client calls. *)
Call(c, r) ==
  /\ c \notin Deliveries
  /\ r.op # "confirm"
  /\ Begin(c, r)
  /\ UNCHANGED sagaVars

(* What the order service does by itself. *)
Serve ==
  /\ \/ \E c \in Calls : Progress(c)
     \/ \E e \in outbox : StoreEvent(e) \/ DropEvent(e)
     \/ Crash
  /\ UNCHANGED sagaVars

SagaNext ==
  \/ \E c \in Calls, r \in Offered : Call(c, r)
  \/ \E c \in Deliveries, m \in replies : Deliver(c, m)
  \/ \E e \in topics : Decide(e) \/ Release(e)
  \/ Serve

SagaSpec == SagaInit /\ [][SagaNext]_allVars

(* The saga when the calls on an order come one after the other. *)
SerialSagaSpec == SagaInit /\ [][SagaNext /\ Undisturbed]_allVars

(* As in FairSpec, queries are answered, continuations run and sends are   *)
(* settled; besides, the stock service answers and releases in the end,    *)
(* and the consumer gets to every reply.  There are finitely many of these *)
(* steps, so that fairness to each is fairness to all of them.             *)
Work ==
  /\ \/ \E c \in Calls : DatabaseAnswers(c) \/ Publish(c)
     \/ \E e \in outbox : StoreEvent(e) \/ DropEvent(e)
  /\ UNCHANGED sagaVars

FairSagaSpec ==
  /\ SagaSpec
  /\ WF_allVars(Work)
  /\ WF_allVars(\E e \in topics : Decide(e) \/ Release(e))
  /\ WF_allVars(\E c \in Deliveries, m \in replies :
                   ~ Consumed(m) /\ Deliver(c, m))

(* Only the interceptors' timers are fair: the database may hang for ever, *)
(* and so may everybody else.  A call times out at most once.              *)
TimerSagaSpec ==
  /\ SagaSpec
  /\ WF_allVars((\E c \in Calls : Timeout(c)) /\ UNCHANGED sagaVars)

-----------------------------------------------------------------------------

(* No order is confirmed, shipped or delivered that the stock service has  *)
(* never granted a reservation, whatever overlaps, is redelivered or fails. *)
FulfilledWasGranted ==
  \A o \in Orders :
    row[o] \in {"CONFIRMED", "SHIPPED", "DELIVERED"} => Reserved(o) # {}

(* Why: a status that was read or written, and a confirmation that is      *)
(* under way, go back to a reservation that was granted.                   *)
Granted(s, o) ==
  s \in {"CONFIRMED", "SHIPPED", "DELIVERED"} => Reserved(o) # {}

SagaInv ==
  /\ \A o \in Orders : Granted(row[o], o)
  /\ \A c \in Begun :
       /\ Granted(seen[c], req[c].order)
       /\ req[c].op = "confirm" => Reserved(req[c].order) # {}

(* Goods only move while their stock is held: an order that is confirmed,  *)
(* shipped or delivered has at least one reservation that was granted and  *)
(* not given back.                                                         *)
FulfilledHoldsStock ==
  \A o \in Orders :
    row[o] \in {"CONFIRMED", "SHIPPED", "DELIVERED"} => Held(o) >= 1

(* The stock service is never asked to take back more than it has given:   *)
(* the compensations of an order, executed or not, are at most as many as  *)
(* its granted reservations.                                               *)
NothingReleasedTwice ==
  \A o \in Orders :
    Cardinality({e \in outbox \cup topics :
                   e.type = "stock.compensate" /\ e.order = o})
      <= Cardinality(Reserved(o))

(* A confirmation that a client has successfully asked for is decided: the *)
(* order does not stay PENDING for ever.                                   *)
RequestsAreDecided ==
  \A o \in Orders :
    (\E c \in CallsOn(o) : req[c].op = "reserve" /\ answer[c] = "ok")
      ~> (row[o] # "PENDING")

(* "Automatic compensation on cancellations": a cancelled order ends up    *)
(* holding no stock.                                                       *)
CancelledHoldsNoStock ==
  \A o \in Orders : (row[o] = "CANCELLED") ~> (Held(o) = 0)
=============================================================================
