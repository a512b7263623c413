---------------------------- MODULE OrderService ----------------------------
(***************************************************************************)
(* The domain service (src/domain/orders/services/order.domain.service.ts) *)
(* with its repository and its event publisher, as any number of calls     *)
(* that run concurrently in one Node.js process.                           *)
(*                                                                         *)
(* Every operation has the same shape: read the row, run a method of the   *)
(* aggregate on the object read, save the object, and, when the save has   *)
(* been acknowledged, hand the recorded events to the Kafka client and     *)
(* answer.  JavaScript interleaves handlers only where one awaits the      *)
(* database or the broker, so a call takes four steps: Begin, Find (the    *)
(* row is read), Save (the row is written) and Publish (the continuation   *)
(* after the save).  There is no lock and no version column: between Find  *)
(* and Save another call may write the row.                                *)
(*                                                                         *)
(* TypeORM's save compares the object with the row and updates the columns *)
(* that differ, so its effect on the status column is an overwrite with    *)
(* the object's status.                                                    *)
(***************************************************************************)
EXTENDS OrderAggregate, Naturals, FiniteSets

CONSTANTS
  Orders,        \* order identifiers
  Calls,         \* bound: identifiers of the calls that are ever made
  Offered,       \* the requests the environment may make
  MaxOverlap,    \* most calls on one order still unanswered at a time
  Faults,        \* which of FaultKinds can happen
  MaxCrashes,    \* bound: how often the process dies
  NoRequest      \* the request of a call that has not begun

(* "db": a query fails, or its acknowledgement is lost; "timeout": the     *)
(* interceptor gives up on a call; "send": the broker does not get what    *)
(* the Kafka client was given.                                             *)
FaultKinds == {"db", "timeout", "send"}

(* A request comes through HTTP or gRPC ("rpc"), which time out, or as a   *)
(* Kafka message ("kafka"), which does not.                                *)
Channels == {"rpc", "kafka"}

Requests == [op : Operations, order : Orders, via : Channels]

ASSUME OfferedAssumption ==
  /\ Offered \subseteq Requests
  /\ \A r \in Offered : r.op = "confirm" => r.via = "kafka"

ASSUME BoundsAssumption ==
  /\ IsFiniteSet(Calls)
  /\ MaxOverlap \in Nat \ {0}
  /\ MaxCrashes \in Nat
  /\ Faults \subseteq FaultKinds

ASSUME NoRequestAssumption == NoRequest \notin Requests

VARIABLES
  row,       \* row[o]: status column of o, or Absent
  req,       \* req[c]: the request call c serves
  pc,        \* pc[c]: where call c stands
  seen,      \* seen[c]: the status c has read
  answer,    \* answer[c]: what the caller of c was told
  wrote,     \* the calls whose save has been committed (history)
  outbox,    \* events the Kafka client holds in memory
  topics,    \* events the broker has stored
  crashes    \* number of times the process has died

vars == <<row, req, pc, seen, answer, wrote, outbox, topics, crashes>>

(* "idle": not begun; "finding": findById has been issued; "saving": save  *)
(* has been issued; "saved": committed, continuation not run; "orphaned":  *)
(* the save is still in the database's hands but nobody waits for it.      *)
Phases == {"idle", "finding", "saving", "saved", "orphaned", "done"}

Answers == {"none", "ok", "failed", "timedOut", "lost", "dlq"} \cup Errors

Events == [type : EventTypes, order : Orders, call : Calls]

TypeOK ==
  /\ row \in [Orders -> Snapshot]
  /\ req \in [Calls -> Offered \cup {NoRequest}]
  /\ pc \in [Calls -> Phases]
  /\ seen \in [Calls -> Snapshot]
  /\ answer \in [Calls -> Answers]
  /\ wrote \subseteq Calls
  /\ outbox \subseteq Events
  /\ topics \subseteq Events
  /\ crashes \in 0 .. MaxCrashes
  /\ \A c \in Calls : pc[c] # "idle" => req[c] \in Offered

Begun == {c \in Calls : pc[c] # "idle"}

(* The calls on o, and those of them whose caller still waits. *)
CallsOn(o) == {c \in Begun : req[c].order = o}
Waiting(o) == {c \in CallsOn(o) : answer[c] = "none"}

(* The events call c records, from what it has read. *)
Recorded(c) ==
  {[type |-> t, order |-> req[c].order, call |-> c] :
     t \in EventsOf(seen[c], req[c].op)}

(* The topic of type t holds an event about o. *)
Published(t, o) == \E e \in topics : e.type = t /\ e.order = o

-----------------------------------------------------------------------------

Init ==
  /\ row = [o \in Orders |-> Absent]
  /\ req = [c \in Calls |-> NoRequest]
  /\ pc = [c \in Calls |-> "idle"]
  /\ seen = [c \in Calls |-> Absent]
  /\ answer = [c \in Calls |-> "none"]
  /\ wrote = {}
  /\ outbox = {}
  /\ topics = {}
  /\ crashes = 0

Goto(c, phase) == pc' = [pc EXCEPT ![c] = phase]

(* The caller of c is told a: an RPC caller in the response; for a Kafka   *)
(* message every error ends in its dead letter topic.                      *)
Answer(c, a) ==
  answer' = [answer EXCEPT ![c] =
               IF req[c].via = "kafka" /\ a # "ok" THEN "dlq" ELSE a]

(* A request arrives.  Identifiers of new orders are random, so no two     *)
(* creations share one; a stock.reserved message answers a stock.reserve   *)
(* that has been published (and may be delivered more than once).          *)
Begin(c, r) ==
  /\ pc[c] = "idle"
  /\ Cardinality(Waiting(r.order)) < MaxOverlap
  /\ r.op = "create" => \A d \in CallsOn(r.order) : req[d].op # "create"
  /\ r.op = "confirm" => Published("stock.reserve", r.order)
  /\ req' = [req EXCEPT ![c] = r]
  /\ Goto(c, IF r.op = "create" THEN "saving" ELSE "finding")
  /\ UNCHANGED <<row, seen, answer, wrote, outbox, topics, crashes>>

(* A mistake: the caller is answered before the save. *)
MutantAnswersEarly(c) ==
  /\ pc[c] = "finding"
  /\ Accepts(row[req[c].order], req[c].op)
  /\ seen' = [seen EXCEPT ![c] = row[req[c].order]]
  /\ Goto(c, "saving")
  /\ Answer(c, "ok")
  /\ UNCHANGED <<row, req, wrote, outbox, topics, crashes>>

(* findById answers, and the aggregate's method accepts what was read. *)
Find(c) ==
  /\ pc[c] = "finding"
  /\ Accepts(row[req[c].order], req[c].op)
  /\ seen' = [seen EXCEPT ![c] = row[req[c].order]]
  /\ Goto(c, "saving")
  /\ UNCHANGED <<row, req, answer, wrote, outbox, topics, crashes>>

(* A mistake: the error is swallowed and nobody is told. *)
MutantSwallowsError(c) ==
  /\ pc[c] = "finding"
  /\ ~ Accepts(row[req[c].order], req[c].op)
  /\ Goto(c, "done")
  /\ UNCHANGED <<row, req, seen, answer, wrote, outbox, topics, crashes>>

(* findById answers, and the order is missing or its method throws. *)
Refuse(c) ==
  /\ pc[c] = "finding"
  /\ ~ Accepts(row[req[c].order], req[c].op)
  /\ Goto(c, "done")
  /\ Answer(c, Refusal(row[req[c].order]))
  /\ UNCHANGED <<row, req, seen, wrote, outbox, topics, crashes>>

(* The save of c reaches the row. *)
Commit(c) ==
  /\ row' = [row EXCEPT ![req[c].order] = StatusAfter(seen[c], req[c].op)]
  /\ wrote' = wrote \cup {c}

(* The save is committed and acknowledged. *)
Save(c) ==
  /\ pc[c] = "saving"
  /\ Commit(c)
  /\ Goto(c, "saved")
  /\ UNCHANGED <<req, seen, answer, outbox, topics, crashes>>

(* The save of a call that nobody waits for is committed all the same. *)
SaveOrphan(c) ==
  /\ pc[c] = "orphaned"
  /\ Commit(c)
  /\ Goto(c, "done")
  /\ UNCHANGED <<req, seen, answer, outbox, topics, crashes>>

(* A mistake: the domain events are cleared before they are published. *)
MutantClearsEarly(c) ==
  /\ pc[c] = "saved"
  /\ Goto(c, "done")
  /\ Answer(c, "ok")
  /\ UNCHANGED <<row, req, seen, wrote, outbox, topics, crashes>>

(* The save is acknowledged: emit hands the events to the Kafka client,    *)
(* which sends them in the background, and the call is answered.           *)
Publish(c) ==
  /\ pc[c] = "saved"
  /\ outbox' = outbox \cup Recorded(c)
  /\ Goto(c, "done")
  /\ Answer(c, "ok")
  /\ UNCHANGED <<row, req, seen, wrote, topics, crashes>>

-----------------------------------------------------------------------------

(* The broker stores an event. *)
StoreEvent(e) ==
  /\ e \in outbox
  /\ outbox' = outbox \ {e}
  /\ topics' = topics \cup {e}
  /\ UNCHANGED <<row, req, pc, seen, answer, wrote, crashes>>

(* A send fails.  Nobody is subscribed to its result. *)
DropEvent(e) ==
  /\ "send" \in Faults
  /\ e \in outbox
  /\ outbox' = outbox \ {e}
  /\ UNCHANGED <<row, req, pc, seen, answer, wrote, topics, crashes>>

(* A mistake: a failed save is caught and the handler carries on. *)
MutantIgnoresFailure(c) ==
  /\ "db" \in Faults
  /\ pc[c] = "saving"
  /\ Goto(c, "saved")
  /\ UNCHANGED <<row, req, seen, answer, wrote, outbox, topics, crashes>>

(* A query fails: nothing was read or written. *)
QueryFails(c) ==
  /\ "db" \in Faults
  /\ pc[c] \in {"finding", "saving", "orphaned"}
  /\ Goto(c, "done")
  /\ IF pc[c] = "orphaned" THEN UNCHANGED answer ELSE Answer(c, "failed")
  /\ UNCHANGED <<row, req, seen, wrote, outbox, topics, crashes>>

(* The save is committed but the handler sees an error. *)
AckLost(c) ==
  /\ "db" \in Faults
  /\ pc[c] = "saving"
  /\ Commit(c)
  /\ Goto(c, "done")
  /\ Answer(c, "failed")
  /\ UNCHANGED <<req, seen, outbox, topics, crashes>>

(* A mistake: the timer only covers the time until the first query ends. *)
MutantTimesReadOnly(c) ==
  /\ "timeout" \in Faults
  /\ pc[c] = "finding"
  /\ req[c].via = "rpc"
  /\ Goto(c, "done")
  /\ Answer(c, "timedOut")
  /\ UNCHANGED <<row, req, seen, wrote, outbox, topics, crashes>>

(* The interceptor's timer fires: the handler's pipeline is unsubscribed,  *)
(* which cancels no query, and the continuation after it never runs.       *)
Timeout(c) ==
  /\ "timeout" \in Faults
  /\ pc[c] \in {"finding", "saving", "saved"}
  /\ req[c].via = "rpc"
  /\ Goto(c, IF pc[c] = "saving" THEN "orphaned" ELSE "done")
  /\ Answer(c, "timedOut")
  /\ UNCHANGED <<row, req, seen, wrote, outbox, topics, crashes>>

(* The process dies and is started again: every handler and every unsent   *)
(* event is gone, and a save on the wire may still be executed.  A Kafka   *)
(* message that was being handled is delivered again (a later Begin).      *)
Crash ==
  /\ crashes < MaxCrashes
  /\ \E c \in Calls : pc[c] \in {"finding", "saving", "saved"}
  /\ crashes' = crashes + 1
  /\ pc' = [c \in Calls |-> IF pc[c] = "saving" THEN "orphaned"
                            ELSE IF pc[c] \in {"finding", "saved"} THEN "done"
                            ELSE pc[c]]
  /\ answer' = [c \in Calls |-> IF pc[c] \in {"finding", "saving", "saved"}
                                THEN "lost" ELSE answer[c]]
  /\ outbox' = {}
  /\ UNCHANGED <<row, req, seen, wrote, topics>>

-----------------------------------------------------------------------------

(* What can happen to a call that has begun. *)
Progress(c) ==
  \/ Find(c)
  \/ Refuse(c)
  \/ Save(c)
  \/ SaveOrphan(c)
  \/ Publish(c)
  \/ QueryFails(c)
  \/ AckLost(c)
  \/ Timeout(c)

Step(c) == Progress(c) \/ \E r \in Offered : Begin(c, r)

Next ==
  \/ \E c \in Calls : Step(c)
  \/ \E e \in outbox : StoreEvent(e) \/ DropEvent(e)
  \/ Crash

Spec == Init /\ [][Next]_vars

(* Every query is answered in the end, continuations run, and the Kafka    *)
(* client settles what it was given.  Callers, timers and crashes are not  *)
(* obliged to do anything.                                                 *)
DatabaseAnswers(c) ==
  \/ Find(c)
  \/ Refuse(c)
  \/ Save(c)
  \/ SaveOrphan(c)
  \/ QueryFails(c)
  \/ AckLost(c)

FairSpec ==
  /\ Spec
  /\ \A c \in Calls : WF_vars(DatabaseAnswers(c)) /\ WF_vars(Publish(c))
  /\ \A e \in Events : WF_vars(StoreEvent(e) \/ DropEvent(e))

-----------------------------------------------------------------------------
(* Safety.                                                                 *)

(* Stock is reserved before goods move: the row of an order only shows     *)
(* CONFIRMED, SHIPPED or DELIVERED if a reservation of its stock has been  *)
(* published before, whatever overlapped, failed or was lost on the way.   *)
FulfilledWasReserved ==
  \A o \in Orders :
    row[o] \in {"CONFIRMED", "SHIPPED", "DELIVERED"} =>
      Published("stock.reserve", o)

(* Stock is never given back for an order that was not confirmed: behind   *)
(* every compensation, sent or stored, is the committed confirmation of    *)
(* the same order by another call.                                         *)
CompensationBacked ==
  \A e \in outbox \cup topics :
    e.type = "stock.compensate" =>
      \E c \in wrote \ {e.call} : req[c].op = "confirm"
                               /\ req[c].order = e.order

(* No event announces what did not happen: the call that recorded it has   *)
(* committed its save, and the save left the status the event names.       *)
AnnouncedWasSaved ==
  \A e \in outbox \cup topics :
    /\ e.call \in wrote
    /\ e.order = req[e.call].order
    /\ e.type \in EventsOf(seen[e.call], req[e.call].op)

(* What callers are told can be relied on in one direction each: success   *)
(* means the save is committed; a domain error means that the call changed *)
(* nothing and announced nothing, now or later.                            *)
AnswersAreHonest ==
  \A c \in Begun :
    /\ answer[c] = "ok" => c \in wrote
    /\ answer[c] \in Errors =>
         /\ pc[c] = "done"
         /\ c \notin wrote
         /\ \A e \in outbox \cup topics : e.call # c

(* No save on o is on its way. *)
Quiet(o) == \A c \in CallsOn(o) : pc[c] \notin {"saving", "orphaned"}

(* CANCELLED and DELIVERED are final once the saves that were under way    *)
(* have been executed: no later call can move such an order, or get as far *)
(* as writing its row.                                                     *)
SettledIsFinal ==
  [][\A o \in Orders :
       row[o] \in {"CANCELLED", "DELIVERED"} /\ Quiet(o) =>
         row'[o] = row[o] /\ Quiet(o)']_vars

(* The transitions of docs/bounded-contexts.md, "Valid state transitions": *)
(* only PENDING orders can be confirmed, only CONFIRMED orders shipped,    *)
(* only SHIPPED orders delivered, and neither SHIPPED nor DELIVERED orders *)
(* cancelled.                                                              *)
DocumentedTransitions ==
  [][\A o \in Orders : row'[o] # row[o] =>
       /\ row'[o] = "CONFIRMED" => row[o] = "PENDING"
       /\ row'[o] = "SHIPPED"   => row[o] = "CONFIRMED"
       /\ row'[o] = "DELIVERED" => row[o] = "SHIPPED"
       /\ row'[o] = "CANCELLED" => row[o] \notin {"SHIPPED", "DELIVERED"}]_row

-----------------------------------------------------------------------------
(* Why the safety properties hold: an inductive invariant.                 *)

(* What must have happened before the row of o can show s, and therefore   *)
(* before any call can have read s: the order was created; and if it ever  *)
(* was confirmed, its stock was reserved and a confirmation committed.     *)
Backed(s, o) ==
  /\ s # Absent => \E d \in CallsOn(o) : req[d].op = "create"
  /\ s \in {"CONFIRMED", "SHIPPED", "DELIVERED"} =>
       /\ Published("stock.reserve", o)
       /\ \E d \in wrote : req[d].op = "confirm" /\ req[d].order = o

(* How the phase of a call, its answer and its effect hang together. *)
CallConsistent(c) ==
  /\ pc[c] = "idle" => answer[c] = "none"
  /\ pc[c] \in {"idle", "finding"} => seen[c] = Absent
  /\ pc[c] \in {"idle", "finding", "saving", "orphaned"} => c \notin wrote
  /\ pc[c] \in {"saving", "orphaned"} => Accepts(seen[c], req[c].op)
  /\ pc[c] = "saved" => c \in wrote
  /\ answer[c] = "ok" => c \in wrote
  /\ answer[c] \in Errors => c \notin wrote
  /\ answer[c] \in Errors \cup {"ok"} => pc[c] = "done"
  /\ pc[c] # "idle" /\ req[c].op = "confirm" =>
       Published("stock.reserve", req[c].order)
  /\ pc[c] # "idle" => Backed(seen[c], req[c].order)

EventConsistent(e) ==
  /\ answer[e.call] = "ok"
  /\ e.order = req[e.call].order
  /\ e.type \in EventsOf(seen[e.call], req[e.call].op)

IInv ==
  /\ \A o \in Orders : Backed(row[o], o)
  /\ \A c \in Calls : CallConsistent(c)
  /\ \A e \in outbox \cup topics : EventConsistent(e)

(* A handler works on c. *)
Busy(c) == pc[c] \in {"finding", "saving", "saved"}

(* The condition of the documented life cycle, on each step: no call is    *)
(* taken while a handler still works on its order, and no handler is cut   *)
(* off, by a timer or by the death of the process, while its save is on    *)
(* the way.  Queries may fail, acknowledgements and sends may be lost, and *)
(* handlers may be cut off at any other time.                              *)
Undisturbed ==
  /\ \A c, d \in Calls :
       c # d /\ pc[c] = "idle" /\ pc'[c] # "idle" /\ Busy(d) =>
         req'[c].order # req[d].order
  /\ \A c \in Calls : pc[c] = "saving" => pc'[c] # "orphaned"

SerialSpec == Init /\ [][Next /\ Undisturbed]_vars

(* The calls that have committed a cancellation of o. *)
Cancellers(o) == {c \in CallsOn(o) \cap wrote : req[c].op = "cancel"}

(* What this condition buys: no two calls work on the same order, a save   *)
(* starts from what the row still shows, and at most one cancellation of   *)
(* an order is ever committed, for good.                                   *)
SerialInv ==
  /\ \A c \in Calls :
       /\ pc[c] # "orphaned"
       /\ pc[c] = "saving" => seen[c] = row[req[c].order]
  /\ \A c, d \in Calls : Busy(c) /\ Busy(d) /\ req[c].order = req[d].order => c = d
  /\ \A o \in Orders :
       /\ \A c, d \in Cancellers(o) : c = d
       /\ Cancellers(o) # {} => row[o] = "CANCELLED"

-----------------------------------------------------------------------------
(* What the service implements, and when.                                  *)

Lifecycle == INSTANCE OrderLifecycle WITH
  status    <- row,
  confirmed <- {o \in Orders : \E c \in CallsOn(o) \cap wrote :
                                 req[c].op = "confirm"},
  released  <- {o \in Orders : Published("stock.compensate", o)}

(* The service implements the life cycle the documentation promises.       *)
ImplementsLifecycle == Lifecycle!Spec

(* The stock of an order that was confirmed and then cancelled is given    *)
(* back in the end.                                                        *)
StockReleased == Lifecycle!StockReleased

-----------------------------------------------------------------------------
(* Liveness.                                                               *)

(* Every status change is announced: the events of a committed save reach  *)
(* the broker.                                                             *)
CommitsAreAnnounced ==
  \A c \in Calls : (c \in wrote) ~> (c \in wrote /\ Recorded(c) \subseteq topics)

(* Every call that has begun is answered. *)
CallsAreAnswered ==
  \A c \in Calls : (pc[c] # "idle") ~> (answer[c] # "none")

(* A caller over HTTP or gRPC gets an answer even when the database hangs. *)
RpcCallsAreAnswered ==
  \A c \in Calls :
    (pc[c] # "idle" /\ req[c].via = "rpc") ~> (answer[c] # "none")
=============================================================================
