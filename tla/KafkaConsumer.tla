--------------------------- MODULE KafkaConsumer ---------------------------
(***************************************************************************)
(* The Kafka consumer (src/infrastructure/messaging/providers/kafka/       *)
(* consumers/orders.consumer.ts), its exception filter (kafka.filter.ts)   *)
(* and the consumer options of src/main.ts, as any number of processes of  *)
(* one consumer group.                                                     *)
(*                                                                         *)
(* Every handler has the same shape: the message is validated; one that is *)
(* invalid is sent to <topic>.dlq; otherwise the application service runs, *)
(* and when that fails the message is sent to <topic>.dlq.  When the send  *)
(* fails too, the filter sends once more in the background and returns     *)
(* EMPTY.  Nest waits for the last value of what a handler returns, and    *)
(* EMPTY has none: the rejection reaches kafkajs, which is told neither to *)
(* retry nor to restart, so that the consumer stops for good while the     *)
(* process goes on serving HTTP and gRPC.                                  *)
(*                                                                         *)
(* The group itself is kafkajs and the broker: who reads which topic, from *)
(* where, and what has been committed.  What the handlers do to orders is  *)
(* in OrderService.  The handlers of the *.dlq topics are empty.           *)
(***************************************************************************)
EXTENDS Naturals

CONSTANTS
  Members,       \* the processes of the consumer group
  Topics,        \* topics, of one partition each
  Length,        \* bound: most messages in a topic
  Sent,          \* Sent[t]: how many messages topic t holds
  SendsFail,     \* whether a send to a dead letter topic can fail
  MaxCrashes,    \* bound: how often a process dies
  MaxEvictions,  \* bound: how often the broker gives a member up for dead
  Nobody,        \* the owner of a topic that nobody reads
  NoMessage      \* what an idle member works on

Messages ==
  {x \in [topic : Topics, offset : 0 .. Length - 1] : x.offset < Sent[x.topic]}

ASSUME ConsumerBounds ==
  /\ Length \in Nat
  /\ Sent \in [Topics -> 0 .. Length]
  /\ MaxCrashes \in Nat
  /\ MaxEvictions \in Nat
  /\ SendsFail \in BOOLEAN

ASSUME ConsumerNulls ==
  /\ Nobody \notin Members
  /\ NoMessage \notin Messages

VARIABLES
  status,        \* status[m]: "running", "stopped" (consumer only) or "down"
  owner,         \* owner[t]: the member that is assigned t
  committed,     \* committed[t]: offset from which t is read after a rebalance
  position,      \* position[m][t]: the next offset m takes from t
  stage,         \* stage[m]: what m does with its message
  message,       \* message[m]: the message m works on
  background,    \* sends of the filters that have not been settled
  handled,       \* messages the application has dealt with (history)
  parked,        \* messages in a dead letter topic
  crashes,       \* number of crashes
  evictions      \* number of evictions

group == <<owner, committed, position>>
outcome == <<handled, parked>>
count == <<crashes, evictions>>
consumerVars == <<status, group, stage, message, background, outcome, count>>

Stages == {"idle", "handling", "rejecting", "parking"}

ConsumerTypeOK ==
  /\ status \in [Members -> {"running", "stopped", "down"}]
  /\ owner \in [Topics -> Members \cup {Nobody}]
  /\ committed \in [Topics -> 0 .. Length]
  /\ position \in [Members -> [Topics -> 0 .. Length]]
  /\ stage \in [Members -> Stages]
  /\ message \in [Members -> Messages \cup {NoMessage}]
  /\ \A m \in Members : stage[m] # "idle" => message[m] \in Messages
  /\ background \subseteq [member : Members, message : Messages]
  /\ handled \subseteq Messages
  /\ parked \subseteq Messages
  /\ crashes \in 0 .. MaxCrashes
  /\ evictions \in 0 .. MaxEvictions

(* Dealt with, or kept where somebody can find it. *)
Settled == handled \cup parked

(* Every message of t before offset n is settled. *)
SettledUpTo(t, n) ==
  \A x \in Messages : x.topic = t /\ x.offset < n => x \in Settled

-----------------------------------------------------------------------------

ConsumerInit ==
  /\ status = [m \in Members |-> "running"]
  /\ owner = [t \in Topics |-> Nobody]
  /\ committed = [t \in Topics |-> 0]
  /\ position = [m \in Members |-> [t \in Topics |-> 0]]
  /\ stage = [m \in Members |-> "idle"]
  /\ message = [m \in Members |-> NoMessage]
  /\ background = {}
  /\ handled = {}
  /\ parked = {}
  /\ crashes = 0
  /\ evictions = 0

Enter(m, s) == stage' = [stage EXCEPT ![m] = s]

Rest(m) ==
  /\ Enter(m, "idle")
  /\ message' = [message EXCEPT ![m] = NoMessage]

(* The handler's Observable has completed: kafkajs moves on, unless the    *)
(* topic was taken from m in the meantime.                                 *)
Finish(m) ==
  LET t == message[m].topic
  IN /\ Rest(m)
     /\ position' = IF owner[t] = m
                    THEN [position EXCEPT ![m][t] = message[m].offset + 1]
                    ELSE position
     /\ UNCHANGED <<status, owner, committed, count>>

(* m reads no topic any more. *)
Disown(m) ==
  owner' = [t \in Topics |-> IF owner[t] = m THEN Nobody ELSE owner[t]]

(* The consumer of m stops.  kafkajs commits what m has finished, and does *)
(* not restart it.                                                         *)
Stop(m) ==
  /\ status' = [status EXCEPT ![m] = "stopped"]
  /\ committed' = [t \in Topics |-> IF owner[t] = m THEN position[m][t]
                                                    ELSE committed[t]]
  /\ Disown(m)
  /\ Rest(m)
  /\ UNCHANGED <<position, count>>

-----------------------------------------------------------------------------
(* The handlers.  A member works on one message at a time.                 *)

(* A mistake: a message is taken beyond the end of the topic. *)
MutantTakesAtEnd(m, t) ==
  /\ status[m] = "running"
  /\ stage[m] = "idle"
  /\ owner[t] = m
  /\ position[m][t] <= Sent[t]
  /\ Enter(m, "handling")
  /\ message' = [message EXCEPT ![m] = [topic |-> t, offset |-> position[m][t]]]
  /\ UNCHANGED <<status, group, background, outcome, count>>

Take(m, t) ==
  /\ status[m] = "running"
  /\ stage[m] = "idle"
  /\ owner[t] = m
  /\ position[m][t] < Sent[t]
  /\ Enter(m, "handling")
  /\ message' = [message EXCEPT ![m] = [topic |-> t, offset |-> position[m][t]]]
  /\ UNCHANGED <<status, group, background, outcome, count>>

(* The application service succeeds. *)
Handle(m) ==
  /\ stage[m] = "handling"
  /\ handled' = handled \cup {message[m]}
  /\ Finish(m)
  /\ UNCHANGED <<background, parked>>

(* A mistake: an invalid message is logged and skipped. *)
MutantSkipsInvalid(m) ==
  /\ stage[m] = "handling"
  /\ Finish(m)
  /\ UNCHANGED <<background, outcome>>

(* Validation finds errors: handleValidationError sends to the dead letter *)
(* topic.                                                                  *)
Reject(m) ==
  /\ stage[m] = "handling"
  /\ Enter(m, "rejecting")
  /\ UNCHANGED <<status, group, message, background, outcome, count>>

(* The application service or the transformation fails: catchError sends   *)
(* to the dead letter topic.                                               *)
Fail(m) ==
  /\ stage[m] = "handling"
  /\ Enter(m, "parking")
  /\ UNCHANGED <<status, group, message, background, outcome, count>>

(* The dead letter topic has the message. *)
Park(m) ==
  /\ stage[m] \in {"rejecting", "parking"}
  /\ parked' = parked \cup {message[m]}
  /\ Finish(m)
  /\ UNCHANGED <<background, handled>>

(* The send of handleValidationError fails inside the pipeline, where      *)
(* catchError sends again.                                                 *)
RejectFails(m) ==
  /\ SendsFail
  /\ stage[m] = "rejecting"
  /\ Enter(m, "parking")
  /\ UNCHANGED <<status, group, message, background, outcome, count>>

(* A mistake, or what the filter's comments describe: the consumer carries *)
(* on with the next message.                                               *)
MutantCarriesOn(m) ==
  /\ SendsFail
  /\ stage[m] = "parking"
  /\ background' = background \cup {[member |-> m, message |-> message[m]]}
  /\ Finish(m)
  /\ UNCHANGED outcome

(* The send of catchError fails: the filter sends in the background, and   *)
(* the consumer stops.                                                     *)
ParkFails(m) ==
  /\ SendsFail
  /\ stage[m] = "parking"
  /\ background' = background \cup {[member |-> m, message |-> message[m]]}
  /\ Stop(m)
  /\ UNCHANGED outcome

(* The filter's own send succeeds, or fails and is logged. *)
SettleLate(b) ==
  /\ b \in background
  /\ background' = background \ {b}
  /\ parked' \in {parked, parked \cup {b.message}}
  /\ UNCHANGED <<status, group, stage, message, handled, count>>

-----------------------------------------------------------------------------
(* The consumer group.                                                     *)

(* kafkajs commits what has been finished, between two messages. *)
Commit(m, t) ==
  /\ status[m] = "running"
  /\ stage[m] = "idle"
  /\ owner[t] = m
  /\ committed[t] # position[m][t]
  /\ committed' = [committed EXCEPT ![t] = position[m][t]]
  /\ UNCHANGED <<status, owner, position, stage, message, background,
                 outcome, count>>

(* A mistake: a topic is read from its beginning. *)
MutantRewinds(t, m) ==
  /\ owner[t] = Nobody
  /\ status[m] = "running"
  /\ stage[m] = "idle"
  /\ owner' = [owner EXCEPT ![t] = m]
  /\ position' = [position EXCEPT ![m][t] = 0]
  /\ UNCHANGED <<status, committed, stage, message, background, outcome, count>>

(* A topic nobody reads is assigned to m, which has joined the group: a    *)
(* member joins between two messages.                                      *)
Assign(t, m) ==
  /\ owner[t] = Nobody
  /\ status[m] = "running"
  /\ stage[m] = "idle"
  /\ owner' = [owner EXCEPT ![t] = m]
  /\ position' = [position EXCEPT ![m][t] = committed[t]]
  /\ UNCHANGED <<status, committed, stage, message, background, outcome, count>>

(* The broker has not heard of m for a session timeout, for no heartbeat   *)
(* is sent while a handler runs.  m does not know, and its handler goes on.*)
Evict(m) ==
  /\ evictions < MaxEvictions
  /\ \E t \in Topics : owner[t] = m
  /\ Disown(m)
  /\ evictions' = evictions + 1
  /\ UNCHANGED <<status, committed, position, stage, message, background,
                 outcome, crashes>>

(* The process of m dies, with what its filter was sending. *)
Die(m) ==
  /\ crashes < MaxCrashes
  /\ status[m] # "down"
  /\ status' = [status EXCEPT ![m] = "down"]
  /\ background' = {b \in background : b.member # m}
  /\ Disown(m)
  /\ Rest(m)
  /\ crashes' = crashes + 1
  /\ UNCHANGED <<committed, position, outcome, evictions>>

Restart(m) ==
  /\ status[m] = "down"
  /\ status' = [status EXCEPT ![m] = "running"]
  /\ UNCHANGED <<group, stage, message, background, outcome, count>>

-----------------------------------------------------------------------------

(* The handler of m gets on. *)
Work(m) ==
  \/ \E t \in Topics : Take(m, t)
  \/ Handle(m)
  \/ Reject(m)
  \/ Fail(m)
  \/ Park(m)
  \/ RejectFails(m)
  \/ ParkFails(m)

ConsumerNext ==
  \/ \E m \in Members : Work(m) \/ Evict(m) \/ Die(m) \/ Restart(m)
  \/ \E m \in Members, t \in Topics : Commit(m, t) \/ Assign(t, m)
  \/ \E b \in background : SettleLate(b)

ConsumerSpec == ConsumerInit /\ [][ConsumerNext]_consumerVars

(* Handlers end, sends are settled, and a topic nobody reads is assigned   *)
(* to somebody.  Nothing obliges a dead process to be started again.       *)
FairConsumerSpec ==
  /\ ConsumerSpec
  /\ \A m \in Members : WF_consumerVars(Work(m))
  /\ \A t \in Topics : WF_consumerVars(\E m \in Members : Assign(t, m))

-----------------------------------------------------------------------------

(* No message is lost: what the group will not read again has been dealt   *)
(* with or is in a dead letter topic, whatever failed, stopped or died.    *)
CommittedIsSettled ==
  \A t \in Topics : SettledUpTo(t, committed[t])

(* No message overtakes another of its topic: whoever works on a message,  *)
(* those ahead of it are settled, even when the topic has changed hands.   *)
HandledInOrder ==
  \A m \in Members :
    stage[m] # "idle" => SettledUpTo(message[m].topic, message[m].offset)

(* A rebalance never makes the group go back behind a committed offset. *)
CommitsNeverGoBack == [][\A t \in Topics : committed'[t] >= committed[t]]_committed

(* Only the end of every consumer leaves a message unsettled: crashes,     *)
(* rebalances and failed sends delay it, as long as one member still runs. *)
SettledUnlessAllStop ==
  <>(Messages \subseteq Settled \/ \A m \in Members : status[m] # "running")

(* "One invalid message does not affect processing of other messages"      *)
(* (docs/adr/adr-006-kafka-validation-dlq.md): every message is settled in *)
(* the end, whichever messages before it fail.                             *)
EveryMessageIsSettled == \A x \in Messages : <>(x \in Settled)

-----------------------------------------------------------------------------
(* Why the safety properties hold: an inductive invariant.                 *)

ConsumerInv ==
  /\ CommittedIsSettled
  /\ HandledInOrder
  /\ \A m \in Members, t \in Topics : owner[t] = m =>
       /\ committed[t] <= position[m][t]
       /\ SettledUpTo(t, position[m][t])
       /\ stage[m] # "idle" /\ message[m].topic = t =>
            message[m].offset = position[m][t]
  /\ evictions = 0 =>
       \A m \in Members : stage[m] # "idle" => owner[message[m].topic] = m
=============================================================================
