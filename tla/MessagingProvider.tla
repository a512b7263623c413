------------------------- MODULE MessagingProvider -------------------------
(***************************************************************************)
(* KafkaMessagingProvider: the connection it manages, the callbacks it     *)
(* registers, and the health it reports (src/infrastructure/messaging/     *)
(* providers/kafka/adapters).                                              *)
(*                                                                         *)
(* Its users wait for what they have called before they call anything      *)
(* else; emit() waits for nothing, and Nest calls onModuleDestroy when it  *)
(* likes.  The Kafka client is external: it connects when it is told to or *)
(* when something is emitted, and a close() that fails leaves it broken.   *)
(***************************************************************************)
CONSTANT Topics

VARIABLES
  client,          \* "closed", "open" or "broken"
  connected,       \* what health() reports
  subscriptions,   \* the topics with a callback
  pending,         \* "none", or the call that is being waited for
  destroying       \* "no", "closing" or "destroyed"

providerVars == <<client, connected, subscriptions, pending, destroying>>

ProviderTypeOK ==
  /\ client \in {"closed", "open", "broken"}
  /\ connected \in BOOLEAN
  /\ subscriptions \subseteq Topics
  /\ pending \in {"none", "connect", "disconnect"}
  /\ destroying \in {"no", "closing", "destroyed"}

ProviderInit ==
  /\ client = "closed"
  /\ connected = FALSE
  /\ subscriptions = {}
  /\ pending = "none"
  /\ destroying = "no"

-----------------------------------------------------------------------------

Call(operation) ==
  /\ pending = "none"
  /\ pending' = operation
  /\ UNCHANGED <<client, connected, subscriptions, destroying>>

Connect == Call("connect")

(* A broken client still takes itself to be connected. *)
ConnectOk ==
  /\ pending = "connect"
  /\ pending' = "none"
  /\ client' = IF client = "closed" THEN "open" ELSE client
  /\ connected' = TRUE
  /\ UNCHANGED <<subscriptions, destroying>>

ConnectFails ==
  /\ pending = "connect"
  /\ pending' = "none"
  /\ client = "closed"
  /\ connected' = FALSE
  /\ UNCHANGED <<client, subscriptions, destroying>>

Disconnect == Call("disconnect")

DisconnectOk ==
  /\ pending = "disconnect"
  /\ pending' = "none"
  /\ client' = "closed"
  /\ connected' = FALSE
  /\ subscriptions' = {}
  /\ UNCHANGED destroying

DisconnectFails ==
  /\ pending = "disconnect"
  /\ pending' = "none"
  /\ client' \in {client, "broken"}
  /\ UNCHANGED <<connected, subscriptions, destroying>>

(* An event is emitted, and the client connects to do so if it can. *)
Emit ==
  /\ client = "closed"
  /\ client' = "open"
  /\ UNCHANGED <<connected, subscriptions, pending, destroying>>

Subscribe(topic) ==
  /\ pending = "none"
  /\ subscriptions' = subscriptions \cup {topic}
  /\ UNCHANGED <<client, connected, pending, destroying>>

Unsubscribe(topic) ==
  /\ pending = "none"
  /\ subscriptions' = subscriptions \ {topic}
  /\ UNCHANGED <<client, connected, pending, destroying>>

CloseSubscriber ==
  /\ pending = "none"
  /\ subscriptions' = {}
  /\ UNCHANGED <<client, connected, pending, destroying>>

(* onModuleDestroy closes the client, whether or not that fails, and       *)
(* touches neither the flag nor the callbacks.                             *)
Destroy ==
  /\ destroying = "no"
  /\ destroying' = "closing"
  /\ UNCHANGED <<client, connected, subscriptions, pending>>

Destroyed ==
  /\ destroying = "closing"
  /\ destroying' = "destroyed"
  /\ client' \in {"closed", "broken"}
  /\ UNCHANGED <<connected, subscriptions, pending>>

ProviderNext ==
  \/ Connect \/ ConnectOk \/ ConnectFails
  \/ Disconnect \/ DisconnectOk \/ DisconnectFails
  \/ Emit
  \/ \E topic \in Topics : Subscribe(topic) \/ Unsubscribe(topic)
  \/ CloseSubscriber
  \/ Destroy \/ Destroyed
=============================================================================
