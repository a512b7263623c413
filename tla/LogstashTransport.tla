------------------------- MODULE LogstashTransport -------------------------
(***************************************************************************)
(* The transport that streams entries to Logstash over a TCP socket, and   *)
(* reconnects (src/infrastructure/logging/transports).                     *)
(*                                                                         *)
(* The transport connects to the host of its URL once.  url.host contains  *)
(* the port, which no name server resolves; without a port, or without a   *)
(* scheme, parseInt makes no number of url.port and connect throws.  From  *)
(* then on it connects to localhost:5000, since a socket that is not       *)
(* connected has no remoteAddress.                                         *)
(***************************************************************************)
EXTENDS Integers

VARIABLES
  socket,       \* "absent", "new", "connecting", "connected" or "destroyed"
  target,       \* what it is or was last connected to
  events,       \* how many of its events have not reached their listeners yet
  isConnected,
  connectionTimeout,   \* "null" or "set"
  timers,       \* how many timers are pending
  ended         \* close() has been called

transportVars ==
  <<socket, target, events, isConnected, connectionTimeout, timers, ended>>

TransportTypeOK ==
  /\ socket \in {"absent", "new", "connecting", "connected", "destroyed"}
  /\ target \in {"url", "localhost"}
  /\ events \in 0 .. 2
  /\ isConnected \in BOOLEAN /\ ended \in BOOLEAN
  /\ connectionTimeout \in {"null", "set"}
  /\ timers \in Nat

TransportInit ==
  /\ socket = "absent"
  /\ target = "url"
  /\ events = 0
  /\ isConnected = FALSE /\ ended = FALSE
  /\ connectionTimeout = "null"
  /\ timers = 0

-----------------------------------------------------------------------------

(* A mistake: every event arms a timer. *)
MutantScheduleReconnection == connectionTimeout' = "set" /\ timers' = timers + 1

scheduleReconnection ==
  /\ connectionTimeout' = "set"
  /\ timers' = IF connectionTimeout = "set" THEN timers ELSE timers + 1

(* A mistake: a timer is taken to be pending. *)
MutantCancel == connectionTimeout' = "null" /\ timers' = timers - 1

Cancel ==
  /\ connectionTimeout' = "null"
  /\ timers' = IF connectionTimeout = "set" THEN timers - 1 ELSE timers

(* The constructor.  If connect throws, a timer is armed. *)
Construct(throws) ==
  /\ socket = "absent"
  /\ IF throws THEN socket' = "new" /\ scheduleReconnection
               ELSE socket' = "connecting" /\ UNCHANGED <<connectionTimeout, timers>>
  /\ UNCHANGED <<target, events, isConnected, ended>>

(* The connection is established, and the listener runs. *)
Connected ==
  /\ socket = "connecting" /\ target = "localhost"
  /\ socket' = "connected"
  /\ isConnected' = TRUE
  /\ Cancel
  /\ UNCHANGED <<target, events, ended>>

(* The socket is destroyed by an error, of the connection or of a write. *)
Fails ==
  /\ socket \in {"connecting", "connected"}
  /\ socket' = "destroyed"
  /\ events' = 2      \* "error" and "close"
  /\ UNCHANGED <<target, isConnected, connectionTimeout, timers, ended>>

(* Logstash closes the connection. *)
PeerCloses ==
  /\ socket = "connected"
  /\ socket' = "destroyed"
  /\ events' = 1      \* "close"
  /\ UNCHANGED <<target, isConnected, connectionTimeout, timers, ended>>

(* The listener of "error" or "close": both do the same. *)
Event ==
  /\ events > 0
  /\ events' = events - 1
  /\ isConnected' = FALSE
  /\ scheduleReconnection
  /\ UNCHANGED <<socket, target, ended>>

TimerFires ==
  /\ timers > 0
  /\ events = 0       \* they are emitted at once, the timer takes 5 s
  /\ connectionTimeout' = "null" /\ timers' = timers - 1
  /\ target' = "localhost"
  /\ socket' = "connecting"
  /\ UNCHANGED <<events, isConnected, ended>>

(* close(): the timer is cleared, a socket that is not destroyed is.       *)
CloseTransport ==
  /\ socket # "absent"
  /\ Cancel
  /\ ended' = TRUE
  /\ socket' = "destroyed"
  /\ events' = IF socket = "destroyed" THEN events ELSE 1
  /\ UNCHANGED <<target, isConnected>>

TransportNext ==
  \/ Connected
  \/ Fails
  \/ PeerCloses
  \/ Event
  \/ TimerFires
  \/ CloseTransport

-----------------------------------------------------------------------------

(* A transport without a connection is about to try to get one: a timer is *)
(* pending, never more than one, whatever the socket does; it is the timer *)
(* that close() would clear, and never fires while the socket connects or  *)
(* is connected.  Not even close() ends that, since the event it causes    *)
(* arms the timer again, unless the socket is destroyed already; hence     *)
(* the exception.                                                          *)
Reconnects ==
  /\ timers <= 1
  /\ connectionTimeout = "set" <=> timers = 1
  /\ connectionTimeout = "set" => socket \in {"new", "destroyed"}
  /\ socket \in {"new", "destroyed"} /\ events = 0 /\ ~ ended =>
       connectionTimeout = "set"
=============================================================================
