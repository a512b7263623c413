--------------------------- MODULE ProcessProofs ---------------------------
(***************************************************************************)
(* Proofs about Process, for every set of environments, levels, arguments  *)
(* and topics, and however often anything connects, fails or is closed.    *)
(***************************************************************************)
EXTENDS Process, TLAPS

(* Nobody but the transport and the provider touches their variables. *)
LEMMA TransportSteps ==
  ASSUME [Next]_vars
  PROVE  \/ stage = "creating" /\ \E throws \in BOOLEAN : Construct(throws)
         \/ TransportNext
         \/ UNCHANGED transportVars
BY DEF Next, vars, Create, Certify, StartMicroservice, StartGrpc, StartKafka,
       ConsumerStops, Listen, Exit, Log, Transport, Provider

(* Every other step leaves the provider as it is. *)
LEMMA ProviderSteps ==
  ASSUME [Next]_vars
  PROVE  [ProviderNext]_providerVars
BY DEF Next, vars, Create, Certify, StartMicroservice, StartGrpc, StartKafka,
       ConsumerStops, Listen, Exit, Log, Transport, Provider

-----------------------------------------------------------------------------
(* The transport to Logstash.                                              *)

(* The inductive invariant: as Reconnects, and events are only emitted by  *)
(* a socket that is destroyed.                                             *)
TransportInv ==
  /\ TransportTypeOK
  /\ timers \in {0, 1}
  /\ connectionTimeout = "set" <=> timers = 1
  /\ connectionTimeout = "set" => socket \in {"new", "destroyed"}
  /\ events > 0 => socket = "destroyed"
  /\ socket \in {"new", "destroyed"} /\ events = 0 /\ ~ ended =>
       connectionTimeout = "set"

(* The constructor of the transport preserves the invariant, whether or    *)
(* not connect throws.                                                     *)
LEMMA ConstructKeepsInv ==
  ASSUME TransportInv, NEW throws \in BOOLEAN, Construct(throws)
  PROVE  TransportInv'
BY DEF TransportInv, TransportTypeOK, Construct, scheduleReconnection

(* So does everything that happens to the socket, its timer and close(). *)
LEMMA TransportKeepsInv ==
  ASSUME TransportInv, TransportNext
  PROVE  TransportInv'
<1> USE DEF TransportInv, TransportTypeOK
<1>1. CASE Connected
  <2>1. connectionTimeout = "null" /\ timers = 0 /\ events = 0
    BY <1>1 DEF Connected
  <2>2. connectionTimeout' = "null" /\ timers' = 0
    BY <1>1, <2>1 DEF Connected, Cancel
  <2>3. socket' = "connected" /\ events' = 0 /\ target' = target
    BY <1>1, <2>1 DEF Connected
  <2>4. isConnected' \in BOOLEAN /\ ended' \in BOOLEAN
    BY <1>1, Zenon DEF Connected
  <2> QED
    BY <2>2, <2>3, <2>4
<1>2. CASE Fails
  BY <1>2 DEF Fails
<1>3. CASE PeerCloses
  BY <1>3 DEF PeerCloses
<1>4. CASE Event
  <2>1. socket = "destroyed" /\ socket' = socket /\ target' = target
        /\ events' \in 0 .. 1
    BY <1>4 DEF Event
  <2>2. connectionTimeout' = "set" /\ timers' = 1
    BY <1>4 DEF Event, scheduleReconnection
  <2>3. isConnected' \in BOOLEAN /\ ended' \in BOOLEAN
    BY <1>4, Zenon DEF Event
  <2> QED
    BY <2>1, <2>2, <2>3
<1>5. CASE TimerFires
  BY <1>5 DEF TimerFires
<1>6. CASE CloseTransport
  <2>1. connectionTimeout' = "null" /\ timers' = 0
    BY <1>6 DEF CloseTransport, Cancel
  <2>2. socket' = "destroyed" /\ target' = target /\ events' \in 0 .. 2
    BY <1>6 DEF CloseTransport
  <2>3. ended' = TRUE /\ isConnected' \in BOOLEAN
    BY <1>6, Zenon DEF CloseTransport
  <2> QED
    BY <2>1, <2>2, <2>3
<1> QED
  BY <1>1, <1>2, <1>3, <1>4, <1>5, <1>6 DEF TransportNext

(* The invariant holds in every reachable state of the process. *)
LEMMA TransportInvariant == Spec => []TransportInv
<1>1. Init => TransportInv
  <2> SUFFICES ASSUME TransportInit PROVE TransportInv
    BY DEF Init
  <2>1. isConnected \in BOOLEAN /\ ended \in BOOLEAN
    BY Zenon DEF TransportInit
  <2> QED
    BY <2>1 DEF TransportInit, TransportInv, TransportTypeOK
<1>2. TransportInv /\ [Next]_vars => TransportInv'
  <2> SUFFICES ASSUME TransportInv, [Next]_vars PROVE TransportInv'
    OBVIOUS
  <2>1. CASE UNCHANGED transportVars
    BY <2>1 DEF transportVars, TransportInv, TransportTypeOK
  <2> QED
    BY <2>1, TransportSteps, ConstructKeepsInv, TransportKeepsInv
<1> QED
  BY <1>1, <1>2, PTL DEF Spec

(* A transport without a connection always has exactly one timer pending,  *)
(* the one close() knows of, until close() is called (LogstashTransport's  *)
(* scheduleReconnection and the listeners of its socket).                  *)
THEOREM TransportReconnects == Spec => []Reconnects
<1>1. TransportInv => Reconnects
  BY DEF TransportInv, TransportTypeOK, Reconnects
<1> QED
  BY <1>1, TransportInvariant, PTL

-----------------------------------------------------------------------------
(* The types.                                                              *)

(* A step of the provider leaves its variables with their types. *)
LEMMA ProviderKeepsTypes ==
  ASSUME ProviderTypeOK, [ProviderNext]_providerVars
  PROVE  ProviderTypeOK'
<1> USE DEF ProviderTypeOK
<1>1. CASE UNCHANGED providerVars
  BY <1>1, Zenon DEF providerVars
<1>2. CASE Connect \/ Disconnect
  BY <1>2, Zenon DEF Connect, Disconnect, Call
<1>3. CASE ConnectOk \/ ConnectFails
  <2>1. client' \in {"closed", "open", "broken"}
    BY <1>3 DEF ConnectOk, ConnectFails
  <2> QED
    BY <1>3, <2>1, Zenon DEF ConnectOk, ConnectFails
<1>4. CASE DisconnectOk
  <2>1. client' \in {"closed", "open", "broken"} /\ subscriptions' \subseteq Topics
    BY <1>4 DEF DisconnectOk
  <2> QED
    BY <1>4, <2>1, Zenon DEF DisconnectOk
<1>5. CASE DisconnectFails \/ Emit \/ Destroyed
  <2>1. /\ client' \in {"closed", "open", "broken"}
        /\ pending' \in {"none", "connect", "disconnect"}
        /\ destroying' \in {"no", "closing", "destroyed"}
    BY <1>5 DEF DisconnectFails, Emit, Destroyed
  <2> QED
    BY <1>5, <2>1, Zenon DEF DisconnectFails, Emit, Destroyed
<1>6. CASE CloseSubscriber \/ \E topic \in Topics : Subscribe(topic) \/ Unsubscribe(topic)
  <2>1. subscriptions' \subseteq Topics
    BY <1>6 DEF CloseSubscriber, Subscribe, Unsubscribe
  <2> QED
    BY <1>6, <2>1, Zenon DEF CloseSubscriber, Subscribe, Unsubscribe
<1>7. CASE Destroy
  BY <1>7, Zenon DEF Destroy
<1> QED
  BY <1>1, <1>2, <1>3, <1>4, <1>5, <1>6, <1>7 DEF ProviderNext

(* What is known of the last entry, and the types of what no invariant     *)
(* above is about.                                                         *)
Logged ==
  /\ env \in OfferedEnvironments
  /\ stage \in {"creating", "created", "starting", "listening", "exited"}
  /\ started \subseteq Microservices
  /\ serving \subseteq Servers
  /\ ProviderTypeOK
  /\ last # None =>
       \E level \in OfferedLevels, args \in ArgumentLists :
         /\ last.level = level
         /\ last.context = processLogArguments(args).context
         /\ \/ last.sinks = Sinks(LoggerConfig, level, args)
            \/ last.sinks = Sinks(LoggerConfig, level, args) \ {"logstash"}

(* Every step leaves the environment as it is, and so the configuration. *)
LEMMA EnvironmentStays ==
  ASSUME [Next]_vars
  PROVE  env' = env /\ LoggerConfig' = LoggerConfig
<1>1. env' = env
  BY DEF Next, vars, Create, Certify, StartMicroservice, StartGrpc, StartKafka,
         ConsumerStops, Listen, Exit, Log, Transport, Provider
<1> QED
  BY <1>1 DEF LoggerConfig, config

(* Every step preserves what is known of the last entry. *)
LEMMA LoggedAlways == Spec => []Logged
<1>1. Init => Logged
  BY Zenon DEF Init, Logged, ProviderInit, ProviderTypeOK
<1>2. Logged /\ [Next]_vars => Logged'
  <2> SUFFICES ASSUME Logged, [Next]_vars PROVE Logged'
    OBVIOUS
  <2>1. env' = env /\ LoggerConfig' = LoggerConfig
    BY EnvironmentStays
  <2>2. ProviderTypeOK'
    BY ProviderSteps, ProviderKeepsTypes DEF Logged
  <2>3. /\ stage' \in {"creating", "created", "starting", "listening", "exited"}
        /\ started' \subseteq Microservices
        /\ serving' \subseteq Servers
    <3> USE DEF Logged, Servers, Microservices
    <3>1. CASE StartGrpc
      BY <3>1 DEF StartGrpc, StartMicroservice
    <3>2. CASE StartKafka
      BY <3>2 DEF StartKafka, StartMicroservice
    <3>3. CASE ConsumerStops
      BY <3>3 DEF ConsumerStops
    <3>4. CASE Listen \/ Exit
      BY <3>4 DEF Listen, Exit
    <3>5. CASE Create \/ Certify
      BY <3>5 DEF Create, Certify
    <3>6. CASE Transport \/ Provider \/ UNCHANGED vars
      BY <3>6 DEF Transport, Provider, vars
    <3>7. ASSUME NEW level, NEW args, Log(level, args)
          PROVE  stage' = stage /\ started' = started /\ serving' = serving
      BY <3>7 DEF Log
    <3> QED
      BY <3>1, <3>2, <3>3, <3>4, <3>5, <3>6, <3>7 DEF Next
  <2>4. last' = last \/ \E level \in OfferedLevels, args \in ArgumentLists : Log(level, args)
    BY DEF Next, vars, Create, Certify, StartMicroservice, StartGrpc,
           StartKafka, ConsumerStops, Listen, Exit, Transport, Provider
  <2>5. CASE last' = last
    BY <2>1, <2>2, <2>3, <2>5 DEF Logged
  <2>6. ASSUME NEW level \in OfferedLevels, NEW args \in ArgumentLists, Log(level, args)
        PROVE  Logged'
    <3>1. /\ last'.level = level
          /\ last'.context = processLogArguments(args).context
          /\ \/ last'.sinks = Sinks(LoggerConfig, level, args)
             \/ last'.sinks = Sinks(LoggerConfig, level, args) \ {"logstash"}
      BY <2>6 DEF Log
    <3> QED
      BY <2>1, <2>2, <2>3, <3>1 DEF Logged
  <2> QED
    BY <2>4, <2>5, <2>6
<1> QED
  BY <1>1, <1>2, PTL DEF Spec

(* Where an entry goes is one of the five places, and where it goes in     *)
(* them is decided by the rules of each.                                   *)
LEMMA WhereEntriesGo ==
  ASSUME NEW level, NEW args
  PROVE  LET sinks == Sinks(LoggerConfig, level, args)
             tag == TagOf(processLogArguments(args).context)
         IN /\ sinks \subseteq {"console", "daily", "http", "errors", "logstash"}
            /\ "daily" \in sinks <=> config.save
                 /\ Allows(DebugLevel, level) /\ customContexts(tag, DailyRules)
            /\ "http" \in sinks <=> config.save
                 /\ Allows(HttpLevel, level) /\ customContexts(tag, HttpRules)
            /\ "errors" \in sinks <=> config.save /\ Allows("warn", level)
            /\ "logstash" \in sinks => config.stream
BY DEF Sinks, Transports, FileSinks, LoggerConfig

(* Every variable has its type. *)
THEOREM ProcessTypeCorrectness == Spec => []ProcessTypeOK
<1>1. TransportInv /\ Logged => ProcessTypeOK
  <2> SUFFICES ASSUME TransportInv, Logged PROVE ProcessTypeOK
    OBVIOUS
  <2>1. last # None =>
          /\ last.level \in OfferedLevels
          /\ last.sinks \subseteq {"console", "daily", "http", "errors", "logstash"}
    BY WhereEntriesGo DEF Logged
  <2> QED
    BY <2>1 DEF ProcessTypeOK, TransportInv, Logged
<1> QED
  BY <1>1, TransportInvariant, LoggedAlways, PTL

-----------------------------------------------------------------------------
(* The files.                                                              *)

(* A warning and an error are important enough for the file of errors. *)
LEMMA WarningsAreErrors ==
  \A level \in {"error", "warn"} : Allows("warn", level)
<1>1. Rank("error") = 1
  BY DEF Rank, Levels
<1>2. Rank("warn") = 2
  BY DEF Rank, Levels
<1> QED
  BY <1>1, <1>2 DEF Allows

(* The daily file excludes what the file for HTTP includes, and what has   *)
(* no word of the rules is in the daily file.                              *)
LEMMA FilesShareNothing ==
  /\ \A tag : ~ (customContexts(tag, DailyRules) /\ customContexts(tag, HttpRules))
  /\ customContexts({}, DailyRules)
  /\ customContexts({"HTTP"}, HttpRules)
<1> USE DEF Include, Exclude
<1>1. \A tag : customContexts(tag, DailyRules) <=>
                 \A word \in {"HTTP", "Socket.io", "S3"} : word \notin tag
  <2> SUFFICES ASSUME NEW tag
               PROVE  customContexts(tag, DailyRules) <=>
                        \A word \in {"HTTP", "Socket.io", "S3"} : word \notin tag
    OBVIOUS
  <2>1. {r \in DailyRules : r.kind = "include"} = {}
    BY DEF DailyRules
  <2>2. {r \in DailyRules : r.kind = "exclude" /\ r.tag \in tag} = {} <=>
          \A word \in {"HTTP", "Socket.io", "S3"} : word \notin tag
    <3>1. \A word \in {"HTTP", "Socket.io", "S3"} :
            Exclude(word) \in DailyRules
            /\ Exclude(word).kind = "exclude" /\ Exclude(word).tag = word
      BY DEF DailyRules
    <3>2. \A r \in DailyRules :
            r.tag \in {"HTTP", "Socket.io", "S3"}
      BY DEF DailyRules
    <3> HIDE DEF Exclude
    <3> QED
      BY <3>1, <3>2
  <2> QED
    BY <2>1, <2>2 DEF customContexts
<1>2. \A tag : customContexts(tag, HttpRules) <=> "HTTP" \in tag
  <2> SUFFICES ASSUME NEW tag
               PROVE  customContexts(tag, HttpRules) <=> "HTTP" \in tag
    OBVIOUS
  <2>1. /\ {r \in HttpRules : r.kind = "exclude" /\ r.tag \in tag} = {}
        /\ Include("HTTP") \in {r \in HttpRules : r.kind = "include"}
        /\ {r \in HttpRules : r.kind = "include" /\ r.tag \in tag} # {} <=>
             "HTTP" \in tag
    BY DEF HttpRules
  <2> QED
    BY <2>1 DEF customContexts
<1> QED
  BY <1>1, <1>2

(* Whatever is logged and whatever the levels of the files are: no entry   *)
(* is both in the file for HTTP and in the daily file, and one that the    *)
(* level admits is in the first if it is about HTTP, in the second if it   *)
(* is about nothing that the rules name; a warning or an error is among    *)
(* the errors, and nothing is in a file unless files were asked for        *)
(* (createWinstonTransports and the formats of winston.factory).           *)
THEOREM EntriesAreFound == Spec => []EachInItsFile
<1>1. Logged => EachInItsFile
  <2> SUFFICES ASSUME Logged, last # None PROVE EachInItsFile
    BY DEF EachInItsFile
  <2>1. PICK level \in OfferedLevels, args \in ArgumentLists :
          /\ last.level = level
          /\ last.context = processLogArguments(args).context
          /\ \/ last.sinks = Sinks(LoggerConfig, level, args)
             \/ last.sinks = Sinks(LoggerConfig, level, args) \ {"logstash"}
    BY DEF Logged
  <2> DEFINE tag == TagOf(last.context)
  <2>2. /\ "daily" \in last.sinks <=> config.save
             /\ Allows(DebugLevel, level) /\ customContexts(tag, DailyRules)
        /\ "http" \in last.sinks <=> config.save
             /\ Allows(HttpLevel, level) /\ customContexts(tag, HttpRules)
        /\ "errors" \in last.sinks <=> config.save /\ Allows("warn", level)
        /\ "logstash" \in last.sinks => config.stream
    BY <2>1, WhereEntriesGo
  <2> QED
    BY <2>1, <2>2, WarningsAreErrors, FilesShareNothing DEF EachInItsFile
<1> QED
  BY <1>1, LoggedAlways, PTL
=============================================================================
