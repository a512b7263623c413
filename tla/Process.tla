------------------------------ MODULE Process ------------------------------
(***************************************************************************)
(* The process: what bootstrap (src/main.ts) starts in which order, with   *)
(* the configuration, the messaging provider, and the logger and its       *)
(* transport to Logstash.                                                  *)
(***************************************************************************)
EXTENDS Configuration, LogRouting, LogstashTransport, MessagingProvider

CONSTANTS
  OfferedEnvironments,   \* bound: those the process is started in
  OfferedLevels,         \* bound: the levels entries are logged with
  ArgumentLists          \* bound: the arguments entries are logged with

ASSUME ProcessAssumption ==
  /\ OfferedEnvironments \subseteq Environments
  /\ OfferedLevels \subseteq EntryLevels
  /\ ArgumentLists \subseteq Seq(Arguments)

VARIABLES
  env,       \* the environment of the process
  stage,     \* how far bootstrap has come
  started,   \* the microservices whose start was reported
  serving,   \* the servers that accept requests or messages
  last       \* the entry that was logged last and where it went, or None

vars == <<env, stage, started, serving, last, transportVars, providerVars>>

Microservices == {"grpc", "kafka"}

Servers == Microservices \cup {"http"}

config == configuration(env)

LoggerConfig == [save |-> config.save, stream |-> config.stream,
                 console |-> env.customConsole, production |-> config.production]

(* Every variable has its type. *)
ProcessTypeOK ==
  /\ env \in OfferedEnvironments
  /\ stage \in {"creating", "created", "starting", "listening", "exited"}
  /\ started \subseteq Microservices
  /\ serving \subseteq Servers
  /\ last # None =>
       /\ last.level \in OfferedLevels
       /\ last.sinks \subseteq {"console", "daily", "http", "errors", "logstash"}
  /\ TransportTypeOK
  /\ ProviderTypeOK

Init ==
  /\ env \in OfferedEnvironments
  /\ stage = "creating"
  /\ started = {} /\ serving = {}
  /\ last = None
  /\ TransportInit
  /\ ProviderInit

-----------------------------------------------------------------------------
(* bootstrap.                                                              *)

(* NestFactory.create: the database is reached, the logger and with it the *)
(* transport are constructed.                                              *)
Create ==
  /\ stage = "creating"
  /\ validate(env) /\ ProviderIsCreated
  /\ stage' = "created"
  /\ IF config.stream THEN \E throws \in BOOLEAN : Construct(throws)
                      ELSE UNCHANGED transportVars
  /\ UNCHANGED <<env, started, serving, last, providerVars>>

(* The certificates are read. *)
Certify ==
  /\ stage = "created"
  /\ config.useSSL => env.certificates
  /\ stage' = "starting"
  /\ UNCHANGED <<env, started, serving, last, transportVars, providerVars>>

(* startAllMicroservices starts both at once and waits for both. *)
StartMicroservice(server, serves) ==
  /\ stage = "starting"
  /\ server \notin started
  /\ started' = started \cup {server}
  /\ serving' = IF serves THEN serving \cup {server} ELSE serving
  /\ UNCHANGED <<env, stage, last, transportVars, providerVars>>

(* The gRPC server is bound. *)
StartGrpc == StartMicroservice("grpc", TRUE)

(* The consumer has connected and subscribed, and tries to join its group. *)
(* When that fails, it is not tried again (retries is 0), the consumer     *)
(* takes that for a crash after which restartOnFailure does not let it     *)
(* start again, and the start is reported like any other.                  *)
StartKafka == \E joins \in BOOLEAN : StartMicroservice("kafka", joins)

(* The consumer stops for good: an error that its filter has not dealt     *)
(* with, and restartOnFailure again.  The process goes on.                 *)
ConsumerStops ==
  /\ "kafka" \in serving
  /\ serving' = serving \ {"kafka"}
  /\ UNCHANGED <<env, stage, started, last, transportVars, providerVars>>

Listen ==
  /\ stage = "starting"
  /\ started = Microservices
  /\ stage' = "listening"
  /\ serving' = serving \cup {"http"}
  /\ UNCHANGED <<env, started, last, transportVars, providerVars>>

(* A step of bootstrap throws, or something it needs is not there; nothing *)
(* catches that, and the process exits.  The database is tried once, since *)
(* the configuration has no key "production".                              *)
Exit ==
  /\ stage \notin {"listening", "exited"}
  /\ stage' = "exited"
  /\ started' = {} /\ serving' = {}
  /\ UNCHANGED <<env, last, transportVars, providerVars>>

-----------------------------------------------------------------------------

Alive == stage \in {"created", "starting", "listening"}

(* Something is logged through ExtendedLogger, which writes to Logstash    *)
(* only if the transport takes itself to be connected.                     *)
Log(level, args) ==
  /\ Alive
  /\ last' = [level |-> level,
              context |-> processLogArguments(args).context,
              sinks |-> Sinks(LoggerConfig, level, args)
                        \ (IF isConnected THEN {} ELSE {"logstash"})]
  /\ UNCHANGED <<env, stage, started, serving, transportVars, providerVars>>

Transport ==
  /\ Alive
  /\ TransportNext
  /\ UNCHANGED <<env, stage, started, serving, last, providerVars>>

Provider ==
  /\ Alive
  /\ ProviderNext
  /\ UNCHANGED <<env, stage, started, serving, last, transportVars>>

Next ==
  \/ Create
  \/ Certify
  \/ StartGrpc
  \/ StartKafka
  \/ ConsumerStops
  \/ Listen
  \/ Exit
  \/ \E level \in OfferedLevels, args \in ArgumentLists : Log(level, args)
  \/ Transport
  \/ Provider

Spec == Init /\ [][Next]_vars

-----------------------------------------------------------------------------

(* An entry is found where it is looked for: in the file for HTTP or in    *)
(* the daily file, and not in both; a warning or an error among the        *)
(* errors, whatever it is about; and nothing in a file unless files were   *)
(* asked for.  An entry is in neither of the two files if it is about      *)
(* sockets or S3, or less important than the level of the file.            *)
EachInItsFile ==
  last # None =>
    /\ ~ {"daily", "http"} \subseteq last.sinks
    /\ last.sinks \cap {"daily", "http", "errors"} # {} => config.save
    /\ config.save =>
         /\ last.level \in {"error", "warn"} => "errors" \in last.sinks
         /\ TagOf(last.context) = {} /\ Allows(DebugLevel, last.level) =>
              "daily" \in last.sinks
         /\ TagOf(last.context) = {"HTTP"} /\ Allows(HttpLevel, last.level) =>
              "http" \in last.sinks
    /\ "logstash" \in last.sinks => config.stream
=============================================================================
