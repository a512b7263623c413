----------------------------- MODULE LogRouting -----------------------------
(***************************************************************************)
(* Where an entry goes that is logged through ExtendedLogger: the console, *)
(* the files (one for HTTP, one for errors, one for the rest), Logstash.   *)
(*                                                                         *)
(* A context is represented by the words of the rules that it contains.    *)
(*                                                                         *)
(* LOG_LEVEL is the level of the logger, which winston only looks at for   *)
(* a transport that has none of its own, and every transport here has one. *)
(***************************************************************************)
EXTENDS Naturals, Sequences, SequencesExt

CONSTANTS
  None,
  HttpLevel,    \* LOG_LEVEL_HTTP, or LOG_LEVEL, or "info": of the file for HTTP
  DebugLevel    \* DEBUG_LEVEL, or "info": of most transports

Levels == <<"error", "warn", "info", "http", "verbose", "debug", "silly">>

Rank(level) == CHOOSE i \in DOMAIN Levels : Levels[i] = level

Allows(threshold, level) == Rank(level) <= Rank(threshold)

Words == {"HTTP", "Socket.io", "S3"}

Contexts == SUBSET Words

ASSUME LoggingAssumption ==
  /\ {HttpLevel, DebugLevel} \subseteq Range(Levels)
  /\ \A context \in Contexts : None # context

(* The context of the logger that LoggingModule creates, "App", and the    *)
(* tag of an entry without context, "console".                             *)
OwnContext == {}

EntryLevels == {"error", "warn", "info", "verbose", "debug"}

TagOf(context) == IF context = None THEN {} ELSE context

(* An argument after the message: a text (its words) or an object (None).  *)
Arguments == {None} \cup Contexts

(* processLogArguments: a text at the end is the context, even if it is a  *)
(* stack, and the stack is never looked for in a logger that is not called *)
(* "error".                                                                *)
processLogArguments(args) ==
  IF args # <<>> /\ Last(args) # None
  THEN [context |-> Last(args), data |-> Front(args)]
  ELSE [context |-> IF args = <<>> THEN OwnContext ELSE None, data |-> args]

Include(word) == [kind |-> "include", tag |-> word]
Exclude(word) == [kind |-> "exclude", tag |-> word]

(* A mistake: rules that include are not looked at. *)
MutantCustomContexts(tag, rules) ==
  \A r \in rules : r.kind = "exclude" => r.tag \notin tag

customContexts(tag, rules) ==
  LET matches(kind) == {r \in rules : r.kind = kind /\ r.tag \in tag}
      includes == {r \in rules : r.kind = "include"}
  IN matches("exclude") = {} /\ (includes # {} => matches("include") # {})

DailyRules == {Exclude("HTTP"), Exclude("Socket.io"), Exclude("S3")}
HttpRules == {Include("HTTP")}

FileSinks(level, tag) ==
  {s \in {"daily", "http", "errors"} :
     CASE s = "daily"  -> Allows(DebugLevel, level) /\ customContexts(tag, DailyRules)
       [] s = "http"   -> Allows(HttpLevel, level) /\ customContexts(tag, HttpRules)
       [] s = "errors" -> Allows("warn", level)}

(* createWinstonTransports. *)
Transports(config) ==
  (IF config.console THEN {"console"} ELSE {})
  \cup (IF config.save THEN {"daily", "http", "errors"} ELSE {})
  \cup (IF config.stream THEN {"logstash"} ELSE {})

(* The transports that are handed an entry.  The console accepts every     *)
(* entry that is verbose or more important, or in production what the      *)
(* other transports accept.                                                *)
Sinks(config, level, args) ==
  LET tag == TagOf(processLogArguments(args).context)
      others == {s \in {"console", "logstash"} :
                   Allows(IF s = "console" /\ ~ config.production
                          THEN "verbose" ELSE DebugLevel, level)}
  IN Transports(config) \cap (FileSinks(level, tag) \cup others)
=============================================================================
