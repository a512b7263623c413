--------------------------- MODULE Configuration ---------------------------
(***************************************************************************)
(* From the environment of the process to its configuration: the checks of *)
(* validate, the factory of configuration.ts, and the services that read   *)
(* what it returns.                                                        *)
(*                                                                         *)
(* A variable was set in the environment of the process, set in an env     *)
(* file, or not set.                                                       *)
(***************************************************************************)

FlagTexts == {"true", "false", "unset"}

Flags == [text : FlagTexts, source : {"process", "file"}]

Environments ==
  [valid : BOOLEAN,                \* required variables are set and well-formed
   NODE_ENV : [production : BOOLEAN, source : {"process", "file"}],
   SAVE_LOGS : Flags, STREAM_LOGS : Flags,
   USE_SSL : Flags,
   certificates : BOOLEAN,         \* the files can be read
   customConsole : BOOLEAN]        \* LOG_CONSOLE_MODE

(* Env files are not read in production, which only the process can say:   *)
(* a file that says it is being read.                                      *)
FilesAreRead(env) == ~ (env.NODE_ENV.production /\ env.NODE_ENV.source = "process")

(* What process.env holds of a flag. *)
Set(env, flag) ==
  IF flag.source = "file" /\ ~ FilesAreRead(env) THEN "unset" ELSE flag.text

(* A flag that EnvironmentVariables declares as a boolean is converted     *)
(* before it is written to process.env: from a file, "false" is a text     *)
(* that is not empty, and becomes true.                                    *)
DeclaredFlag(env, flag) ==
  LET text == Set(env, flag)
  IN text = "true" \/ (text = "false" /\ flag.source = "file")

UndeclaredFlag(env, flag) == Set(env, flag) = "true"

(* SAVE_LOGS is optional in production only, wherever that is said; the    *)
(* rest of what validate requires is in env.valid.                         *)
validate(env) ==
  env.valid /\ (env.NODE_ENV.production \/ Set(env, env.SAVE_LOGS) # "unset")

configuration(env) ==
  [production |-> env.NODE_ENV.production,
   save       |-> DeclaredFlag(env, env.SAVE_LOGS),
   stream     |-> DeclaredFlag(env, env.STREAM_LOGS),
   useSSL     |-> UndeclaredFlag(env, env.USE_SSL)]

(* The configuration has no key messaging.provider: the default is taken.  *)
getMessagingConfig == "kafka"

(* The factory holds the provider of Kafka only, whose module forRoot has  *)
(* imported.                                                               *)
Registered == {"kafka"}

ProviderIsCreated == getMessagingConfig \in Registered
=============================================================================
