----------------------------- MODULE MCProcess -----------------------------
(***************************************************************************)
(* Process for TLC: environments that differ from a common one in a few    *)
(* variables, and arguments for the logger.                                *)
(***************************************************************************)
EXTENDS Process

FromFile(text) == [text |-> text, source |-> "file"]
FromProcess(text) == [text |-> text, source |-> "process"]

BaseEnvironment ==
  [valid |-> TRUE, NODE_ENV |-> [production |-> FALSE, source |-> "file"],
   SAVE_LOGS |-> FromFile("true"), STREAM_LOGS |-> FromFile("true"),
   USE_SSL |-> FromFile("false"), certificates |-> FALSE,
   customConsole |-> FALSE]

SomeEnvironments ==
  {BaseEnvironment,
   [BaseEnvironment EXCEPT !.STREAM_LOGS = FromFile("unset"),
                           !.SAVE_LOGS = FromFile("false")],
   [BaseEnvironment EXCEPT !.NODE_ENV = [production |-> TRUE, source |-> "process"],
                           !.customConsole = TRUE,
                           !.USE_SSL = FromProcess("true"), !.certificates = TRUE,
                           !.STREAM_LOGS = FromProcess("false"),
                           !.SAVE_LOGS = FromFile("true")],
   [BaseEnvironment EXCEPT !.SAVE_LOGS = FromProcess("false"),
                           !.USE_SSL = FromProcess("true")],
   [BaseEnvironment EXCEPT !.SAVE_LOGS = FromFile("unset")],
   [BaseEnvironment EXCEPT !.NODE_ENV = [production |-> TRUE, source |-> "file"],
                           !.customConsole = TRUE,
                           !.SAVE_LOGS = FromFile("unset")],
   [BaseEnvironment EXCEPT !.valid = FALSE]}

(* A message alone, with an object and a stack, and with two contexts.     *)
SomeArguments == {<<>>, <<None, {"HTTP"}>>, <<{"HTTP", "S3"}>>}
=============================================================================
