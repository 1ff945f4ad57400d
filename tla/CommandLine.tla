----------------------------- MODULE CommandLine -----------------------------
(***************************************************************************)
(* One run of the program: main of ppdb.c, the table of commands of        *)
(* poly_cmdline.c, and the handlers of the two commands.  Nothing in it    *)
(* calls rinetd_init, so the handler of rinetd finds no mutex.             *)
(*                                                                         *)
(* An argument is a word with or without two dashes in front, and perhaps  *)
(* with a value.  Of a name it matters whether it is log-level, begins it  *)
(* without being it, or neither; of a value, whether it is a level, a      *)
(* number out of range, empty or something else.                           *)
(***************************************************************************)
EXTENDS Naturals, Sequences, FiniteSets, SequencesExt

CONSTANTS
  MaxArguments,   \* bound: arguments behind the program's name
  MaxCommands     \* POLY_CMD_MAX_COUNT: 32 in the code

VARIABLES
  argv,       \* the arguments
  phase,      \* where main is
  at,         \* i: the argument main has come to
  text,       \* log_level_str, or "unset"
  level,      \* config.log.level
  commands,   \* the names in g_cmdline.commands
  exit,       \* the exit code
  failed      \* memory or mutexes were not to be had

main_vars == <<argv, phase, at, text, level, commands, exit, failed>>

Option(name, value) == [dashes |-> TRUE, name |-> name, value |-> value]
Plain(name) == [dashes |-> FALSE, name |-> name, value |-> "absent"]

Levels == {"none", "debug"}
Values == Levels \cup {"absent", "empty", "range", "other"}
Arguments ==
  {Option("log-level", v) : v \in Values}
    \cup {Option(n, v) : n \in {"log", "verbose"}, v \in {"absent", "debug"}}
    \cup {Option(n, "absent") : n \in {"start", "stop", "status", "config"}}
    \cup {Option("config", "other")}
    \cup {Plain(n) : n \in {"help", "rinetd", "file"}}

Argvs == UNION {[1 .. n -> Arguments] : n \in 0 .. MaxArguments}
Phases == {"options", "level", "infra", "commands", "help", "execute", "exited"}

MainTypeOK ==
  /\ argv \in Seq(Arguments) /\ Len(argv) <= MaxArguments
  /\ phase \in Phases /\ at \in 1 .. MaxArguments + 1
  /\ text \in Values \cup {"unset"} /\ level \in Levels
  /\ commands \in Seq({"rinetd", "help"}) /\ Len(commands) <= MaxCommands
  /\ exit \in 0 .. 1 /\ failed \in BOOLEAN

MainInit ==
  /\ argv \in Argvs
  /\ phase = "options" /\ at = 1 /\ text = "unset" /\ level = "none"
  /\ commands = <<>> /\ exit = 0 /\ failed = FALSE

Exit(code) == phase' = "exited" /\ exit' = code

-----------------------------------------------------------------------------
(* main.                                                                   *)

\* strncmp over the length of the name that was given.
IsLogLevel(name) == name \in {"log-level", "log"}

\* Faulty: an empty value is left for later, as no value at all.
OptionTakesEmpty ==
  /\ phase = "options" /\ at <= Len(argv) /\ argv[at].dashes
  /\ IF argv[at].value # "absent" /\ IsLogLevel(argv[at].name)
       THEN /\ text' = IF argv[at].value = "empty" THEN text ELSE argv[at].value
            /\ at' = at + 1
            /\ UNCHANGED <<phase, exit>>
       ELSE Exit(1) /\ UNCHANGED <<at, text>>
  /\ UNCHANGED <<argv, level, commands, failed>>

\* One turn of the loop over the global options.
ParseOption ==
  /\ phase = "options" /\ at <= Len(argv) /\ argv[at].dashes
  /\ IF argv[at].value \notin {"absent", "empty"} /\ IsLogLevel(argv[at].name)
       THEN text' = argv[at].value /\ at' = at + 1 /\ UNCHANGED <<phase, exit>>
       ELSE Exit(1) /\ UNCHANGED <<at, text>>
  /\ UNCHANGED <<argv, level, commands, failed>>

OptionsEnd ==
  /\ phase = "options"
  /\ at <= Len(argv) => ~argv[at].dashes
  /\ phase' = "level"
  /\ UNCHANGED <<argv, at, text, level, commands, exit, failed>>

\* Only the last of several levels is looked at.
ApplyLevel ==
  /\ phase = "level"
  /\ IF text \in Levels \cup {"unset"}
       THEN /\ level' = IF text = "unset" THEN "none" ELSE text
            /\ phase' = "infra" /\ UNCHANGED exit
       ELSE Exit(1) /\ UNCHANGED level
  /\ UNCHANGED <<argv, at, text, commands, failed>>

\* infra_init_with_config may fail (module Lifecycle).
InitInfra ==
  /\ phase = "infra"
  /\ \/ phase' = "commands" /\ UNCHANGED <<exit, failed>>
     \/ Exit(1) /\ failed' = TRUE
  /\ UNCHANGED <<argv, at, text, level, commands>>

\* poly_cmdline_register of a command that is not NULL.
Registers(name) == Len(commands) < MaxCommands /\ name \notin ToSet(commands)

RegisterCommand(name, next) ==
  /\ IF Registers(name)
       THEN commands' = Append(commands, name) /\ phase' = next /\ UNCHANGED exit
       ELSE Exit(1) /\ UNCHANGED commands
  /\ UNCHANGED <<argv, at, text, level, failed>>

\* poly_cmdline_init clears the table, which is empty, and registers rinetd.
InitCommands == phase = "commands" /\ RegisterCommand("rinetd", "help")
RegisterHelp == phase = "help" /\ RegisterCommand("help", "execute")

-----------------------------------------------------------------------------
(* The handlers.                                                           *)

\* The operations of rinetd while g_context.mutex is NULL, which only
\* rinetd_init sets.  start_service and stop_service look at it first and give
\* up.  show_status says that the service is not initialised, and succeeds.
\* parse_config_file ignores that it cannot lock, and rinetd_load_config
\* gives up.
Operation(word, path) ==
  IF word = Option("status", "absent") THEN "ok"
  ELSE IF \/ word \in {Option("start", "absent"), Option("stop", "absent")}
          \/ word = Option("config", "absent") /\ path
       THEN "unsupported"
       ELSE "invalid"

\* rinetd_cmd_handler, which compares whole words: --config=path is unknown.
RinetdReturns(arguments) ==
  IF Len(arguments) < 2 THEN "invalid" ELSE Operation(arguments[2], Len(arguments) > 2)

\* poly_cmdline_execute: the command is there and its handler succeeds.
Executes(arguments) ==
  /\ arguments # <<>>
  /\ arguments[1].name \in ToSet(commands)
  /\ arguments[1].name = "rinetd" => RinetdReturns(arguments) = "ok"

Execute ==
  /\ phase = "execute"
  /\ Exit(IF Executes(SubSeq(argv, at, Len(argv))) THEN 0 ELSE 1)
  /\ UNCHANGED <<argv, at, text, level, commands, failed>>

MainNext == ParseOption \/ OptionsEnd \/ ApplyLevel \/ InitInfra \/ InitCommands \/ RegisterHelp \/ Execute

MainSpec == MainInit /\ [][MainNext]_main_vars

-----------------------------------------------------------------------------
(* A command line by its words: options, the word of a command, and what    *)
(* follows.  Of the options main takes every beginning of log-level for     *)
(* log-level (74), with any value but the empty one, and looks at the last  *)
(* alone (107-124): --log-level=9 in front of --log-level=1 does no harm.   *)
IsLevel(a) == a \in {Option(n, v) : n \in {"log-level", "log"}, v \in Levels \cup {"range", "other"}}
CommandAt(n) ==
  /\ n \in DOMAIN argv /\ ~argv[n].dashes
  /\ \A i \in 1 .. n - 1 : IsLevel(argv[i])
Wanted(n) == IF n = 1 THEN "none" ELSE argv[n - 1].value

\* What the help text prints behind rinetd (ppdb.c:39-48, peer_rinetd.c:37-42):
\* --config=<value>, --start, --stop and --status.
Offered == {Option("config", "other")} \cup {Option(n, "absent") : n \in {"start", "stop", "status"}}
Asks(n, operation) ==
  argv[n] = Plain("rinetd") /\ n < Len(argv) /\ argv[n + 1] = operation

\* The two commands that do what they say.
Works ==
  \E n \in DOMAIN argv :
    /\ CommandAt(n) /\ Wanted(n) \in Levels
    /\ argv[n] = Plain("help") \/ Asks(n, Option("status", "absent"))

(* The program exits with 0 exactly when it was asked for help or rinetd     *)
(* --status behind good options and nothing failed, and has then run with    *)
(* the level of the last option.  Every other operation that the help text   *)
(* offers for rinetd ends with 1, whatever is written around it: --start and *)
(* --stop find no mutex, since nothing calls rinetd_init, and --config=<value> *)
(* is no word that rinetd_cmd_handler knows.                                 *)
ExitTellsWhatHappened ==
  phase = "exited" =>
    /\ exit = 0 <=> Works /\ ~failed
    /\ exit = 0 => \E n \in DOMAIN argv : CommandAt(n) /\ level = Wanted(n)
    /\ \A n \in DOMAIN argv, operation \in Offered \ {Option("status", "absent")} :
         CommandAt(n) /\ Asks(n, operation) => exit = 1
=============================================================================
