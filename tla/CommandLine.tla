----------------------------- MODULE CommandLine -----------------------------
(***************************************************************************)
(* From the command line to the tasks of the program: parse_cli            *)
(* (src/core/cli_parser.cpp), one action per turn of its loop, and the two *)
(* functions that make a configuration of its result,                      *)
(* build_config_from_options (src/core/configuration_builder.cpp), which   *)
(* the programs call, and parse_arguments (src/core/cli_parser.cpp), which *)
(* nothing calls.                                                          *)
(*                                                                         *)
(* A string that is kept is its place in args, and 0 is the empty string   *)
(* it is initialised with.                                                 *)
(***************************************************************************)
EXTENDS Naturals, Sequences, SequencesExt, FiniteSetsExt

CONSTANT CommandLines   \* what the program may be called with, without argv[0]

Flags  == {"--config", "--persistent", "--local", "--ssh", "--settings",
           "--interfaces", "-x"}
\* A word stands for a file, a host, a user or a list, "" for an empty one.
Tokens == Flags \cup {"word", ""}

ASSUME CommandLinesAssumption == CommandLines \subseteq Seq(Tokens)

VARIABLES
  args,     \* fixed
  i,        \* the argument the loop looks at next
  options,  \* ProgramOptions
  pc,
  config    \* of the ParsedConfig: run_mode, config_path, tasks

cliVars == <<args, i, options, pc, config>>

NoOptions == [global |-> 0, persistent |-> FALSE, commands |-> <<>>]
NoConfig  == [persistent |-> FALSE, config_path |-> 0, tasks |-> <<>>]

CliInit ==
  /\ args \in CommandLines
  /\ i = 1
  /\ options = NoOptions
  /\ pc = "parse_cli"
  /\ config = NoConfig

-----------------------------------------------------------------------------
(* parse_cli                                                                *)

Command(type, path, host, user) ==
  [type |-> type, path |-> path, host |-> host, user |-> user,
   interfaces |-> 0]

HasValue == i < Len(args)

\* The turn of the loop: what is added to the commands, what becomes of the
\* last of them, and how many arguments are used.
Turn(newCommands, used) ==
  /\ options' = [options EXCEPT !.commands = newCommands]
  /\ i' = i + used
  /\ UNCHANGED pc

AtFlag(flag) ==
  /\ pc = "parse_cli"
  /\ i <= Len(args)
  /\ args[i] = flag
  /\ UNCHANGED <<args, config>>

\* A flag that lacks its value is reported and passed over.
FlagWithoutValue ==
  /\ \E flag \in {"--config", "--local", "--ssh", "--settings"} : AtFlag(flag)
  /\ ~HasValue
  /\ Turn(options.commands, 1)

\* Exclusive mode: the rest is not read.
ConfigFlag ==
  /\ AtFlag("--config")
  /\ HasValue
  /\ options' = [options EXCEPT !.global = i + 1]
  /\ i' = i + 2
  /\ pc' = "build"

PersistentFlag ==
  /\ AtFlag("--persistent")
  /\ options' = [options EXCEPT !.persistent = TRUE]
  /\ i' = i + 1
  /\ UNCHANGED pc

LocalFlag ==
  /\ AtFlag("--local")
  /\ HasValue
  /\ Turn(Append(options.commands, Command("LOCAL", i + 1, 0, 0)), 2)

SettingsFlag ==
  /\ AtFlag("--settings")
  /\ HasValue
  /\ Turn(Append(options.commands, Command("SETTINGS", i + 1, 0, 0)), 2)

\* Host and user are taken if there are two more and neither is a flag.
HostAndUserFollow ==
  /\ i + 3 <= Len(args)
  /\ {args[i + 2], args[i + 3]} \cap Flags = {}

\* Mutant of SshFlag: host and user are looked at and not used up.
SshFlagPeeks ==
  /\ AtFlag("--ssh")
  /\ HasValue
  /\ IF HostAndUserFollow
     THEN Turn(Append(options.commands, Command("SSH", i + 1, i + 2, i + 3)), 2)
     ELSE Turn(Append(options.commands, Command("SSH", i + 1, 0, 0)), 2)

SshFlag ==
  /\ AtFlag("--ssh")
  /\ HasValue
  /\ IF HostAndUserFollow
     THEN Turn(Append(options.commands, Command("SSH", i + 1, i + 2, i + 3)), 4)
     ELSE Turn(Append(options.commands, Command("SSH", i + 1, 0, 0)), 2)

\* Mutant of InterfacesFlag: without a command what follows the value is
\* skipped as well.
InterfacesFlagSkips ==
  /\ AtFlag("--interfaces")
  /\ IF options.commands = <<>>
     THEN Turn(<<>>, IF i + 1 < Len(args) THEN 3 ELSE 1)
     ELSE IF HasValue
     THEN Turn([options.commands EXCEPT ![Len(options.commands)].interfaces =
                  i + 1], 2)
     ELSE Turn(options.commands, 1)

\* The list goes to the last command; without one it is used up all the same.
InterfacesFlag ==
  /\ AtFlag("--interfaces")
  /\ IF options.commands = <<>>
     THEN Turn(<<>>, IF HasValue THEN 2 ELSE 1)
     ELSE IF HasValue
     THEN Turn([options.commands EXCEPT ![Len(options.commands)].interfaces =
                  i + 1], 2)
     ELSE Turn(options.commands, 1)

Positional ==
  /\ AtFlag("word") \/ AtFlag("")
  /\ Turn(Append(options.commands, Command("LOCAL", i, 0, 0)), 1)

UnknownFlag ==
  /\ AtFlag("-x")
  /\ Turn(options.commands, 1)

EndOfArguments ==
  /\ pc = "parse_cli"
  /\ i > Len(args)
  /\ pc' = "build"
  /\ UNCHANGED <<args, i, options, config>>

-----------------------------------------------------------------------------
(* The two builders.                                                        *)

Empty(p) == p = 0 \/ args[p] = ""

\* What load_lua_settings may return: the machine itself, another one with the
\* host and user of the file, or, when the file has no settings, a context
\* whose provider is not initialised and may be either.
Loaded == {"local", "ssh", "none, local", "none, ssh"}
NoFile == {"none, local", "none, ssh"}

\* What a settings file says, a place behind the last.
OfFile == Len(args) + 1

Context(provider, source, host, user, file, interfaces) ==
  [provider |-> provider, source |-> source, host |-> host, user |-> user,
   device_file |-> file, interfaces |-> interfaces]

SettingsContext(loaded) ==
  CASE loaded = "local"       -> Context("local", "name", 0, 0, 0, 0)
    [] loaded = "ssh"         -> Context("ssh", "name", OfFile, OfFile, 0, 0)
    [] loaded = "none, local" -> Context("local", "", 0, 0, 0, 0)
    [] loaded = "none, ssh"   -> Context("ssh", "", 0, 0, 0, 0)

CreateContextFromCommand(cmd, loaded) ==
  CASE cmd.type = "LOCAL" -> Context("local", "", 0, 0, cmd.path, 0)
    [] cmd.type = "SSH" ->
         IF ~Empty(cmd.host) /\ ~Empty(cmd.user)
         THEN Context("ssh", "user@host", cmd.host, cmd.user, cmd.path,
                      cmd.interfaces)
         ELSE Context("ssh", "Default SSH", 0, 0, cmd.path, cmd.interfaces)
    [] cmd.type = "SETTINGS" -> SettingsContext(loaded)

\* STEP 1 of parse_arguments: the file, if there is one.
BaseContext(cmd, exists, loaded, stray) ==
  IF Empty(cmd.path) THEN SettingsContext(stray)
  ELSE IF exists THEN SettingsContext(loaded)
  ELSE [SettingsContext(stray) EXCEPT !.device_file = cmd.path]

\* STEP 2: what the kind of command asks for.
KindContext(cmd, c) ==
  CASE cmd.type = "LOCAL" ->
         [c EXCEPT !.provider = "local", !.source = "Local",
                   !.device_file = IF @ = 0 THEN cmd.path ELSE @]
    [] cmd.type = "SSH" ->
         [c EXCEPT !.provider = "ssh", !.source = "Default SSH"]
    [] OTHER -> c

\* Mutant of MergeContext: one of host and user is enough.
MergeOne(cmd, c) ==
  [c EXCEPT !.interfaces = cmd.interfaces,
            !.host = IF Empty(cmd.host) THEN @ ELSE cmd.host,
            !.user = IF Empty(cmd.user) THEN @ ELSE cmd.user]

\* STEP 3: what the command line says.  The lists of settings files are empty,
\* so that the union with one is the list of the command line.
MergeContext(cmd, c) ==
  LET merged == [c EXCEPT !.interfaces = cmd.interfaces]
  IN  IF cmd.type = "SSH" /\ ~Empty(cmd.host) /\ ~Empty(cmd.user)
      THEN [merged EXCEPT !.host = cmd.host, !.user = cmd.user,
                          !.source = "user@host"]
      ELSE merged

\* With --config the tasks are those of the file, see Controller.
FromFile(path) ==
  [persistent |-> FALSE, config_path |-> path, tasks |-> <<>>]

\* The builders choose one outcome for all files of a command line: nothing is
\* kept from one command to the next, so that mixtures show nothing new.
Tasks(contexts) ==
  [NoConfig EXCEPT !.persistent = options.persistent, !.tasks = contexts]

\* The path of the file is not kept.
BuildConfigFromOptions ==
  /\ pc = "build"
  /\ pc' = "ready"
  /\ IF options.global # 0 THEN config' = FromFile(0)
     ELSE \E loaded \in Loaded :
            config' = Tasks([n \in DOMAIN options.commands |->
              CreateContextFromCommand(options.commands[n], loaded)])
  /\ UNCHANGED <<args, i, options>>

ParseArguments ==
  /\ pc = "build"
  /\ pc' = "parsed"
  /\ IF options.global # 0 THEN config' = FromFile(options.global)
     ELSE \E exists \in BOOLEAN, loaded \in Loaded, stray \in NoFile :
            config' = Tasks([n \in DOMAIN options.commands |->
              LET cmd == options.commands[n]
              IN  MergeContext(cmd, KindContext(cmd,
                    BaseContext(cmd, exists, loaded, stray)))])
  /\ UNCHANGED <<args, i, options>>

CliNext ==
  \/ FlagWithoutValue \/ ConfigFlag \/ PersistentFlag \/ LocalFlag
  \/ SettingsFlag \/ SshFlag \/ InterfacesFlag \/ Positional \/ UnknownFlag
  \/ EndOfArguments \/ BuildConfigFromOptions \/ ParseArguments

CliSpec == CliInit /\ [][CliNext]_cliVars

-----------------------------------------------------------------------------
(* Properties.                                                              *)

Places(cmd)  == {cmd.path, cmd.host, cmd.user, cmd.interfaces} \ {0}
AllPlaces    == UNION {Places(cmd) : cmd \in ToSet(options.commands)}
Finished     == pc \in {"ready", "parsed"}

\* No argument is used twice, and commands come in the order of the command
\* line: what belongs to one, its list of interfaces too, stands before all
\* that belongs to the next (parse_cli).
TokensOnce ==
  \A n \in DOMAIN options.commands :
    LET cmd == options.commands[n]
    IN  /\ cmd.host # 0 => cmd.path < cmd.host /\ cmd.host < cmd.user
        /\ cmd.interfaces # 0 => cmd.interfaces = Max(Places(cmd))
        /\ n > 1 => Max(Places(options.commands[n - 1])) < Min(Places(cmd))

\* A word of the command line is not lost: unless --config takes over, it
\* belongs to a command or is the value of --interfaces, which a later list or
\* the lack of a command can make void (parse_cli).
NoWordLost ==
  Finished /\ options.global = 0 =>
    \A p \in DOMAIN args :
      args[p] = "word" =>
        p \in AllPlaces \/ (p > 1 /\ args[p - 1] = "--interfaces")

HasBoth(cmd) == \A p \in {cmd.host, cmd.user} : ~Empty(p)

\* Every command becomes one task, at its place, which reads the machine the
\* command names: the host and the user are those of an SSH command that has
\* both, and otherwise both those of the settings file or both missing; only an
\* SSH command or a settings file makes a task read another machine.  The list
\* of an SSH command reaches its task (build_config_from_options,
\* parse_arguments).
EveryCommandRuns ==
  Finished /\ options.global = 0 =>
    /\ Len(config.tasks) = Len(options.commands)
    /\ \A n \in DOMAIN config.tasks :
         LET cmd == options.commands[n]
             task == config.tasks[n]
         IN  /\ cmd.type = "LOCAL" => task.provider = "local"
             /\ cmd.type = "SSH"   =>
                  task.provider = "ssh" /\ task.interfaces = cmd.interfaces
             /\ IF cmd.type = "SSH" /\ HasBoth(cmd)
                THEN task.host = cmd.host /\ task.user = cmd.user
                ELSE task.host = task.user /\ task.host \in {0, OfFile}
=============================================================================
