-------------------------- MODULE MCConfiguration --------------------------
(* Small instances for TLC of the way to a configuration: the command line, *)
(* and where that names a file with --config, the file that is loaded and   *)
(* edited.                                                                  *)
EXTENDS CommandLine, LuaConfig

MaxArgs == 4

\* All command lines up to MaxArgs, and the longer ones that an SSH command
\* with a host and a user needs to be followed by something.
MCCommandLines ==
  UNION {[1..n -> Tokens] : n \in 0..MaxArgs}
    \cup {<<"--ssh">> \o rest : rest \in [1..(MaxArgs + 1) -> Tokens]}

\* No file at all, one with all tables empty, and one with every setting.
NoTables == [present |-> {}, value |-> <<>>]
MCBaseFiles ==
  {NoTables,
   [present |-> Sections, value |-> <<>>],
   [present |-> Sections,
    value |-> [k \in {j \in Keys : j[1] # "batteries"} |-> "file"]]}

\* The command line of a file, and when the program has it.
WithFile    == <<"--config", "word">>
FileIsNamed == args = WithFile /\ pc = "ready"

ConfigInit == CliInit /\ LuaInit /\ (args = WithFile \/ file = NoTables)

ConfigNext ==
  \/ CliNext /\ UNCHANGED luaVars
  \/ FileIsNamed /\ LuaNext /\ UNCHANGED cliVars

ConfigSpec == ConfigInit /\ [][ConfigNext]_<<cliVars, luaVars>>
=============================================================================
