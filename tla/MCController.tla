---------------------------- MODULE MCController ----------------------------
(* Small instances of Controller for TLC.                                   *)
EXTENDS Controller

CONSTANTS h1, h2

MCHosts == {h1, h2}
MCAllModes == {"json", "qt", "lws"}

LocalTask   == [provider |-> "local", host |-> None, settings |-> "full"]
SshTask(h)  == [provider |-> "ssh", host |-> h, settings |-> "lean"]
UnsetTask   == [provider |-> "unset", host |-> None, settings |-> "full"]

Lua(run, mode, tasks) ==
  [run_mode |-> run, output_format |-> mode, tasks |-> tasks]

\* A local and a remote task; two remote ones; one that ends the loop; one
\* whose modes are misspelt.
TwoSources  == Lua("persistent", "json", <<LocalTask, SshTask(h1)>>)
TwoRemotes  == Lua("persistent", "qt", <<SshTask(h2), SshTask(h1)>>)
OneShot     == Lua("run_once", "json", <<SshTask(None)>>)
Misspelt    == Lua("daemon", "xml", <<LocalTask>>)
Sockets     == Lua("persistent", "lws", <<LocalTask>>)

MCContents  == {TwoSources, TwoRemotes, OneShot}
MCContentsAll == MCContents \cup {Misspelt, Sockets}

Cli(run, tasks) == [run_mode |-> run, output_mode |-> "json", tasks |-> tasks]
MCCli == {Cli("run_once", <<LocalTask, SshTask(h2)>>),
          Cli("persistent", <<UnsetTask>>)}
MCNoCli == {Cli("run_once", << >>)}
=============================================================================
