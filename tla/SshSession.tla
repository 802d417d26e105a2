----------------------------- MODULE SshSession -----------------------------
(***************************************************************************)
(* The SSH side of a data provider (src/data/ssh.cpp, data_ssh.cpp).       *)
(*                                                                         *)
(* The program keeps ONE libssh session in a file-static variable; every   *)
(* ProcDataStreams provider of the process opens it, reads through it and  *)
(* closes it.  The session is modelled by the host it is connected to, or  *)
(* None (the null pointer).  What a command returns is modelled by where   *)
(* its bytes come from: a host, this machine, or None (the empty string).  *)
(***************************************************************************)
CONSTANTS
  Hosts,        \* the machines that can be named in a configuration
  DefaultHost,  \* the host of setup_ssh_session() without arguments
  Unreliable,   \* the hosts that may refuse, drop or not answer
  Local,        \* this machine, read without SSH
  None          \* no session, no data, no host

ASSUME SshAssumption ==
  /\ DefaultHost \in Hosts
  /\ Unreliable \subseteq Hosts
  /\ Local \notin Hosts
  /\ None \notin Hosts
  /\ Local # None

Sessions == Hosts \cup {None}
Sources  == Hosts \cup {Local, None}

\* Mutant of SetupOutcomes: without the test for an open session.
SetupReconnects(session, host) ==
  {host} \cup (IF host \in Unreliable THEN {None} ELSE {})

\* The session after setup_ssh_session(host, user): an open session is kept
\* whatever host is asked for; otherwise the connection and the key
\* authentication succeed, or the session is freed and nulled again.
SetupOutcomes(session, host) ==
  IF session # None
  THEN {session}
  ELSE {host} \cup (IF host \in Unreliable THEN {None} ELSE {})

\* Where the result of execute_ssh_command comes from: without a session, or
\* when the channel cannot be opened, it is the empty string.
ExecuteOutcomes(session) ==
  {session} \cup (IF session \in Unreliable THEN {None} ELSE {})

\* cleanup_ssh_session: closes the session whichever provider opened it.
CleanupSession(session) == None
=============================================================================
