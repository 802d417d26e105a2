-------------------------- MODULE MCProcessPolling --------------------------
(* Small instances of ProcessPolling for TLC.                               *)
EXTENDS ProcessPolling

MCCpu  == {"cpu"}
MCPids == {1, 2}

\* The list of one process; what is asked for differs.
MCConfig(provider, only, realCpu, avgCpu, avgMem) ==
  [provider |-> provider, count |-> 1, only_user |-> only,
   realtime_cpu |-> realCpu, avg_cpu |-> avgCpu, realtime_mem |-> FALSE,
   avg_mem |-> avgMem]

MCConfigs ==
  {MCConfig("local", FALSE, TRUE, TRUE, FALSE),
   MCConfig("local", TRUE, FALSE, TRUE, TRUE),
   MCConfig("ssh", TRUE, TRUE, FALSE, TRUE)}

\* The first process began with the machine, the second later; the second is
\* larger.  In the other profile the first is not one's own and the second is
\* on the ignore list.
MCProfiles ==
  {[rss |-> <<1, 2>>, start |-> <<1, 3>>, mine |-> {1, 2}, ignored |-> {},
    here |-> {1}],
   [rss |-> <<1, 2>>, start |-> <<1, 3>>, mine |-> {2}, ignored |-> {2},
    here |-> {}]}

MCUptimes == {0, 4}
=============================================================================
