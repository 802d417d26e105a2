---------------------------- MODULE MCCpuPolling ----------------------------
(* Small instances of CpuPolling for TLC: the sum and two cores.            *)
EXTENDS CpuPolling

MCKeys == 0..2
MCChannels == {"user", "idle", "irq"}

\* cores is written anew by calculate and read by no action: after the commit,
\* where it only stays as it is, states that differ in nothing else are one.
MCView ==
  <<counter, moved, steady, pc, snapshotVars, events, historyVars,
    IF pc = "commit" THEN cores ELSE <<>>>>
=============================================================================
