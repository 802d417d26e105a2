----------------------------- MODULE CpuPolling -----------------------------
(***************************************************************************)
(* CpuPollingTask (src/systeminfo/corestat.cpp): the load of each core     *)
(* from two readings of /proc/stat, over the life of one task.  The file   *)
(* has a line for the sum of all cores, then one for each core that is     *)
(* switched on, in their order.  The task keeps the lines without their    *)
(* labels and compares them by position.                                   *)
(*                                                                         *)
(* Key 0 is the line of the sum, key n the line of core n - 1.  Of the     *)
(* eight numbers of a line "user" stands for user, nice and system (the    *)
(* load), "idle" for idle and iowait, "irq" for irq, softirq and steal,    *)
(* which count only for the total.                                         *)
(***************************************************************************)
EXTENDS Counters, Sequences, FiniteSets

CONSTANT
  MaxEvents  \* bound: what happens to the counters between two readings

ASSUME CpuAssumption ==
  /\ Keys \subseteq Nat /\ IsFiniteSet(Keys) /\ 0 \in Keys
  /\ Channels = {"user", "idle", "irq"}

VARIABLES
  pc,
  prev_snapshots,     \* lines without their labels
  current_snapshots,
  cores,              \* metrics.cores: user and idle as parts of the total
  events,             \* for the bound
  prev,               \* history: the counters and labels that the readings
  current,            \* were made of, and whether they were whole
  span,               \* history: as in NetPolling
  kept

snapshotVars == <<prev_snapshots, current_snapshots>>
historyVars  == <<prev, current, span, kept>>
cpuPollVars  == <<counter, moved, steady, pc, prev_snapshots,
                  current_snapshots, cores, events, prev, current, span, kept>>

Nothing == [table |-> Empty, labels |-> <<>>, whole |-> FALSE]

CpuInit ==
  /\ CountersInit
  /\ 0 \in DOMAIN counter
  /\ pc = "take_initial_snapshot"
  /\ prev_snapshots = <<>>
  /\ current_snapshots = <<>>
  /\ cores = <<>>
  /\ events = 0
  /\ prev = Nothing
  /\ current = Nothing
  /\ span = [k \in Keys |-> Zero]
  /\ kept = {}

-----------------------------------------------------------------------------
(* Reading.                                                                 *)

\* The labels of the lines: the sum first, then the cores in their order.
Labels ==
  {labels \in [1..Cardinality(DOMAIN counter) -> DOMAIN counter] :
     /\ \A k \in DOMAIN counter : \E i \in DOMAIN labels : labels[i] = k
     /\ \A i, j \in DOMAIN labels : i < j => labels[i] < labels[j]}

Lines(labels) == [i \in DOMAIN labels |-> counter[labels[i]]]

\* An answer over SSH that breaks off: the last line may have lost digits or
\* numbers.
CutOff(lines, n, cut) == [i \in 1..n |-> IF i = n THEN cut ELSE lines[i]]

Shortened(line) ==
  {cut \in Counts : \A ch \in Channels : cut[ch] <= line[ch]}

BrokenOff(lines) ==
  UNION {{CutOff(lines, n, cut) : cut \in Shortened(lines[n])} :
           n \in DOMAIN lines}

\* read_data, and what it was made of.
ReadData(snapshots, history) ==
  \E labels \in Labels :
    \/ /\ snapshots = Lines(labels)
       /\ history = [table |-> counter, labels |-> labels, whole |-> TRUE]
    \/ /\ snapshots \in {<<>>} \cup BrokenOff(Lines(labels))
       /\ history = Nothing

TakeInitialSnapshot ==
  /\ pc = "take_initial_snapshot"
  /\ ReadData(prev_snapshots', prev')
  /\ BeginHistory
  /\ events' = 0
  /\ pc' = "take_new_snapshot"
  /\ UNCHANGED <<current_snapshots, cores, current, span, kept>>

TakeNewSnapshot ==
  /\ pc = "take_new_snapshot"
  /\ ReadData(current_snapshots', current')
  /\ span' = moved
  /\ kept' = steady
  /\ BeginHistory
  /\ events' = 0
  /\ pc' = "calculate"
  /\ UNCHANGED <<prev_snapshots, cores, prev>>

-----------------------------------------------------------------------------
(* Calculating.                                                             *)

\* get_total_time
Total(snap) == snap["user"] + snap["idle"] + snap["irq"]

\* Mutant of Regressed: only the totals are compared.
RegressedInTotal(before, now) == Total(now) < Total(before)

\* Mutant of Regressed: off by one.
NotAdvanced(before, now) ==
  \/ Total(now) < Total(before)
  \/ now["user"] <= before["user"]
  \/ now["idle"] < before["idle"]

\* The numbers that count only for the total are not compared.
Regressed(before, now) ==
  \/ Total(now) < Total(before)
  \/ now["user"] < before["user"]
  \/ now["idle"] < before["idle"]

IdleRow == [user |-> 0, idle |-> 1, total |-> 1]

Row(before, now) ==
  IF Regressed(before, now) \/ Total(now) = Total(before)
  THEN IdleRow
  ELSE [user  |-> now["user"] - before["user"],
        idle  |-> now["idle"] - before["idle"],
        total |-> Total(now) - Total(before)]

\* Line by line, as far as both readings go.
Calculate ==
  /\ pc = "calculate"
  /\ cores' = [i \in DOMAIN prev_snapshots \cap DOMAIN current_snapshots |->
                 Row(prev_snapshots[i], current_snapshots[i])]
  /\ pc' = "commit"
  /\ UNCHANGED <<countersVars, snapshotVars, events, historyVars>>

\* What happened between the readings is of no more use.
EndHistory ==
  /\ current' = Nothing
  /\ span' = [k \in Keys |-> Zero]
  /\ kept' = {}

\* Mutant of Commit: a reading of another length does not replace the older one.
CommitSameLength ==
  /\ pc = "commit"
  /\ IF Len(current_snapshots) = Len(prev_snapshots)
     THEN prev_snapshots' = current_snapshots
     ELSE UNCHANGED prev_snapshots
  /\ prev' = current
  /\ EndHistory
  /\ pc' = "take_new_snapshot"
  /\ UNCHANGED <<countersVars, current_snapshots, cores, events>>

Commit ==
  /\ pc = "commit"
  /\ prev_snapshots' = current_snapshots
  /\ prev' = current
  /\ EndHistory
  /\ pc' = "take_new_snapshot"
  /\ UNCHANGED <<countersVars, current_snapshots, cores, events>>

\* As in NetPolling, the kernel counts while the task waits for a reading.  The
\* line of the sum never goes away.
Kernel ==
  /\ pc \in {"take_initial_snapshot", "take_new_snapshot"}
  /\ events < MaxEvents
  /\ events' = events + 1
  /\ CountersNext
  /\ 0 \in DOMAIN counter'
  /\ UNCHANGED <<pc, snapshotVars, cores, historyVars>>

CpuNext ==
  TakeInitialSnapshot \/ TakeNewSnapshot \/ Calculate \/ Commit \/ Kernel

CpuSpec == CpuInit /\ [][CpuNext]_cpuPollVars

-----------------------------------------------------------------------------
(* Properties.                                                              *)

Rows == [user : Nat, idle : Nat, total : Nat \ {0}]
Histories == [table : Tables, labels : Seq(Keys), whole : BOOLEAN]

\* Every variable keeps its shape: no part of a load is negative and none is
\* divided by zero, whatever is read (calculate).
CpuTypeOK ==
  /\ counter \in Tables
  /\ moved \in [Keys -> Counts]
  /\ steady \subseteq DOMAIN counter
  /\ 0 \in DOMAIN counter
  /\ pc \in {"take_initial_snapshot", "take_new_snapshot", "calculate",
             "commit"}
  /\ prev_snapshots \in Seq(Counts)
  /\ current_snapshots \in Seq(Counts)
  /\ cores \in Seq(Rows)
  /\ events \in Nat
  /\ prev \in Histories
  /\ current \in Histories
  /\ span \in [Keys -> Counts]
  /\ kept \subseteq Keys

\* What the load of a line really was between the two readings.
RowOf(k) ==
  IF Total(span[k]) = 0 THEN IdleRow
  ELSE [user |-> span[k]["user"], idle |-> span[k]["idle"],
        total |-> Total(span[k])]

Published == pc = "commit" /\ prev.whole /\ current.whole

\* The load of all cores together is exactly what was spent, whatever cores are
\* switched on and off (calculate, commit).
AggregateExact ==
  Published /\ 0 \in kept => 1 \in DOMAIN cores /\ cores[1] = RowOf(0)

\* A core that was on all the time and whose line did not move has a row that
\* says exactly what it spent, whatever happened to the cores after it.
UnmovedCoresExact ==
  Published =>
    \A i \in DOMAIN prev.labels \cap DOMAIN current.labels :
      LET k == prev.labels[i] IN
      current.labels[i] = k /\ k \in kept =>
        i \in DOMAIN cores /\ cores[i] = RowOf(k)
=============================================================================
