----------------------------- MODULE NetPolling -----------------------------
(***************************************************************************)
(* NetworkPollingTask (src/systeminfo/networkstats.cpp): the rates of the  *)
(* network interfaces from two readings of /proc/net/dev, over the life of *)
(* one task.  Controller::tick calls take_new_snapshot, calculate and      *)
(* commit one after the other; the interfaces go on in between.            *)
(*                                                                         *)
(* A rate is kept as its numerator, the bytes between the two readings;    *)
(* the denominator matters only for being zero.                            *)
(***************************************************************************)
EXTENDS Counters

VARIABLES
  pc,                  \* the call that comes next
  prev_snapshot,
  current_snapshot,
  time_delta_seconds,  \* 0, or 1 for any positive time
  network_interfaces,  \* metrics.network_interfaces: name |-> rates
  whole,               \* history: the previous and the current reading are
                       \* whole tables
  span,                \* history: what was counted between these readings
  kept                 \* history: the interfaces without a break between them

snapshotVars == <<prev_snapshot, current_snapshot>>
historyVars  == <<whole, span, kept>>
netPollVars  == <<counter, moved, steady, pc, prev_snapshot, current_snapshot,
                  time_delta_seconds, network_interfaces, whole, span, kept>>

NetInit ==
  /\ CountersInit
  /\ pc = "take_initial_snapshot"
  /\ prev_snapshot = Empty
  /\ current_snapshot = Empty
  /\ time_delta_seconds \in {0, 1}
  /\ network_interfaces = Empty
  /\ whole = [prev |-> FALSE, current |-> FALSE]
  /\ span = [k \in Keys |-> Zero]
  /\ kept = {}

\* read_data: the table, and whether it is whole.
ReadData(table, isWhole) ==
  \/ table = counter /\ isWhole
  \/ table \in BrokenReadings /\ ~isWhole

TakeInitialSnapshot ==
  /\ pc = "take_initial_snapshot"
  /\ \E isWhole \in BOOLEAN, table \in BrokenReadings \cup {counter} :
       /\ ReadData(table, isWhole)
       /\ prev_snapshot' = table
       /\ whole' = [whole EXCEPT !.prev = isWhole]
  /\ BeginHistory
  /\ pc' = "take_new_snapshot"
  /\ UNCHANGED <<current_snapshot, time_delta_seconds, network_interfaces,
                 span, kept>>

TakeNewSnapshot ==
  /\ pc = "take_new_snapshot"
  /\ time_delta_seconds' \in {0, 1}
  /\ \E isWhole \in BOOLEAN, table \in BrokenReadings \cup {counter} :
       /\ ReadData(table, isWhole)
       /\ current_snapshot' = table
       /\ whole' = [whole EXCEPT !.current = isWhole]
  /\ span' = moved
  /\ kept' = steady
  /\ BeginHistory
  /\ pc' = "calculate"
  /\ UNCHANGED <<prev_snapshot, network_interfaces>>

\* Mutant of Rate: without the test for a counter that started again.
RateUnchecked(prev, current) ==
  [ch \in Channels |-> current[ch] - prev[ch]]

\* A counter that went back gives the rate 0, each channel by itself.
Rate(prev, current) ==
  [ch \in Channels |->
     IF current[ch] >= prev[ch] THEN current[ch] - prev[ch] ELSE 0]

\* Mutant of Rates: an interface that moved nothing is left out.
RatesMoving ==
  [k \in {j \in DOMAIN prev_snapshot \cap DOMAIN current_snapshot :
            prev_snapshot[j] # current_snapshot[j]} |->
     Rate(prev_snapshot[k], current_snapshot[k])]

\* The interfaces that are in both snapshots.
Rates ==
  [k \in DOMAIN prev_snapshot \cap DOMAIN current_snapshot |->
     Rate(prev_snapshot[k], current_snapshot[k])]

Calculate ==
  /\ pc = "calculate"
  /\ network_interfaces' = IF time_delta_seconds = 0 THEN Empty ELSE Rates
  /\ pc' = "commit"
  /\ UNCHANGED <<countersVars, snapshotVars, time_delta_seconds, historyVars>>

\* What happened between the readings is of no more use.
EndHistory ==
  /\ span' = [k \in Keys |-> Zero]
  /\ kept' = {}

\* Mutant of Commit: a broken reading is not taken over, the older one stays.
CommitWhole ==
  /\ pc = "commit"
  /\ IF whole.current
     THEN /\ prev_snapshot' = current_snapshot
          /\ whole' = [whole EXCEPT !.prev = whole.current]
     ELSE UNCHANGED <<prev_snapshot, whole>>
  /\ EndHistory
  /\ pc' = "take_new_snapshot"
  /\ UNCHANGED <<countersVars, current_snapshot, time_delta_seconds,
                 network_interfaces>>

Commit ==
  /\ pc = "commit"
  /\ prev_snapshot' = current_snapshot
  /\ whole' = [whole EXCEPT !.prev = whole.current]
  /\ EndHistory
  /\ pc' = "take_new_snapshot"
  /\ UNCHANGED <<countersVars, current_snapshot, time_delta_seconds,
                 network_interfaces>>

\* The kernel goes on while the task waits for its next reading.  Calculate and
\* Commit do not look at the counters: what is counted while they run can as
\* well be counted after them.
Kernel ==
  /\ pc \in {"take_initial_snapshot", "take_new_snapshot"}
  /\ CountersNext
  /\ UNCHANGED <<pc, snapshotVars, time_delta_seconds, network_interfaces,
                 historyVars>>

NetNext ==
  TakeInitialSnapshot \/ TakeNewSnapshot \/ Calculate \/ Commit \/ Kernel

NetSpec == NetInit /\ [][NetNext]_netPollVars

-----------------------------------------------------------------------------
(* Properties.                                                              *)

\* Every variable keeps its shape; in particular no rate is negative (in the
\* code: astronomical, for want of a sign) whatever the readings are.
NetTypeOK ==
  /\ counter \in Tables
  /\ moved \in [Keys -> Counts]
  /\ steady \subseteq DOMAIN counter
  /\ pc \in {"take_initial_snapshot", "take_new_snapshot", "calculate",
             "commit"}
  /\ prev_snapshot \in Tables
  /\ current_snapshot \in Tables
  /\ time_delta_seconds \in {0, 1}
  /\ network_interfaces \in Tables
  /\ whole \in [prev : BOOLEAN, current : BOOLEAN]
  /\ span \in [Keys -> Counts]
  /\ kept \subseteq Keys

\* The rates of this tick are published.
Published == pc = "commit" /\ time_delta_seconds = 1
BothWhole == whole.prev /\ whole.current

\* No interface is credited with more than it moved between the two readings,
\* whatever was reset, removed and replaced in between (calculate).
NeverOverstated ==
  Published /\ BothWhole =>
    \A k \in DOMAIN network_interfaces, ch \in Channels :
      network_interfaces[k][ch] <= span[k][ch]

\* An interface that was there all the time is reported with exactly what it
\* moved, whatever happened to the others (calculate).
NothingLost ==
  Published /\ BothWhole =>
    \A k \in kept : /\ k \in DOMAIN network_interfaces
                    /\ network_interfaces[k] = span[k]
=============================================================================
