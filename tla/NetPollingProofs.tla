-------------------------- MODULE NetPollingProofs --------------------------
(***************************************************************************)
(* Theorems about NetPolling, for any set of interfaces and counters.      *)
(***************************************************************************)
EXTENDS NetPolling, CountersProofs

\* What a whole earlier reading says about a whole later one.
Spans ==
  \A k \in DOMAIN prev_snapshot \cap DOMAIN current_snapshot, ch \in Channels :
    /\ current_snapshot[k][ch] <= prev_snapshot[k][ch] + span[k][ch]
    /\ k \in kept =>
         current_snapshot[k][ch] = prev_snapshot[k][ch] + span[k][ch]

(***************************************************************************)
(* The inductive invariant.  The two properties speak of the moment after  *)
(* calculate; what makes them true is spread over a whole tick: a reading  *)
(* tracks the counters until the next one, the two readings then span what *)
(* was counted, and the commit makes the second reading the first one.     *)
(***************************************************************************)
WaitInv ==
  pc = "take_new_snapshot" /\ whole.prev =>
    Tracks(prev_snapshot) /\ steady \subseteq DOMAIN prev_snapshot

ReadInv ==
  pc \in {"calculate", "commit"} /\ BothWhole =>
    Spans /\ kept \subseteq DOMAIN prev_snapshot \cap DOMAIN current_snapshot

FreshInv ==
  pc \in {"calculate", "commit"} /\ whole.current =>
    Tracks(current_snapshot) /\ steady \subseteq DOMAIN current_snapshot

ResultInv ==
  Published => network_interfaces = Rates

NetInv == NetTypeOK /\ WaitInv /\ ReadInv /\ FreshInv /\ ResultInv

-----------------------------------------------------------------------------
LEMMA RatesTable ==
  ASSUME NetTypeOK
  PROVE  Rates \in Tables
<1>1. ASSUME NEW p \in Counts, NEW c \in Counts
      PROVE  Rate(p, c) \in Counts
  <2>1. ASSUME NEW ch \in Channels
        PROVE  (IF c[ch] >= p[ch] THEN c[ch] - p[ch] ELSE 0) \in 0..MaxCount
    BY CountsNat, CountersAssumption
  <2>. QED  BY <2>1 DEF Rate, Counts
<1>2. /\ prev_snapshot \in [DOMAIN prev_snapshot -> Counts]
      /\ current_snapshot \in [DOMAIN current_snapshot -> Counts]
      /\ DOMAIN prev_snapshot \subseteq Keys
  BY TableElim DEF NetTypeOK
<1>3. Rates \in [DOMAIN prev_snapshot \cap DOMAIN current_snapshot -> Counts]
  BY <1>1, <1>2 DEF Rates
<1>. QED  BY <1>2, <1>3, TableIntro

LEMMA NetStart == NetInit => NetInv
<1>. SUFFICES ASSUME NetInit
              PROVE  NetInv
  OBVIOUS
<1>1. CountersTypeOK
  BY CountersStart DEF NetInit
<1>2. span \in [Keys -> Counts]
  BY ZeroCounts DEF NetInit
<1>3. NetTypeOK
  BY <1>1, <1>2, EmptyTable DEF NetInit, NetTypeOK, CountersTypeOK
<1>. QED
  BY <1>3 DEF NetInit, NetInv, WaitInv, ReadInv, FreshInv, ResultInv, Published

LEMMA NetStep == NetInv /\ [NetNext]_netPollVars => NetInv'
<1>. SUFFICES ASSUME NetInv, [NetNext]_netPollVars
              PROVE  NetInv'
  OBVIOUS
<1>. USE DEF snapshotVars, historyVars, countersVars
<1>t. NetTypeOK /\ CountersTypeOK
  BY DEF NetInv, NetTypeOK, CountersTypeOK
<1>i. WaitInv /\ ReadInv /\ FreshInv /\ ResultInv
  BY DEF NetInv
<1>1. CASE TakeInitialSnapshot
  <2>1. PICK isWhole \in BOOLEAN, table \in BrokenReadings \cup {counter} :
          /\ ReadData(table, isWhole)
          /\ prev_snapshot' = table
          /\ whole' = [whole EXCEPT !.prev = isWhole]
    BY <1>1 DEF TakeInitialSnapshot
  <2>2. /\ BeginHistory /\ pc' = "take_new_snapshot"
        /\ UNCHANGED <<current_snapshot, time_delta_seconds,
                       network_interfaces, span, kept>>
    BY <1>1 DEF TakeInitialSnapshot
  <2>3. table \in Tables
    BY <1>t, BrokenTable DEF NetTypeOK
  <2>4. whole' \in [prev : BOOLEAN, current : BOOLEAN]
        /\ whole'.prev = isWhole
    BY <1>t, <2>1 DEF NetTypeOK
  <2>5. NetTypeOK'
    BY <1>t, <2>1, <2>2, <2>3, <2>4, ReadingStep
    DEF NetTypeOK, CountersTypeOK
  <2>6. WaitInv'
    <3>1. CASE isWhole
      <4>1. table = counter
        BY <2>1, <3>1 DEF ReadData
      <4>2. Tracks(table)'
        BY <1>t, <2>2, <2>3, <4>1, ReadingStep
      <4>. QED
        BY <1>t, <2>1, <2>2, <4>1, <4>2, ReadingStep DEF WaitInv, Tracks
    <3>. QED  BY <2>4, <3>1 DEF WaitInv
  <2>. QED
    BY <2>2, <2>5, <2>6 DEF NetInv, ReadInv, FreshInv, ResultInv, Published
<1>2. CASE TakeNewSnapshot
  <2>1. PICK isWhole \in BOOLEAN, table \in BrokenReadings \cup {counter} :
          /\ ReadData(table, isWhole)
          /\ current_snapshot' = table
          /\ whole' = [whole EXCEPT !.current = isWhole]
    BY <1>2 DEF TakeNewSnapshot
  <2>2. /\ BeginHistory /\ pc = "take_new_snapshot" /\ pc' = "calculate"
        /\ span' = moved /\ kept' = steady
        /\ time_delta_seconds' \in {0, 1}
        /\ UNCHANGED <<prev_snapshot, network_interfaces>>
    BY <1>2 DEF TakeNewSnapshot
  <2>3. table \in Tables
    BY <1>t, BrokenTable DEF NetTypeOK
  <2>4. /\ whole' \in [prev : BOOLEAN, current : BOOLEAN]
        /\ whole'.current = isWhole /\ whole'.prev = whole.prev
    BY <1>t, <2>1 DEF NetTypeOK
  <2>5. steady \subseteq Keys
    BY <1>t, TableElim DEF NetTypeOK
  <2>6. NetTypeOK'
    BY <1>t, <2>1, <2>2, <2>3, <2>4, <2>5, ReadingStep
    DEF NetTypeOK, CountersTypeOK
  <2>7. ReadInv'
    <3>1. CASE isWhole /\ whole.prev
      <4>1. table = counter
        BY <2>1, <3>1 DEF ReadData
      <4>2. Tracks(prev_snapshot) /\ steady \subseteq DOMAIN prev_snapshot
        BY <1>i, <2>2, <3>1 DEF WaitInv
      <4>3. Spans'
        BY <2>1, <2>2, <4>1, <4>2 DEF Spans, Tracks
      <4>4. kept' \subseteq DOMAIN prev_snapshot' \cap DOMAIN current_snapshot'
        BY <1>t, <2>1, <2>2, <4>1, <4>2 DEF CountersTypeOK
      <4>. QED  BY <4>3, <4>4 DEF ReadInv
    <3>. QED  BY <2>4, <3>1 DEF ReadInv, BothWhole
  <2>8. FreshInv'
    <3>1. CASE isWhole
      <4>1. table = counter
        BY <2>1, <3>1 DEF ReadData
      <4>2. Tracks(table)'
        BY <1>t, <2>2, <2>3, <4>1, ReadingStep
      <4>. QED
        BY <1>t, <2>1, <2>2, <4>1, <4>2, ReadingStep DEF FreshInv, Tracks
    <3>. QED  BY <2>4, <3>1 DEF FreshInv
  <2>. QED
    BY <2>2, <2>6, <2>7, <2>8 DEF NetInv, WaitInv, ResultInv, Published
<1>3. CASE Calculate
  <2>1. /\ pc = "calculate" /\ pc' = "commit"
        /\ network_interfaces' =
             IF time_delta_seconds = 0 THEN Empty ELSE Rates
        /\ UNCHANGED <<counter, moved, steady, prev_snapshot, current_snapshot,
                       time_delta_seconds, whole, span, kept>>
    BY <1>3 DEF Calculate
  <2>2. NetTypeOK'
    BY <1>t, <2>1, EmptyTable, RatesTable DEF NetTypeOK
  <2>3. ReadInv'
    BY <1>i, <2>1 DEF ReadInv, BothWhole, Spans
  <2>4. FreshInv'
    BY <1>i, <2>1 DEF FreshInv, Tracks
  <2>5. ResultInv'
    BY <2>1 DEF ResultInv, Published, Rates
  <2>. QED  BY <2>1, <2>2, <2>3, <2>4, <2>5 DEF NetInv, WaitInv
<1>4. CASE Commit
  <2>1. /\ pc = "commit" /\ pc' = "take_new_snapshot"
        /\ prev_snapshot' = current_snapshot
        /\ whole' = [whole EXCEPT !.prev = whole.current]
        /\ EndHistory
        /\ UNCHANGED <<counter, moved, steady, current_snapshot,
                       time_delta_seconds, network_interfaces>>
    BY <1>4 DEF Commit
  <2>2. /\ whole' \in [prev : BOOLEAN, current : BOOLEAN]
        /\ whole'.prev = whole.current
    BY <1>t, <2>1 DEF NetTypeOK
  <2>3. NetTypeOK'
    BY <1>t, <2>1, <2>2, ZeroCounts DEF NetTypeOK, EndHistory
  <2>4. WaitInv'
    BY <1>i, <2>1, <2>2 DEF WaitInv, FreshInv, Tracks
  <2>. QED
    BY <2>1, <2>3, <2>4 DEF NetInv, ReadInv, FreshInv, ResultInv, Published
<1>5. CASE Kernel
  <2>1. /\ CountersNext
        /\ pc \in {"take_initial_snapshot", "take_new_snapshot"}
        /\ UNCHANGED <<pc, prev_snapshot, current_snapshot, time_delta_seconds,
                       network_interfaces, whole, span, kept>>
    BY <1>5 DEF Kernel
  <2>2. NetTypeOK'
    BY <1>t, <2>1, KernelStep DEF NetTypeOK, CountersTypeOK
  <2>3. WaitInv'
    <3>1. Tracks(prev_snapshot) =>
            /\ \A k \in DOMAIN prev_snapshot \cap DOMAIN counter',
                  ch \in Channels :
                 /\ counter'[k][ch] <= prev_snapshot[k][ch] + moved'[k][ch]
                 /\ k \in steady' =>
                      counter'[k][ch] = prev_snapshot[k][ch] + moved'[k][ch]
            /\ steady' \subseteq steady
      BY <1>t, <2>1, KernelStep DEF NetTypeOK, Tracks
    <3>. QED  BY <1>i, <2>1, <3>1 DEF WaitInv, Tracks
  <2>. QED
    BY <2>1, <2>2, <2>3 DEF NetInv, ReadInv, FreshInv, ResultInv, Published
<1>6. CASE UNCHANGED netPollVars
  BY <1>t, <1>i, <1>6
  DEF netPollVars, NetInv, NetTypeOK, WaitInv, ReadInv, FreshInv, ResultInv,
      Tracks, Spans, BothWhole, Published, Rates
<1>. QED  BY <1>1, <1>2, <1>3, <1>4, <1>5, <1>6 DEF NetNext

LEMMA NetInvariant == NetSpec => []NetInv
<1>. QED  BY NetStart, NetStep, PTL DEF NetSpec

-----------------------------------------------------------------------------
\* The variables keep their shape; no rate is negative whatever is read.
THEOREM NetTypeCorrect == NetSpec => []NetTypeOK
<1>1. NetInv => NetTypeOK
  BY DEF NetInv
<1>. QED  BY <1>1, NetInvariant, PTL

\* No interface is credited with more than it moved, for any interfaces and
\* counters and whatever is reset, removed and replaced between the readings.
THEOREM NetNeverOverstated == NetSpec => []NeverOverstated
<1>1. ASSUME NetInv
      PROVE  NeverOverstated
  <2>. SUFFICES ASSUME Published, BothWhole,
                       NEW k \in DOMAIN network_interfaces, NEW ch \in Channels
                PROVE  network_interfaces[k][ch] <= span[k][ch]
    BY DEF NeverOverstated
  <2>1. /\ k \in DOMAIN prev_snapshot \cap DOMAIN current_snapshot
        /\ network_interfaces[k][ch] =
             IF current_snapshot[k][ch] >= prev_snapshot[k][ch]
             THEN current_snapshot[k][ch] - prev_snapshot[k][ch] ELSE 0
    BY <1>1 DEF NetInv, ResultInv, Rates, Rate
  <2>2. current_snapshot[k][ch] <= prev_snapshot[k][ch] + span[k][ch]
    BY <1>1, <2>1 DEF NetInv, ReadInv, Published, Spans
  <2>3. /\ current_snapshot[k][ch] \in Nat /\ prev_snapshot[k][ch] \in Nat
        /\ span[k][ch] \in Nat
    BY <1>1, <2>1, TableElim, CountsNat DEF NetInv, NetTypeOK
  <2>. QED  BY <2>1, <2>2, <2>3
<1>. QED  BY <1>1, NetInvariant, PTL

\* An interface that was there all the time is reported with exactly what it
\* moved.
THEOREM NetNothingLost == NetSpec => []NothingLost
<1>1. ASSUME NetInv
      PROVE  NothingLost
  <2>. SUFFICES ASSUME Published, BothWhole, NEW k \in kept
                PROVE  /\ k \in DOMAIN network_interfaces
                       /\ network_interfaces[k] = span[k]
    BY DEF NothingLost
  <2>1. /\ k \in DOMAIN prev_snapshot \cap DOMAIN current_snapshot
        /\ network_interfaces = Rates
    BY <1>1 DEF NetInv, ReadInv, ResultInv, Published
  <2>2. k \in Keys /\ prev_snapshot[k] \in Counts
        /\ current_snapshot[k] \in Counts /\ span[k] \in Counts
    BY <1>1, <2>1, TableElim DEF NetInv, NetTypeOK
  <2>3. ASSUME NEW ch \in Channels
        PROVE  network_interfaces[k][ch] = span[k][ch]
    <3>1. current_snapshot[k][ch] = prev_snapshot[k][ch] + span[k][ch]
      BY <1>1, <2>1 DEF NetInv, ReadInv, Published, Spans
    <3>2. /\ current_snapshot[k][ch] \in Nat /\ prev_snapshot[k][ch] \in Nat
          /\ span[k][ch] \in Nat
      BY <2>2, CountsNat
    <3>3. network_interfaces[k][ch] =
             IF current_snapshot[k][ch] >= prev_snapshot[k][ch]
             THEN current_snapshot[k][ch] - prev_snapshot[k][ch] ELSE 0
      BY <2>1 DEF Rates, Rate
    <3>. QED  BY <3>1, <3>2, <3>3
  <2>4. network_interfaces[k] = [ch \in Channels |-> network_interfaces[k][ch]]
    BY <2>1 DEF Rates, Rate
  <2>5. span[k] = [ch \in Channels |-> span[k][ch]]
    BY <2>2 DEF Counts
  <2>. QED  BY <2>1, <2>3, <2>4, <2>5 DEF Rates
<1>. QED  BY <1>1, NetInvariant, PTL
=============================================================================
