------------------------- MODULE DiskPollingProofs --------------------------
(***************************************************************************)
(* Theorems about DiskPolling, for any devices, counters, filters, paths   *)
(* and any limit of disk_io.                                               *)
(***************************************************************************)
EXTENDS DiskPolling, CountersProofs, FiniteSetTheorems

\* What a whole earlier reading says about a whole later one.
Spans ==
  \A k \in InBoth, ch \in Channels :
    /\ current_snapshots[k][ch] <= prev_snapshots[k][ch] + span[k][ch]
    /\ k \in kept =>
         current_snapshots[k][ch] = prev_snapshots[k][ch] + span[k][ch]

KeptBy(S) == {k \in S : Keep(k)}

(***************************************************************************)
(* The inductive invariant: as in NetPollingProofs, a reading tracks the   *)
(* counters until the next one, two readings span what was counted, and    *)
(* the commit makes the second one the first.  A reading is complete only  *)
(* for the devices that the filter keeps.                                  *)
(***************************************************************************)
WaitInv ==
  pc = "take_new_snapshot" /\ whole.prev =>
    Tracks(prev_snapshots) /\ KeptBy(steady) \subseteq DOMAIN prev_snapshots

ReadInv ==
  pc \in {"calculate", "commit"} /\ BothWhole =>
    Spans /\ KeptBy(kept) \subseteq InBoth

FreshInv ==
  pc \in {"calculate", "commit"} /\ whole.current =>
    /\ Tracks(current_snapshots)
    /\ KeptBy(steady) \subseteq DOMAIN current_snapshots

ResultInv ==
  Published =>
    /\ disk_io = [d \in Reached \ Targets |-> Rate(d)]
    /\ disks = [i \in DOMAIN paths |->
                  IF Mapped(i) /\ paths[i] \in Reached
                  THEN Rate(paths[i]) ELSE Zero]

DiskInv == DiskTypeOK /\ WaitInv /\ ReadInv /\ FreshInv /\ ResultInv

-----------------------------------------------------------------------------
LEMMA FilterTable ==
  ASSUME NEW t \in Tables
  PROVE  /\ Filter(t) \in Tables
         /\ DOMAIN Filter(t) = KeptBy(DOMAIN t)
         /\ \A k \in DOMAIN Filter(t) : Filter(t)[k] = t[k]
<1>1. DOMAIN t \subseteq Keys /\ t \in [DOMAIN t -> Counts]
  BY TableElim
<1>2. Filter(t) \in [KeptBy(DOMAIN t) -> Counts]
  BY <1>1 DEF Filter, KeptBy
<1>3. KeptBy(DOMAIN t) \in SUBSET Keys
  BY <1>1 DEF KeptBy
<1>. QED  BY <1>2, <1>3, TableIntro DEF Filter, KeptBy

LEMMA BrokenDiskTable ==
  ASSUME CountersTypeOK, NEW t \in BrokenTables
  PROVE  t \in Tables
<1>1. CASE t = Empty
  BY <1>1, EmptyTable
<1>2. CASE t # Empty
  <2>1. PICK K \in SUBSET DOMAIN counter, last \in Keys, cut \in Counts :
          t = CutOff(K, last, cut)
    BY <1>2 DEF BrokenTables
  <2>2. DOMAIN counter \subseteq Keys /\ counter \in [DOMAIN counter -> Counts]
    BY TableElim DEF CountersTypeOK
  <2>3. t \in [K \cup {last} -> Counts] /\ K \cup {last} \in SUBSET Keys
    BY <2>1, <2>2 DEF CutOff
  <2>. QED  BY <2>3, TableIntro
<1>. QED  BY <1>1, <1>2

LEMMA ReadingTable ==
  ASSUME CountersTypeOK, NEW t \in Readings
  PROVE  t \in Tables
<1>1. PICK u \in BrokenTables \cup {counter} : t = Filter(u)
  BY DEF Readings
<1>2. u \in Tables
  BY BrokenDiskTable DEF CountersTypeOK
<1>. QED  BY <1>1, <1>2, FilterTable

LEMMA PathsType ==
  ASSUME DiskTypeOK
  PROVE  \A i \in DOMAIN paths : paths[i] \in Keys
<1>1. context.filesystems \in Seq(Keys)
  BY DiskAssumption DEF DiskTypeOK
<1>. QED  BY <1>1 DEF paths

LEMMA RateType ==
  ASSUME DiskTypeOK, NEW d \in InBoth
  PROVE  /\ d \in Keys
         /\ prev_snapshots[d] \in Counts /\ current_snapshots[d] \in Counts
         /\ Rate(d) \in Counts
<1>1. /\ d \in Keys
      /\ prev_snapshots[d] \in Counts /\ current_snapshots[d] \in Counts
  BY TableElim DEF DiskTypeOK, InBoth
<1>2. ASSUME NEW ch \in Channels
      PROVE  (IF current_snapshots[d][ch] >= prev_snapshots[d][ch]
              THEN current_snapshots[d][ch] - prev_snapshots[d][ch] ELSE 0)
               \in 0..MaxCount
  BY <1>1, CountsNat, CountersAssumption
<1>3. Rate(d) \in Counts
  BY <1>2 DEF Rate, Counts
<1>. QED  BY <1>1, <1>3

LEMMA DiskStart == DiskInit => DiskInv
<1>. SUFFICES ASSUME DiskInit
              PROVE  DiskInv
  OBVIOUS
<1>1. CountersTypeOK
  BY CountersStart DEF DiskInit
<1>2. span \in [Keys -> Counts] /\ disks \in [DOMAIN paths -> Counts]
  BY ZeroCounts DEF DiskInit
<1>3. DiskTypeOK
  BY <1>1, <1>2, EmptyTable DEF DiskInit, DiskTypeOK, CountersTypeOK
<1>. QED
  BY <1>3
  DEF DiskInit, DiskInv, WaitInv, ReadInv, FreshInv, ResultInv, Published

LEMMA DiskStep == DiskInv /\ [DiskNext]_diskPollVars => DiskInv'
<1>. SUFFICES ASSUME DiskInv, [DiskNext]_diskPollVars
              PROVE  DiskInv'
  OBVIOUS
<1>. USE DEF snapshotVars, metricsVars, historyVars, countersVars
<1>t. DiskTypeOK /\ CountersTypeOK /\ counter \in Tables
  BY DEF DiskInv, DiskTypeOK, CountersTypeOK
<1>i. WaitInv /\ ReadInv /\ FreshInv /\ ResultInv
  BY DEF DiskInv
<1>1. CASE TakeInitialSnapshot
  <2>1. PICK isWhole \in BOOLEAN, table \in Readings :
          /\ ReadData(table, isWhole)
          /\ prev_snapshots' = table
          /\ whole' = [whole EXCEPT !.prev = isWhole]
    BY <1>1 DEF TakeInitialSnapshot
  <2>2. /\ BeginHistory /\ pc' = "take_new_snapshot"
        /\ UNCHANGED <<context, current_snapshots, time_delta_seconds, disks,
                       disk_io, span, kept>>
    BY <1>1 DEF TakeInitialSnapshot
  <2>3. table \in Tables
    BY <1>t, ReadingTable
  <2>4. whole' \in [prev : BOOLEAN, current : BOOLEAN]
        /\ whole'.prev = isWhole
    BY <1>t, <2>1 DEF DiskTypeOK
  <2>5. DiskTypeOK'
    BY <1>t, <2>1, <2>2, <2>3, <2>4, ReadingStep
    DEF DiskTypeOK, CountersTypeOK, paths
  <2>6. WaitInv'
    <3>1. CASE isWhole
      <4>1. table = Filter(counter)
        BY <2>1, <3>1 DEF ReadData
      <4>2. /\ DOMAIN table = KeptBy(DOMAIN counter)
            /\ \A k \in DOMAIN table : table[k] = counter[k]
        BY <1>t, <4>1, FilterTable
      <4>3. Tracks(table)'
        BY <1>t, <2>2, <2>3, <4>2, ReadingStep
      <4>4. Tracks(prev_snapshots)'
        BY <2>1, <4>3 DEF Tracks
      <4>5. KeptBy(steady)' \subseteq DOMAIN prev_snapshots'
        BY <1>t, <2>1, <2>2, <4>2, ReadingStep
        DEF KeptBy, Keep, Targets, paths
      <4>. QED  BY <4>4, <4>5 DEF WaitInv
    <3>. QED  BY <2>4, <3>1 DEF WaitInv
  <2>. QED
    BY <2>2, <2>5, <2>6 DEF DiskInv, ReadInv, FreshInv, ResultInv, Published
<1>2. CASE TakeNewSnapshot
  <2>1. PICK isWhole \in BOOLEAN, table \in Readings :
          /\ ReadData(table, isWhole)
          /\ current_snapshots' = table
          /\ whole' = [whole EXCEPT !.current = isWhole]
    BY <1>2 DEF TakeNewSnapshot
  <2>2. /\ BeginHistory /\ pc = "take_new_snapshot" /\ pc' = "calculate"
        /\ span' = moved /\ kept' = steady
        /\ time_delta_seconds' \in {0, 1}
        /\ UNCHANGED <<context, prev_snapshots, disks, disk_io>>
    BY <1>2 DEF TakeNewSnapshot
  <2>3. table \in Tables
    BY <1>t, ReadingTable
  <2>4. /\ whole' \in [prev : BOOLEAN, current : BOOLEAN]
        /\ whole'.current = isWhole /\ whole'.prev = whole.prev
    BY <1>t, <2>1 DEF DiskTypeOK
  <2>5. steady \subseteq Keys
    BY <1>t, TableElim DEF DiskTypeOK
  <2>6. DiskTypeOK'
    BY <1>t, <2>1, <2>2, <2>3, <2>4, <2>5, ReadingStep
    DEF DiskTypeOK, CountersTypeOK, paths
  <2>w. isWhole =>
          /\ DOMAIN table = KeptBy(DOMAIN counter)
          /\ \A k \in DOMAIN table : table[k] = counter[k]
    BY <1>t, <2>1, FilterTable DEF ReadData
  <2>7. ReadInv'
    <3>1. CASE isWhole /\ whole.prev
      <4>2. /\ Tracks(prev_snapshots)
            /\ KeptBy(steady) \subseteq DOMAIN prev_snapshots
        BY <1>i, <2>2, <3>1 DEF WaitInv
      <4>3. Spans'
        <5>1. DOMAIN table \subseteq DOMAIN counter
          BY <2>w, <3>1 DEF KeptBy
        <5>2. InBoth' = DOMAIN prev_snapshots \cap DOMAIN table
          BY <2>1, <2>2 DEF InBoth
        <5>. QED  BY <2>1, <2>2, <2>w, <3>1, <4>2, <5>1, <5>2 DEF Spans, Tracks
      <4>4. KeptBy(kept)' \subseteq InBoth'
        <5>1. KeptBy(kept)' = KeptBy(steady)
          BY <2>2 DEF KeptBy, Keep, Targets, paths
        <5>2. KeptBy(steady) \subseteq DOMAIN table
          BY <1>t, <2>w, <3>1 DEF KeptBy, CountersTypeOK
        <5>. QED  BY <2>1, <2>2, <4>2, <5>1, <5>2 DEF InBoth
      <4>. QED  BY <4>3, <4>4 DEF ReadInv
    <3>. QED  BY <2>4, <3>1 DEF ReadInv, BothWhole
  <2>8. FreshInv'
    <3>1. CASE isWhole
      <4>1. Tracks(table)'
        BY <1>t, <2>2, <2>3, <2>w, <3>1, ReadingStep
      <4>2. Tracks(current_snapshots)'
        BY <2>1, <4>1 DEF Tracks
      <4>3. KeptBy(steady)' \subseteq DOMAIN current_snapshots'
        BY <1>t, <2>1, <2>2, <2>w, <3>1, ReadingStep
        DEF KeptBy, Keep, Targets, paths
      <4>. QED  BY <4>2, <4>3 DEF FreshInv
    <3>. QED  BY <2>4, <3>1 DEF FreshInv
  <2>. QED
    BY <2>2, <2>6, <2>7, <2>8 DEF DiskInv, WaitInv, ResultInv, Published
<1>3. CASE Calculate
  <2>1. /\ pc = "calculate" /\ pc' = "commit"
        /\ disk_io' = IF time_delta_seconds = 0 THEN Empty
                      ELSE [d \in Reached \ Targets |-> Rate(d)]
        /\ disks' = IF time_delta_seconds = 0 THEN disks
                    ELSE [i \in DOMAIN paths |->
                            IF Mapped(i) /\ paths[i] \in Reached
                            THEN Rate(paths[i]) ELSE Zero]
        /\ UNCHANGED <<counter, moved, steady, context, prev_snapshots,
                       current_snapshots, time_delta_seconds, whole, span,
                       kept>>
    BY <1>3 DEF Calculate
  <2>2. disk_io' \in Tables
    <3>1. Reached \subseteq InBoth /\ InBoth \subseteq Keys
      BY <1>t, RateType DEF Reached
    <3>2. [d \in Reached \ Targets |-> Rate(d)] \in
            [Reached \ Targets -> Counts]
      BY <1>t, <3>1, RateType
    <3>. QED  BY <2>1, <3>1, <3>2, EmptyTable, TableIntro
  <2>3. disks' \in [DOMAIN paths -> Counts]
    <3>1. ASSUME NEW i \in DOMAIN paths, paths[i] \in Reached
          PROVE  Rate(paths[i]) \in Counts
      BY <1>t, <3>1, RateType DEF Reached
    <3>. QED  BY <1>t, <2>1, <3>1, ZeroCounts DEF DiskTypeOK
  <2>4. DiskTypeOK'
    BY <1>t, <2>1, <2>2, <2>3 DEF DiskTypeOK, paths
  <2>5. ReadInv'
    BY <1>i, <2>1
    DEF ReadInv, BothWhole, Spans, InBoth, KeptBy, Keep, Targets, paths
  <2>6. FreshInv'
    BY <1>i, <2>1 DEF FreshInv, Tracks, KeptBy, Keep, Targets, paths
  <2>7. ResultInv'
    BY <2>1
    DEF ResultInv, Published, Rate, Reached, InBoth, Targets, Mapped, paths
  <2>. QED  BY <2>1, <2>4, <2>5, <2>6, <2>7 DEF DiskInv, WaitInv
<1>4. CASE Commit
  <2>1. /\ pc = "commit" /\ pc' = "take_new_snapshot"
        /\ prev_snapshots' = current_snapshots
        /\ whole' = [whole EXCEPT !.prev = whole.current]
        /\ EndHistory
        /\ UNCHANGED <<counter, moved, steady, context, current_snapshots,
                       time_delta_seconds, disks, disk_io>>
    BY <1>4 DEF Commit
  <2>2. /\ whole' \in [prev : BOOLEAN, current : BOOLEAN]
        /\ whole'.prev = whole.current
    BY <1>t, <2>1 DEF DiskTypeOK
  <2>3. DiskTypeOK'
    BY <1>t, <2>1, <2>2, ZeroCounts DEF DiskTypeOK, EndHistory, paths
  <2>4. WaitInv'
    BY <1>i, <2>1, <2>2
    DEF WaitInv, FreshInv, Tracks, KeptBy, Keep, Targets, paths
  <2>. QED
    BY <2>1, <2>3, <2>4 DEF DiskInv, ReadInv, FreshInv, ResultInv, Published
<1>5. CASE Kernel
  <2>1. /\ CountersNext
        /\ pc \in {"take_initial_snapshot", "take_new_snapshot"}
        /\ UNCHANGED <<pc, context, prev_snapshots, current_snapshots,
                       time_delta_seconds, disks, disk_io, whole, span, kept>>
    BY <1>5 DEF Kernel
  <2>2. DiskTypeOK'
    BY <1>t, <2>1, KernelStep DEF DiskTypeOK, CountersTypeOK, paths
  <2>3. WaitInv'
    <3>1. prev_snapshots \in Tables
      BY <1>t DEF DiskTypeOK
    <3>2. Tracks(prev_snapshots) =>
            /\ \A k \in DOMAIN prev_snapshots \cap DOMAIN counter',
                  ch \in Channels :
                 /\ counter'[k][ch] <= prev_snapshots[k][ch] + moved'[k][ch]
                 /\ k \in steady' =>
                      counter'[k][ch] = prev_snapshots[k][ch] + moved'[k][ch]
            /\ steady' \subseteq steady
      BY <1>t, <2>1, <3>1, KernelStep DEF Tracks
    <3>3. KeptBy(steady)' \subseteq KeptBy(steady)
      BY <1>t, <2>1, KernelStep DEF KeptBy, Keep, Targets, paths
    <3>. QED  BY <1>i, <2>1, <3>2, <3>3 DEF WaitInv, Tracks
  <2>. QED
    BY <2>1, <2>2, <2>3 DEF DiskInv, ReadInv, FreshInv, ResultInv, Published
<1>6. CASE UNCHANGED diskPollVars
  <2>1. UNCHANGED <<counter, moved, steady, pc, context, prev_snapshots,
                    current_snapshots, time_delta_seconds, disks, disk_io,
                    whole, span, kept>>
    BY <1>6 DEF diskPollVars
  <2>2. DiskTypeOK'
    BY <1>t, <2>1 DEF DiskTypeOK, paths
  <2>3. WaitInv'
    BY <1>i, <2>1 DEF WaitInv, Tracks, KeptBy, Keep, Targets, paths
  <2>4. ReadInv'
    BY <1>i, <2>1
    DEF ReadInv, BothWhole, Spans, InBoth, KeptBy, Keep, Targets, paths
  <2>5. FreshInv'
    BY <1>i, <2>1 DEF FreshInv, Tracks, KeptBy, Keep, Targets, paths
  <2>6. ResultInv'
    <3>1. Reached' = Reached /\ Targets' = Targets /\ paths' = paths
      BY <2>1 DEF Reached, InBoth, Targets, paths
    <3>2. /\ \A d : Rate(d)' = Rate(d)
          /\ \A i : Mapped(i)' = Mapped(i)
      BY <2>1 DEF Rate, Mapped, paths
    <3>3. Published' = Published
      BY <2>1 DEF Published
    <3>. QED  BY <1>i, <2>1, <3>1, <3>2, <3>3 DEF ResultInv
  <2>. QED  BY <2>2, <2>3, <2>4, <2>5, <2>6 DEF DiskInv
<1>. QED  BY <1>1, <1>2, <1>3, <1>4, <1>5, <1>6 DEF DiskNext

LEMMA DiskInvariant == DiskSpec => []DiskInv
<1>. QED  BY DiskStart, DiskStep, PTL DEF DiskSpec

-----------------------------------------------------------------------------
\* Every variable keeps its shape, and no rate is negative, whatever is read
\* (read_data, calculate).
THEOREM DiskTypeCorrect == DiskSpec => []DiskTypeOK
<1>1. DiskInv => DiskTypeOK
  BY DEF DiskInv
<1>. QED  BY <1>1, DiskInvariant, PTL

\* A rate of a published tick never is more than what the device moved.
LEMMA RateBound ==
  ASSUME DiskInv, Published, BothWhole, NEW d \in InBoth, NEW ch \in Channels
  PROVE  /\ Rate(d)[ch] <= span[d][ch]
         /\ d \in kept => Rate(d)[ch] = span[d][ch]
<1>1. /\ current_snapshots[d][ch] <= prev_snapshots[d][ch] + span[d][ch]
      /\ d \in kept =>
           current_snapshots[d][ch] = prev_snapshots[d][ch] + span[d][ch]
  BY DEF DiskInv, ReadInv, Published, Spans
<1>2. /\ current_snapshots[d][ch] \in Nat /\ prev_snapshots[d][ch] \in Nat
      /\ span[d][ch] \in Nat
  BY RateType, CountsNat DEF DiskInv, DiskTypeOK
<1>. QED  BY <1>1, <1>2 DEF Rate

\* No device is credited with more than it moved between two whole readings,
\* with its file system or in the table.
THEOREM DiskNotOverstated == DiskSpec => []DiskNeverOverstated
<1>1. ASSUME DiskInv
      PROVE  DiskNeverOverstated
  <2>. SUFFICES ASSUME Published, BothWhole, NEW ch \in Channels
                PROVE  /\ \A i \in DOMAIN paths :
                            disks[i][ch] <= span[paths[i]][ch]
                       /\ \A d \in DOMAIN disk_io :
                            disk_io[d][ch] <= span[d][ch]
    BY DEF DiskNeverOverstated
  <2>1. ResultInv /\ DiskTypeOK /\ Reached \subseteq InBoth
    BY <1>1 DEF DiskInv, Reached
  <2>2. ASSUME NEW i \in DOMAIN paths
        PROVE  disks[i][ch] <= span[paths[i]][ch]
    <3>1. CASE Mapped(i) /\ paths[i] \in Reached
      <4>1. disks[i] = Rate(paths[i])
        BY <2>1, <3>1 DEF ResultInv
      <4>. QED  BY <1>1, <2>1, <3>1, <4>1, RateBound
    <3>2. CASE ~(Mapped(i) /\ paths[i] \in Reached)
      <4>1. disks[i] = Zero
        BY <2>1, <3>2 DEF ResultInv
      <4>2. span[paths[i]] \in Counts
        BY <2>1, PathsType DEF DiskTypeOK
      <4>. QED  BY <4>1, <4>2, CountsNat DEF Zero
    <3>. QED  BY <3>1, <3>2
  <2>3. ASSUME NEW d \in DOMAIN disk_io
        PROVE  disk_io[d][ch] <= span[d][ch]
    <3>1. d \in InBoth /\ disk_io[d] = Rate(d)
      BY <2>1 DEF ResultInv
    <3>. QED  BY <1>1, <3>1, RateBound
  <2>. QED  BY <2>2, <2>3
<1>. QED  BY <1>1, DiskInvariant, PTL

\* A configured device that is gone never shows the rates of its last tick.
THEOREM DiskGone == DiskSpec => []GoneShowsNothing
<1>1. ASSUME DiskInv
      PROVE  GoneShowsNothing
  BY <1>1 DEF DiskInv, ResultInv, GoneShowsNothing, Reached, InBoth
<1>. QED  BY <1>1, DiskInvariant, PTL

\* Below the limit the loop of calculate reaches every device.
LEMMA AllReached ==
  ASSUME DiskTypeOK, Cardinality(InBoth \ Targets) <= MaxIo + 1
  PROVE  Reached = InBoth
<1>1. IsFiniteSet(InBoth \ Targets) /\ Cardinality(InBoth \ Targets) \in Nat
  <2>1. InBoth \ Targets \in SUBSET Keys
    BY RateType
  <2>. QED  BY <2>1, DiskAssumption, FS_Subset, FS_CardinalityType
<1>2. ASSUME NEW d \in InBoth
      PROVE  Cardinality({e \in InBoth \ Targets :
                            NameOrder[e] <= NameOrder[d]}) <= MaxIo + 1
  <2>. DEFINE B == {e \in InBoth \ Targets : NameOrder[e] <= NameOrder[d]}
  <2>1. B \in SUBSET (InBoth \ Targets)
    OBVIOUS
  <2>2. /\ IsFiniteSet(B)
        /\ Cardinality(B) <= Cardinality(InBoth \ Targets)
    BY <1>1, <2>1, FS_Subset
  <2>3. Cardinality(B) \in Nat
    BY <2>2, FS_CardinalityType
  <2>. QED  BY <1>1, <2>2, <2>3, DiskAssumption
<1>. QED  BY <1>2 DEF Reached

\* A device that was there all the time is reported with exactly what it moved:
\* with the last of its paths whatever the filters say, or in the table.
THEOREM DiskLosesNothing == DiskSpec => []DiskNothingLost
<1>1. ASSUME DiskInv
      PROVE  DiskNothingLost
  <2>. SUFFICES ASSUME Published, BothWhole,
                       Cardinality(InBoth \ Targets) <= MaxIo + 1
                PROVE  /\ \A i \in DOMAIN paths :
                            Mapped(i) /\ paths[i] \in kept =>
                              disks[i] = span[paths[i]]
                       /\ \A d \in kept \ Targets :
                            Keep(d) => /\ d \in DOMAIN disk_io
                                       /\ disk_io[d] = span[d]
    BY DEF DiskNothingLost
  <2>1. ResultInv /\ DiskTypeOK /\ Reached = InBoth
    BY <1>1, AllReached DEF DiskInv
  <2>2. KeptBy(kept) \subseteq InBoth
    BY <1>1 DEF DiskInv, ReadInv, Published
  <2>3. ASSUME NEW d \in kept, Keep(d)
        PROVE  d \in InBoth /\ Rate(d) = span[d]
    <3>1. d \in InBoth
      BY <2>2, <2>3 DEF KeptBy
    <3>2. \A ch \in Channels : Rate(d)[ch] = span[d][ch]
      BY <1>1, <3>1, RateBound
    <3>3. Rate(d) \in Counts /\ span[d] \in Counts
      BY <2>1, <3>1, RateType DEF DiskTypeOK
    <3>. QED  BY <3>1, <3>2, <3>3 DEF Counts
  <2>4. ASSUME NEW i \in DOMAIN paths, Mapped(i), paths[i] \in kept
        PROVE  disks[i] = span[paths[i]]
    <3>1. Keep(paths[i])
      BY DEF Keep, Targets
    <3>2. paths[i] \in InBoth /\ Rate(paths[i]) = span[paths[i]]
      BY <2>3, <2>4, <3>1
    <3>. QED  BY <2>1, <2>4, <3>2 DEF ResultInv
  <2>5. ASSUME NEW d \in kept \ Targets, Keep(d)
        PROVE  d \in DOMAIN disk_io /\ disk_io[d] = span[d]
    <3>1. d \in InBoth /\ Rate(d) = span[d]
      BY <2>3, <2>5
    <3>. QED  BY <2>1, <3>1 DEF ResultInv
  <2>. QED  BY <2>4, <2>5
<1>. QED  BY <1>1, DiskInvariant, PTL
=============================================================================
