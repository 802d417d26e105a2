------------------------ MODULE ProcessPollingProofs ------------------------
(***************************************************************************)
(* Theorems about ProcessPolling, for any process numbers, settings and    *)
(* processes.                                                              *)
(***************************************************************************)
EXTENDS ProcessPolling, CountersProofs

\* What a whole earlier reading says about a whole later one.
Spans ==
  \A k \in DOMAIN prev_snapshots \cap DOMAIN current_snapshots :
    /\ current_snapshots[k]["cpu"] <= prev_snapshots[k]["cpu"] + span[k]["cpu"]
    /\ k \in kept => current_snapshots[k]["cpu"] =
                       prev_snapshots[k]["cpu"] + span[k]["cpu"]

\* The entries of a set that a whole reading cannot have passed over.
Shown(K) == {k \in K : Local => Visible(k)}

(***************************************************************************)
(* The inductive invariant: as for the interfaces, a reading tracks the    *)
(* processes until the next one, the two readings span what was used, and  *)
(* the commit makes the second reading the first one.  A process that      *)
(* ended while it was read stands in the reading with no time at all: that *)
(* is right for whoever gets its number next.                              *)
(***************************************************************************)
WaitInv ==
  pc = "take_new_snapshot" /\ whole.prev =>
    Tracks(prev_snapshots) /\ Shown(steady) \subseteq DOMAIN prev_snapshots

ReadInv ==
  pc \in {"calculate", "commit"} /\ BothWhole =>
    /\ Spans
    /\ Shown(kept) \subseteq DOMAIN prev_snapshots \cap DOMAIN current_snapshots

FreshInv ==
  /\ pc \in {"calculate", "commit"} => DOMAIN current_snapshots \subseteq seen
  /\ pc \in {"calculate", "commit"} /\ whole.current =>
       /\ Tracks(current_snapshots)
       /\ Shown(steady) \subseteq DOMAIN current_snapshots

ResultInv ==
  pc = "commit" =>
    IF time_delta_seconds = 0 THEN top = NoTop
    ELSE \E uptime \in Uptimes : top \in Tops(Rows(uptime))

ProcInv == ProcTypeOK /\ WaitInv /\ ReadInv /\ FreshInv /\ ResultInv

-----------------------------------------------------------------------------
(* The operators.                                                           *)

LEMMA Quotient ==
  ASSUME NEW a \in Nat, NEW b \in Nat, b > 0
  PROVE  a \div b \in Nat
OBVIOUS

LEMMA CpuNat ==
  ASSUME NEW c \in Counts
  PROVE  c["cpu"] \in Nat
<1>1. "cpu" \in Channels
  BY ProcessAssumption
<1>. QED  BY <1>1, CountsNat

LEMMA ProfileTyped ==
  ASSUME ProcTypeOK, NEW k \in Keys
  PROVE  /\ profile.rss[k] \in Nat /\ profile.start[k] \in Nat
         /\ config.count \in Nat /\ config \in ConfigType
BY ProcessAssumption DEF ProcTypeOK, ProfileType, ConfigType

LEMMA RowsTyped ==
  ASSUME ProcTypeOK, NEW uptime \in Uptimes
  PROVE  Rows(uptime) \subseteq RowType
<1>1. ASSUME NEW k \in Counted
      PROVE  /\ k \in Keys
             /\ prev_snapshots[k]["cpu"] \in Nat
             /\ current_snapshots[k]["cpu"] \in Nat
  BY TableElim, CpuNat DEF Counted, ProcTypeOK
<1>2. ASSUME NEW k \in Counted
      PROVE  Usage(k) \in Nat
  BY <1>1, ProcessAssumption DEF Usage, AtMost
<1>3. ASSUME NEW k \in Counted
      PROVE  Average(k, uptime) \in Nat
  <2>. DEFINE start == IF Local /\ k \notin ended THEN profile.start[k] ELSE 0
              time  == current_snapshots[k]["cpu"]
  <2>1. start \in Nat /\ time \in Nat /\ uptime \in Nat
    BY <1>1, ProfileTyped, ProcessAssumption
  <2>. HIDE DEF start, time
  <2>2. ASSUME uptime > start
        PROVE  AtMost((100 * time) \div (uptime - start), 100) \in Nat
    <3>1. uptime - start \in Nat /\ uptime - start > 0 /\ 100 * time \in Nat
      BY <2>1, <2>2
    <3>2. (100 * time) \div (uptime - start) \in Nat
      BY <3>1, Quotient
    <3>. QED  BY <3>2 DEF AtMost
  <2>3. ASSUME start > 0
        PROVE  AtMost(time \div start, 100) \in Nat
    BY <2>1, <2>3, Quotient DEF AtMost
  <2>4. Average(k, uptime) =
          IF uptime > 0 /\ start > RemoteMax
          THEN IF uptime > start
               THEN AtMost((100 * time) \div (uptime - start), 100) ELSE 0
          ELSE IF start > 0 THEN AtMost(time \div start, 100) ELSE 0
    BY DEF Average, StartTime, start, time
  <2>. QED  BY <2>2, <2>3, <2>4
<1>4. ASSUME NEW k \in Counted
      PROVE  profile.rss[k] \in Nat /\ Audit(k) \in {"own", "none", "foreign"}
  BY <1>1, ProfileTyped DEF Audit
<1>. QED  BY <1>1, <1>2, <1>3, <1>4 DEF Rows, RowType

LEMMA ListTyped ==
  ASSUME config.count \in Nat, NEW rows, NEW key,
         NEW list \in TopLists(rows, key)
  PROVE  /\ list \in Seq(rows) /\ Len(list) <= config.count
         /\ DOMAIN list = 1..Len(list)
<1>1. PICK n \in 0..config.count : list \in [1..n -> rows]
  BY DEF TopLists
<1>2. list \in Seq(rows) /\ Len(list) = n
  BY <1>1
<1>. QED  BY <1>1, <1>2

LEMMA NoList ==
  ASSUME NEW S
  PROVE  <<>> \in Seq(S) /\ Len(<<>>) = 0
OBVIOUS

LEMMA NoTopTyped ==
  /\ DOMAIN NoTop = Lists
  /\ \A l \in Lists : NoTop[l] = <<>>
BY DEF NoTop, Lists

LEMMA TopsTyped ==
  ASSUME config.count \in Nat, NEW rows, NEW t \in Tops(rows)
  PROVE  /\ DOMAIN t = Lists
         /\ \A l \in Lists : /\ t[l] \in Seq(rows)
                             /\ Len(t[l]) <= config.count
<1>1. PICK cpu \in TopLists(rows, CpuKey), mem \in TopLists(rows, "rss") :
        t = [real_cpu |-> IF config.realtime_cpu THEN cpu ELSE <<>>,
             avg_cpu  |-> IF config.avg_cpu THEN cpu ELSE <<>>,
             real_mem |-> IF config.realtime_mem \/ config.avg_mem
                          THEN mem ELSE <<>>,
             avg_mem  |-> IF config.avg_mem THEN mem ELSE <<>>]
  BY DEF Tops
<1>2. \A l \in Lists : t[l] \in {cpu, mem, <<>>}
  BY <1>1 DEF Lists
<1>3. \A s \in {cpu, mem, <<>>} : s \in Seq(rows) /\ Len(s) <= config.count
  <2>1. ASSUME NEW s \in {cpu, mem}
        PROVE  s \in Seq(rows) /\ Len(s) <= config.count
    BY ListTyped
  <2>2. <<>> \in Seq(rows) /\ Len(<<>>) <= config.count
    BY NoList
  <2>. QED  BY <2>1, <2>2
<1>4. DOMAIN t = Lists
  BY <1>1 DEF Lists
<1>. QED  BY <1>2, <1>3, <1>4

\* What a reading is made of.
LEMMA ReadingTyped ==
  ASSUME CountersTypeOK, NEW table, NEW gone \in SUBSET Keys,
         NEW isWhole \in BOOLEAN, ReadData(table, gone, isWhole)
  PROVE  /\ table \in Tables
         /\ isWhole =>
              /\ \A k \in DOMAIN table :
                   IF k \in DOMAIN counter THEN table[k] = counter[k]
                                           ELSE table[k] = Zero
              /\ Shown(DOMAIN counter) \subseteq DOMAIN table
<1>1. DOMAIN counter \subseteq Keys /\ counter \in [DOMAIN counter -> Counts]
  BY TableElim DEF CountersTypeOK
<1>2. CASE Local
  <2>1. table = LocalTable(gone)
    BY <1>2 DEF ReadData
  <2>2. table \in [{j \in DOMAIN counter \cup gone : Visible(j)} -> Counts]
    BY <1>1, <2>1, ZeroCounts DEF LocalTable
  <2>3. table \in Tables
    BY <1>1, <2>2, TableIntro
  <2>. QED  BY <1>2, <2>1, <2>3 DEF LocalTable, Shown
<1>3. CASE ~Local
  <2>1. table = counter \/ (table \in BrokenReadings /\ ~isWhole)
    BY <1>3 DEF ReadData
  <2>2. table \in Tables
    BY <2>1, BrokenTable DEF CountersTypeOK
  <2>. QED  BY <2>1, <2>2 DEF Shown
<1>. QED  BY <1>2, <1>3

-----------------------------------------------------------------------------
LEMMA ProcStart == ProcInit => ProcInv
<1>. SUFFICES ASSUME ProcInit
              PROVE  ProcInv
  OBVIOUS
<1>1. CountersTypeOK
  BY CountersStart DEF ProcInit
<1>2. span \in [Keys -> Counts]
  BY ZeroCounts DEF ProcInit
<1>3. DOMAIN top = Lists
      /\ \A l \in Lists : /\ top[l] \in Seq(RowType)
                          /\ Len(top[l]) <= config.count
  <2>1. config.count \in Nat
    BY ProcessAssumption DEF ProcInit, ConfigType
  <2>2. <<>> \in Seq(RowType) /\ Len(<<>>) <= config.count
    BY <2>1, NoList
  <2>. QED  BY <2>2, NoTopTyped DEF ProcInit
<1>4. ProcTypeOK
  BY <1>1, <1>2, <1>3, EmptyTable DEF ProcInit, ProcTypeOK, CountersTypeOK
<1>. QED
  BY <1>4 DEF ProcInit, ProcInv, WaitInv, ReadInv, FreshInv, ResultInv

LEMMA ProcStep == ProcInv /\ [ProcNext]_procVars => ProcInv'
<1>. SUFFICES ASSUME ProcInv, [ProcNext]_procVars
              PROVE  ProcInv'
  OBVIOUS
<1>. USE DEF fixedVars, procHistory, countersVars
<1>t. ProcTypeOK /\ CountersTypeOK
  BY DEF ProcInv, ProcTypeOK, CountersTypeOK
<1>i. WaitInv /\ ReadInv /\ FreshInv /\ ResultInv
  BY DEF ProcInv
<1>1. CASE TakeInitialSnapshot
  <2>1. PICK gone \in SUBSET Keys, isWhole \in BOOLEAN,
             table \in BrokenReadings \cup {counter}
                         \cup {LocalTable(g) : g \in SUBSET Keys} :
          /\ ReadData(table, gone, isWhole)
          /\ prev_snapshots' = table
          /\ whole' = [whole EXCEPT !.prev = isWhole]
          /\ seen' = DOMAIN table
    BY <1>1 DEF TakeInitialSnapshot
  <2>2. /\ BeginHistory /\ pc' = "take_new_snapshot"
        /\ UNCHANGED <<config, profile, current_snapshots, ended,
                       time_delta_seconds, top, span, kept>>
    BY <1>1 DEF TakeInitialSnapshot
  <2>3. table \in Tables /\ DOMAIN table \subseteq Keys
    BY <1>t, <2>1, ReadingTyped, TableElim
  <2>4. whole' \in [prev : BOOLEAN, current : BOOLEAN]
        /\ whole'.prev = isWhole
    BY <1>t, <2>1 DEF ProcTypeOK
  <2>5. ProcTypeOK'
    BY <1>t, <2>1, <2>2, <2>3, <2>4, ReadingStep
    DEF ProcTypeOK, CountersTypeOK
  <2>6. WaitInv'
    <3>1. CASE isWhole
      <4>1. /\ \A k \in DOMAIN table \cap DOMAIN counter : table[k] = counter[k]
            /\ Shown(DOMAIN counter) \subseteq DOMAIN table
        BY <1>t, <2>1, <3>1, ReadingTyped
      <4>2. Tracks(table)' /\ steady' = DOMAIN counter
        BY <1>t, <2>2, <2>3, <4>1, ReadingStep
      <4>3. Tracks(prev_snapshots)'
        BY <2>1, <4>2 DEF Tracks
      <4>4. Shown(steady)' \subseteq DOMAIN prev_snapshots'
        BY <2>1, <2>2, <4>1, <4>2 DEF Shown, Local, Visible
      <4>. QED  BY <4>3, <4>4 DEF WaitInv
    <3>. QED  BY <2>4, <3>1 DEF WaitInv
  <2>. QED
    BY <2>2, <2>5, <2>6 DEF ProcInv, ReadInv, FreshInv, ResultInv
<1>2. CASE TakeNewSnapshot
  <2>1. PICK gone \in SUBSET Keys, isWhole \in BOOLEAN,
             table \in BrokenReadings \cup {counter}
                         \cup {LocalTable(g) : g \in SUBSET Keys} :
          /\ ReadData(table, gone, isWhole)
          /\ current_snapshots' = table
          /\ ended' = gone \cap DOMAIN table
          /\ whole' = [whole EXCEPT !.current = isWhole]
          /\ seen' = DOMAIN table
    BY <1>2 DEF TakeNewSnapshot
  <2>2. /\ BeginHistory /\ pc = "take_new_snapshot" /\ pc' = "calculate"
        /\ span' = moved /\ kept' = steady
        /\ time_delta_seconds' \in {0, 1}
        /\ UNCHANGED <<config, profile, prev_snapshots, top>>
    BY <1>2 DEF TakeNewSnapshot
  <2>3. table \in Tables /\ DOMAIN table \subseteq Keys
    BY <1>t, <2>1, ReadingTyped, TableElim
  <2>4. /\ whole' \in [prev : BOOLEAN, current : BOOLEAN]
        /\ whole'.current = isWhole /\ whole'.prev = whole.prev
    BY <1>t, <2>1 DEF ProcTypeOK
  <2>5. steady \subseteq Keys /\ steady \subseteq DOMAIN counter
    BY <1>t, TableElim DEF ProcTypeOK
  <2>6. ProcTypeOK'
    BY <1>t, <2>1, <2>2, <2>3, <2>4, <2>5, ReadingStep
    DEF ProcTypeOK, CountersTypeOK
  <2>w. ASSUME isWhole
        PROVE  /\ \A k \in DOMAIN table :
                    IF k \in DOMAIN counter THEN table[k] = counter[k]
                                            ELSE table[k] = Zero
               /\ Shown(DOMAIN counter) \subseteq DOMAIN table
    BY <1>t, <2>1, <2>w, ReadingTyped
  <2>7. ReadInv'
    <3>1. CASE isWhole /\ whole.prev
      <4>1. /\ Tracks(prev_snapshots)
            /\ Shown(steady) \subseteq DOMAIN prev_snapshots
        BY <1>i, <2>2, <3>1 DEF WaitInv
      <4>2. ASSUME NEW k \in DOMAIN prev_snapshots \cap DOMAIN table
            PROVE  /\ table[k]["cpu"] <= prev_snapshots[k]["cpu"]
                                           + moved[k]["cpu"]
                   /\ k \in steady => table[k]["cpu"] =
                        prev_snapshots[k]["cpu"] + moved[k]["cpu"]
        <5>1. CASE k \in DOMAIN counter
          BY <2>w, <3>1, <4>1, <5>1, ProcessAssumption DEF Tracks
        <5>2. CASE k \notin DOMAIN counter
          <6>1. table[k]["cpu"] = 0 /\ k \notin steady
            BY <2>w, <2>5, <3>1, <5>2, ProcessAssumption DEF Zero
          <6>2. prev_snapshots[k] \in Counts /\ moved[k] \in Counts
            BY <1>t, TableElim DEF ProcTypeOK
          <6>. QED  BY <6>1, <6>2, CpuNat
        <5>. QED  BY <5>1, <5>2
      <4>3. Spans'
        BY <2>1, <2>2, <4>2 DEF Spans
      <4>4. Shown(kept)' \subseteq
              DOMAIN prev_snapshots' \cap DOMAIN current_snapshots'
        BY <2>1, <2>2, <2>5, <2>w, <3>1, <4>1 DEF Shown, Local, Visible
      <4>. QED  BY <4>3, <4>4 DEF ReadInv
    <3>. QED  BY <2>4, <3>1 DEF ReadInv, BothWhole
  <2>8. FreshInv'
    <3>1. CASE isWhole
      <4>1. \A k \in DOMAIN table \cap DOMAIN counter : table[k] = counter[k]
        BY <2>w, <3>1
      <4>2. Tracks(table)' /\ steady' = DOMAIN counter
        BY <1>t, <2>2, <2>3, <4>1, ReadingStep
      <4>3. Tracks(current_snapshots)'
        BY <2>1, <4>2 DEF Tracks
      <4>4. Shown(steady)' \subseteq DOMAIN current_snapshots'
        BY <2>1, <2>2, <2>w, <3>1, <4>2 DEF Shown, Local, Visible
      <4>. QED  BY <2>1, <4>3, <4>4 DEF FreshInv
    <3>. QED  BY <2>1, <2>4, <3>1 DEF FreshInv
  <2>. QED
    BY <2>2, <2>6, <2>7, <2>8 DEF ProcInv, WaitInv, ResultInv
<1>3. CASE Calculate
  <2>1. PICK uptime \in Uptimes :
          top' \in IF time_delta_seconds = 0 THEN {NoTop}
                  ELSE Tops(Rows(uptime))
    BY <1>3 DEF Calculate
  <2>2. /\ pc = "calculate" /\ pc' = "commit"
        /\ UNCHANGED <<counter, moved, steady, config, profile, prev_snapshots,
                       current_snapshots, ended, time_delta_seconds, whole,
                       span, kept, seen>>
    BY <1>3 DEF Calculate
  <2>3. config.count \in Nat
    BY <1>t, ProcessAssumption DEF ProcTypeOK, ConfigType
  <2>4. DOMAIN top' = Lists
        /\ \A l \in Lists : /\ top'[l] \in Seq(RowType)
                            /\ Len(top'[l]) <= config.count
    <3>1. CASE time_delta_seconds = 0
      <4>1. <<>> \in Seq(RowType) /\ Len(<<>>) <= config.count
        BY <2>3, NoList
      <4>. QED  BY <2>1, <3>1, <4>1, NoTopTyped
    <3>2. CASE time_delta_seconds # 0
      <4>1. top' \in Tops(Rows(uptime)) /\ Rows(uptime) \subseteq RowType
        BY <1>t, <2>1, <3>2, RowsTyped
      <4>2. Seq(Rows(uptime)) \subseteq Seq(RowType)
        BY <4>1
      <4>. QED  BY <2>3, <4>1, <4>2, TopsTyped
    <3>. QED  BY <3>1, <3>2
  <2>5. ProcTypeOK'
    BY <1>t, <2>2, <2>4 DEF ProcTypeOK
  <2>6. ReadInv' /\ FreshInv'
    BY <1>i, <2>2
    DEF ReadInv, FreshInv, BothWhole, Spans, Tracks, Shown, Local, Visible
  <2>7. ResultInv'
    <3>1. (Tops(Rows(uptime)))' = Tops(Rows(uptime))
      BY <2>2
      DEF Tops, TopLists, CpuKey, Rows, Counted, Ignored, Usage, Average,
          StartTime, Audit, Local
    <3>. QED  BY <2>1, <2>2, <3>1 DEF ResultInv
  <2>. QED  BY <2>2, <2>5, <2>6, <2>7 DEF ProcInv, WaitInv
<1>4. CASE Commit
  <2>1. /\ pc = "commit" /\ pc' = "take_new_snapshot"
        /\ prev_snapshots' = current_snapshots
        /\ current_snapshots' = Empty
        /\ ended' = {}
        /\ whole' = [whole EXCEPT !.prev = whole.current]
        /\ span' = [k \in Keys |-> Zero]
        /\ kept' = {}
        /\ UNCHANGED <<counter, moved, steady, config, profile,
                       time_delta_seconds, top, seen>>
    BY <1>4 DEF Commit
  <2>2. /\ whole' \in [prev : BOOLEAN, current : BOOLEAN]
        /\ whole'.prev = whole.current
    BY <1>t, <2>1 DEF ProcTypeOK
  <2>3. ProcTypeOK'
    BY <1>t, <2>1, <2>2, ZeroCounts, EmptyTable DEF ProcTypeOK
  <2>4. WaitInv'
    BY <1>i, <2>1, <2>2 DEF WaitInv, FreshInv, Tracks, Shown, Local, Visible
  <2>. QED
    BY <2>1, <2>3, <2>4 DEF ProcInv, ReadInv, FreshInv, ResultInv
<1>5. CASE Kernel
  <2>1. /\ CountersNext
        /\ pc \in {"take_initial_snapshot", "take_new_snapshot"}
        /\ UNCHANGED <<config, profile, pc, prev_snapshots, current_snapshots,
                       ended, time_delta_seconds, top, whole, span, kept,
                       seen>>
    BY <1>5 DEF Kernel
  <2>2. ProcTypeOK'
    BY <1>t, <2>1, KernelStep DEF ProcTypeOK, CountersTypeOK
  <2>3. WaitInv'
    <3>1. Tracks(prev_snapshots) =>
            /\ \A k \in DOMAIN prev_snapshots \cap DOMAIN counter',
                  ch \in Channels :
                 /\ counter'[k][ch] <= prev_snapshots[k][ch] + moved'[k][ch]
                 /\ k \in steady' =>
                      counter'[k][ch] = prev_snapshots[k][ch] + moved'[k][ch]
            /\ steady' \subseteq steady
      BY <1>t, <2>1, KernelStep DEF ProcTypeOK, Tracks
    <3>2. Tracks(prev_snapshots) => Tracks(prev_snapshots)'
      BY <2>1, <3>1 DEF Tracks
    <3>3. Tracks(prev_snapshots) => Shown(steady)' \subseteq Shown(steady)
      BY <2>1, <3>1 DEF Shown, Local, Visible
    <3>. QED  BY <1>i, <2>1, <3>2, <3>3 DEF WaitInv
  <2>. QED
    BY <2>1, <2>2, <2>3 DEF ProcInv, ReadInv, FreshInv, ResultInv
<1>6. CASE UNCHANGED procVars
  <2>1. /\ UNCHANGED <<counter, moved, steady, config, profile, pc,
                       prev_snapshots, current_snapshots, ended,
                       time_delta_seconds, top, whole, span, kept, seen>>
    BY <1>6 DEF procVars
  <2>2. ProcTypeOK'
    BY <1>t, <2>1 DEF ProcTypeOK
  <2>3. WaitInv' /\ ReadInv' /\ FreshInv'
    BY <1>i, <2>1
    DEF WaitInv, ReadInv, FreshInv, BothWhole, Spans, Tracks, Shown, Local,
        Visible
  <2>4. ResultInv'
    <3>1. \A u \in Uptimes : (Tops(Rows(u)))' = Tops(Rows(u))
      BY <2>1
      DEF Tops, TopLists, CpuKey, Rows, Counted, Ignored, Usage, Average,
          StartTime, Audit, Local
    <3>. QED  BY <1>i, <2>1, <3>1 DEF ResultInv
  <2>. QED  BY <2>2, <2>3, <2>4 DEF ProcInv
<1>. QED  BY <1>1, <1>2, <1>3, <1>4, <1>5, <1>6 DEF ProcNext

LEMMA ProcInvariant == ProcSpec => []ProcInv
<1>. QED  BY ProcStart, ProcStep, PTL DEF ProcSpec

-----------------------------------------------------------------------------
\* A place on a list is a row of one of the processes in both readings.
LEMMA ListedRow ==
  ASSUME ProcInv, Published, NEW l \in Lists, NEW i \in DOMAIN top[l]
  PROVE  /\ top[l][i].pid \in Counted
         /\ top[l][i].cpu = Usage(top[l][i].pid)
<1>1. PICK uptime \in Uptimes : top \in Tops(Rows(uptime))
  BY DEF ProcInv, ResultInv, Published
<1>2. config.count \in Nat
  BY ProcessAssumption DEF ProcInv, ProcTypeOK, ConfigType
<1>3. top[l] \in Seq(Rows(uptime))
  BY <1>1, <1>2, TopsTyped
<1>4. top[l][i] \in Rows(uptime)
  BY <1>3
<1>. QED  BY <1>4 DEF Rows

\* The variables keep their shape and no list is longer than asked for.
THEOREM ProcTypeCorrect == ProcSpec => []ProcTypeOK
<1>1. ProcInv => ProcTypeOK
  BY DEF ProcInv
<1>. QED  BY <1>1, ProcInvariant, PTL

\* No process is shown with more than was used under its number, for any
\* processes that end, follow each other or are cut off in the reading.
THEOREM ProcUsageBounded == ProcSpec => []ProcNeverOverstated
<1>1. ASSUME ProcInv
      PROVE  ProcNeverOverstated
  <2>. SUFFICES ASSUME Published, BothWhole,
                       NEW l \in Lists, NEW i \in 1..config.count,
                       i <= Len(top[l])
                PROVE  top[l][i].cpu <= span[top[l][i].pid]["cpu"]
    BY DEF ProcNeverOverstated
  <2>1. i \in DOMAIN top[l]
    <3>1. top[l] \in Seq(RowType) /\ config.count \in Nat
      BY <1>1, ProcessAssumption DEF ProcInv, ProcTypeOK, ConfigType
    <3>. QED  BY <3>1
  <2>. DEFINE k == top[l][i].pid
  <2>2. k \in Counted /\ top[l][i].cpu = Usage(k)
    BY <1>1, <2>1, ListedRow
  <2>3. k \in DOMAIN prev_snapshots \cap DOMAIN current_snapshots
    BY <2>2 DEF Counted
  <2>4. current_snapshots[k]["cpu"] <= prev_snapshots[k]["cpu"]
                                         + span[k]["cpu"]
    BY <1>1, <2>3 DEF ProcInv, ReadInv, Published, Spans
  <2>5. /\ current_snapshots[k]["cpu"] \in Nat
        /\ prev_snapshots[k]["cpu"] \in Nat
        /\ span[k]["cpu"] \in Nat
    BY <1>1, <2>3, TableElim, CpuNat DEF ProcInv, ProcTypeOK
  <2>. QED  BY <2>2, <2>4, <2>5, ProcessAssumption DEF Usage, AtMost
<1>. QED  BY <1>1, ProcInvariant, PTL

\* Whoever ran all the time and is not listed used no more than any that is.
THEOREM ProcHeaviest == ProcSpec => []HeaviestListed
<1>1. ASSUME ProcInv
      PROVE  HeaviestListed
  <2>. SUFFICES ASSUME Published, BothWhole, config.realtime_cpu,
                       NEW k \in Keys, Eligible(k),
                       k \notin Listed("real_cpu")
                PROVE  /\ Len(top.real_cpu) = config.count
                       /\ \A i \in 1..config.count :
                            top.real_cpu[i].cpu >=
                              AtMost(span[k]["cpu"], Capacity)
    BY DEF HeaviestListed
  <2>1. PICK uptime \in Uptimes : top \in Tops(Rows(uptime))
    BY <1>1 DEF ProcInv, ResultInv, Published
  <2>2. top.real_cpu \in TopLists(Rows(uptime), "cpu")
    BY <2>1 DEF Tops, CpuKey
  <2>3. k \in DOMAIN prev_snapshots \cap DOMAIN current_snapshots
    BY <1>1 DEF ProcInv, ReadInv, Published, Shown, Eligible
  <2>4. k \in Counted
    BY <2>3 DEF Counted, Eligible
  <2>5. PICK row \in Rows(uptime) : row.pid = k /\ row.cpu = Usage(k)
    <3>. DEFINE r == [pid |-> k, cpu |-> Usage(k), avg |-> Average(k, uptime),
                      rss |-> profile.rss[k], audit |-> Audit(k)]
    <3>1. r \in Rows(uptime)
      BY <2>4 DEF Rows
    <3>2. r.pid = k /\ r.cpu = Usage(k)
      OBVIOUS
    <3>. QED  BY <3>1, <3>2
  <2>6. Usage(k) = AtMost(span[k]["cpu"], Capacity)
    <3>1. current_snapshots[k]["cpu"] = prev_snapshots[k]["cpu"]
                                          + span[k]["cpu"]
      BY <1>1, <2>3 DEF ProcInv, ReadInv, Published, Spans, Eligible
    <3>2. /\ current_snapshots[k]["cpu"] \in Nat
          /\ prev_snapshots[k]["cpu"] \in Nat
          /\ span[k]["cpu"] \in Nat
      BY <1>1, <2>3, TableElim, CpuNat DEF ProcInv, ProcTypeOK
    <3>3. /\ current_snapshots[k]["cpu"] >= prev_snapshots[k]["cpu"]
          /\ current_snapshots[k]["cpu"] - prev_snapshots[k]["cpu"] =
               span[k]["cpu"]
      BY <3>1, <3>2
    <3>. QED  BY <3>3 DEF Usage
  <2>7. ~ \E i \in DOMAIN top.real_cpu : top.real_cpu[i] = row
    BY <2>5 DEF Listed
  <2>8. /\ Len(top.real_cpu) = config.count
        /\ \A i \in DOMAIN top.real_cpu : top.real_cpu[i]["cpu"] >= row["cpu"]
    BY <2>2, <2>7 DEF TopLists
  <2>9. DOMAIN top.real_cpu = 1..config.count
    <3>1. config.count \in Nat
      BY <1>1, ProcessAssumption DEF ProcInv, ProcTypeOK, ConfigType
    <3>. QED  BY <2>2, <2>8, <3>1, ListTyped
  <2>. QED  BY <2>5, <2>6, <2>8, <2>9
<1>. QED  BY <1>1, ProcInvariant, PTL

\* No list shows a process the last reading did not find, or one of an
\* earlier tick.
THEOREM ProcOnlyCurrent == ProcSpec => []OnlyCurrent
<1>1. ASSUME ProcInv
      PROVE  OnlyCurrent
  <2>. SUFFICES ASSUME pc = "commit", NEW l \in Lists
                PROVE  /\ Listed(l) \subseteq seen
                       /\ time_delta_seconds = 0 => Listed(l) = {}
    BY DEF OnlyCurrent
  <2>1. CASE time_delta_seconds = 0
    <3>1. top[l] = <<>>
      BY <1>1, <2>1, NoTopTyped DEF ProcInv, ResultInv
    <3>2. Listed(l) = {}
      BY <3>1 DEF Listed
    <3>. QED  BY <3>2
  <2>2. CASE time_delta_seconds # 0
    <3>1. Published
      BY <1>1, <2>2 DEF ProcInv, ProcTypeOK, Published
    <3>2. \A i \in DOMAIN top[l] : top[l][i].pid \in Counted
      BY <1>1, <3>1, ListedRow
    <3>3. Counted \subseteq seen
      BY <1>1 DEF ProcInv, FreshInv, Counted
    <3>. QED  BY <2>2, <3>2, <3>3 DEF Listed
  <2>. QED  BY <2>1, <2>2
<1>. QED  BY <1>1, ProcInvariant, PTL
=============================================================================
