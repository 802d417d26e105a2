-------------------------- MODULE CpuPollingProofs --------------------------
(***************************************************************************)
(* Theorems about CpuPolling, for any cores and counters.                  *)
(***************************************************************************)
EXTENDS CpuPolling, CountersProofs, FiniteSetTheorems

\* What a whole reading was made of: one line for each label, in their order.
Made(snapshots, history) ==
  history.whole =>
    /\ history.labels \in Seq(DOMAIN history.table)
    /\ \A k \in DOMAIN history.table :
         \E i \in DOMAIN history.labels : history.labels[i] = k
    /\ \A i, j \in DOMAIN history.labels :
         i < j => history.labels[i] < history.labels[j]
    /\ snapshots = [i \in DOMAIN history.labels |->
                      history.table[history.labels[i]]]
    /\ 0 \in DOMAIN history.table

(***************************************************************************)
(* The inductive invariant: the lines without labels are those of the      *)
(* tables that the histories hold, and about these tables it says what     *)
(* NetPollingProofs says of the snapshots.                                 *)
(***************************************************************************)
MadeInv == Made(prev_snapshots, prev) /\ Made(current_snapshots, current)

WaitInv ==
  pc = "take_new_snapshot" /\ prev.whole =>
    Tracks(prev.table) /\ steady \subseteq DOMAIN prev.table

ReadInv ==
  pc \in {"calculate", "commit"} /\ prev.whole /\ current.whole =>
    /\ kept \subseteq DOMAIN prev.table \cap DOMAIN current.table
    /\ \A k \in kept, ch \in Channels :
         current.table[k][ch] = prev.table[k][ch] + span[k][ch]

FreshInv ==
  pc \in {"calculate", "commit"} /\ current.whole =>
    Tracks(current.table) /\ steady \subseteq DOMAIN current.table

ResultInv ==
  pc = "commit" =>
    cores = [i \in DOMAIN prev_snapshots \cap DOMAIN current_snapshots |->
               Row(prev_snapshots[i], current_snapshots[i])]

CpuInv == CpuTypeOK /\ MadeInv /\ WaitInv /\ ReadInv /\ FreshInv /\ ResultInv

-----------------------------------------------------------------------------
\* read_data gives lines of numbers, and histories that say how they were made.
LEMMA ReadDataStep ==
  ASSUME CountersTypeOK, 0 \in DOMAIN counter, NEW snapshots, NEW history,
         ReadData(snapshots, history)
  PROVE  /\ snapshots \in Seq(Counts) /\ history \in Histories
         /\ Made(snapshots, history)
         /\ history.whole => history.table = counter
<1>c. /\ DOMAIN counter \subseteq Keys
      /\ counter \in [DOMAIN counter -> Counts]
  BY TableElim DEF CountersTypeOK
<1>1. PICK labels \in Labels :
        \/ /\ snapshots = Lines(labels)
           /\ history = [table |-> counter, labels |-> labels, whole |-> TRUE]
        \/ /\ snapshots \in {<<>>} \cup BrokenOff(Lines(labels))
           /\ history = Nothing
  BY DEF ReadData
<1>2. Cardinality(DOMAIN counter) \in Nat
  BY <1>c, CpuAssumption, FS_Subset, FS_CardinalityType
<1>3. /\ labels \in [1..Cardinality(DOMAIN counter) -> DOMAIN counter]
      /\ \A k \in DOMAIN counter : \E i \in DOMAIN labels : labels[i] = k
      /\ \A i, j \in DOMAIN labels : i < j => labels[i] < labels[j]
  BY DEF Labels
<1>4. /\ labels \in Seq(DOMAIN counter) /\ labels \in Seq(Keys)
  BY <1>c, <1>2, <1>3
<1>5. /\ Lines(labels) \in [1..Cardinality(DOMAIN counter) -> Counts]
      /\ Lines(labels) \in Seq(Counts)
  BY <1>c, <1>2, <1>3 DEF Lines
<1>6. CASE /\ snapshots = Lines(labels)
           /\ history = [table |-> counter, labels |-> labels, whole |-> TRUE]
  <2>1. history \in Histories
    BY <1>4, <1>6 DEF Histories, CountersTypeOK
  <2>2. Made(snapshots, history)
    BY <1>3, <1>4, <1>6 DEF Made, Lines
  <2>. QED  BY <1>5, <1>6, <2>1, <2>2
<1>7. CASE /\ snapshots \in {<<>>} \cup BrokenOff(Lines(labels))
           /\ history = Nothing
  <2>1. history \in Histories /\ ~history.whole
    BY <1>7, EmptyTable DEF Histories, Nothing
  <2>2. CASE snapshots = <<>>
    BY <2>1, <2>2 DEF Made
  <2>3. CASE snapshots # <<>>
    <3>1. PICK n \in DOMAIN Lines(labels), cut \in Counts :
            snapshots = CutOff(Lines(labels), n, cut)
      BY <1>7, <2>3 DEF BrokenOff, Shortened
    <3>2. n \in Nat /\ 1..n \subseteq DOMAIN Lines(labels)
      BY <1>2, <1>5
    <3>3. snapshots \in [1..n -> Counts]
      BY <1>5, <3>1, <3>2 DEF CutOff
    <3>. QED  BY <2>1, <3>2, <3>3 DEF Made
  <2>. QED  BY <2>2, <2>3
<1>. QED  BY <1>1, <1>6, <1>7

LEMMA CountsOf ==
  ASSUME NEW c \in Counts
  PROVE  /\ c["user"] \in Nat /\ c["idle"] \in Nat /\ c["irq"] \in Nat
         /\ Total(c) \in Nat
BY CpuAssumption, CountsNat DEF Total

LEMMA RowType ==
  ASSUME NEW before \in Counts, NEW now \in Counts
  PROVE  Row(before, now) \in Rows
<1>1. CASE Regressed(before, now) \/ Total(now) = Total(before)
  BY <1>1 DEF Row, IdleRow, Rows
<1>2. CASE ~(Regressed(before, now) \/ Total(now) = Total(before))
  <2>1. /\ before["user"] \in Nat /\ before["idle"] \in Nat
        /\ now["user"] \in Nat /\ now["idle"] \in Nat
        /\ Total(before) \in Nat /\ Total(now) \in Nat
    BY CountsOf
  <2>2. /\ now["user"] - before["user"] \in Nat
        /\ now["idle"] - before["idle"] \in Nat
        /\ Total(now) - Total(before) \in Nat \ {0}
    BY <1>2, <2>1 DEF Regressed
  <2>. QED  BY <1>2, <2>2 DEF Row, Rows
<1>. QED  BY <1>1, <1>2

LEMMA CpuStart == CpuInit => CpuInv
<1>. SUFFICES ASSUME CpuInit
              PROVE  CpuInv
  OBVIOUS
<1>1. CountersTypeOK
  BY CountersStart DEF CpuInit
<1>2. span \in [Keys -> Counts]
  BY ZeroCounts DEF CpuInit
<1>3. Nothing \in Histories /\ ~Nothing.whole
  BY EmptyTable DEF Nothing, Histories
<1>4. CpuTypeOK
  BY <1>1, <1>2, <1>3 DEF CpuInit, CpuTypeOK, CountersTypeOK
<1>. QED
  BY <1>3, <1>4
  DEF CpuInit, CpuInv, MadeInv, Made, WaitInv, ReadInv, FreshInv, ResultInv

LEMMA CpuStep == CpuInv /\ [CpuNext]_cpuPollVars => CpuInv'
<1>. SUFFICES ASSUME CpuInv, [CpuNext]_cpuPollVars
              PROVE  CpuInv'
  OBVIOUS
<1>. USE DEF snapshotVars, historyVars, countersVars
<1>t. CpuTypeOK /\ CountersTypeOK /\ 0 \in DOMAIN counter
  BY DEF CpuInv, CpuTypeOK, CountersTypeOK
<1>i. MadeInv /\ WaitInv /\ ReadInv /\ FreshInv /\ ResultInv
  BY DEF CpuInv
<1>1. CASE TakeInitialSnapshot
  <2>1. /\ ReadData(prev_snapshots', prev')
        /\ BeginHistory /\ events' = 0 /\ pc' = "take_new_snapshot"
        /\ UNCHANGED <<current_snapshots, cores, current, span, kept>>
    BY <1>1 DEF TakeInitialSnapshot
  <2>2. /\ prev_snapshots' \in Seq(Counts) /\ prev' \in Histories
        /\ Made(prev_snapshots', prev')
        /\ prev'.whole => prev'.table = counter
    BY <1>t, <2>1, ReadDataStep
  <2>3. CpuTypeOK'
    BY <1>t, <2>1, <2>2, ReadingStep
    DEF CpuTypeOK, CountersTypeOK, BeginHistory
  <2>4. MadeInv'
    BY <1>i, <2>1, <2>2 DEF MadeInv, Made
  <2>5. WaitInv'
    BY <1>t, <2>1, <2>2, ReadingStep
    DEF WaitInv, Tracks, CountersTypeOK, BeginHistory
  <2>. QED  BY <2>1, <2>3, <2>4, <2>5 DEF CpuInv, ReadInv, FreshInv, ResultInv
<1>2. CASE TakeNewSnapshot
  <2>1. /\ ReadData(current_snapshots', current')
        /\ span' = moved /\ kept' = steady
        /\ BeginHistory /\ events' = 0
        /\ pc = "take_new_snapshot" /\ pc' = "calculate"
        /\ UNCHANGED <<prev_snapshots, cores, prev>>
    BY <1>2 DEF TakeNewSnapshot
  <2>2. /\ current_snapshots' \in Seq(Counts) /\ current' \in Histories
        /\ Made(current_snapshots', current')
        /\ current'.whole => current'.table = counter
    BY <1>t, <2>1, ReadDataStep
  <2>3. steady \subseteq Keys
    BY <1>t, TableElim DEF CountersTypeOK
  <2>4. CpuTypeOK'
    BY <1>t, <2>1, <2>2, <2>3, ReadingStep
    DEF CpuTypeOK, CountersTypeOK, BeginHistory
  <2>5. MadeInv'
    BY <1>i, <2>1, <2>2 DEF MadeInv, Made
  <2>6. ReadInv'
    BY <1>t, <1>i, <2>1, <2>2 DEF ReadInv, WaitInv, Tracks, CountersTypeOK
  <2>7. FreshInv'
    BY <1>t, <2>1, <2>2, ReadingStep
    DEF FreshInv, Tracks, CountersTypeOK, BeginHistory
  <2>. QED
    BY <2>1, <2>4, <2>5, <2>6, <2>7 DEF CpuInv, WaitInv, ResultInv
<1>3. CASE Calculate
  <2>. DEFINE D == DOMAIN prev_snapshots \cap DOMAIN current_snapshots
  <2>1. /\ pc = "calculate" /\ pc' = "commit"
        /\ cores' = [i \in D |->
                       Row(prev_snapshots[i], current_snapshots[i])]
        /\ UNCHANGED <<counter, moved, steady, prev_snapshots,
                       current_snapshots, events, prev, current, span, kept>>
    BY <1>3 DEF Calculate
  <2>2. cores' \in Seq(Rows)
    <3>1. PICK m, n \in Nat :
            /\ DOMAIN prev_snapshots = 1..m
            /\ DOMAIN current_snapshots = 1..n
      BY <1>t DEF CpuTypeOK
    <3>2. \E l \in Nat : D = 1..l
      <4>1. CASE m <= n
        BY <3>1, <4>1
      <4>2. CASE n <= m
        BY <3>1, <4>2
      <4>. QED  BY <4>1, <4>2
    <3>3. \A i \in D :
            prev_snapshots[i] \in Counts /\ current_snapshots[i] \in Counts
      BY <1>t DEF CpuTypeOK
    <3>4. cores' \in [D -> Rows]
      BY <2>1, <3>3, RowType
    <3>5. PICK l \in Nat : D = 1..l
      BY <3>2
    <3>6. cores' \in [1..l -> Rows]
      BY <3>4, <3>5
    <3>. QED  BY <3>6
  <2>3. CpuTypeOK'
    BY <1>t, <2>1, <2>2 DEF CpuTypeOK
  <2>4. MadeInv' /\ ReadInv' /\ FreshInv'
    BY <1>i, <2>1 DEF MadeInv, Made, ReadInv, FreshInv, Tracks
  <2>5. ResultInv'
    BY <2>1 DEF ResultInv
  <2>. QED  BY <2>1, <2>3, <2>4, <2>5 DEF CpuInv, WaitInv
<1>4. CASE Commit
  <2>1. /\ pc = "commit" /\ pc' = "take_new_snapshot"
        /\ prev_snapshots' = current_snapshots
        /\ prev' = current
        /\ EndHistory
        /\ UNCHANGED <<counter, moved, steady, current_snapshots, cores,
                       events>>
    BY <1>4 DEF Commit
  <2>2. Nothing \in Histories /\ ~Nothing.whole
    BY EmptyTable DEF Nothing, Histories
  <2>3. CpuTypeOK'
    BY <1>t, <2>1, <2>2, ZeroCounts DEF CpuTypeOK, EndHistory
  <2>4. MadeInv'
    BY <1>i, <2>1, <2>2 DEF MadeInv, Made, EndHistory
  <2>5. WaitInv'
    BY <1>i, <2>1 DEF WaitInv, FreshInv, Tracks
  <2>. QED  BY <2>1, <2>3, <2>4, <2>5 DEF CpuInv, ReadInv, FreshInv, ResultInv
<1>5. CASE Kernel
  <2>1. /\ CountersNext /\ 0 \in DOMAIN counter' /\ events' = events + 1
        /\ pc \in {"take_initial_snapshot", "take_new_snapshot"}
        /\ UNCHANGED <<pc, prev_snapshots, current_snapshots, cores, prev,
                       current, span, kept>>
    BY <1>5 DEF Kernel
  <2>2. CpuTypeOK'
    BY <1>t, <2>1, KernelStep DEF CpuTypeOK, CountersTypeOK
  <2>3. WaitInv'
    <3>1. prev.table \in Tables
      BY <1>t DEF CpuTypeOK, Histories
    <3>2. Tracks(prev.table) =>
            /\ \A k \in DOMAIN prev.table \cap DOMAIN counter',
                  ch \in Channels :
                 /\ counter'[k][ch] <= prev.table[k][ch] + moved'[k][ch]
                 /\ k \in steady' =>
                      counter'[k][ch] = prev.table[k][ch] + moved'[k][ch]
            /\ steady' \subseteq steady
      BY <1>t, <2>1, <3>1, KernelStep DEF Tracks
    <3>. QED  BY <1>i, <2>1, <3>2 DEF WaitInv, Tracks
  <2>4. MadeInv'
    BY <1>i, <2>1 DEF MadeInv, Made
  <2>. QED
    BY <2>1, <2>2, <2>3, <2>4 DEF CpuInv, ReadInv, FreshInv, ResultInv
<1>6. CASE UNCHANGED cpuPollVars
  <2>1. UNCHANGED <<counter, moved, steady, pc, prev_snapshots,
                    current_snapshots, cores, events, prev, current, span,
                    kept>>
    BY <1>6 DEF cpuPollVars
  <2>2. CpuTypeOK'
    BY <1>t, <2>1 DEF CpuTypeOK
  <2>3. MadeInv' /\ WaitInv' /\ ReadInv' /\ FreshInv'
    BY <1>i, <2>1 DEF MadeInv, Made, WaitInv, ReadInv, FreshInv, Tracks
  <2>4. ResultInv'
    BY <1>i, <2>1 DEF ResultInv
  <2>. QED  BY <2>2, <2>3, <2>4 DEF CpuInv
<1>. QED  BY <1>1, <1>2, <1>3, <1>4, <1>5, <1>6 DEF CpuNext

LEMMA CpuInvariant == CpuSpec => []CpuInv
<1>. QED  BY CpuStart, CpuStep, PTL DEF CpuSpec

-----------------------------------------------------------------------------
\* Every variable keeps its shape, no part of a load is negative and none is
\* divided by zero, whatever is read (calculate).
THEOREM CpuTypeCorrect == CpuSpec => []CpuTypeOK
<1>1. CpuInv => CpuTypeOK
  BY DEF CpuInv
<1>. QED  BY <1>1, CpuInvariant, PTL

\* The row of a line that is in both readings at the same place.
LEMMA RowIsExact ==
  ASSUME CpuInv, Published, NEW k \in kept,
         NEW i \in DOMAIN prev.labels \cap DOMAIN current.labels,
         prev.labels[i] = k, current.labels[i] = k
  PROVE  i \in DOMAIN cores /\ cores[i] = RowOf(k)
<1>1. /\ CpuTypeOK /\ prev.whole /\ current.whole
      /\ Made(prev_snapshots, prev) /\ Made(current_snapshots, current)
  BY DEF CpuInv, MadeInv, Published
<1>2. /\ i \in DOMAIN prev_snapshots /\ prev_snapshots[i] = prev.table[k]
      /\ i \in DOMAIN current_snapshots
      /\ current_snapshots[i] = current.table[k]
  BY <1>1 DEF Made
<1>3. /\ i \in DOMAIN cores
      /\ cores[i] = Row(prev.table[k], current.table[k])
  BY <1>2 DEF CpuInv, ResultInv, Published
<1>4. /\ k \in DOMAIN prev.table /\ k \in DOMAIN current.table
      /\ \A ch \in Channels :
           current.table[k][ch] = prev.table[k][ch] + span[k][ch]
  BY DEF CpuInv, ReadInv, Published
<1>5. /\ prev.table[k] \in Counts /\ current.table[k] \in Counts
      /\ span[k] \in Counts
  BY <1>1, <1>4, TableElim DEF CpuTypeOK, Histories
<1>. DEFINE a == prev.table[k]
            b == current.table[k]
            s == span[k]
<1>6. /\ b["user"] = a["user"] + s["user"]
      /\ b["idle"] = a["idle"] + s["idle"]
      /\ b["irq"] = a["irq"] + s["irq"]
  BY <1>4, CpuAssumption
<1>7. /\ a["user"] \in Nat /\ a["idle"] \in Nat /\ a["irq"] \in Nat
      /\ s["user"] \in Nat /\ s["idle"] \in Nat /\ s["irq"] \in Nat
  BY <1>5, CountsOf
<1>8. /\ Total(b) = Total(a) + Total(s)
      /\ ~Regressed(a, b)
      /\ Total(a) \in Nat /\ Total(s) \in Nat
  BY <1>6, <1>7 DEF Total, Regressed
<1>9. Row(a, b) = RowOf(k)
  <2>1. Total(b) = Total(a) <=> Total(s) = 0
    BY <1>8
  <2>2. /\ b["user"] - a["user"] = s["user"]
        /\ b["idle"] - a["idle"] = s["idle"]
        /\ Total(b) - Total(a) = Total(s)
    BY <1>6, <1>7, <1>8
  <2>. QED  BY <1>8, <2>1, <2>2 DEF Row, RowOf
<1>. QED  BY <1>3, <1>9

\* A core that was on all the time and whose line did not move has a row that
\* says exactly what it spent.
THEOREM CoresExact == CpuSpec => []UnmovedCoresExact
<1>1. CpuInv => UnmovedCoresExact
  BY RowIsExact DEF UnmovedCoresExact
<1>. QED  BY <1>1, CpuInvariant, PTL

\* The line of the sum is the first of every whole reading.
LEMMA SumIsFirst ==
  ASSUME NEW snapshots, NEW history \in Histories,
         Made(snapshots, history), history.whole
  PROVE  1 \in DOMAIN history.labels /\ history.labels[1] = 0
<1>1. PICK i \in DOMAIN history.labels : history.labels[i] = 0
  BY DEF Made
<1>2. 1 \in DOMAIN history.labels /\ i \in Nat /\ 1 <= i
  BY DEF Histories
<1>3. history.labels[1] \in Nat
  <2>1. history.labels \in Seq(Keys)
    BY DEF Histories
  <2>2. history.labels[1] \in Keys
    BY <1>2, <2>1
  <2>. QED  BY <2>2, CpuAssumption
<1>4. ~(1 < i)
  BY <1>1, <1>2, <1>3 DEF Made
<1>. QED  BY <1>1, <1>2, <1>4

\* The load of all cores together is exactly what was spent, whatever cores are
\* switched on and off.
THEOREM SumExact == CpuSpec => []AggregateExact
<1>1. ASSUME CpuInv, Published, 0 \in kept
      PROVE  1 \in DOMAIN cores /\ cores[1] = RowOf(0)
  <2>1. /\ 1 \in DOMAIN prev.labels /\ prev.labels[1] = 0
        /\ 1 \in DOMAIN current.labels /\ current.labels[1] = 0
    BY <1>1, SumIsFirst DEF CpuInv, CpuTypeOK, MadeInv, Published
  <2>. QED  BY <1>1, <2>1, RowIsExact
<1>2. CpuInv => AggregateExact
  BY <1>1 DEF AggregateExact
<1>. QED  BY <1>2, CpuInvariant, PTL
=============================================================================
