--------------------------- MODULE CountersProofs ---------------------------
(***************************************************************************)
(* Lemmas about Counters that the proofs about every polling task rest on. *)
(***************************************************************************)
EXTENDS Counters, TLAPS

CountersTypeOK ==
  /\ counter \in Tables
  /\ moved \in [Keys -> Counts]
  /\ steady \subseteq DOMAIN counter

\* What an earlier reading still says about the counters: an entry counted at
\* most what moved since, and exactly that if it was there all the time.
Tracks(table) ==
  \A k \in DOMAIN table \cap DOMAIN counter, ch \in Channels :
    /\ counter[k][ch] <= table[k][ch] + moved[k][ch]
    /\ k \in steady => counter[k][ch] = table[k][ch] + moved[k][ch]

LEMMA TableElim ==
  ASSUME NEW t \in Tables
  PROVE  DOMAIN t \subseteq Keys /\ t \in [DOMAIN t -> Counts]
BY DEF Tables

LEMMA TableIntro ==
  ASSUME NEW K \in SUBSET Keys, NEW t \in [K -> Counts]
  PROVE  t \in Tables
BY DEF Tables

LEMMA ZeroCounts == Zero \in Counts
BY CountersAssumption DEF Zero, Counts

LEMMA EmptyTable == Empty \in Tables /\ DOMAIN Empty = {}
<1>1. Empty \in [{} -> Counts]
  BY DEF Empty
<1>. QED  BY <1>1, TableIntro DEF Empty

LEMMA CountsNat ==
  ASSUME NEW c \in Counts, NEW ch \in Channels
  PROVE  c[ch] \in Nat /\ c[ch] <= MaxCount
BY CountersAssumption DEF Counts

LEMMA CountersStart == CountersInit => CountersTypeOK
<1>. SUFFICES ASSUME CountersInit
              PROVE  CountersTypeOK
  OBVIOUS
<1>1. PICK K \in SUBSET Keys : counter = [k \in K |-> Zero]
  BY DEF CountersInit
<1>2. counter \in [K -> Counts]
  BY <1>1, ZeroCounts
<1>3. moved \in [Keys -> Counts]
  BY ZeroCounts DEF CountersInit
<1>. QED  BY <1>2, <1>3, TableIntro DEF CountersInit, CountersTypeOK

\* A broken reading still is a table.
LEMMA BrokenTable ==
  ASSUME CountersTypeOK, NEW t \in BrokenReadings
  PROVE  t \in Tables
<1>1. CASE t = Empty
  BY <1>1, EmptyTable
<1>2. CASE t # Empty
  <2>1. PICK K \in SUBSET DOMAIN counter, last \in DOMAIN counter,
             cut \in Counts :
               t = [k \in K |-> IF k = last THEN cut ELSE counter[k]]
    BY <1>2 DEF BrokenReadings
  <2>2. DOMAIN counter \subseteq Keys /\ counter \in [DOMAIN counter -> Counts]
    BY TableElim DEF CountersTypeOK
  <2>3. t \in [K -> Counts] /\ K \in SUBSET Keys
    BY <2>1, <2>2
  <2>. QED  BY <2>3, TableIntro
<1>. QED  BY <1>1, <1>2

\* A step of the kernel keeps the types and what an earlier reading says.
LEMMA KernelStep ==
  ASSUME CountersTypeOK, CountersNext
  PROVE  /\ CountersTypeOK'
         /\ \A t \in Tables : Tracks(t) => Tracks(t)'
         /\ steady' \subseteq steady
<1>. USE DEF CountersTypeOK
<1>a. /\ DOMAIN counter \subseteq Keys
      /\ counter \in [DOMAIN counter -> Counts]
  BY TableElim
<1>1. ASSUME NEW k \in Keys, NEW ch \in Channels, Count(k, ch)
      PROVE  /\ CountersTypeOK'
             /\ \A t \in Tables : Tracks(t) => Tracks(t)'
             /\ steady' \subseteq steady
  <2>1. /\ k \in DOMAIN counter
        /\ counter[k] \in Counts /\ moved[k] \in Counts
        /\ counter[k][ch] < MaxCount /\ moved[k][ch] < MaxCount
        /\ counter' = [counter EXCEPT ![k] =
                         [counter[k] EXCEPT ![ch] = @ + 1]]
        /\ moved' = [moved EXCEPT ![k] = [moved[k] EXCEPT ![ch] = @ + 1]]
        /\ steady' = steady
    BY <1>1, <1>a DEF Count
  <2>2. /\ [counter[k] EXCEPT ![ch] = @ + 1] \in Counts
        /\ [moved[k] EXCEPT ![ch] = @ + 1] \in Counts
    BY <2>1, CountersAssumption DEF Counts
  <2>3. counter' \in [DOMAIN counter -> Counts]
    BY <1>a, <2>1, <2>2
  <2>4. moved' \in [Keys -> Counts]
    BY <2>1, <2>2
  <2>5. CountersTypeOK'
    BY <1>a, <2>1, <2>3, <2>4, TableIntro
  <2>6. ASSUME NEW t \in Tables, Tracks(t)
        PROVE  Tracks(t)'
    <3>1. ASSUME NEW j \in DOMAIN t \cap DOMAIN counter, NEW c \in Channels
          PROVE  /\ counter'[j][c] <= t[j][c] + moved'[j][c]
                 /\ j \in steady => counter'[j][c] = t[j][c] + moved'[j][c]
      <4>1. t[j] \in Counts /\ counter[j] \in Counts /\ moved[j] \in Counts
        BY <1>a, <3>1, TableElim
      <4>2. /\ t[j][c] \in Nat /\ counter[j][c] \in Nat
            /\ moved[j][c] \in Nat
        BY <4>1, CountsNat
      <4>3. /\ counter[j][c] <= t[j][c] + moved[j][c]
            /\ j \in steady => counter[j][c] = t[j][c] + moved[j][c]
        BY <2>6, <3>1 DEF Tracks
      <4>4. CASE j = k /\ c = ch
        <5>1. /\ counter'[j][c] = counter[j][c] + 1
              /\ moved'[j][c] = moved[j][c] + 1
          BY <1>a, <2>1, <4>1, <4>4 DEF Counts
        <5>. QED  BY <4>2, <4>3, <5>1
      <4>5. CASE ~(j = k /\ c = ch)
        <5>1. /\ counter'[j][c] = counter[j][c]
              /\ moved'[j][c] = moved[j][c]
          BY <1>a, <2>1, <4>1, <4>5 DEF Counts
        <5>. QED  BY <4>3, <5>1
      <4>. QED  BY <4>4, <4>5
    <3>2. DOMAIN counter' = DOMAIN counter
      BY <1>a, <2>3
    <3>. QED  BY <2>1, <3>1, <3>2 DEF Tracks
  <2>. QED  BY <2>1, <2>5, <2>6
<1>2. ASSUME NEW k \in Keys, Restart(k) \/ Come(k) \/ Go(k)
      PROVE  /\ CountersTypeOK'
             /\ \A t \in Tables : Tracks(t) => Tracks(t)'
             /\ steady' \subseteq steady
  <2>1. /\ moved' = moved /\ steady' \subseteq steady \ (IF k \in DOMAIN counter
                                                        THEN {k} ELSE {})
        /\ DOMAIN counter' \subseteq DOMAIN counter \cup {k}
        /\ steady' \subseteq DOMAIN counter'
        /\ \A j \in DOMAIN counter' :
             counter'[j] = Zero \/ (j # k /\ counter'[j] = counter[j])
        /\ \A j \in DOMAIN counter' : j # k => counter'[j] = counter[j]
        /\ k \in DOMAIN counter' => counter'[k] = Zero
        /\ counter' = [j \in DOMAIN counter' |-> counter'[j]]
    <3>1. CASE Restart(k)
      BY <1>a, <3>1 DEF Restart
    <3>2. CASE Come(k)
      BY <1>a, <3>2 DEF Come
    <3>3. CASE Go(k)
      BY <1>a, <3>3 DEF Go
    <3>. QED  BY <1>2, <3>1, <3>2, <3>3
  <2>2. \A j \in DOMAIN counter' : counter'[j] \in Counts
    BY <1>a, <2>1, ZeroCounts
  <2>3. counter' \in [DOMAIN counter' -> Counts]
    BY <2>1, <2>2
  <2>4. DOMAIN counter' \in SUBSET Keys
    BY <1>a, <2>1
  <2>5. CountersTypeOK'
    BY <2>1, <2>3, <2>4, TableIntro
  <2>6. ASSUME NEW t \in Tables, Tracks(t)
        PROVE  Tracks(t)'
    <3>1. ASSUME NEW j \in DOMAIN t \cap DOMAIN counter', NEW c \in Channels
          PROVE  /\ counter'[j][c] <= t[j][c] + moved[j][c]
                 /\ j \in steady' => counter'[j][c] = t[j][c] + moved[j][c]
      <4>1. CASE j = k
        <5>1. j \notin steady'
          BY <2>1, <4>1 DEF CountersTypeOK
        <5>2. counter'[j][c] = 0
          BY <2>1, <3>1, <4>1 DEF Zero
        <5>3. t[j] \in Counts /\ moved[j] \in Counts
          BY <3>1, TableElim
        <5>4. t[j][c] \in Nat /\ moved[j][c] \in Nat
          BY <5>3, CountsNat
        <5>. QED  BY <5>1, <5>2, <5>4
      <4>2. CASE j # k
        BY <2>1, <2>6, <3>1, <4>2 DEF Tracks
      <4>. QED  BY <4>1, <4>2
    <3>. QED  BY <2>1, <3>1 DEF Tracks
  <2>. QED  BY <2>1, <2>5, <2>6
<1>. QED  BY <1>1, <1>2 DEF CountersNext

\* From a reading on, the histories begin again, and any table with entries of
\* the whole one is tracked.
LEMMA ReadingStep ==
  ASSUME CountersTypeOK, BeginHistory
  PROVE  /\ CountersTypeOK'
         /\ steady' = DOMAIN counter
         /\ \A t \in Tables :
              (\A k \in DOMAIN t \cap DOMAIN counter : t[k] = counter[k])
                => Tracks(t)'
<1>a. /\ counter' = counter /\ steady' = DOMAIN counter
      /\ moved' = [k \in Keys |-> Zero]
      /\ counter \in [DOMAIN counter -> Counts] /\ DOMAIN counter \subseteq Keys
  BY TableElim DEF BeginHistory, CountersTypeOK
<1>1. CountersTypeOK'
  BY <1>a, ZeroCounts DEF CountersTypeOK
<1>2. ASSUME NEW t \in Tables,
             \A k \in DOMAIN t \cap DOMAIN counter : t[k] = counter[k]
      PROVE  Tracks(t)'
  <2>1. ASSUME NEW k \in DOMAIN t \cap DOMAIN counter, NEW ch \in Channels
        PROVE  counter[k][ch] = t[k][ch] + moved'[k][ch]
               /\ counter[k][ch] <= t[k][ch] + moved'[k][ch]
    <3>1. counter[k] \in Counts /\ t[k] = counter[k] /\ moved'[k][ch] = 0
      BY <1>a, <1>2, <2>1 DEF Zero
    <3>2. counter[k][ch] \in Nat
      BY <3>1, CountsNat
    <3>. QED  BY <3>1, <3>2
  <2>. QED  BY <1>a, <2>1 DEF Tracks
<1>. QED  BY <1>a, <1>1, <1>2
=============================================================================
