------------------------------ MODULE Counters ------------------------------
(***************************************************************************)
(* The kernel's counters that the polling tasks sample: /proc/net/dev,     *)
(* /proc/diskstats, /proc/<pid>/stat.  This is the world outside the       *)
(* program.  An entry (an interface, a device, a process) comes with       *)
(* counters at zero, counts, may start again from zero (a reset; a process *)
(* number that is used again) and goes.                                    *)
(*                                                                         *)
(* What really happened since the last reading is kept beside it, for the  *)
(* properties.                                                             *)
(***************************************************************************)
EXTENDS Naturals

CONSTANTS
  Keys,      \* interfaces, devices, process numbers
  Channels,  \* the counters of an entry, such as bytes received and sent
  MaxCount   \* bound: a counter, and what it counts between two readings

ASSUME CountersAssumption == MaxCount \in Nat

VARIABLES
  counter,  \* the entries that are there, with their counters
  moved,    \* history: what was really counted since the last reading
  steady    \* history: entries that were there without a break since then

countersVars == <<counter, moved, steady>>

Counts == [Channels -> 0..MaxCount]
Zero   == [ch \in Channels |-> 0]

\* What a table of entries looks like, whole or not.
Tables == UNION {[K -> Counts] : K \in SUBSET Keys}
Empty  == [k \in {} |-> Zero]

CountersInit ==
  /\ counter \in {[k \in K |-> Zero] : K \in SUBSET Keys}
  /\ moved = [k \in Keys |-> Zero]
  /\ steady = {}

Count(k, ch) ==
  /\ k \in DOMAIN counter
  /\ counter[k][ch] < MaxCount /\ moved[k][ch] < MaxCount
  /\ counter' = [counter EXCEPT ![k][ch] = @ + 1]
  /\ moved' = [moved EXCEPT ![k][ch] = @ + 1]
  /\ UNCHANGED steady

Restart(k) ==
  /\ k \in DOMAIN counter
  /\ counter' = [counter EXCEPT ![k] = Zero]
  /\ steady' = steady \ {k}
  /\ UNCHANGED moved

Come(k) ==
  /\ k \notin DOMAIN counter
  /\ counter' = [j \in DOMAIN counter \cup {k} |->
                   IF j = k THEN Zero ELSE counter[j]]
  /\ UNCHANGED <<moved, steady>>

Go(k) ==
  /\ k \in DOMAIN counter
  /\ counter' = [j \in DOMAIN counter \ {k} |-> counter[j]]
  /\ steady' = steady \ {k}
  /\ UNCHANGED moved

CountersNext ==
  \E k \in Keys : \/ Restart(k) \/ Come(k) \/ Go(k)
                  \/ \E ch \in Channels : Count(k, ch)

-----------------------------------------------------------------------------
(* A reading by the program.                                                *)

\* The tables that a reading may return instead of the whole one: nothing (no
\* file, no session), or an answer over SSH that breaks off: some entries are
\* missing and the last one may have lost digits or numbers.
BrokenReadings ==
  {Empty} \cup
  {[k \in K |-> IF k = last THEN cut ELSE counter[k]] :
     K \in SUBSET DOMAIN counter, last \in DOMAIN counter,
     cut \in {c \in Counts : \E k \in DOMAIN counter :
                                \A ch \in Channels : c[ch] <= counter[k][ch]}}

\* The histories start again at a reading.
BeginHistory ==
  /\ moved' = [k \in Keys |-> Zero]
  /\ steady' = DOMAIN counter
  /\ UNCHANGED counter
=============================================================================
