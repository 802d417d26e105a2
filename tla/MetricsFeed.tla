---------------------------- MODULE MetricsFeed -----------------------------
(***************************************************************************)
(* What telemetry promises to whoever reads its output, without files,     *)
(* ticks, sessions or loops: at every moment one list of tasks is in       *)
(* force, the list is only ever exchanged as a whole and for one that was  *)
(* offered, and a published document has exactly one entry per task in     *)
(* force, in their order.  A change that breaks off leaves a beginning of  *)
(* the new list in force, never a part of the old one.                     *)
(***************************************************************************)
EXTENDS Integers, Sequences

CONSTANTS
  Lists    \* the lists of tasks a configuration can ask for

VARIABLES
  over,    \* the program has ended
  demand,  \* the tasks in force
  feed     \* the tasks the last document reported on

feedVars == <<over, demand, feed>>

FeedInit ==
  /\ over = FALSE
  /\ demand = << >>
  /\ feed = << >>

Adopt ==
  /\ ~over
  /\ demand' \in Lists
  /\ UNCHANGED <<over, feed>>

BreakOff ==
  /\ ~over
  /\ \E n \in 1..Len(demand) : demand' = SubSeq(demand, 1, n)
  /\ UNCHANGED <<over, feed>>

Publish ==
  /\ ~over
  /\ feed' = demand
  /\ UNCHANGED <<over, demand>>

Finish ==
  /\ ~over
  /\ over' = TRUE
  /\ UNCHANGED <<demand, feed>>

FeedNext == Adopt \/ BreakOff \/ Publish \/ Finish

FeedSpec == FeedInit /\ [][FeedNext]_feedVars
=============================================================================
