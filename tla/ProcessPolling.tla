--------------------------- MODULE ProcessPolling ---------------------------
(***************************************************************************)
(* ProcessPollingTask (src/systeminfo/processinfo.cpp): the lists of the   *)
(* processes that use most, from two readings of the process table, over   *)
(* the life of one task.  A process number may be given to another process *)
(* between the readings, and a process may end while it is being read.     *)
(*                                                                         *)
(* Usage is kept in clock ticks and averages in whole percent.             *)
(***************************************************************************)
EXTENDS Counters, Sequences

CONSTANTS
  Configs,    \* what the constructor may be given, see ConfigType
  Profiles,   \* what is known of each process number, see ProfileType
  Capacity,   \* total_jiffies_available: what one core does in an interval
  RemoteMax,  \* 100000 in the code: a start time up to it counts as remote
  Uptimes     \* what /proc/uptime may say; 0 when it cannot be read

ConfigType ==
  [provider : {"local", "ssh"}, count : Nat, only_user : BOOLEAN,
   realtime_cpu : BOOLEAN, avg_cpu : BOOLEAN,
   realtime_mem : BOOLEAN, avg_mem : BOOLEAN]

ProfileType ==
  [rss : [Keys -> Nat], start : [Keys -> Nat], mine : SUBSET Keys,
   ignored : SUBSET Keys,  \* on the ignore list
   here : SUBSET Keys]     \* numbers of processes of the local machine too

ASSUME ProcessAssumption ==
  /\ Channels = {"cpu"}
  /\ \A c \in Configs : c \in ConfigType
  /\ \A p \in Profiles : p \in ProfileType
  /\ Capacity \in Nat /\ RemoteMax \in Nat
  /\ Uptimes \subseteq Nat

VARIABLES
  config,             \* provider and settings, fixed for the life of the task
  profile,            \* the processes, fixed for the sake of the model
  pc,                 \* the call that comes next
  prev_snapshots,     \* process number |-> cumulative time
  current_snapshots,
  ended,              \* those of the current snapshot that ended while they
                      \* were read: no name, no time, no start
  time_delta_seconds, \* 0, or 1 for any positive time
  top,                \* the four lists of SystemMetrics
  whole,              \* history: both readings are whole
  span, kept,         \* history: as in NetPolling
  seen                \* history: the processes in the last reading

fixedVars   == <<config, profile>>
procHistory == <<whole, span, kept, seen>>
procVars    == <<countersVars, fixedVars, pc, prev_snapshots,
                 current_snapshots, ended, time_delta_seconds, top,
                 procHistory>>

Local == config.provider = "local"
NoTop == [real_cpu |-> <<>>, avg_cpu |-> <<>>, real_mem |-> <<>>,
          avg_mem |-> <<>>]

ProcInit ==
  /\ CountersInit
  /\ config \in Configs
  /\ profile \in Profiles
  /\ pc = "take_initial_snapshot"
  /\ prev_snapshots = Empty
  /\ current_snapshots = Empty
  /\ ended = {}
  /\ time_delta_seconds \in {0, 1}
  /\ top = NoTop
  /\ whole = [prev |-> FALSE, current |-> FALSE]
  /\ span = [k \in Keys |-> Zero]
  /\ kept = {}
  /\ seen = {}

-----------------------------------------------------------------------------
(* Readings.                                                                *)

\* A process is skipped if it holds no memory, or belongs to somebody else and
\* only one's own are asked for.
Visible(k) ==
  /\ profile.rss[k] > 0
  /\ config.only_user => k \in profile.mine

\* The walk over /proc; of a process in gone only the memory could be read.
LocalTable(gone) ==
  [k \in {j \in DOMAIN counter \cup gone : Visible(j)} |->
     IF k \in DOMAIN counter THEN counter[k] ELSE Zero]

\* get_process_snapshots: the table, who of it ended, and whether it is whole.
ReadData(table, gone, isWhole) ==
  \/ /\ Local /\ isWhole
     /\ gone \in SUBSET (Keys \ DOMAIN counter)
     /\ table = LocalTable(gone)
  \/ /\ ~Local /\ gone = {}
     /\ \/ table = counter /\ isWhole
        \/ table \in BrokenReadings /\ ~isWhole

TakeInitialSnapshot ==
  /\ pc = "take_initial_snapshot"
  /\ \E gone \in SUBSET Keys, isWhole \in BOOLEAN,
        table \in BrokenReadings \cup {counter}
                    \cup {LocalTable(g) : g \in SUBSET Keys} :
       /\ ReadData(table, gone, isWhole)
       /\ prev_snapshots' = table
       /\ whole' = [whole EXCEPT !.prev = isWhole]
       /\ seen' = DOMAIN table
  /\ BeginHistory
  /\ pc' = "take_new_snapshot"
  /\ UNCHANGED <<fixedVars, current_snapshots, ended, time_delta_seconds, top,
                 span, kept>>

TakeNewSnapshot ==
  /\ pc = "take_new_snapshot"
  /\ time_delta_seconds' \in {0, 1}
  /\ \E gone \in SUBSET Keys, isWhole \in BOOLEAN,
        table \in BrokenReadings \cup {counter}
                    \cup {LocalTable(g) : g \in SUBSET Keys} :
       /\ ReadData(table, gone, isWhole)
       /\ current_snapshots' = table
       /\ ended' = gone \cap DOMAIN table
       /\ whole' = [whole EXCEPT !.current = isWhole]
       /\ seen' = DOMAIN table
  /\ span' = moved
  /\ kept' = steady
  /\ BeginHistory
  /\ pc' = "calculate"
  /\ UNCHANGED <<fixedVars, prev_snapshots, top>>

-----------------------------------------------------------------------------
(* calculate                                                                *)

AtMost(x, limit) == IF x <= limit THEN x ELSE limit

\* Mutant of Usage: the whole time of the process, not that of the interval.
UsageTotal(k) == AtMost(current_snapshots[k]["cpu"], Capacity)

Usage(k) ==
  LET prev    == prev_snapshots[k]["cpu"]
      current == current_snapshots[k]["cpu"]
  IN  IF current >= prev THEN AtMost(current - prev, Capacity) ELSE 0

\* Field 22 of /proc/<pid>/stat; nothing of a process that ended can be read,
\* and nothing fills it for a process of another machine.
StartTime(k) == IF Local /\ k \notin ended THEN profile.start[k] ELSE 0

\* The share of one core over the life of the process.  A start time up to
\* RemoteMax is taken for an elapsed time.  The difference to the uptime has no
\* sign in the code: a start in the future gives next to nothing.
Average(k, uptime) ==
  LET start == StartTime(k)
      time  == current_snapshots[k]["cpu"]
  IN  IF uptime > 0 /\ start > RemoteMax
      THEN IF uptime > start
           THEN AtMost((100 * time) \div (uptime - start), 100) ELSE 0
      ELSE IF start > 0 THEN AtMost(time \div start, 100) ELSE 0

\* The name of a remote process begins with its elapsed time: none is ignored.
Ignored(k) == Local /\ k \in profile.ignored \ ended

\* audit_process_list looks into the /proc of this machine, whatever machine
\* the process is on.
Audit(k) ==
  IF Local
  THEN IF k \in ended THEN "none" ELSE "own"
  ELSE IF k \in profile.here THEN "foreign" ELSE "none"

\* Those in both snapshots, the ignored ones left out.
Counted ==
  {k \in DOMAIN prev_snapshots \cap DOMAIN current_snapshots : ~Ignored(k)}

Rows(uptime) ==
  {[pid |-> k, cpu |-> Usage(k), avg |-> Average(k, uptime),
    rss |-> profile.rss[k], audit |-> Audit(k)] : k \in Counted}

\* Mutant of TopLists: the end of the list is one too far.
LongLists(rows, key) ==
  {list \in UNION {[1..n -> rows] : n \in 0..(config.count + 1)} :
     /\ \A i, j \in DOMAIN list : i < j => /\ list[i] # list[j]
                                           /\ list[i][key] >= list[j][key]
     /\ \A row \in rows : \/ \E i \in DOMAIN list : list[i] = row
                          \/ Len(list) = config.count + 1}

\* populate_top_ps: the first `count` rows in falling order.  The order among
\* equals is that of std::partial_sort or std::sort, which promise none.
TopLists(rows, key) ==
  {list \in UNION {[1..n -> rows] : n \in 0..config.count} :
     /\ \A i, j \in DOMAIN list : i < j => /\ list[i] # list[j]
                                           /\ list[i][key] >= list[j][key]
     /\ \A row \in rows : \/ \E i \in DOMAIN list : list[i] = row
                          \/ /\ Len(list) = config.count
                             /\ \A i \in DOMAIN list : list[i][key] >= row[key]}

\* Mutant of CpuKey: the order of the averages for both lists.
CpuKeyAvg == "avg"

\* With both lists asked for, the second is a copy of the first.
CpuKey == IF config.realtime_cpu THEN "cpu" ELSE "avg"

\* The steps of the pipeline.  The one for the memory fills the list of the
\* current usage even if only the other is asked for.
Tops(rows) ==
  {[real_cpu |-> IF config.realtime_cpu THEN cpu ELSE <<>>,
    avg_cpu  |-> IF config.avg_cpu THEN cpu ELSE <<>>,
    real_mem |-> IF config.realtime_mem \/ config.avg_mem THEN mem ELSE <<>>,
    avg_mem  |-> IF config.avg_mem THEN mem ELSE <<>>] :
     cpu \in TopLists(rows, CpuKey), mem \in TopLists(rows, "rss")}

\* Mutant of Calculate: the lists stay when no time has passed.
CalculateKeeps ==
  /\ pc = "calculate"
  /\ \E uptime \in Uptimes :
       top' \in IF time_delta_seconds = 0 THEN {top} ELSE Tops(Rows(uptime))
  /\ pc' = "commit"
  /\ UNCHANGED <<countersVars, fixedVars, prev_snapshots, current_snapshots,
                 ended, time_delta_seconds, procHistory>>

Calculate ==
  /\ pc = "calculate"
  /\ \E uptime \in Uptimes :
       top' \in IF time_delta_seconds = 0 THEN {NoTop} ELSE Tops(Rows(uptime))
  /\ pc' = "commit"
  /\ UNCHANGED <<countersVars, fixedVars, prev_snapshots, current_snapshots,
                 ended, time_delta_seconds, procHistory>>

\* The current snapshot is moved from; what happened before it is of no more
\* use.
Commit ==
  /\ pc = "commit"
  /\ prev_snapshots' = current_snapshots
  /\ current_snapshots' = Empty
  /\ ended' = {}
  /\ whole' = [whole EXCEPT !.prev = whole.current]
  /\ span' = [k \in Keys |-> Zero]
  /\ kept' = {}
  /\ pc' = "take_new_snapshot"
  /\ UNCHANGED <<countersVars, fixedVars, time_delta_seconds, top, seen>>

\* The processes go on while the task waits for its next reading.
Kernel ==
  /\ pc \in {"take_initial_snapshot", "take_new_snapshot"}
  /\ CountersNext
  /\ UNCHANGED <<fixedVars, pc, prev_snapshots, current_snapshots, ended,
                 time_delta_seconds, top, procHistory>>

ProcNext ==
  TakeInitialSnapshot \/ TakeNewSnapshot \/ Calculate \/ Commit \/ Kernel

ProcSpec == ProcInit /\ [][ProcNext]_procVars

-----------------------------------------------------------------------------
(* Properties.                                                              *)

RowType == [pid : Keys, cpu : Nat, avg : Nat, rss : Nat,
            audit : {"own", "none", "foreign"}]
Lists   == {"real_cpu", "avg_cpu", "real_mem", "avg_mem"}

\* Every variable keeps its shape; in particular no list is longer than asked
\* for (calculate, populate_top_ps).
ProcTypeOK ==
  /\ counter \in Tables
  /\ moved \in [Keys -> Counts]
  /\ steady \subseteq DOMAIN counter
  /\ config \in Configs
  /\ profile \in Profiles
  /\ pc \in {"take_initial_snapshot", "take_new_snapshot", "calculate",
             "commit"}
  /\ prev_snapshots \in Tables
  /\ current_snapshots \in Tables
  /\ ended \subseteq DOMAIN current_snapshots
  /\ time_delta_seconds \in {0, 1}
  /\ DOMAIN top = Lists
  /\ \A l \in Lists : /\ top[l] \in Seq(RowType)
                      /\ Len(top[l]) <= config.count
  /\ whole \in [prev : BOOLEAN, current : BOOLEAN]
  /\ span \in [Keys -> Counts]
  /\ kept \subseteq Keys
  /\ seen \subseteq Keys

Listed(l)  == {top[l][i].pid : i \in DOMAIN top[l]}
BothWhole  == whole.prev /\ whole.current
Published  == pc = "commit" /\ time_delta_seconds = 1
Eligible(k) == k \in kept /\ (Local => Visible(k)) /\ ~Ignored(k)

\* No process is shown with more than the owners of its number used between
\* the two readings, also if the number was given to another process in
\* between, or if a process ended while it was read (calculate).
ProcNeverOverstated ==
  Published /\ BothWhole =>
    \A l \in Lists, i \in 1..config.count :
      i <= Len(top[l]) => top[l][i].cpu <= span[top[l][i].pid]["cpu"]

\* A process that ran all the time and is not on the list of those that use
\* most used, up to one core, no more than any process on it, whatever ended,
\* was replaced or was ignored beside it (calculate, populate_top_ps).
HeaviestListed ==
  Published /\ BothWhole /\ config.realtime_cpu =>
    \A k \in Keys :
      Eligible(k) =>
        \/ k \in Listed("real_cpu")
        \/ /\ Len(top.real_cpu) = config.count
           /\ \A i \in 1..config.count :
                top.real_cpu[i].cpu >= AtMost(span[k]["cpu"], Capacity)

\* No list shows a process that the last reading did not find, and a tick
\* without time shows none at all rather than those of the tick before
\* (calculate).
OnlyCurrent ==
  pc = "commit" =>
    \A l \in Lists : /\ Listed(l) \subseteq seen
                     /\ time_delta_seconds = 0 => Listed(l) = {}
=============================================================================
