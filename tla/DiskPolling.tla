---------------------------- MODULE DiskPolling -----------------------------
(***************************************************************************)
(* DiskPollingTask (src/systeminfo/diskstat.cpp): the rates of block       *)
(* devices from two readings of /proc/diskstats, over the life of one      *)
(* task.  A device that a configured file system lies on is reported with  *)
(* that file system (disks), every other one in a table of its own         *)
(* (disk_io), unless a filter drops it.                                    *)
(*                                                                         *)
(* A rate is kept as its numerator, the bytes between the two readings.    *)
(***************************************************************************)
EXTENDS Counters, Sequences, FiniteSets

CONSTANTS
  Loopback,     \* devices with the major number 7
  Mapper,       \* devices whose name begins with "dm-"
  DigitEnd,     \* devices whose name ends with a digit
  NameOrder,    \* device |-> its place in the order of names
  MaxIo,        \* 100 in the code: disk_io grows to one entry more
  Storages,     \* storage tables of configuration files: what is written in
                \* filesystems, io_devices and filters
  DeviceFiles,  \* device files of the command line: the devices that their
                \* lines resolve to, in order
  Injected      \* contexts of inject_task

\* parse_settings: a context takes its file systems from a field that no
\* storage table fills, and its devices and filters from nowhere.
ParseSettings(storage) ==
  [storage |-> storage, filesystems |-> <<>>, io_devices |-> {},
   disk_stat_config |-> {}]

\* create_context_from_command: the context of a command has paths from its
\* device file only; one that does not resolve is left out with a message.
NothingWritten == [filesystems |-> <<>>, io_devices |-> {}, filters |-> {}]

CreateContextFromCommand(lines) ==
  [ParseSettings(NothingWritten) EXCEPT !.filesystems = lines]

Contexts ==
  {ParseSettings(s) : s \in Storages} \cup Injected \cup
  {CreateContextFromCommand(f) : f \in DeviceFiles}

ASSUME DiskAssumption ==
  /\ IsFiniteSet(Keys)
  /\ MaxIo \in Nat
  /\ \A c \in Contexts : /\ c.filesystems \in Seq(Keys)
                         /\ c.io_devices \subseteq Keys

VARIABLES
  pc,
  context,
  prev_snapshots,
  current_snapshots,
  time_delta_seconds,  \* 0, or 1 for any positive time
  disks,               \* metrics.disks: per path, the rates of its device
  disk_io,             \* metrics.disk_io: device |-> rates
  whole,               \* history: as in NetPolling
  span,
  kept

snapshotVars == <<prev_snapshots, current_snapshots>>
metricsVars  == <<disks, disk_io>>
historyVars  == <<whole, span, kept>>
diskPollVars == <<counter, moved, steady, pc, context, prev_snapshots,
                  current_snapshots, time_delta_seconds, disks, disk_io, whole,
                  span, kept>>

paths   == context.filesystems
Targets == {paths[i] : i \in DOMAIN paths}  \* target_kernel_names

\* kernel_to_device_map: of several paths to one device the last one wins.
Mapped(i) == \A j \in DOMAIN paths : paths[j] = paths[i] => j <= i

\* Mutant of Keep: the devices of the configured file systems go through the
\* filters like all others.
KeepUntargeted(d) ==
  IF context.io_devices # {}
  THEN d \in context.io_devices
  ELSE /\ d \in Loopback => "Loopback" \in context.disk_stat_config
       /\ d \in Mapper   => "MapperDevices" \in context.disk_stat_config
       /\ d \in DigitEnd => "Partitions" \in context.disk_stat_config

\* The four rules of read_data: targets and named devices always, then nothing
\* else if devices are named, then whatever no filter drops.
Keep(d) ==
  \/ d \in Targets
  \/ d \in context.io_devices
  \/ /\ context.io_devices = {}
     /\ d \in Loopback => "Loopback" \in context.disk_stat_config
     /\ d \in Mapper   => "MapperDevices" \in context.disk_stat_config
     /\ d \in DigitEnd => "Partitions" \in context.disk_stat_config

Filter(table) == [d \in {k \in DOMAIN table : Keep(k)} |-> table[d]]

-----------------------------------------------------------------------------
DiskInit ==
  /\ CountersInit
  /\ pc = "take_initial_snapshot"
  /\ context \in Contexts
  /\ prev_snapshots = Empty
  /\ current_snapshots = Empty
  /\ time_delta_seconds \in {0, 1}
  /\ disks = [i \in DOMAIN paths |-> Zero]
  /\ disk_io = Empty
  /\ whole = [prev |-> FALSE, current |-> FALSE]
  /\ span = [k \in Keys |-> Zero]
  /\ kept = {}

\* A reading that is not whole: entries are missing, and the last line may have
\* been cut anywhere, also inside the name: what follows the cut keeps the
\* values of uninitialized variables.
CutOff(K, last, cut) ==
  [k \in K \cup {last} |-> IF k = last THEN cut ELSE counter[k]]

BrokenTables ==
  {Empty} \cup
  {CutOff(K, last, cut) :
     K \in SUBSET DOMAIN counter, last \in Keys, cut \in Counts}

\* read_data, and whether the table was whole.
ReadData(table, isWhole) ==
  \/ table = Filter(counter) /\ isWhole
  \/ (\E broken \in BrokenTables : table = Filter(broken)) /\ ~isWhole

Readings == {Filter(t) : t \in BrokenTables \cup {counter}}

TakeInitialSnapshot ==
  /\ pc = "take_initial_snapshot"
  /\ \E isWhole \in BOOLEAN, table \in Readings :
       /\ ReadData(table, isWhole)
       /\ prev_snapshots' = table
       /\ whole' = [whole EXCEPT !.prev = isWhole]
  /\ BeginHistory
  /\ pc' = "take_new_snapshot"
  /\ UNCHANGED <<context, current_snapshots, time_delta_seconds, metricsVars,
                 span, kept>>

TakeNewSnapshot ==
  /\ pc = "take_new_snapshot"
  /\ time_delta_seconds' \in {0, 1}
  /\ \E isWhole \in BOOLEAN, table \in Readings :
       /\ ReadData(table, isWhole)
       /\ current_snapshots' = table
       /\ whole' = [whole EXCEPT !.current = isWhole]
  /\ span' = moved
  /\ kept' = steady
  /\ BeginHistory
  /\ pc' = "calculate"
  /\ UNCHANGED <<context, prev_snapshots, metricsVars>>

\* Mutant of Rate: without the test for a counter that started again.
RateUnchecked(d) ==
  [ch \in Channels |-> current_snapshots[d][ch] - prev_snapshots[d][ch]]

\* A counter that went back gives the rate 0.
Rate(d) ==
  [ch \in Channels |->
     IF current_snapshots[d][ch] >= prev_snapshots[d][ch]
     THEN current_snapshots[d][ch] - prev_snapshots[d][ch] ELSE 0]

InBoth == DOMAIN prev_snapshots \cap DOMAIN current_snapshots

\* The loop over the current snapshot, in the order of names, is left when it
\* meets another device without a path although disk_io is over its limit.
Reached ==
  {d \in InBoth :
     Cardinality({e \in InBoth \ Targets : NameOrder[e] <= NameOrder[d]})
       <= MaxIo + 1}

\* Mutant of Calculate: the rates of configured devices are not reset.
CalculateKeeps ==
  /\ pc = "calculate"
  /\ disk_io' = IF time_delta_seconds = 0 THEN Empty
                ELSE [d \in Reached \ Targets |-> Rate(d)]
  /\ disks' = IF time_delta_seconds = 0 THEN disks
              ELSE [i \in DOMAIN paths |->
                      IF Mapped(i) /\ paths[i] \in Reached
                      THEN Rate(paths[i]) ELSE disks[i]]
  /\ pc' = "commit"
  /\ UNCHANGED <<countersVars, context, snapshotVars, time_delta_seconds,
                 historyVars>>

\* Without a positive time disk_io is emptied but disks keeps its old rates.
Calculate ==
  /\ pc = "calculate"
  /\ disk_io' = IF time_delta_seconds = 0 THEN Empty
                ELSE [d \in Reached \ Targets |-> Rate(d)]
  /\ disks' = IF time_delta_seconds = 0 THEN disks
              ELSE [i \in DOMAIN paths |->
                      IF Mapped(i) /\ paths[i] \in Reached
                      THEN Rate(paths[i]) ELSE Zero]
  /\ pc' = "commit"
  /\ UNCHANGED <<countersVars, context, snapshotVars, time_delta_seconds,
                 historyVars>>

\* What happened between the readings is of no more use.
EndHistory ==
  /\ span' = [k \in Keys |-> Zero]
  /\ kept' = {}

\* Mutant of Commit: an empty reading does not replace the older one.
CommitNonempty ==
  /\ pc = "commit"
  /\ IF current_snapshots # Empty
     THEN /\ prev_snapshots' = current_snapshots
          /\ whole' = [whole EXCEPT !.prev = whole.current]
     ELSE UNCHANGED <<prev_snapshots, whole>>
  /\ EndHistory
  /\ pc' = "take_new_snapshot"
  /\ UNCHANGED <<countersVars, context, current_snapshots, time_delta_seconds,
                 metricsVars>>

Commit ==
  /\ pc = "commit"
  /\ prev_snapshots' = current_snapshots
  /\ whole' = [whole EXCEPT !.prev = whole.current]
  /\ EndHistory
  /\ pc' = "take_new_snapshot"
  /\ UNCHANGED <<countersVars, context, current_snapshots, time_delta_seconds,
                 metricsVars>>

\* As in NetPolling, the kernel counts while the task waits for a reading.
Kernel ==
  /\ pc \in {"take_initial_snapshot", "take_new_snapshot"}
  /\ CountersNext
  /\ UNCHANGED <<pc, context, snapshotVars, time_delta_seconds, metricsVars,
                 historyVars>>

DiskNext ==
  TakeInitialSnapshot \/ TakeNewSnapshot \/ Calculate \/ Commit \/ Kernel

DiskSpec == DiskInit /\ [][DiskNext]_diskPollVars

-----------------------------------------------------------------------------
(* Properties.                                                              *)

\* Every variable keeps its shape; no rate is negative whatever is read.
DiskTypeOK ==
  /\ counter \in Tables
  /\ moved \in [Keys -> Counts]
  /\ steady \subseteq DOMAIN counter
  /\ pc \in {"take_initial_snapshot", "take_new_snapshot", "calculate",
             "commit"}
  /\ context \in Contexts
  /\ prev_snapshots \in Tables
  /\ current_snapshots \in Tables
  /\ time_delta_seconds \in {0, 1}
  /\ disks \in [DOMAIN paths -> Counts]
  /\ disk_io \in Tables
  /\ whole \in [prev : BOOLEAN, current : BOOLEAN]
  /\ span \in [Keys -> Counts]
  /\ kept \subseteq Keys

\* The rates of this tick are published.
Published == pc = "commit" /\ time_delta_seconds = 1
BothWhole == whole.prev /\ whole.current

\* No device is credited with more than it moved between the two readings, be
\* it reported with its file system or in the table (calculate).
DiskNeverOverstated ==
  Published /\ BothWhole =>
    \A ch \in Channels :
      /\ \A i \in DOMAIN paths : disks[i][ch] <= span[paths[i]][ch]
      /\ \A d \in DOMAIN disk_io : disk_io[d][ch] <= span[d][ch]

\* A device that was there all the time is reported with exactly what it moved:
\* with the last of its paths if it has one, whatever the filters say, and
\* otherwise in the table, unless a filter or the limit drops it.
DiskNothingLost ==
  Published /\ BothWhole /\ Cardinality(InBoth \ Targets) <= MaxIo + 1 =>
    /\ \A i \in DOMAIN paths :
         Mapped(i) /\ paths[i] \in kept => disks[i] = span[paths[i]]
    /\ \A d \in kept \ Targets :
         Keep(d) => d \in DOMAIN disk_io /\ disk_io[d] = span[d]

\* A configured device that is gone shows no traffic, never the rates of its
\* last tick (the reset in calculate).
GoneShowsNothing ==
  Published =>
    \A i \in DOMAIN paths :
      paths[i] \notin DOMAIN current_snapshots => disks[i] = Zero
=============================================================================
