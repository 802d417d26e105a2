------------------------------ MODULE Document ------------------------------
(***************************************************************************)
(* From the settings of the tasks to the JSON document.  create_pipeline   *)
(* and configure_polling_pipeline decide by the features of a task what it *)
(* reads (data/metrics.cpp), JsonSerializer by the features of the FIRST   *)
(* task what every task shows (json/): the members of SystemMetrics stay   *)
(* uninitialised, keep an earlier value, or are of this tick.              *)
(*                                                                         *)
(* A value is [at, what]: when it was read, and what is known of it.  The  *)
(* polling tasks have modules of their own; here they only write.          *)
(***************************************************************************)
EXTENDS Readers

CONSTANTS
  Configs,  \* sequences of tasks [features, batteries, remote]
  Machines  \* what the files of a machine may say

VARIABLES
  tasks,    \* the configured tasks
  metrics,  \* the SystemMetrics of each task: member |-> value
  machine,  \* what the files say in this tick
  next,     \* the task whose turn it is, 0 between two ticks
  first,    \* this is the reading of ParsedConfig::initialize
  output,   \* the documents published last
  copy,     \* what a test read a SystemMetrics back as
  ended     \* an exception left main

docVars == <<tasks, metrics, machine, next, first, output, copy, ended>>

-----------------------------------------------------------------------------
(* Members of SystemMetrics, and when they were written. *)

ProcessLists == {"top_processes_avg_cpu", "top_processes_real_cpu",
                 "top_processes_avg_mem", "top_processes_real_mem"}
SystemNames  == {"sys_name", "node_name", "kernel_release", "machine_type"}
StabilityMembers == {"file_descriptors", "memory_pressure", "io_pressure",
                     "memory_fragmentation_index"}
Counts == {"processes_total", "processes_running"}
\* Those without an initial value.
Uninitialised ==
  {"cpu_frequency_ghz", "cpu_temp_c", "meminfo", "swapinfo", "uptime"}
Members ==
  Uninitialised \cup ProcessLists \cup SystemNames \cup StabilityMembers
    \cup Counts \cup {LoadFields[i] : i \in 1..3}
    \cup {"cores", "network_interfaces", "disks", "disk_io", "battery_info"}

-----------------------------------------------------------------------------
(* What configurations and machines look like.                               *)

TaskType ==
  [features : SUBSET STRING, batteries : Seq(STRING), remote : BOOLEAN]

LineType == [label : STRING, value : Nat]
SensorType == [chip : BOOLEAN, package : BOOLEAN,
               input : {"number", "unreadable", "garbled"}]

\* In /proc/meminfo a total stands before what is left of it.
TotalBeforeRest(lines, total, rest) ==
  \A i, j \in DOMAIN lines :
    lines[i].label = total /\ lines[j].label = rest
      => i < j /\ ValueOf(rest, lines) <= ValueOf(total, lines)

\* Each file that tells of the stability is named for the member it fills; a
\* zone of /proc/buddyinfo has numbers for chunks of 2^0 to 2^10 pages.
MachineType(files) ==
  /\ files.stability_files \subseteq
       {"file_descriptors", "memory_pressure", "io_pressure"}
  /\ files.meminfo \in Seq(LineType)
  /\ TotalBeforeRest(files.meminfo, "MemTotal:", "MemAvailable:")
  /\ TotalBeforeRest(files.meminfo, "SwapTotal:", "SwapFree:")
  /\ files.sensors \in Seq(SensorType)
  /\ \A z \in DOMAIN files.zones :
       files.zones[z] \in Seq(Nat) /\ Len(files.zones[z]) <= 11

ASSUME DocumentAssumption ==
  /\ \A config \in Configs : config \in Seq(TaskType)
  /\ \A files \in Machines : MachineType(files)

-----------------------------------------------------------------------------
(* Values. *)

Now(what) == [at |-> "now", what |-> what]
Fresh == [k \in Members |->
            [at |-> IF k \in Uninitialised THEN "never" ELSE "initial",
             what |-> <<>>]]
Aged(m) == [k \in Members |->
              IF m[k].at = "now" THEN [at |-> "earlier", what |-> <<>>]
              ELSE m[k]]

-----------------------------------------------------------------------------
(* What a task reads.  a holds the answers it gets.                          *)

Answers(task) ==
  [meminfo  : MeminfoStreams(machine.meminfo, task.remote),
   uptime   : Streams(<<"seconds">>, task.remote),
   cpuinfo  : Streams(machine.cpuinfo, task.remote),
   loadavg  : Streams(<<"1m", "5m", "15m">>, task.remote)]

\* Nothing is asked for without its feature: its answer does not matter.
Asked(task, a) ==
  /\ "memory" \notin task.features => a.meminfo = <<>>
  /\ "uptime" \notin task.features => a.uptime = <<>> /\ a.cpuinfo = <<>>
  /\ "load_and_process_stats" \notin task.features => a.loadavg = <<>>

\* One lambda of the pipeline for each feature: the members it writes.
Readings(task, a) ==
  [battery_info |->
     [k \in {"battery_info"} |->
        Now(GetBatteryStatus(task.batteries, machine.present, task.remote))],
   cpu_temp |->
     [k \in {"cpu_temp_c"} |->
        Now(<<GetCpuTemperature(SensorsOf(machine, task.remote))>>)],
   memory |-> [k \in {"meminfo", "swapinfo"} |->
                 Now(<<GetMemUsage(a.meminfo)[k]>>)],
   uptime |-> [k \in {"uptime", "cpu_frequency_ghz"} |->
                 Now(<<IF k = "uptime" THEN GetUptime(a.uptime)
                       ELSE GetCpuFreqGhz(a.cpuinfo)>>)],
   load_and_process_stats |->
     [k \in GetLoadAndProcessStats(a.loadavg) |-> Now(<<>>)],
   sysinfo |-> [k \in SystemNames |->
                  Now(<<GetSystemInfo(machine.kernel_files,
                                      machine.uname_works)[k]>>)]]

\* The members of m after those of the readings were written, in any order: no
\* two write the same.
Overlay(readings, features, m) ==
  [k \in Members |->
     IF \E f \in features \cap DOMAIN readings : k \in DOMAIN readings[f]
     THEN LET f == CHOOSE g \in features \cap DOMAIN readings :
                     k \in DOMAIN readings[g]
          IN readings[f][k]
     ELSE m[k]]

\* Mutant of ReadData: an uptime that cannot be read stays as it was.
ReadDataIfAny(task, a, m) ==
  Overlay(Readings(task, a),
          task.features \ (IF a.uptime = <<>> THEN {"uptime"} ELSE {}), m)
ReadData(task, a, m) == Overlay(Readings(task, a), task.features, m)

ReadThrows(task, a) ==
  "uptime" \in task.features /\ FrequencyThrows(a.cpuinfo)

-----------------------------------------------------------------------------
(* The polling tasks. *)

\* What was written over what was there.
Over(written, m) ==
  [k \in DOMAIN written \cup DOMAIN m |->
     IF k \in DOMAIN written THEN written[k] ELSE m[k]]

ProcessFeatures == {"avg_cpu", "realtime_cpu", "avg_mem", "realtime_mem"}
EnableProcessinfo(features) == features \cap ProcessFeatures # {}

\* The lists that the output pipeline of ProcessPollingTask fills: the list of
\* memory in use serves as both.
ListsFilled(features) ==
  {"top_processes_avg_cpu"  : x \in features \cap {"avg_cpu"}} \cup
  {"top_processes_real_cpu" : x \in features \cap {"realtime_cpu"}} \cup
  {"top_processes_avg_mem"  : x \in features \cap {"avg_mem"}} \cup
  {"top_processes_real_mem" :
     x \in features \cap {"avg_mem", "realtime_mem"}}

\* take_new_snapshot of SystemStabilityPollingTask writes at once; a file that
\* is missing leaves its value.  It reads this machine, whatever the task.
StabilitySnapshot(features) ==
  IF "stability_info" \in features
  THEN [k \in machine.stability_files |-> Now(<<>>)]
  ELSE <<>>

\* calculate of MemoryFragmentationTask, made with the list of processes.
FragmentationIndex(features) ==
  LET index == Fragmentation(machine.zones)
  IN IF EnableProcessinfo(features) /\ DOMAIN index # {}
     THEN [k \in {"memory_fragmentation_index"} |-> Now(<<index>>)]
     ELSE <<>>

Polled(features) ==
  Over(Over(StabilitySnapshot(features), FragmentationIndex(features)),
       [k \in ListsFilled(features) \cup
              (IF "cpuinfo" \in features THEN {"cores"} ELSE {}) \cup
              (IF "network_stats" \in features THEN {"network_interfaces"}
               ELSE {}) \cup
              (IF "diskstat" \in features THEN {"disks", "disk_io"} ELSE {})
          |-> Now(<<>>)])

\* take_initial_snapshot calculates nothing yet.
Poll(features, m) ==
  Over(IF first THEN StabilitySnapshot(features) ELSE Polled(features), m)

-----------------------------------------------------------------------------
(* The document. *)

\* What JsonSerializer puts into a document for a feature; nothing for the
\* batteries and for the stability of the system.
KeysOf ==
  [sysinfo |-> SystemNames,
   uptime |-> {"uptime", "cpu_frequency_ghz"},
   load_and_process_stats |-> {LoadFields[i] : i \in 1..3} \cup Counts,
   network_stats |-> {"network_interfaces"},
   memory |-> {"meminfo", "swapinfo"},
   cpu_temp |-> {"cpu_temp_c"},
   cpuinfo |-> {"cores"},
   diskstat |-> {"disks", "disk_io"},
   avg_cpu |-> {"top_processes_avg_cpu"},
   realtime_cpu |-> {"top_processes_real_cpu"},
   avg_mem |-> {"top_processes_avg_mem"},
   realtime_mem |-> {"top_processes_real_mem"}]

Pipeline(features) == UNION {KeysOf[f] : f \in features \cap DOMAIN KeysOf}

Serialize(features, m) == [k \in Pipeline(features) |-> m[k]]

\* One serializer, made for the settings of the first task.
Render == [i \in DOMAIN tasks |->
             Serialize(tasks[1].features, metrics[i])]

-----------------------------------------------------------------------------
(* A whole SystemMetrics as JSON and back: to_json and from_json, which the  *)
(* tests use.                                                                *)

\* What nlohmann makes of the type of a member, and accepts for it.
JsonKind(k) ==
  CASE k \in {"cores", "disks", "network_interfaces"} \cup ProcessLists
         -> "array"
    [] k \in {"meminfo", "swapinfo", "uptime", "disk_io"} -> "object"
    [] OTHER -> "value"

\* stability is nested, its members are told apart here.  disk_io is a map by
\* name, but to_json writes it by hand, its values only.
ToJson(m) ==
  [k \in Members \ {"battery_info"} |->
     [kind |-> IF k = "disk_io" THEN "array" ELSE JsonKind(k),
      value |-> m[k]]]

FromJsonOrder ==
  <<{"cores"}, {"cpu_frequency_ghz"}, {"cpu_temp_c"}, {"meminfo"},
    StabilityMembers, {"swapinfo"}, {"disks"}, {"uptime"}, {"load_avg_1m"},
    {"load_avg_5m"}, {"load_avg_15m"}, {"processes_total"},
    {"processes_running"}, {"sys_name"}, {"node_name"}, {"kernel_release"},
    {"machine_type"}, {"network_interfaces"}, {"top_processes_avg_mem"},
    {"top_processes_avg_cpu"}, {"top_processes_real_mem"},
    {"top_processes_real_cpu"}, {"disk_io"}>>

\* The lines of from_json that throw: at() for a key that is missing, get_to
\* for a value of another kind.
ThrowingLines(doc) ==
  {i \in DOMAIN FromJsonOrder : \E k \in FromJsonOrder[i] :
     k \notin DOMAIN doc \/ doc[k].kind # JsonKind(k)}

\* What the lines before the first of those have read stays.
FromJson(doc, own) ==
  LET Lines == DOMAIN FromJsonOrder
      read  == {i \in Lines : \A j \in ThrowingLines(doc) : i < j}
      taken == UNION {FromJsonOrder[i] : i \in read}
  IN [threw   |-> ThrowingLines(doc) # {},
      metrics |-> [k \in Members |-> IF k \in taken THEN doc[k].value
                                                    ELSE own[k]]]

-----------------------------------------------------------------------------
NoCopy == [task |-> 0, threw |-> FALSE, metrics |-> Fresh]

DocInit ==
  /\ tasks \in Configs
  /\ metrics = [i \in DOMAIN tasks |-> Fresh]
  /\ machine \in Machines
  /\ next = 1 /\ first = TRUE
  /\ output = <<>> /\ copy = NoCopy /\ ended = FALSE

\* Controller::tick begins; the machine has moved on.
BeginTick ==
  /\ next = 0 /\ ~ended
  /\ machine' \in Machines
  /\ metrics' = [i \in DOMAIN tasks |-> Aged(metrics[i])]
  /\ next' = 1 /\ output' = <<>> /\ copy' = NoCopy
  /\ UNCHANGED <<tasks, first, ended>>

\* One task of the loops in initialize and in tick.
RunTask ==
  /\ next \in DOMAIN tasks /\ ~ended
  /\ \E a \in Answers(tasks[next]) :
       /\ Asked(tasks[next], a)
       /\ ~ReadThrows(tasks[next], a)
       /\ metrics' = [metrics EXCEPT ![next] =
            Poll(tasks[next].features, ReadData(tasks[next], a, @))]
  /\ next' = next + 1
  /\ UNCHANGED <<tasks, machine, first, output, copy, ended>>

\* Nothing catches what the reading of the frequency throws.
TaskThrows ==
  /\ next \in DOMAIN tasks /\ ~ended
  /\ \E a \in Answers(tasks[next]) :
       Asked(tasks[next], a) /\ ReadThrows(tasks[next], a)
  /\ ended' = TRUE
  /\ UNCHANGED <<tasks, metrics, machine, next, first, output, copy>>

\* All tasks have run: done() publishes, at the end of initialize nothing does.
Done ==
  /\ next > Len(tasks) /\ ~ended
  /\ next' = 0 /\ first' = FALSE
  /\ output' = IF first THEN <<>> ELSE Render
  /\ UNCHANGED <<tasks, metrics, machine, copy, ended>>

\* What unit_json_definitions.cpp does with a SystemMetrics.
ReadBack ==
  /\ next = 0 /\ copy = NoCopy
  /\ \E i \in DOMAIN tasks :
       LET read == FromJson(ToJson(metrics[i]), Fresh)
       IN copy' = [task |-> i, threw |-> read.threw, metrics |-> read.metrics]
  /\ UNCHANGED <<tasks, metrics, machine, next, first, output, ended>>

DocNext == BeginTick \/ RunTask \/ TaskThrows \/ Done \/ ReadBack

DocSpec == DocInit /\ [][DocNext]_docVars

-----------------------------------------------------------------------------
(* Properties. *)

Loads == {LoadFields[i] : i \in 1..3}

\* Every value of a document was read in this very tick (or is what its reader
\* puts for an answer that failed), except for the load averages, which keep
\* their values from the first number on that is missing, the counts, which
\* nothing ever writes, and the members another task is asked for: these no
\* one reads, and the document shows what happens to be in them.
ReadInThisTick ==
  \A i \in DOMAIN output : \A k \in DOMAIN output[i] :
    LET at == output[i][k].at
    IN IF k \in Pipeline(tasks[i].features)
       THEN CASE k \in Counts -> at = "initial"
              [] k \in Loads  ->
                   /\ at # "never"
                   /\ at = "now" => output[i]["load_avg_1m"].at = "now"
              [] OTHER        -> at = "now"
       ELSE /\ i # 1
            /\ at = "now" => k = "top_processes_real_mem"

\* What is shown of the memory is right; or no answer came, and it is shown
\* as -1 in all and 0 percent; or the answer of another machine broke off,
\* and too much of it, up to all, is shown as used.
MemoryShown(doc, remote) ==
  \A k \in {"meminfo", "swapinfo"} \cap DOMAIN doc :
    doc[k].at = "now" =>
      LET shown == doc[k].what[1]
          name  == IF k = "meminfo" THEN "MemTotal:" ELSE "SwapTotal:"
          rest  == IF k = "meminfo" THEN "MemAvailable:" ELSE "SwapFree:"
          total == ValueOf(name, machine.meminfo)
          used  == total - ValueOf(rest, machine.meminfo)
      IN \/ /\ shown.total_kb = total /\ shown.used_kb = used
            /\ total > 0 => /\ shown.percent * total <= 100 * used
                            /\ (shown.percent + 1) * total > 100 * used
         \/ shown = [total_kb |-> -1, used_kb |-> 0, percent |-> 0]
         \/ /\ remote /\ shown.total_kb \in {total, total \div 10}
            /\ shown.used_kb <= shown.total_kb + 1
            /\ \/ shown.used_kb = shown.total_kb + 1
               \/ shown.total_kb = total /\ shown.used_kb >= used

\* The temperature is that of a package if one can be read, unless a sensor
\* says something that is no number.
TemperatureShown(doc, remote) ==
  "cpu_temp_c" \in DOMAIN doc /\ doc["cpu_temp_c"].at = "now" /\ ~remote =>
    LET shown   == doc["cpu_temp_c"].what[1]
        sensors == machine.sensors
        Package == {i \in DOMAIN sensors :
                      /\ sensors[i].chip /\ sensors[i].package
                      /\ sensors[i].input = "number"}
    IN (\A i \in DOMAIN sensors : sensors[i].input # "garbled")
         => IF Package # {} THEN shown \in Package
            ELSE shown # -1 => sensors[shown].chip

\* frag_stats.cpp:25: the index is between 0 and 1.
IndexBounded(m) ==
  m["memory_fragmentation_index"].at = "now" =>
    LET index == m["memory_fragmentation_index"].what[1]
    IN \A z \in DOMAIN index : 0 <= index[z].num /\ index[z].num <= index[z].den

\* What a document tells of the machine is true, within what each reader can
\* know.
TellsTheTruth ==
  \A i \in DOMAIN output :
    /\ MemoryShown(output[i], tasks[i].remote)
    /\ TemperatureShown(output[i], tasks[i].remote)
    /\ IndexBounded(metrics[i])

-----------------------------------------------------------------------------
(* What a test says of the program, and the code does not do.               *)

\* unit_json_definitions.cpp:28: a SystemMetrics that was written as JSON can
\* be read back, without an exception and with its stability as it was.
JsonRoundTrip ==
  copy.task # 0 =>
    /\ ~copy.threw
    /\ \A k \in StabilityMembers : copy.metrics[k] = metrics[copy.task][k]
=============================================================================
