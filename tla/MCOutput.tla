------------------------------ MODULE MCOutput ------------------------------
(* Small instances for TLC of what the program puts out: its document and,  *)
(* in another instance, its log.  The two share no state, so that each      *)
(* moves only while the other is at its beginning: other interleavings      *)
(* would show nothing new.                                                  *)
EXTENDS Document, LogSinks

Task(features, remote) ==
  [features |-> features, remote |-> remote, batteries |-> <<"BAT0", "BAT1">>]

MCConfigs ==
  {<<Task({"memory", "uptime", "load_and_process_stats"}, TRUE)>>,
   <<Task({"memory", "cpu_temp", "avg_mem"}, FALSE),
     Task({"load_and_process_stats", "cpu_temp", "realtime_mem"}, TRUE)>>,
   <<Task({"uptime", "cpuinfo", "diskstat", "realtime_mem"}, FALSE),
     Task({"avg_mem", "network_stats"}, FALSE)>>,
   <<Task({"sysinfo", "stability_info", "battery_info", "cpu_temp"}, FALSE),
     Task({"sysinfo", "stability_info", "avg_cpu", "realtime_cpu"}, TRUE)>>}

Line(l, n) == [label |-> l, value |-> n]
MemLines(free, available, swap, swapfree) ==
  <<Line("MemTotal:", 400), Line("MemFree:", free),
    Line("MemAvailable:", available),
    Line("SwapTotal:", swap), Line("SwapFree:", swapfree)>>
Sensor(chip, package, input) ==
  [chip |-> chip, package |-> package, input |-> input]

Quiet ==
  [meminfo |-> MemLines(100, 300, 200, 200),
   cpuinfo |-> <<"cpu MHz", "3400">>,
   sensors |-> <<Sensor(TRUE, FALSE, "number"), Sensor(TRUE, TRUE, "number")>>,
   kernel_files |-> {"hostname", "osrelease", "ostype"}, uname_works |-> TRUE,
   stability_files |-> {"file_descriptors", "memory_pressure", "io_pressure"},
   zones |-> <<<<1, 0, 0, 0, 0, 0, 0, 0, 0, 0, 2>>, <<3, 1>>>>,
   present |-> {"BAT0", "BAT1"}]
\* No swap, no PSI, no zones, a battery pulled out.
Bare ==
  [Quiet EXCEPT
    !.meminfo = MemLines(0, 0, 0, 0), !.cpuinfo = <<>>,
    !.sensors = <<Sensor(FALSE, FALSE, "number")>>,
    !.kernel_files = {"hostname"}, !.uname_works = FALSE,
    !.stability_files = {"file_descriptors"}, !.zones = <<<<>>>>,
    !.present = {"BAT1"}]
\* A sensor that says no number, only the largest blocks free.
Odd ==
  [Quiet EXCEPT
    !.meminfo = MemLines(100, 133, 3, 1),
    !.sensors = <<Sensor(TRUE, FALSE, "unreadable"),
                  Sensor(TRUE, FALSE, "number"),
                  Sensor(TRUE, TRUE, "garbled")>>,
    !.kernel_files = @ \cup {"machine"},
    !.zones = <<<<0, 0, 0, 0, 0, 0, 0, 0, 0, 0, 3>>>>]
MCMachines == {Quiet, Bare, Odd}

-----------------------------------------------------------------------------
\* One of the beginnings of the document.
DocAtRest == DocInit /\ Len(tasks) = 1 /\ machine = Quiet

OutInit == DocInit /\ LogInit

OutNext ==
  \/ LogInit /\ DocNext /\ UNCHANGED logVars
  \/ DocAtRest /\ LogNext /\ UNCHANGED docVars

OutSpec == OutInit /\ [][OutNext]_<<docVars, logVars>>
=============================================================================
