------------------------------ MODULE Readers -------------------------------
(***************************************************************************)
(* The readers of single files (src/systeminfo), which keep nothing        *)
(* between two ticks: what each makes of what it is given.  A file is the  *)
(* sequence of the pieces that an answer may lose from its end (a number   *)
(* that is cut short is told from a whole one in meminfo only); `machine'  *)
(* is the record of all files of one machine.                              *)
(***************************************************************************)
EXTENDS Integers, Sequences, SequencesExt, FiniteSetsExt

\* A file of this machine is whole or cannot be opened; cat over SSH may be
\* broken off anywhere, and answers nothing without a session.
Streams(file, remote) == IF remote THEN Prefixes(file) ELSE {file, <<>>}

-----------------------------------------------------------------------------
(* /proc/meminfo: lines of a label and a number. *)

\* A line that is broken off inside its number has a number that is shorter.
Short(line) == [line EXCEPT !.value = @ \div 10]
MeminfoStreams(lines, remote) ==
  Streams(lines, remote) \cup
  {Append(SubSeq(lines, 1, i - 1), Short(lines[i])) :
     i \in {j \in DOMAIN lines : remote /\ lines[j].value >= 10}}

ValueOf(label, lines) ==
  LET At == {i \in DOMAIN lines : lines[i].label = label}
  IN IF At = {} THEN -1 ELSE lines[Min(At)].value

\* Division of C++, towards zero.
Quotient(a, b) ==
  LET q == (IF a < 0 THEN -a ELSE a) \div (IF b < 0 THEN -b ELSE b)
  IN IF (a < 0) # (b < 0) THEN -q ELSE q

MemInfo(total, rest) ==
  LET used == total - rest
  IN [total_kb |-> total, used_kb |-> used,
      percent |-> IF total = 0 THEN 0 ELSE Quotient(100 * used, total)]

\* Mutant of GetMemUsage: what is free is taken for what is available.
GetMemUsageFree(lines) ==
  [meminfo  |-> MemInfo(ValueOf("MemTotal:", lines),
                        ValueOf("MemFree:", lines)),
   swapinfo |-> MemInfo(ValueOf("SwapTotal:", lines),
                        ValueOf("SwapFree:", lines))]
GetMemUsage(lines) ==
  [meminfo  |-> MemInfo(ValueOf("MemTotal:", lines),
                        ValueOf("MemAvailable:", lines)),
   swapinfo |-> MemInfo(ValueOf("SwapTotal:", lines),
                        ValueOf("SwapFree:", lines))]

-----------------------------------------------------------------------------
(* Uptime, frequency and load. *)

GetUptime(words) == IF words = <<>> THEN "0" ELSE words[1]

\* The answer ends behind "cpu MHz", before the number: std::stof throws.
FrequencyThrows(pieces) == Len(pieces) = 1
GetCpuFreqGhz(pieces)   == IF pieces = <<>> THEN "0" ELSE pieces[2]

LoadFields == <<"load_avg_1m", "load_avg_5m", "load_avg_15m">>
\* Extraction stops at the first number that is missing and leaves the rest
\* as it was.  The counts are looked for in lines that /proc/loadavg does not
\* have (they are those of /proc/stat), and never change.
GetLoadAndProcessStats(words) == {LoadFields[i] : i \in DOMAIN words}

-----------------------------------------------------------------------------
(* The temperature: all sensors in the order of the directories.  A package  *)
(* wins, then the first one that can be read.                                *)

SensorsOf(machine, remote) == IF remote THEN <<>> ELSE machine.sensors

GetCpuTemperature(sensors) ==
  LET Usable   == {i \in DOMAIN sensors :
                     sensors[i].chip /\ sensors[i].input # "unreadable"}
      \* Where the search ends: at a number that std::stod refuses, or at a
      \* package.
      Decisive == {i \in Usable : \/ sensors[i].input = "garbled"
                                  \/ sensors[i].package}
  IN CASE Decisive # {} -> LET i == Min(Decisive)
                           IN IF sensors[i].input = "garbled" THEN -1 ELSE i
       [] Decisive = {} /\ Usable # {} -> Min(Usable)
       [] OTHER -> -1

-----------------------------------------------------------------------------
(* Names of the system: those of /proc/sys/kernel if all three are there,    *)
(* else those of uname().  Always those of the machine the program runs on.  *)

GetSystemInfo(kernel_files, uname_works) ==
  LET uname == IF uname_works THEN "uname" ELSE "Unknown"
      three == IF {"hostname", "osrelease", "ostype"} \subseteq kernel_files
               THEN "proc" ELSE uname
  IN [sys_name |-> three, node_name |-> three, kernel_release |-> three,
      machine_type |-> IF three = "proc" /\ "machine" \in kernel_files
                       THEN "proc" ELSE uname]

\* One entry for each battery of the configuration, the default one if its
\* path does not exist; none for another machine.
GetBatteryStatus(configs, present, remote) ==
  IF remote THEN <<>>
  ELSE [i \in DOMAIN configs |->
          [name |-> configs[i],
           status |-> IF configs[i] \in present THEN "read" ELSE "Unknown"]]

-----------------------------------------------------------------------------
(* Fragmentation: a zone lists the free chunks of 2^0, 2^1, ... pages.  The  *)
(* index is 1 - weighted / total, kept as numerator and denominator, both    *)
(* times ten.                                                                *)

Pages(chunks, weight) ==
  MapThenSumSet(LAMBDA i : chunks[i] * 2^(i - 1) * weight[i], DOMAIN chunks)

Index(total, weighted) ==
  IF total = 0 THEN [num |-> 0, den |-> 10]
  ELSE [num |-> total - weighted, den |-> total]

CalculateFragmentationIndex(chunks) ==
  Index(Pages(chunks, [i \in DOMAIN chunks |-> 10]),
        Pages(chunks, [i \in DOMAIN chunks |-> i - 1]))

\* The mean over the zones that list anything.
Fragmentation(zones) ==
  LET Counted == {i \in DOMAIN zones : zones[i] # <<>>}
  IN [i \in Counted |-> CalculateFragmentationIndex(zones[i])]
=============================================================================
