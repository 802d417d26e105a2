------------------------------ MODULE LuaConfig ------------------------------
(***************************************************************************)
(* What a configuration file means (src/core/lua_parser.cpp and the        *)
(* deserialize functions of lua_metrics.cpp, window_settings.cpp,          *)
(* processinfo.cpp, diskstat.cpp, data_ssh.cpp, batteryinfo.cpp): a file   *)
(* with one entry in its list of settings is edited and loaded again.      *)
(*                                                                         *)
(* A section is a table of the file.  A setting that the file has keeps    *)
(* the name "file"; defaults have their own value.                         *)
(***************************************************************************)
EXTENDS Naturals, FiniteSets

CONSTANTS
  BaseFiles,  \* the files to begin with
  MaxEdits    \* bound: edits of a file

VARIABLES
  file,     \* [present: its sections, value: what it has of their fields]
  loaded,   \* section |-> field |-> value, of MetricsConfig
  context,  \* of ParsedConfig and its MetricsContext
  log_level, \* of the program
  edits,    \* bound
  changed   \* history: the edits since the file was loaded last

luaVars == <<file, loaded, context, log_level, edits, changed>>

-----------------------------------------------------------------------------
(* Sections, fields and defaults.                                           *)

\* The string of a member that has no other default.
Blank == ""

FeatureDefaults ==
  [enable_sysinfo |-> "true", enable_uptime |-> "true",
   enable_memory |-> "true", enable_cpu_temp |-> "true",
   enable_cpuinfo |-> "true", enable_load_and_process_stats |-> "true",
   enable_network_stats |-> "true", enable_diskstat |-> "true",
   enable_stability_info |-> "true", enable_battery_info |-> "true"]

ProcessDefaults ==
  [enable_avg_cpu |-> "true", enable_avg_mem |-> "true",
   enable_realtime_cpu |-> "true", enable_realtime_mem |-> "true",
   only_user_processes |-> "true", count |-> "10", ignore_list |-> "empty"]

FilterDefaults ==
  [enable_loopback |-> "true", enable_mapper |-> "true",
   enable_partitions |-> "false"]

StorageDefaults == [filesystems |-> "empty", io_devices |-> "empty"]

SshDefaults ==
  [enabled |-> "false", host |-> Blank, user |-> Blank,
   key_path |-> "~/.ssh/id_rsa", timeout_sec |-> "5", keepalive |-> "true"]

ScrollDefaults == [horizontal |-> "off", vertical |-> "off"]

WindowDefaults ==
  [type |-> "normal", stacking |-> "bottom", wmIgnore |-> "true", x |-> "0",
   y |-> "0", width |-> "800", height |-> "600", visible |-> "true",
   resizable |-> "true"]

BatteryDefaults ==
  [name |-> "Battery", path |-> Blank, critical_threshold |-> "15",
   icon |-> "icon", status |-> "Unknown"]

RootDefaults ==
  [run_mode |-> "persistent", output_format |-> "json",
   polling_interval_ms |-> "1000", log_level |-> "warn"]

\* What deserialize leaves in a field that the table lacks.
TableDefaults ==
  [root |-> RootDefaults, settings |-> [name |-> "unnamed_source"],
   features |-> FeatureDefaults, processes |-> ProcessDefaults,
   batteries |-> [list |-> "empty"], battery |-> BatteryDefaults,
   storage |-> StorageDefaults, filters |-> FilterDefaults,
   ssh |-> SshDefaults, window |-> WindowDefaults, scroll |-> ScrollDefaults]

\* What the constructors leave where there is no table.  Storage and Batteries
\* look at the machine.
StructDefaults ==
  [TableDefaults EXCEPT
     !.settings.name = Blank,
     !.processes.count = "1", !.processes.only_user_processes = "false",
     !.storage = [filesystems |-> "discovered", io_devices |-> "discovered"],
     !.batteries.list = "discovered"]

Sections == DOMAIN TableDefaults
Fields(s) == DOMAIN TableDefaults[s]
Keys == UNION {{<<s, f>> : f \in Fields(s)} : s \in Sections}

\* The tables around a table.
Outer(s) ==
  CASE s = "root" -> {}
    [] s = "settings" -> {"root"}
    [] OTHER -> {"root", "settings"} \cup
         CASE s = "processes" -> {"features"}
           [] s = "battery"   -> {"batteries"}
           [] s = "filters"   -> {"storage"}
           [] s = "scroll"    -> {"window"}
           [] OTHER           -> {}

\* Words of which the code knows some.
Enumerated ==
  {<<"root", "run_mode">>, <<"root", "output_format">>,
   <<"root", "log_level">>, <<"battery", "status">>,
   <<"scroll", "horizontal">>, <<"scroll", "vertical">>}

\* What a file may have: a value of the right type, for an enumeration one the
\* code knows; an unknown word; something of another type.  The status of a
\* battery is read without a test of its type, which is left out.
Given(s, f) ==
  {"file"} \cup (IF <<s, f>> \in Enumerated THEN {"unknown"} ELSE {})
           \cup (IF f = "status" THEN {} ELSE {"mistyped"})

ASSUME LuaAssumption ==
  /\ MaxEdits \in Nat
  /\ \A b \in BaseFiles :
       /\ b.present \subseteq Sections
       /\ \A key \in DOMAIN b.value : /\ key[1] \in b.present
                                      /\ b.value[key] \in Given(key[1], key[2])

-----------------------------------------------------------------------------
(* Loading: one operator for each deserialize.                              *)

\* A table is read if those around it are there.
Reached(s) == {s} \cup Outer(s) \subseteq file.present

\* get_or, and get with value_or.
Read(s, f) ==
  IF <<s, f>> \in DOMAIN file.value /\ file.value[<<s, f>>] # "mistyped"
  THEN file.value[<<s, f>>] ELSE TableDefaults[s][f]

ReadAll(s) == [f \in Fields(s) |-> Read(s, f)]

\* Two of the features are never read.
DeserializeFeatures ==
  [f \in Fields("features") |->
     IF f \in {"enable_stability_info", "enable_battery_info"}
     THEN StructDefaults.features[f] ELSE Read("features", f)]

\* Mutant of DeserializeProcesses: a line that was copied and not changed.
DeserializeProcessesCopied ==
  [ReadAll("processes") EXCEPT
     !.enable_avg_mem = Read("processes", "enable_avg_cpu")]

DeserializeProcesses == ReadAll("processes")

DeserializeStorage == ReadAll("storage")

\* LuaFilters reads into members of its own that hide those it inherits: what
\* is assigned to the base is what the constructor left.
DeserializeFilters == StructDefaults.filters

DeserializeSSH == ReadAll("ssh")

DeserializeWindow == ReadAll("window")

\* ScrollState::set knows three words; any other is off.
DeserializeScroll ==
  [f \in Fields("scroll") |->
     IF Read("scroll", f) = "unknown" THEN "off" ELSE Read("scroll", f)]

\* BatteryStatus::set likewise.
DeserializeBattery ==
  IF Read("battery", "path") = "file"
  THEN [ReadAll("battery") EXCEPT
          !.status = IF @ = "unknown" THEN "Unknown" ELSE @]
  ELSE StructDefaults.battery

\* The list of the machine is dropped; items without a path do not count.
DeserializeBatteries ==
  [list |-> IF Reached("battery") /\ Read("battery", "path") = "file"
            THEN "file" ELSE "empty"]

Deserialize ==
  [s \in Sections |->
     IF ~Reached(s) THEN StructDefaults[s]
     ELSE CASE s \in {"root", "settings"} -> ReadAll(s)
            [] s = "features"  -> DeserializeFeatures
            [] s = "processes" -> DeserializeProcesses
            [] s = "batteries" -> DeserializeBatteries
            [] s = "battery"   -> DeserializeBattery
            [] s = "storage"   -> DeserializeStorage
            [] s = "filters"   -> DeserializeFilters
            [] s = "ssh"       -> DeserializeSSH
            [] s = "window"    -> DeserializeWindow
            [] s = "scroll"    -> DeserializeScroll]

\* Mutant of ParseSettings: the user is the host.
ParseSettingsOneName(config) ==
  LET remote == config.ssh.enabled = "file"
  IN  [settings |-> [s \in Sections \ {"root"} |-> config[s]],
       source_name |-> config.settings.name,
       provider |-> IF remote THEN "ssh" ELSE "local",
       host |-> IF remote THEN config.ssh.host ELSE Blank,
       user |-> IF remote THEN config.ssh.host ELSE Blank,
       key |-> IF remote THEN config.ssh.key_path ELSE Blank,
       interfaces |-> "empty", filesystems |-> "empty", io_devices |-> "empty"]

\* parse_settings: the settings are copied whole; the provider follows from
\* ssh, and so do the credentials.  The lists of interfaces and filesystems are
\* those of MetricSettings, which nothing fills (what the file says of them is
\* one table further in, in its storage), and io_devices is not copied at all.
ParseSettings(config) ==
  LET remote == config.ssh.enabled = "file"
  IN  [settings |-> [s \in Sections \ {"root"} |-> config[s]],
       source_name |-> config.settings.name,
       provider |-> IF remote THEN "ssh" ELSE "local",
       host |-> IF remote THEN config.ssh.host ELSE Blank,
       user |-> IF remote THEN config.ssh.user ELSE Blank,
       key |-> IF remote THEN config.ssh.key_path ELSE Blank,
       interfaces |-> "empty", filesystems |-> "empty", io_devices |-> "empty"]

NoContext == [run_mode |-> "run_once", output_mode |-> "json",
              polling_interval |-> "500", tasks |-> <<>>]

\* parse_config: a word that the setters do not know leaves their default.
ParseConfig(config) ==
  [run_mode |-> IF config.root.run_mode = "unknown" THEN NoContext.run_mode
                ELSE config.root.run_mode,
   output_mode |-> IF config.root.output_format = "unknown"
                   THEN NoContext.output_mode ELSE config.root.output_format,
   polling_interval |-> config.root.polling_interval_ms,
   tasks |-> IF Reached("settings") THEN <<ParseSettings(config)>> ELSE <<>>]

\* configure_log_level: an unknown word is info.
ConfiguredLevel(level) == IF level = "unknown" THEN "info" ELSE level

\* load_lua_config.  Without a config table the log level stays as it is.
LoadLuaConfig ==
  /\ changed # {}
  /\ loaded' = Deserialize
  /\ IF Reached("root")
     THEN /\ context' = ParseConfig(Deserialize)
          /\ log_level' = ConfiguredLevel(Deserialize.root.log_level)
     ELSE context' = NoContext /\ UNCHANGED log_level
  /\ changed' = {}
  /\ UNCHANGED <<file, edits>>

LuaInit ==
  /\ file \in BaseFiles
  /\ loaded = Deserialize
  /\ context = IF Reached("root") THEN ParseConfig(Deserialize) ELSE NoContext
  /\ log_level = IF Reached("root")
                 THEN ConfiguredLevel(Deserialize.root.log_level) ELSE "info"
  /\ edits = 0
  /\ changed = {}

-----------------------------------------------------------------------------
(* Editing.                                                                 *)

Edit(what, present, value) ==
  /\ edits < MaxEdits
  /\ edits' = edits + 1
  /\ file' = [present |-> present, value |-> value]
  /\ changed' = changed \cup {what}
  /\ UNCHANGED <<loaded, context, log_level>>

EditField ==
  \E s \in file.present, f \in UNION {Fields(t) : t \in Sections} :
    /\ f \in Fields(s)
    /\ s # "batteries"
    /\ \E v \in Given(s, f) \cup {"none"} :
         Edit(<<s, f>>, file.present,
              [k \in IF v = "none" THEN DOMAIN file.value \ {<<s, f>>}
                     ELSE DOMAIN file.value \cup {<<s, f>>} |->
                 IF k = <<s, f>> THEN v ELSE file.value[k]])

\* A new table is empty; what a table has goes with it.
EditSection ==
  \E s \in Sections :
    IF s \in file.present
    THEN Edit(<<s, "table">>, file.present \ {s},
              [k \in {j \in DOMAIN file.value : j[1] # s} |-> file.value[k]])
    ELSE Edit(<<s, "table">>, file.present \cup {s}, file.value)

LuaNext == LoadLuaConfig \/ EditField \/ EditSection

LuaSpec == LuaInit /\ [][LuaNext]_luaVars

-----------------------------------------------------------------------------
(* Properties.                                                              *)

\* Where the program looks for a setting: the loop and the loggers in what
\* parse_config sets, a task in the members of its context, and everything
\* else in the copy of the settings there.
InForce(s, f) ==
  CASE s = "root" ->
         (CASE f = "run_mode" -> context.run_mode
            [] f = "output_format" -> context.output_mode
            [] f = "polling_interval_ms" -> context.polling_interval
            [] f = "log_level" -> log_level)
    [] s = "settings" -> context.tasks[1].source_name
    [] s = "storage" -> context.tasks[1][f]
    [] s = "ssh" /\ f \in {"host", "user"} -> context.tasks[1][f]
    [] s = "ssh" /\ f = "key_path" -> context.tasks[1].key
    [] s = "ssh" /\ f = "enabled" ->
         IF context.tasks[1].provider = "ssh" THEN "file" ELSE "false"
    [] OTHER -> context.tasks[1].settings[s][f]

\* Two features and the filters are never read, and the lists of the storage
\* never reach the context of a task.
NoEffect ==
  {<<"features", "enable_stability_info">>,
   <<"features", "enable_battery_info">>,
   <<"storage", "filesystems">>, <<"storage", "io_devices">>}
    \cup {<<"filters", f>> : f \in Fields("filters")}

Says(s, f) ==
  Reached(s) /\ <<s, f>> \in DOMAIN file.value /\ file.value[<<s, f>>] = "file"

\* A host, a user and a key count for another machine, a battery has a path.
HasEffect(s, f) ==
  /\ Says(s, f) /\ <<s, f>> \notin NoEffect
  /\ s = "ssh" /\ f \in {"host", "user", "key_path"} => Says("ssh", "enabled")
  /\ s = "battery" => Says("battery", "path")

\* What the file says is in force where the program looks for it, and nothing
\* is in force that the file does not say: after a load there is a task if and
\* only if there are settings, and each setting of the right type in a table
\* that is reached has arrived where it is read, except for the seven of
\* NoEffect, which arrive nowhere (deserialize, parse_settings, parse_config).
\* What nothing in the build reads (the name of the source, the key and the
\* times of ssh, the window, icon, threshold and status of a battery) has
\* arrived where it is kept.  The log level of a file without a config table is
\* that of the file before.
GivenCounts ==
  changed = {} =>
    /\ context.tasks # <<>> <=> Reached("settings")
    /\ \A s \in Sections : \A f \in Fields(s) :
         /\ s # "batteries"
         /\ s = "root" \/ context.tasks # <<>>
         /\ f = "log_level" => Reached("root")
         => (InForce(s, f) = "file" <=> HasEffect(s, f))

\* The lists of the storage that the file has are those of the task ("Map
\* inherited lists (Network/Storage)", lua_parser.cpp:109).  They are not.
StorageIsHandedOver ==
  changed = {} /\ context.tasks # <<>> =>
    \A f \in Fields("storage") :
      Says("storage", f) => context.tasks[1][f] = "file"

\* Whether a change of the setting is explained by the edits.
Explained(s, f) ==
  \/ <<s, f>> \in changed
  \/ \E t \in {s} \cup Outer(s) : <<t, "table">> \in changed
  \/ s \in {"battery", "batteries"}
     /\ \E g \in {"path", "table"} : <<"battery", g>> \in changed

\* An edit changes nothing but what it is about: the setting, or if a table
\* came or went the settings in it; the machine that is read changes only with
\* ssh, and the log level only with the file's (deserialize, parse_settings).
OnlyWhatWasEdited ==
  [][/\ \A s \in Sections : \A f \in Fields(s) :
          loaded'[s][f] # loaded[s][f] => Explained(s, f)
     /\ log_level' # log_level => Explained("root", "log_level")
     /\ context'.run_mode # context.run_mode => Explained("root", "run_mode")
     /\ context'.tasks # <<>> /\ context.tasks # <<>> =>
          \A x \in {"provider", "host", "user", "key"} :
            context'.tasks[1][x] # context.tasks[1][x] =>
              \E f \in Fields("ssh") : Explained("ssh", f)]_luaVars
=============================================================================
