----------------------------- MODULE Controller -----------------------------
(***************************************************************************)
(* The core of telemetry: Controller, ParsedConfig and the runner loops.   *)
(*                                                                         *)
(* A process is started with a configuration, builds one SystemMetrics     *)
(* task per configured context, and then ticks: look whether the           *)
(* configuration file changed (and if so replace everything), otherwise    *)
(* sample every task, close its provider and publish one document.  The    *)
(* file is edited by the environment between any two steps.                *)
(*                                                                         *)
(* The program is single threaded: an action is a stretch of code in which *)
(* nothing the environment does can be observed twice.                     *)
(***************************************************************************)
EXTENDS SshSession, Integers, Sequences

CONSTANTS
  AllModes,      \* output modes a configuration may name
  Modes,         \* those registered in pipeline_registry
  Settings,      \* MetricSettings values
  Contents,      \* well-formed configuration files
  Broken,        \* a file Lua cannot run, or without a 'config' value
  Throws,        \* a file whose 'config' is not a table
  Missing,       \* no file
  CliConfigs,    \* configurations the command line describes
  Garbled,       \* hosts whose answer may break off inside a number
  MaxEdits,      \* bound: edits of the file
  MaxMtime,      \* bound: modification times
  TickWrap,      \* bound: tick numbers are counted modulo this
  MaxInjects,    \* bound: calls of inject_task
  NewerEdits,    \* TRUE: every edit gives the file a later time
  BootRace       \* TRUE: the file may change between its load and its stamp

RunModes  == {"persistent", "run_once"}
Providers == {"local", "ssh", "unset"}  \* "unset": never assigned (a C++ enum)
TaskSpecs == [provider : Providers, host : Hosts \cup {None},
              settings : Settings]
Files     == Contents \cup {Broken, Throws, Missing}
\* What a configuration file says, before it is checked.
LuaTables == [run_mode : STRING, output_format : STRING,
              tasks : Seq(TaskSpecs)]
\* The part of a ParsedConfig that the configuration file decides.
Configs   == [run_mode : RunModes, output_mode : AllModes,
              tasks : Seq(TaskSpecs)]

ASSUME ControllerAssumption ==
  /\ "json" \in AllModes /\ "none" \notin AllModes
  /\ Modes \subseteq AllModes
  /\ Contents \subseteq LuaTables
  /\ CliConfigs \subseteq Configs
  /\ Garbled \subseteq Hosts
  /\ \A bad \in {Broken, Throws, Missing} : bad \notin Contents
  /\ Broken # Throws /\ Broken # Missing /\ Throws # Missing
  /\ MaxEdits \in Nat /\ MaxMtime \in Nat /\ MaxInjects \in Nat
  /\ TickWrap \in Nat /\ TickWrap > 1
  /\ NewerEdits \in BOOLEAN /\ BootRace \in BOOLEAN

VARIABLES
  file,       \* the configuration file: content and modification time
  edits,      \* how often the environment changed it
  pc,         \* the next stretch of code
  i,          \* the task the current loop is at
  config,     \* run_mode, output_mode and tasks of the ParsedConfig
  watched,    \* config_path is not empty
  last_write, \* last_write_time
  renderer,   \* active_pipeline.processor: its mode and baked-in settings
  runner,     \* the entry point that main() called
  active,     \* the list of SystemMetrics tasks
  injected,   \* contexts pushed by inject_task since the last (re)load
  skipped,    \* tasks that the last reload did not get to build
  broke_at,   \* the tick of the last reload that broke off, None before
  session,    \* the SSH session of the process
  tick,       \* number of the current tick
  out,        \* the last document published
  outputs,    \* how many were published: 0, 1 or 2 (two or more)
  owed        \* history: ticks begun less documents published, up to
              \* MaxEdits + 1

envVars == <<file, edits>>
cfgVars == <<config, watched, last_write, renderer>>
rldVars == <<skipped, broke_at>>
outVars == <<out, outputs, owed>>
vars == <<file, edits, pc, i, config, watched, last_write, renderer, runner,
          active, injected, skipped, broke_at, session, tick, out, outputs,
          owed>>

-----------------------------------------------------------------------------
(* Loading a configuration (lua_parser.cpp, parsed_config.cpp).             *)

DefaultConfig == [run_mode |-> "run_once", output_mode |-> "json",
                  tasks |-> << >>]

SetRunMode(old, mode)    == IF mode \in RunModes THEN mode ELSE old
SetOutputMode(old, mode) == IF mode \in Modes THEN mode ELSE old

ParseConfig(table) ==
  [run_mode    |-> SetRunMode(DefaultConfig.run_mode, table.run_mode),
   output_mode |-> SetOutputMode(DefaultConfig.output_mode,
                                 table.output_format),
   tasks       |-> table.tasks]

\* load_lua_file swallows the Lua error, so a broken or missing file loads as
\* the default ParsedConfig.  (Throws never gets here.)
LoadLuaConfig(content) ==
  IF content \in Contents THEN ParseConfig(content) ELSE DefaultConfig

NoRenderer == [mode |-> "none", settings |-> None]

\* Mutant of ConfigureRenderer: a processor is created only once.
ConfigureRendererOnce(cfg, old) ==
  IF old = NoRenderer /\ cfg.tasks # << >> /\ cfg.output_mode \in Modes
  THEN [mode |-> cfg.output_mode, settings |-> Head(cfg.tasks).settings]
  ELSE old

ConfigureRenderer(cfg, old) ==
  IF cfg.tasks # << >> /\ cfg.output_mode \in Modes
  THEN [mode |-> cfg.output_mode, settings |-> Head(cfg.tasks).settings]
  ELSE old

-----------------------------------------------------------------------------
(* A SystemMetrics task: the context it was built from, whether the         *)
(* MetricsContext that its lambdas refer to still exists, the snapshot its  *)
(* polling tasks hold, and the rate last computed from two snapshots.       *)

Sample(src) == [src |-> src, at |-> tick]
NoSample    == [src |-> None, at |-> 0]
NoRate      == [from |-> NoSample, to |-> NoSample]

\* configure_provider: an enumerator that was never assigned may hold either
\* value, or neither, which leaves the provider null.
ConfigureProvider(spec) ==
  IF spec.provider = "unset" THEN {"local", "ssh", "null"} ELSE {spec.provider}

ProviderHost(spec) == IF spec.host = None THEN DefaultHost ELSE spec.host

NewTask(spec, provider, src) ==
  [spec |-> spec, provider |-> provider, context |-> "live",
   prev |-> Sample(src), rate |-> NoRate]

\* A task whose first reading threw: its snapshots are as constructed.
Unsampled(spec) == [NewTask(spec, "ssh", None) EXCEPT !.prev = NoSample]

ReadOutcomes(provider, ses) ==
  IF provider = "ssh" THEN ExecuteOutcomes(ses) ELSE {Local}

\* take_new_snapshot, calculate and commit of a polling task.
Poll(task, src) ==
  [task EXCEPT !.rate = [from |-> task.prev, to |-> Sample(src)],
               !.prev = Sample(src)]

\* provider->cleanup()
Cleanup(provider, ses) ==
  IF provider = "ssh" THEN CleanupSession(ses) ELSE ses

\* The vector of contexts is replaced or reallocated: tasks still alive keep
\* references into the old one.
Orphan(tasks) == [k \in DOMAIN tasks |-> [tasks[k] EXCEPT !.context = "freed"]]

\* Mutant of ClearTasks: the clear is forgotten.
ClearNoTasks(tasks) == tasks

\* reload_if_changed: active_tasks.clear(), before the contexts are replaced.
ClearTasks(tasks) == << >>

\* The tasks of the configuration that initialize() built, or sets out to build.
InForce ==
  SubSeq(config.tasks, 1, Len(config.tasks) - (injected + skipped))

-----------------------------------------------------------------------------
(* The environment: the user's editor, and other tools.                     *)

Init ==
  /\ file \in [content : Files, mtime : {0}]
  /\ edits = 0
  /\ pc = "boot"
  /\ i = 0
  /\ config = DefaultConfig
  /\ watched = FALSE
  /\ last_write = 0
  /\ renderer = NoRenderer
  /\ runner = "none"
  /\ active = << >>
  /\ injected = 0
  /\ skipped = 0
  /\ broke_at = None
  /\ session = None
  /\ tick = 0
  /\ out = << >>
  /\ outputs = 0
  /\ owed = 0

\* The file is written, replaced (also by one with the same or an older time)
\* or removed, at any point of the program.
EditFile ==
  /\ edits < MaxEdits
  /\ BootRace \/ pc # "stamp"
  /\ edits' = edits + 1
  /\ \E content \in Files, mtime \in 0..MaxMtime :
       /\ NewerEdits => mtime > file.mtime
       /\ file' = [content |-> content, mtime |-> mtime]
  /\ UNCHANGED <<pc, i, cfgVars, runner, active, injected, session, tick,
                 rldVars, outVars>>

-----------------------------------------------------------------------------
(* Start-up.                                                                *)

\* main(): --config FILE goes through build_config_from_options, which does
\* not record the file name; an exception is not caught and ends the process.
BootFromFile ==
  /\ pc = "boot"
  /\ IF file.content = Throws
     THEN pc' = "crashed" /\ UNCHANGED config
     ELSE pc' = "init" /\ config' = LoadLuaConfig(file.content)
  /\ UNCHANGED <<envVars, i, watched, last_write, renderer, runner, active,
                 injected, session, tick, rldVars, outVars>>

\* main(): the command line describes the tasks.
BootFromCommandLine ==
  /\ pc = "boot"
  /\ pc' = "init"
  /\ config' \in CliConfigs
  /\ UNCHANGED <<envVars, i, watched, last_write, renderer, runner, active,
                 injected, session, tick, rldVars, outVars>>

\* parse_arguments: the file is loaded here and stamped by the next step.
ParseArguments ==
  /\ pc = "boot"
  /\ IF file.content = Throws
     THEN pc' = "crashed" /\ UNCHANGED config
     ELSE pc' = "stamp" /\ config' = LoadLuaConfig(file.content)
  /\ UNCHANGED <<envVars, i, watched, last_write, renderer, runner, active,
                 injected, session, tick, rldVars, outVars>>

\* set_filename: last_write_time throws when there is no file.
SetFilename ==
  /\ pc = "stamp"
  /\ IF file.content = Missing
     THEN pc' = "crashed" /\ UNCHANGED <<watched, last_write>>
     ELSE pc' = "init" /\ watched' = TRUE /\ last_write' = file.mtime
  /\ UNCHANGED <<envVars, i, config, renderer, runner, active, injected,
                 session, tick, rldVars, outVars>>

-----------------------------------------------------------------------------
(* ParsedConfig::initialize, at start-up and after a reload.                *)

\* Mutant of AfterInitialize: tick does not return early after a reload.
AfterInitializeTick == IF runner = "none" THEN "main" ELSE "tasks"

\* Where initialize() returns to: main() before it has an entry point, the
\* end of the tick when a reload called it.
AfterInitialize == IF runner = "none" THEN "main" ELSE "tail"

\* Mutant of BeginInitialize: without the return for an empty list of tasks.
BeginInitializeAlways ==
  /\ pc = "init"
  /\ renderer' = ConfigureRenderer(config, renderer)
  /\ i' = 1
  /\ pc' = "start"
  /\ UNCHANGED <<envVars, config, watched, last_write, runner, active,
                 injected, session, tick, rldVars, outVars>>

BeginInitialize ==
  /\ pc = "init"
  /\ renderer' = ConfigureRenderer(config, renderer)
  /\ i' = 1
  /\ pc' = IF config.tasks = << >> THEN AfterInitialize ELSE "start"
  /\ UNCHANGED <<envVars, config, watched, last_write, runner, active,
                 injected, session, tick, rldVars, outVars>>

\* Mutant of StartTask: a task whose first read fails is removed again.
StartTaskStrict ==
  /\ pc = "start"
  /\ LET spec == config.tasks[i] IN
     \E provider \in ConfigureProvider(spec) \ {"null"} :
       /\ session' \in IF provider = "ssh"
                       THEN SetupOutcomes(session, ProviderHost(spec))
                       ELSE {session}
       /\ \E src \in ReadOutcomes(provider, session') :
            active' = IF src = None THEN active
                      ELSE Append(active, NewTask(spec, provider, src))
       /\ i' = i + 1
       /\ pc' = IF i = Len(config.tasks) THEN AfterInitialize ELSE "start"
  /\ UNCHANGED <<envVars, cfgVars, runner, injected, tick, rldVars, outVars>>

\* One iteration: construct the task (its provider may open the session),
\* read_data and take_initial_snapshot.  A null provider is dereferenced.
StartTask ==
  /\ pc = "start"
  /\ LET spec == config.tasks[i] IN
     \E provider \in ConfigureProvider(spec) :
       \/ /\ provider = "null"
          /\ pc' = "crashed"
          /\ UNCHANGED <<i, active, session>>
       \/ /\ provider # "null"
          /\ session' \in IF provider = "ssh"
                          THEN SetupOutcomes(session, ProviderHost(spec))
                          ELSE {session}
          /\ \E src \in ReadOutcomes(provider, session') :
               active' = Append(active, NewTask(spec, provider, src))
          /\ i' = i + 1
          /\ pc' = IF i = Len(config.tasks) THEN AfterInitialize ELSE "start"
  /\ UNCHANGED <<envVars, cfgVars, runner, injected, tick, rldVars, outVars>>

\* The same where the answer breaks off in the middle of a number: read_data
\* throws before there is a snapshot.  At start-up nothing catches it; after a
\* reload, reload_if_changed does and returns false: the tick goes on with the
\* tasks built so far, of which this is the last and has no snapshot yet.
InitialReadThrows ==
  /\ pc = "start"
  /\ LET spec == config.tasks[i] IN
     /\ "ssh" \in ConfigureProvider(spec)
     /\ session' \in SetupOutcomes(session, ProviderHost(spec))
     /\ session' \in Garbled
     /\ IF runner = "none"
        THEN /\ pc' = "crashed"
             /\ UNCHANGED <<i, active, skipped, broke_at>>
        ELSE /\ pc' = "tasks" /\ i' = 1
             /\ active' = Append(active, Unsampled(spec))
             /\ skipped' = Len(config.tasks) - i
             /\ broke_at' = tick
  /\ UNCHANGED <<envVars, cfgVars, runner, injected, tick, outVars>>

-----------------------------------------------------------------------------
(* The runner loops: json_main, qt_main, lws_main.                          *)

\* Controller::main calls the entry point, or returns 1 without one.
Main ==
  /\ pc = "main"
  /\ runner' = renderer.mode
  /\ pc' = IF renderer.mode = "none" THEN "exit" ELSE "head"
  /\ UNCHANGED <<envVars, i, cfgVars, active, injected, session, tick, rldVars,
                 outVars>>

\* Another part of the process hands a context to the controller.
InjectTask ==
  /\ pc \in {"main", "head"}
  /\ injected < MaxInjects
  /\ \E c \in CliConfigs : \E k \in DOMAIN c.tasks :
       config' = [config EXCEPT !.tasks = Append(@, c.tasks[k])]
  /\ injected' = injected + 1
  /\ active' \in {active, Orphan(active)}
  /\ UNCHANGED <<envVars, pc, i, watched, last_write, renderer, runner,
                 session, tick, rldVars, outVars>>

BeginTick ==
  /\ pc' = "check"
  /\ tick' = (tick + 1) % TickWrap
  /\ owed' = IF owed > MaxEdits THEN owed ELSE owed + 1

\* Mutant of LoopHead: json_main tests is_persistent before the first tick.
LoopHeadWhile ==
  /\ pc = "head"
  /\ IF runner # "qt" /\ config.run_mode # "persistent"
     THEN pc' = "exit" /\ UNCHANGED <<tick, owed>>
     ELSE BeginTick
  /\ UNCHANGED <<envVars, i, cfgVars, runner, active, injected, session,
                 rldVars, out, outputs>>

\* lws_main tests is_persistent before a tick, json_main after it, and the
\* Qt timer never.
LoopHead ==
  /\ pc = "head"
  /\ IF runner = "lws" /\ config.run_mode # "persistent"
     THEN pc' = "exit" /\ UNCHANGED <<tick, owed>>
     ELSE BeginTick
  /\ UNCHANGED <<envVars, i, cfgVars, runner, active, injected, session,
                 rldVars, out, outputs>>

LoopTail ==
  /\ pc = "tail"
  /\ pc' = IF runner = "json" /\ config.run_mode # "persistent"
           THEN "exit" ELSE "head"
  /\ UNCHANGED <<envVars, i, cfgVars, runner, active, injected, session, tick,
                 rldVars, outVars>>

\* The last Qt window is closed: app.exec() returns.
CloseWindow ==
  /\ pc = "head"
  /\ runner = "qt"
  /\ pc' = "exit"
  /\ UNCHANGED <<envVars, i, cfgVars, runner, active, injected, session, tick,
                 rldVars, outVars>>

-----------------------------------------------------------------------------
(* Controller::tick.                                                        *)

\* Mutant of FileIsNewer: the comparison is turned round.
FileIsOlder == watched /\ file.content # Missing /\ file.mtime < last_write

FileIsNewer == watched /\ file.content # Missing /\ file.mtime > last_write

\* Mutant of CheckFile: the new time stamp is not remembered.
CheckFileForgets ==
  /\ pc = "check"
  /\ IF FileIsNewer
     THEN pc' = "reload" /\ UNCHANGED i
     ELSE pc' = "tasks" /\ i' = 1
  /\ UNCHANGED <<envVars, cfgVars, runner, active, injected, session, tick,
                 rldVars, outVars>>

\* reload_if_changed looks at the time stamp, and remembers it, first ...
CheckFile ==
  /\ pc = "check"
  /\ IF FileIsNewer
     THEN pc' = "reload" /\ last_write' = file.mtime /\ UNCHANGED i
     ELSE pc' = "tasks" /\ i' = 1 /\ UNCHANGED last_write
  /\ UNCHANGED <<envVars, config, watched, renderer, runner, active, injected,
                 session, tick, rldVars, outVars>>

\* Mutant of Reload: the run mode is not copied over.
ReloadKeepsRunMode ==
  /\ pc = "reload"
  /\ IF file.content = Throws
     THEN /\ pc' = "tasks" /\ i' = 1
          /\ UNCHANGED <<config, active, injected, skipped>>
     ELSE LET new == LoadLuaConfig(file.content) IN
          /\ active' = Orphan(ClearTasks(active))
          /\ config' = [config EXCEPT
                          !.output_mode = SetOutputMode(@, new.output_mode),
                          !.tasks = new.tasks]
          /\ injected' = 0
          /\ skipped' = 0
          /\ pc' = "init" /\ UNCHANGED i
  /\ UNCHANGED <<envVars, watched, last_write, renderer, runner, broke_at,
                 session, tick, outVars>>

\* ... and then loads what the file holds by now.  Only an exception keeps
\* the old tasks, and the tick goes on with them.
Reload ==
  /\ pc = "reload"
  /\ IF file.content = Throws
     THEN /\ pc' = "tasks" /\ i' = 1
          /\ UNCHANGED <<config, active, injected, skipped>>
     ELSE LET new == LoadLuaConfig(file.content) IN
          /\ active' = Orphan(ClearTasks(active))
          /\ config' = [run_mode    |-> new.run_mode,
                        output_mode |-> SetOutputMode(config.output_mode,
                                                      new.output_mode),
                        tasks       |-> new.tasks]
          /\ injected' = 0
          /\ skipped' = 0
          /\ pc' = "init"
          /\ UNCHANGED i
  /\ UNCHANGED <<envVars, watched, last_write, renderer, runner, broke_at,
                 session, tick, outVars>>

\* One iteration over the tasks: read_data, poll, cleanup.
RunTask ==
  /\ pc = "tasks"
  /\ i <= Len(active)
  /\ \E src \in ReadOutcomes(active[i].provider, session) :
       active' = [active EXCEPT ![i] = Poll(@, src)]
  /\ session' = Cleanup(active[i].provider, session)
  /\ i' = i + 1
  /\ UNCHANGED <<envVars, pc, cfgVars, runner, injected, tick, rldVars,
                 outVars>>

\* The same where the answer breaks off: read_data throws, and nothing on the
\* way to main() catches it.
ReadThrows ==
  /\ pc = "tasks"
  /\ i <= Len(active)
  /\ active[i].provider = "ssh"
  /\ session \in Garbled
  /\ pc' = "crashed"
  /\ UNCHANGED <<envVars, i, cfgVars, runner, active, injected, session, tick,
                 rldVars, outVars>>

\* done(): the processor of the active pipeline renders every task with the
\* settings it was created with.
Done ==
  /\ pc = "tasks"
  /\ i > Len(active)
  /\ out' = [k \in DOMAIN active |->
               [spec |-> active[k].spec, rate |-> active[k].rate,
                settings |-> renderer.settings]]
  /\ outputs' = IF outputs = 2 THEN 2 ELSE outputs + 1
  /\ owed' = owed - 1
  /\ pc' = "tail"
  /\ UNCHANGED <<envVars, i, cfgVars, runner, active, injected, rldVars,
                 session, tick>>

\* done() with a process name that is not UTF-8 (the kernel cuts names after 15
\* bytes): json::dump throws, and nothing catches it.
RenderThrows ==
  /\ pc = "tasks"
  /\ i > Len(active)
  /\ active # << >>
  /\ pc' = "crashed"
  /\ UNCHANGED <<envVars, i, cfgVars, runner, active, injected, rldVars,
                 session, tick, outVars>>

-----------------------------------------------------------------------------
Terminated == pc \in {"exit", "crashed"} /\ UNCHANGED vars

Program ==
  \/ BootFromFile \/ BootFromCommandLine \/ ParseArguments \/ SetFilename
  \/ BeginInitialize \/ StartTask \/ InitialReadThrows \/ Main
  \/ LoopHead \/ LoopTail
  \/ CheckFile \/ Reload \/ RunTask \/ ReadThrows \/ Done \/ RenderThrows

Next == EditFile \/ InjectTask \/ CloseWindow \/ Program \/ Terminated

Spec == Init /\ [][Next]_vars

\* The program keeps running: nothing in it waits for more than the clock and
\* the answer to a read.
FairSpec == Spec /\ WF_vars(Program)

-----------------------------------------------------------------------------
(* Properties.                                                              *)

Samples == [src : Sources, at : 0..(TickWrap - 1)]
Rates   == [from : Samples, to : Samples]
Tasks   == [spec : TaskSpecs, provider : {"local", "ssh"},
            context : {"live", "freed"}, prev : Samples, rate : Rates]
Entries == [spec : TaskSpecs, rate : Rates, settings : Settings \cup {None}]

\* Every variable keeps its shape, and the loop index stays within what the
\* loop it belongs to walks over (initialize and tick use it unchecked).
TypeOK ==
  /\ file \in [content : Files, mtime : 0..MaxMtime]
  /\ edits \in 0..MaxEdits
  /\ pc \in {"boot", "stamp", "init", "start", "main", "head", "check",
             "reload", "tasks", "tail", "exit", "crashed"}
  /\ i \in Nat
  /\ pc = "start" => i \in 1..Len(config.tasks)
  /\ pc = "tasks" => i \in 1..(Len(active) + 1)
  /\ config \in Configs
  /\ watched \in BOOLEAN
  /\ last_write \in 0..MaxMtime
  /\ renderer \in [mode : Modes \cup {"none"}, settings : Settings \cup {None}]
  /\ runner \in Modes \cup {"none"}
  /\ active \in Seq(Tasks)
  /\ injected \in 0..MaxInjects
  /\ skipped \in Nat
  /\ broke_at \in 0..(TickWrap - 1) \cup {None}
  /\ session \in Sessions
  /\ tick \in 0..(TickWrap - 1)
  /\ out \in Seq(Entries)
  /\ outputs \in 0..2
  /\ owed \in Int

\* The tick after tick t.
Following(t) == (t + 1) % TickWrap

\* A published rate is the difference of two snapshots of consecutive ticks:
\* no tick, failed reload or reload in between leaves a task with an older or
\* a newer baseline (take_initial_snapshot, take_new_snapshot, commit).  Only
\* a reload that broke off has its tasks sampled twice in its own tick, and the
\* last of them for the first time.
SpansOneTick(rate) ==
  \/ rate.to.at = Following(rate.from.at)
  \/ rate.to.at = broke_at /\ (rate.from.at = rate.to.at
                               \/ rate.from = NoSample)

RatesSpanOneTick ==
  pc \in {"head", "tail"} => \A k \in DOMAIN out : SpansOneTick(out[k].rate)

\* A rate is never the difference of the counters of two machines, although
\* all SSH providers share one session and reloads reconnect it.
NoMixedHosts ==
  \A k \in DOMAIN out :
    LET rate == out[k].rate IN
    None \in {rate.from.src, rate.to.src} \/ rate.from.src = rate.to.src

\* The MetricsContext that the lambdas of a running task refer to exists for
\* as long as the task does, unless a context was injected.
ContextsLive ==
  injected = 0 => \A k \in DOMAIN active : active[k].context = "live"

\* The processor belongs to the configuration in force: it renders in the
\* configured mode, with the settings of the first of the published tasks,
\* never with those of a configuration that a reload has replaced.
RendererCurrent ==
  /\ (/\ pc \in {"main", "head", "tail"}
      /\ active # << >>
      /\ config.output_mode \in Modes)
     => renderer.mode = config.output_mode
  /\ \A k \in DOMAIN out : out[k].settings = out[1].spec.settings

\* Between two ticks, a watched file whose time stamp was taken has been taken
\* over, tasks and run mode, unless it makes the load throw.
UpToDate ==
  (/\ watched /\ pc = "head" /\ injected = 0
   /\ file.mtime = last_write /\ file.content \notin {Missing, Throws})
  => LET loaded == LoadLuaConfig(file.content) IN
     /\ config.tasks = loaded.tasks
     /\ config.run_mode = loaded.run_mode

\* A run-once JSON process whose file is not watched publishes exactly one
\* document before it exits (json_main).
RunOncePublishesOnce ==
  pc = "exit" /\ runner = "json" /\ ~watched => outputs = 1

\* The controller implements the promise of MetricsFeed.
Feed == INSTANCE MetricsFeed WITH
          Lists  <- {c.tasks : c \in Contents \cup CliConfigs} \cup {<< >>},
          over   <- pc \in {"exit", "crashed"},
          demand <- InForce,
          feed   <- [k \in DOMAIN out |-> out[k].spec]

\* Documents are published whole and for the configuration in force.
PublishesWhatIsInForce == Feed!FeedSpec

\* An edit costs at most one tick of output, and nothing else costs any: of the
\* ticks that are over, at most as many passed without a document as there were
\* edits, and none published two (tick returns early after a reload,
\* reload_if_changed remembers the time stamp first).  A file that is edited in
\* every tick does starve the output.
EditsCostOneTick == pc = "head" => owed \in 0..edits

\* Once the file is left alone, and in a run it is after MaxEdits edits, a
\* process that does not end publishes again and again.
PublishesWhenLeftAlone ==
  <>(pc \in {"exit", "crashed"}) \/ []<>(pc = "tasks" /\ i > Len(active))

\* Every newer version of a watched file is eventually noticed.
TakesUpEdits ==
  <>[](\/ pc \in {"exit", "crashed"}
       \/ ~watched \/ file.content = Missing
       \/ file.mtime <= last_write)

-----------------------------------------------------------------------------
(* What comments and configuration files say of the program, and the code   *)
(* does not do.                                                             *)

\* parsed_config.cpp:161: "We keep the old tasks running if the new config is
\* broken".
KeepsOldTasksIfBroken ==
  [][pc = "reload" /\ pc' # "reload" /\ file.content = Broken
       => active' = active]_vars
=============================================================================
