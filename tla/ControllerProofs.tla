-------------------------- MODULE ControllerProofs --------------------------
(***************************************************************************)
(* Theorems about Controller, for all configurations, hosts, bounds and    *)
(* sequences of edits.                                                     *)
(***************************************************************************)
EXTENDS Controller, TLAPS, SequenceTheorems

-----------------------------------------------------------------------------
(* Facts about the helpers.                                                 *)

\* What a configuration file is loaded as is a configuration.
LEMMA LoadType ==
  ASSUME NEW content PROVE LoadLuaConfig(content) \in Configs
<1>1. DefaultConfig \in Configs
  BY ControllerAssumption, EmptySeq DEF DefaultConfig, Configs, RunModes
<1>2. ASSUME content \in Contents PROVE ParseConfig(content) \in Configs
  <2>1. content \in LuaTables
    BY <1>2, ControllerAssumption
  <2>. QED
    BY <1>1, <2>1, ControllerAssumption
    DEF LuaTables, Configs, ParseConfig, SetRunMode, SetOutputMode
<1>. QED  BY <1>1, <1>2 DEF LoadLuaConfig

\* A processor is of a registered mode and has the settings of some task.
LEMMA RendererType ==
  ASSUME NEW cfg \in Configs,
         NEW old \in [mode : Modes \cup {"none"},
                      settings : Settings \cup {None}]
  PROVE  ConfigureRenderer(cfg, old)
           \in [mode : Modes \cup {"none"}, settings : Settings \cup {None}]
<1>1. cfg.tasks \in Seq(TaskSpecs)
  BY DEF Configs
<1>2. cfg.tasks # << >> => Head(cfg.tasks) \in TaskSpecs
  BY <1>1, HeadTailProperties
<1>. QED  BY <1>2 DEF ConfigureRenderer, TaskSpecs

\* Orphaning the tasks changes nothing but their contexts.
LEMMA OrphanType ==
  ASSUME NEW tasks \in Seq(Tasks)
  PROVE  /\ Orphan(tasks) \in Seq(Tasks)
         /\ Len(Orphan(tasks)) = Len(tasks)
         /\ DOMAIN Orphan(tasks) = DOMAIN tasks
         /\ \A k \in DOMAIN tasks :
              /\ Orphan(tasks)[k].spec = tasks[k].spec
              /\ Orphan(tasks)[k].provider = tasks[k].provider
              /\ Orphan(tasks)[k].prev = tasks[k].prev
              /\ Orphan(tasks)[k].rate = tasks[k].rate
<1>1. /\ Len(tasks) \in Nat
      /\ DOMAIN tasks = 1..Len(tasks)
      /\ \A k \in DOMAIN tasks : tasks[k] \in Tasks
  BY LenProperties, ElementOfSeq
<1>2. \A k \in DOMAIN tasks :
        [tasks[k] EXCEPT !.context = "freed"] \in Tasks
  BY <1>1 DEF Tasks
<1>3. Orphan(tasks) \in [1..Len(tasks) -> Tasks]
  BY <1>1, <1>2 DEF Orphan
<1>4. Orphan(tasks) \in Seq(Tasks)
  BY <1>1, <1>3, SeqDef
<1>5. Len(Orphan(tasks)) = Len(tasks)
  BY <1>1, <1>3, <1>4, LenProperties
<1>6. ASSUME NEW k \in DOMAIN tasks
      PROVE  /\ Orphan(tasks)[k].spec = tasks[k].spec
             /\ Orphan(tasks)[k].provider = tasks[k].provider
             /\ Orphan(tasks)[k].prev = tasks[k].prev
             /\ Orphan(tasks)[k].rate = tasks[k].rate
  BY <1>1 DEF Orphan, Tasks
<1>. QED  BY <1>1, <1>3, <1>4, <1>5, <1>6

\* No tasks are left to orphan.
LEMMA OrphanNothing == Orphan(<< >>) = << >>
<1>1. << >> \in Seq(Tasks) /\ Len(<< >>) = 0
  BY EmptySeq
<1>2. Orphan(<< >>) \in Seq(Tasks) /\ Len(Orphan(<< >>)) = 0
  BY <1>1, OrphanType
<1>. QED  BY <1>1, <1>2, SeqEqual

\* The remainder keeps a tick number in its range.
LEMMA FollowingType ==
  ASSUME NEW t \in 0..(TickWrap - 1) PROVE Following(t) \in 0..(TickWrap - 1)
BY ControllerAssumption DEF Following
-----------------------------------------------------------------------------
(* Inductive invariants: what holds between the parts of a tick.            *)

\* Before a list of tasks is built there is none, and nothing was injected.
EmptyInv ==
  /\ pc \in {"boot", "stamp", "init"} => active = << >>
  /\ pc \in {"boot", "stamp", "init", "start"} => injected = 0 /\ skipped = 0

Unmixed(rate) ==
  None \in {rate.from.src, rate.to.src} \/ rate.from.src = rate.to.src

\* Where the snapshots come from.  An open session is the one that every SSH
\* task took its snapshot through, if it has one: initialize() opens it at
\* most once, and the first task that reads through it in a tick closes it.
SessionInv ==
  /\ \A k \in DOMAIN active :
       /\ active[k].provider = "local" => active[k].prev.src = Local
       /\ (active[k].provider = "ssh" /\ active[k].prev.src # None)
            => IF pc = "start" THEN session = active[k].prev.src
                               ELSE session \in {active[k].prev.src, None}
       /\ Unmixed(active[k].rate)
  /\ \A k \in DOMAIN out : Unmixed(out[k].rate)

Fresh(task) == task.prev.at = tick
Due(task)   == Following(task.prev.at) = tick
Polled(task) == Fresh(task) /\ SpansOneTick(task.rate)

\* When the snapshots were taken: in this tick, or in the one before until the
\* loop of the tick has reached the task; in the tick of a reload that broke
\* off, the loop finds tasks that are a moment old, the last without a snapshot.
TickInv ==
  /\ \A k \in DOMAIN active :
       /\ pc \in {"start", "main", "head", "tail"} => Fresh(active[k])
       /\ pc \in {"check", "reload"} => Due(active[k])
       /\ pc = "tasks" =>
            \/ k < i /\ Polled(active[k])
            \/ k >= i /\ Due(active[k])
            \/ /\ k >= i /\ broke_at = tick
               /\ Fresh(active[k]) \/ active[k].prev = NoSample
  /\ pc \notin {"tasks", "crashed"} =>
       \A k \in DOMAIN out : SpansOneTick(out[k].rate)

\* The tasks that were built are those of the configuration, in its order;
\* contexts injected later have none.
MirrorInv ==
  /\ \A k \in DOMAIN active :
       k \in DOMAIN config.tasks /\ active[k].spec = config.tasks[k]
  /\ pc = "start" => Len(active) = i - 1
  /\ pc \in {"main", "head", "check", "reload", "tasks", "tail"}
       => Len(config.tasks) = Len(active) + injected + skipped

\* The processor was created for the configuration the tasks were built for.
RendererInv ==
  /\ (/\ \/ pc = "start"
         \/ pc \notin {"boot", "stamp", "init"} /\ active # << >>
      /\ config.output_mode \in Modes)
     => renderer = [mode |-> config.output_mode,
                    settings |-> config.tasks[1].settings]
  /\ pc = "boot" => renderer.mode = "none"
  /\ renderer.mode # "none" => config.output_mode \in Modes
  /\ runner # "none" => renderer.mode # "none"
  /\ pc \in {"head", "check", "reload", "tasks", "tail"} => runner # "none"
  /\ \A k \in DOMAIN out : out[k].settings = out[1].spec.settings
-----------------------------------------------------------------------------
(* Type correctness.                                                        *)

LEMMA SshTypes ==
  ASSUME NEW ses \in Sessions, NEW host \in Hosts, NEW provider
  PROVE  /\ SetupOutcomes(ses, host) \subseteq Sessions
         /\ ReadOutcomes(provider, ses) \subseteq Sources
         /\ Cleanup(provider, ses) \in Sessions
BY DEF SetupOutcomes, ReadOutcomes, ExecuteOutcomes, Cleanup, CleanupSession,
       Sessions, Sources

LEMMA SampleTypes ==
  ASSUME NEW src \in Sources, tick \in 0..(TickWrap - 1)
  PROVE  /\ Sample(src) \in Samples
         /\ NoRate \in Rates
BY ControllerAssumption
DEF Sample, NoRate, NoSample, Samples, Rates, Sources

\* What initialize() builds for a configured task is a task.
LEMMA NewTaskType ==
  ASSUME NEW spec \in TaskSpecs, NEW provider \in ConfigureProvider(spec),
         provider # "null", NEW src \in Sources, tick \in 0..(TickWrap - 1)
  PROVE  NewTask(spec, provider, src) \in Tasks
<1>1. provider \in {"local", "ssh"}
  BY DEF ConfigureProvider, TaskSpecs, Providers
<1>. QED  BY <1>1, SampleTypes DEF NewTask, Tasks

\* And so is one whose first reading broke off.
LEMMA UnsampledType ==
  ASSUME NEW spec \in TaskSpecs, "ssh" \in ConfigureProvider(spec),
         tick \in 0..(TickWrap - 1)
  PROVE  /\ Unsampled(spec) \in Tasks
         /\ Unsampled(spec).spec = spec
         /\ Unsampled(spec).provider = "ssh"
         /\ Unsampled(spec).context = "live"
         /\ Unsampled(spec).prev = NoSample
         /\ Unsampled(spec).rate = NoRate
<1>1. NewTask(spec, "ssh", None) \in Tasks
  BY NewTaskType DEF Sources
<1>2. NoSample \in Samples
  BY ControllerAssumption DEF NoSample, Samples, Sources
<1>. QED  BY <1>1, <1>2 DEF Unsampled, NewTask, Tasks

\* Polling a task keeps it a task, the same but for its snapshots.
LEMMA PollType ==
  ASSUME NEW task \in Tasks, NEW src \in Sources, tick \in 0..(TickWrap - 1)
  PROVE  /\ Poll(task, src) \in Tasks
         /\ Poll(task, src).spec = task.spec
         /\ Poll(task, src).provider = task.provider
         /\ Poll(task, src).context = task.context
         /\ Poll(task, src).prev = Sample(src)
         /\ Poll(task, src).rate = [from |-> task.prev, to |-> Sample(src)]
<1>1. Sample(src) \in Samples
  BY SampleTypes
<1>. QED  BY <1>1 DEF Poll, Tasks, Rates

\* The document of a tick has one entry per task.
LEMMA DocumentType ==
  ASSUME TypeOK, Done
  PROVE  /\ out' \in Seq(Entries)
         /\ DOMAIN out' = DOMAIN active
<1>1. /\ Len(active) \in Nat
      /\ DOMAIN active = 1..Len(active)
      /\ \A k \in DOMAIN active : active[k] \in Tasks
  BY LenProperties, ElementOfSeq DEF TypeOK
<1>2. \A k \in DOMAIN active :
        [spec |-> active[k].spec, rate |-> active[k].rate,
         settings |-> renderer.settings] \in Entries
  BY <1>1 DEF TypeOK, Tasks, Entries
<1>3. out' \in [1..Len(active) -> Entries]
  BY <1>1, <1>2 DEF Done
<1>. QED  BY <1>1, <1>3, SeqDef

-----------------------------------------------------------------------------
(* What the five actions that touch the tasks do to them.                   *)

\* initialize(): either the process dies of a null provider, or one task is
\* appended, read through the session that its construction leaves.
LEMMA StartTaskEffect ==
  ASSUME TypeOK, StartTask, pc' # "crashed"
  PROVE  \E provider \in {"local", "ssh"}, src \in Sources :
           /\ session' \in
                IF provider = "ssh"
                THEN SetupOutcomes(session, ProviderHost(config.tasks[i]))
                ELSE {session}
           /\ session' \in Sessions
           /\ src \in ReadOutcomes(provider, session')
           /\ active' \in Seq(Tasks)
           /\ Len(active') = Len(active) + 1
           /\ \A k \in 1..Len(active) : active'[k] = active[k]
           /\ active'[Len(active) + 1] = NewTask(config.tasks[i], provider, src)
<1>1. i \in 1..Len(config.tasks) /\ config.tasks \in Seq(TaskSpecs)
  BY DEF StartTask, TypeOK, Configs
<1>2. config.tasks[i] \in TaskSpecs
  BY <1>1, ElementOfSeq
<1>3. ProviderHost(config.tasks[i]) \in Hosts
  BY <1>2, SshAssumption DEF TaskSpecs, ProviderHost
<1>4. PICK provider \in ConfigureProvider(config.tasks[i]) \ {"null"} :
        /\ session' \in IF provider = "ssh" THEN
                          SetupOutcomes(session, ProviderHost(config.tasks[i]))
                        ELSE {session}
        /\ \E src \in ReadOutcomes(provider, session') :
             active' = Append(active, NewTask(config.tasks[i], provider, src))
  BY DEF StartTask
<1>5. provider \in {"local", "ssh"}
  BY <1>2 DEF ConfigureProvider, TaskSpecs, Providers
<1>6. session' \in Sessions
  BY <1>4, <1>3, SshTypes DEF TypeOK
<1>7. PICK src \in ReadOutcomes(provider, session') :
        active' = Append(active, NewTask(config.tasks[i], provider, src))
  BY <1>4
<1>8. src \in Sources
  BY <1>3, <1>6, SshTypes
<1>9. NewTask(config.tasks[i], provider, src) \in Tasks
  BY <1>2, <1>8, NewTaskType DEF TypeOK
<1>10. /\ active' \in Seq(Tasks)
      /\ Len(active') = Len(active) + 1
      /\ \A k \in 1..Len(active) : active'[k] = active[k]
      /\ active'[Len(active) + 1] = NewTask(config.tasks[i], provider, src)
  BY <1>7, <1>9, AppendProperties DEF TypeOK
<1>. QED  BY <1>4, <1>5, <1>6, <1>7, <1>8, <1>10

\* initialize() of a reload whose first read breaks off: the task stays, the
\* rest of the configuration is skipped.
LEMMA InitialReadThrowsEffect ==
  ASSUME TypeOK, InitialReadThrows, pc' # "crashed"
  PROVE  /\ runner # "none"
         /\ session' \in SetupOutcomes(session, ProviderHost(config.tasks[i]))
         /\ session' \in Sessions
         /\ active' \in Seq(Tasks)
         /\ Len(active') = Len(active) + 1
         /\ \A k \in 1..Len(active) : active'[k] = active[k]
         /\ active'[Len(active) + 1].spec = config.tasks[i]
         /\ active'[Len(active) + 1].provider = "ssh"
         /\ active'[Len(active) + 1].context = "live"
         /\ active'[Len(active) + 1].prev = NoSample
         /\ active'[Len(active) + 1].rate = NoRate
         /\ i \in 1..Len(config.tasks)
         /\ i' = 1 /\ pc' = "tasks"
         /\ skipped' = Len(config.tasks) - i
         /\ broke_at' = tick
<1>1. i \in 1..Len(config.tasks) /\ config.tasks \in Seq(TaskSpecs)
  BY DEF InitialReadThrows, TypeOK, Configs
<1>2. config.tasks[i] \in TaskSpecs
  BY <1>1, ElementOfSeq
<1>3. ProviderHost(config.tasks[i]) \in Hosts
  BY <1>2, SshAssumption DEF TaskSpecs, ProviderHost
<1>4. /\ runner # "none"
      /\ "ssh" \in ConfigureProvider(config.tasks[i])
      /\ session' \in SetupOutcomes(session, ProviderHost(config.tasks[i]))
      /\ active' = Append(active, Unsampled(config.tasks[i]))
      /\ i' = 1 /\ pc' = "tasks"
      /\ skipped' = Len(config.tasks) - i
      /\ broke_at' = tick
  BY DEF InitialReadThrows
<1>5. session' \in Sessions
  BY <1>3, <1>4, SshTypes DEF TypeOK
<1>6. Unsampled(config.tasks[i]) \in Tasks
  BY <1>2, <1>4, UnsampledType DEF TypeOK
<1>7. /\ active' \in Seq(Tasks)
      /\ Len(active') = Len(active) + 1
      /\ \A k \in 1..Len(active) : active'[k] = active[k]
      /\ active'[Len(active) + 1] = Unsampled(config.tasks[i])
  BY <1>4, <1>6, AppendProperties DEF TypeOK
<1>8. /\ active'[Len(active) + 1].spec = config.tasks[i]
      /\ active'[Len(active) + 1].provider = "ssh"
      /\ active'[Len(active) + 1].context = "live"
      /\ active'[Len(active) + 1].prev = NoSample
      /\ active'[Len(active) + 1].rate = NoRate
  BY <1>2, <1>4, <1>7, UnsampledType DEF TypeOK
<1>. QED  BY <1>1, <1>4, <1>5, <1>7, <1>8

\* inject_task: the configuration gets one more task at its end, the running
\* tasks lose at most their contexts.
LEMMA InjectTaskEffect ==
  ASSUME TypeOK, InjectTask
  PROVE  /\ config' \in Configs
         /\ config'.run_mode = config.run_mode
         /\ config'.output_mode = config.output_mode
         /\ Len(config'.tasks) = Len(config.tasks) + 1
         /\ \A k \in 1..Len(config.tasks) : config'.tasks[k] = config.tasks[k]
         /\ active' \in Seq(Tasks)
         /\ Len(active') = Len(active)
         /\ \A k \in 1..Len(active) :
              /\ active'[k].spec = active[k].spec
              /\ active'[k].provider = active[k].provider
              /\ active'[k].prev = active[k].prev
              /\ active'[k].rate = active[k].rate
<1>1. PICK c \in CliConfigs : \E k \in DOMAIN c.tasks :
        config' = [config EXCEPT !.tasks = Append(config.tasks, c.tasks[k])]
  BY DEF InjectTask
<1>2. PICK k \in DOMAIN c.tasks :
        config' = [config EXCEPT !.tasks = Append(config.tasks, c.tasks[k])]
  BY <1>1
<1>3. c.tasks \in Seq(TaskSpecs) /\ config.tasks \in Seq(TaskSpecs)
  BY ControllerAssumption DEF TypeOK, Configs
<1>4. c.tasks[k] \in TaskSpecs
  BY <1>3, LenProperties, ElementOfSeq
<1>5. /\ Append(config.tasks, c.tasks[k]) \in Seq(TaskSpecs)
      /\ Len(Append(config.tasks, c.tasks[k])) = Len(config.tasks) + 1
      /\ \A n \in 1..Len(config.tasks) :
           Append(config.tasks, c.tasks[k])[n] = config.tasks[n]
  BY <1>3, <1>4, AppendProperties
<1>6. /\ config' \in Configs
      /\ config'.run_mode = config.run_mode
      /\ config'.output_mode = config.output_mode
      /\ config'.tasks = Append(config.tasks, c.tasks[k])
  BY <1>2, <1>5 DEF TypeOK, Configs
<1>7. DOMAIN active = 1..Len(active)
  BY LenProperties DEF TypeOK
<1>. QED  BY <1>5, <1>6, <1>7, OrphanType DEF InjectTask, TypeOK

\* reload_if_changed: an exception leaves everything as it was; otherwise the
\* configuration is a new one and no task is left.
LEMMA ReloadEffect ==
  ASSUME TypeOK, Reload
  PROVE  \/ /\ file.content = Throws
            /\ pc' = "tasks" /\ i' = 1
            /\ UNCHANGED <<config, active, injected, skipped>>
         \/ /\ file.content # Throws
            /\ pc' = "init" /\ i' = i
            /\ config' \in Configs
            /\ config'.tasks = LoadLuaConfig(file.content).tasks
            /\ config.output_mode \in Modes => config'.output_mode \in Modes
            /\ active' = << >>
            /\ injected' = 0 /\ skipped' = 0
<1>1. LoadLuaConfig(file.content) \in Configs
  BY LoadType
<1>2. CASE file.content # Throws
  BY <1>1, <1>2, OrphanNothing, ControllerAssumption
  DEF Reload, ClearTasks, SetOutputMode, TypeOK, Configs
<1>. QED  BY <1>2 DEF Reload

\* One iteration of tick(): exactly the task it is at is polled.
LEMMA RunTaskEffect ==
  ASSUME TypeOK, RunTask
  PROVE  \E src \in Sources :
           /\ src \in ReadOutcomes(active[i].provider, session)
           /\ i \in 1..Len(active)
           /\ active[i] \in Tasks
           /\ active' \in Seq(Tasks)
           /\ Len(active') = Len(active)
           /\ \A k \in 1..Len(active) \ {i} : active'[k] = active[k]
           /\ active'[i].spec = active[i].spec
           /\ active'[i].provider = active[i].provider
           /\ active'[i].context = active[i].context
           /\ active'[i].prev = Sample(src)
           /\ active'[i].rate = [from |-> active[i].prev, to |-> Sample(src)]
           /\ session' \in Sessions
<1>1. i \in 1..Len(active) /\ active[i] \in Tasks
  BY LenProperties, ElementOfSeq DEF RunTask, TypeOK
<1>2. PICK src \in ReadOutcomes(active[i].provider, session) :
        active' = [active EXCEPT ![i] = Poll(active[i], src)]
  BY DEF RunTask
<1>3. src \in Sources /\ session' \in Sessions
  BY SshAssumption, SshTypes DEF RunTask, TypeOK
<1>4. Poll(active[i], src) \in Tasks
  BY <1>1, <1>3, PollType DEF TypeOK
<1>5. /\ active' \in Seq(Tasks)
      /\ Len(active') = Len(active)
      /\ \A k \in 1..Len(active) :
           active'[k] = IF k = i THEN Poll(active[i], src) ELSE active[k]
  BY <1>1, <1>2, <1>4, ExceptSeq DEF TypeOK
<1>6. active'[i] = Poll(active[i], src)
  BY <1>1, <1>5
<1>7. /\ active'[i].spec = active[i].spec
      /\ active'[i].provider = active[i].provider
      /\ active'[i].context = active[i].context
      /\ active'[i].prev = Sample(src)
      /\ active'[i].rate = [from |-> active[i].prev, to |-> Sample(src)]
  BY <1>1, <1>3, <1>6, PollType DEF TypeOK
<1>. QED  BY <1>1, <1>2, <1>3, <1>5, <1>7

LEMMA TypeInit == Init => TypeOK
<1>. SUFFICES ASSUME Init PROVE TypeOK
  OBVIOUS
<1>1. DefaultConfig \in Configs
  BY ControllerAssumption, EmptySeq DEF DefaultConfig, Configs, RunModes
<1>2. active \in Seq(Tasks) /\ out \in Seq(Entries)
  BY EmptySeq DEF Init
<1>3. /\ file \in [content : Files, mtime : 0..MaxMtime]
      /\ renderer \in [mode : Modes \cup {"none"},
                       settings : Settings \cup {None}]
  BY ControllerAssumption DEF Init, NoRenderer
<1>4. /\ edits \in 0..MaxEdits /\ last_write \in 0..MaxMtime /\ i \in Nat
      /\ injected \in 0..MaxInjects /\ tick \in 0..(TickWrap - 1)
      /\ outputs \in 0..2 /\ owed \in Int
  BY ControllerAssumption DEF Init
<1>5. watched \in BOOLEAN /\ session \in Sessions
  BY DEF Init, Sessions
<1>6. skipped \in Nat /\ broke_at \in 0..(TickWrap - 1) \cup {None}
  BY DEF Init
<1>. QED
  BY <1>1, <1>2, <1>3, <1>4, <1>5, <1>6 DEF Init, TypeOK

\* Every step keeps the types.
LEMMA TypeStep == TypeOK /\ [Next]_vars => TypeOK'
<1>. SUFFICES ASSUME TypeOK, [Next]_vars
              PROVE  TypeOK'
  OBVIOUS
<1>. USE ControllerAssumption
<1>a. /\ Len(config.tasks) \in Nat
      /\ config.tasks # << >> => 1 <= Len(config.tasks)
      /\ \A k \in 1..Len(config.tasks) : config.tasks[k] \in TaskSpecs
  BY LenProperties, ElementOfSeq, EmptySeq DEF TypeOK, Configs
<1>b. /\ Len(active) \in Nat
      /\ \A k \in 1..Len(active) : active[k] \in Tasks
  BY LenProperties, ElementOfSeq DEF TypeOK
<1>1. CASE EditFile
  BY <1>1 DEF EditFile, TypeOK, cfgVars, rldVars, outVars
<1>2. CASE BootFromFile
  BY <1>2, LoadType DEF BootFromFile, TypeOK, envVars, rldVars, outVars
<1>3. CASE BootFromCommandLine
  BY <1>3 DEF BootFromCommandLine, TypeOK, envVars, rldVars, outVars
<1>4. CASE ParseArguments
  BY <1>4, LoadType DEF ParseArguments, TypeOK, envVars, rldVars, outVars
<1>5. CASE SetFilename
  BY <1>5 DEF SetFilename, TypeOK, envVars, rldVars, outVars
<1>6. CASE BeginInitialize
  BY <1>6, <1>a, RendererType
  DEF BeginInitialize, AfterInitialize, TypeOK, envVars, rldVars, outVars
<1>7. CASE StartTask
  <2>1. session' \in Sessions /\ active' \in Seq(Tasks)
    <3>1. CASE pc' = "crashed"
      BY <1>7, <3>1, <1>a DEF StartTask, AfterInitialize, TypeOK
    <3>2. CASE pc' # "crashed"
      BY <1>7, <3>2, StartTaskEffect
    <3>. QED  BY <3>1, <3>2
  <2>2. i' \in Nat /\ (pc' = "start" => i' \in 1..Len(config.tasks))
    <3>1. i \in Nat /\ i \in 1..Len(config.tasks)
      BY <1>7 DEF StartTask, TypeOK
    <3>2. \/ pc' = "crashed" /\ i' = i
          \/ /\ i' = i + 1
             /\ pc' = IF i = Len(config.tasks) THEN AfterInitialize
                      ELSE "start"
      BY <1>7 DEF StartTask
    <3>3. AfterInitialize # "start"
      BY DEF AfterInitialize
    <3>. QED  BY <3>1, <3>2, <3>3, <1>a
  <2>. QED  BY <1>7, <2>1, <2>2
            DEF StartTask, AfterInitialize, TypeOK, envVars, cfgVars, rldVars,
                outVars
<1>8. CASE Main
  BY <1>8 DEF Main, TypeOK, envVars, cfgVars, rldVars, outVars
<1>9. CASE InjectTask
  <2>1. /\ injected' \in 0..MaxInjects
        /\ pc \in {"main", "head"}
        /\ UNCHANGED <<file, edits, pc, i, watched, last_write, renderer,
                       runner, skipped, broke_at, session, tick, out, outputs,
                       owed>>
    BY <1>9 DEF InjectTask, TypeOK, envVars, rldVars, outVars
  <2>. QED  BY <1>9, <2>1, InjectTaskEffect DEF TypeOK
<1>10. CASE LoopHead
  BY <1>10, FollowingType
  DEF LoopHead, BeginTick, Following, TypeOK, envVars, cfgVars, rldVars, outVars
<1>11. CASE LoopTail
  BY <1>11 DEF LoopTail, TypeOK, envVars, cfgVars, rldVars, outVars
<1>12. CASE CloseWindow
  BY <1>12 DEF CloseWindow, TypeOK, envVars, cfgVars, rldVars, outVars
<1>13. CASE CheckFile
  BY <1>13, <1>b DEF CheckFile, TypeOK, envVars, rldVars, outVars
<1>14. CASE Reload
  <2>1. CASE file.content = Throws
    BY <1>14, <1>b, <2>1 DEF Reload, TypeOK, envVars, rldVars, outVars
  <2>2. CASE file.content # Throws
    <3>1. active' \in Seq(Tasks)
      BY <1>14, <2>2, ReloadEffect, EmptySeq
    <3>. QED  BY <1>14, <2>2, <3>1, ReloadEffect
              DEF Reload, TypeOK, envVars, rldVars, outVars
  <2>. QED  BY <2>1, <2>2
<1>15. CASE RunTask
  <2>1. /\ i \in 1..Len(active) /\ i' = i + 1
        /\ UNCHANGED <<file, edits, pc, config, watched, last_write, renderer,
                       runner, injected, skipped, broke_at, tick, out, outputs,
                       owed>>
    BY <1>15, RunTaskEffect DEF RunTask, envVars, cfgVars, rldVars, outVars
  <2>2. /\ session' \in Sessions /\ active' \in Seq(Tasks)
        /\ Len(active') = Len(active)
    BY <1>15, RunTaskEffect
  <2>3. pc = "tasks" /\ i' \in 1..(Len(active') + 1)
    BY <1>15, <1>b, <2>1, <2>2 DEF RunTask
  <2>. QED  BY <2>1, <2>2, <2>3 DEF TypeOK
<1>16. CASE Done
  <2>1. out' \in Seq(Entries) /\ outputs' \in 0..2 /\ owed' \in Int
    BY <1>16, DocumentType DEF Done, TypeOK
  <2>. QED  BY <1>16, <2>1 DEF Done, TypeOK, envVars, cfgVars, rldVars
<1>17. CASE InitialReadThrows
  <2>1. CASE pc' = "crashed"
    <3>1. session' \in Sessions
      <4>1. config.tasks[i] \in TaskSpecs
        BY <1>17, <1>a DEF InitialReadThrows, TypeOK
      <4>2. ProviderHost(config.tasks[i]) \in Hosts
        BY <4>1, SshAssumption DEF TaskSpecs, ProviderHost
      <4>. QED  BY <1>17, <4>2, SshTypes DEF InitialReadThrows, TypeOK
    <3>. QED  BY <1>17, <2>1, <3>1
              DEF InitialReadThrows, TypeOK, envVars, cfgVars, outVars
  <2>2. CASE pc' # "crashed"
    <3>1. i' \in 1..(Len(active') + 1) /\ skipped' \in Nat
      BY <1>17, <1>a, <1>b, <2>2, InitialReadThrowsEffect
    <3>2. UNCHANGED <<file, edits, config, watched, last_write, renderer,
                      runner, injected, tick, out, outputs, owed>>
      BY <1>17 DEF InitialReadThrows, envVars, cfgVars, outVars
    <3>3. /\ session' \in Sessions /\ active' \in Seq(Tasks)
          /\ pc' = "tasks" /\ broke_at' = tick
      BY <1>17, <2>2, InitialReadThrowsEffect
    <3>. QED  BY <3>1, <3>2, <3>3 DEF TypeOK
  <2>. QED  BY <2>1, <2>2
<1>18. CASE ReadThrows
  BY <1>18 DEF ReadThrows, TypeOK, envVars, cfgVars, rldVars, outVars
<1>19. CASE RenderThrows
  BY <1>19 DEF RenderThrows, TypeOK, envVars, cfgVars, rldVars, outVars
<1>20. CASE Terminated \/ UNCHANGED vars
  BY <1>20 DEF Terminated, TypeOK, vars
<1>. QED
  BY <1>1, <1>2, <1>3, <1>4, <1>5, <1>6, <1>7, <1>8, <1>9, <1>10, <1>11,
     <1>12, <1>13, <1>14, <1>15, <1>16, <1>17, <1>18, <1>19, <1>20
  DEF Next, Program

\* The state keeps its shape, and no loop index leaves the list it walks over,
\* whatever happens to the file in between.
THEOREM TypeCorrect == Spec => []TypeOK
<1>. QED  BY TypeInit, TypeStep, PTL DEF Spec
-----------------------------------------------------------------------------
(* The tasks mirror the configuration.                                      *)

LEMMA MirrorStep ==
  TypeOK /\ EmptyInv /\ MirrorInv /\ [Next]_vars => EmptyInv' /\ MirrorInv'
<1>. SUFFICES ASSUME TypeOK, EmptyInv, MirrorInv, [Next]_vars
              PROVE  EmptyInv' /\ MirrorInv'
  OBVIOUS
<1>a. /\ Len(config.tasks) \in Nat
      /\ DOMAIN config.tasks = 1..Len(config.tasks)
      /\ config.tasks = << >> <=> Len(config.tasks) = 0
  BY LenProperties, EmptySeq DEF TypeOK, Configs
<1>b. /\ Len(active) \in Nat
      /\ DOMAIN active = 1..Len(active)
      /\ active = << >> => Len(active) = 0
  BY LenProperties, EmptySeq DEF TypeOK
<1>c. injected \in Nat /\ skipped \in Nat /\ i \in Nat
  BY ControllerAssumption DEF TypeOK
<1>1. CASE BootFromFile \/ BootFromCommandLine \/ ParseArguments
  BY <1>1, <1>b
  DEF BootFromFile, BootFromCommandLine, ParseArguments, EmptyInv, MirrorInv,
      rldVars
<1>2. CASE BeginInitialize
  BY <1>2, <1>a, <1>b, <1>c
  DEF BeginInitialize, AfterInitialize, EmptyInv, MirrorInv, rldVars
<1>3. CASE StartTask
  <2>1. CASE pc' = "crashed"
    BY <1>3, <2>1
    DEF StartTask, AfterInitialize, EmptyInv, MirrorInv, cfgVars, rldVars
  <2>2. CASE pc' # "crashed"
    <3>1. PICK provider \in {"local", "ssh"}, src \in Sources :
            /\ active' \in Seq(Tasks)
            /\ Len(active') = Len(active) + 1
            /\ \A k \in 1..Len(active) : active'[k] = active[k]
            /\ active'[Len(active) + 1]
                 = NewTask(config.tasks[i], provider, src)
      BY <1>3, <2>2, StartTaskEffect
    <3>2. /\ pc = "start" /\ i' = i + 1
          /\ pc' = IF i = Len(config.tasks) THEN AfterInitialize ELSE "start"
          /\ UNCHANGED <<config, injected, skipped, runner>>
      BY <1>3, <2>2 DEF StartTask, cfgVars, rldVars
    <3>3. i \in 1..Len(config.tasks) /\ Len(active) = i - 1
      BY <3>2 DEF TypeOK, MirrorInv
    <3>4. DOMAIN active' = 1..i
      BY <3>1, <3>3, LenProperties
    <3>5. NewTask(config.tasks[i], provider, src).spec = config.tasks[i]
      BY DEF NewTask
    <3>6. \A k \in 1..i : active'[k].spec = config.tasks[k]
      <4>1. active'[i].spec = config.tasks[i]
        BY <1>b, <1>c, <3>1, <3>3, <3>5
      <4>2. \A k \in 1..(i - 1) : active'[k].spec = config.tasks[k]
        BY <1>b, <3>1, <3>3 DEF MirrorInv
      <4>. QED  BY <1>c, <4>1, <4>2
    <3>. QED  BY <1>a, <3>1, <3>2, <3>3, <3>4, <3>6
              DEF AfterInitialize, EmptyInv, MirrorInv
  <2>. QED  BY <2>1, <2>2
<1>4. CASE InjectTask
  <2>1. /\ pc \in {"main", "head"} /\ pc' = pc
        /\ injected' = injected + 1 /\ skipped' = skipped
    BY <1>4 DEF InjectTask, rldVars
  <2>2. DOMAIN active' = DOMAIN active
    BY <1>4, <1>b, InjectTaskEffect, LenProperties
  <2>3. DOMAIN config'.tasks = 1..(Len(config.tasks) + 1)
    BY <1>4, InjectTaskEffect, LenProperties DEF Configs
  <2>. QED  BY <1>4, <1>a, <1>b, <1>c, <2>1, <2>2, <2>3, InjectTaskEffect
            DEF EmptyInv, MirrorInv
<1>5. CASE Reload
  <2>1. CASE file.content = Throws
    BY <1>5, <2>1 DEF Reload, EmptyInv, MirrorInv
  <2>2. CASE file.content # Throws
    <3>1. pc' = "init" /\ active' = << >> /\ injected' = 0 /\ skipped' = 0
      BY <1>5, <2>2, ReloadEffect
    <3>2. DOMAIN active' = {}
      BY <3>1
    <3>. QED  BY <3>1, <3>2 DEF EmptyInv, MirrorInv
  <2>. QED  BY <2>1, <2>2
<1>6. CASE RunTask
  <2>1. pc = "tasks" /\ UNCHANGED <<pc, config, injected, skipped>>
    BY <1>6 DEF RunTask, cfgVars, rldVars
  <2>2. DOMAIN active' = DOMAIN active /\ Len(active') = Len(active)
    BY <1>6, <1>b, RunTaskEffect, LenProperties
  <2>3. \A k \in DOMAIN active : active'[k].spec = active[k].spec
    <3>1. PICK src \in Sources :
            /\ \A k \in 1..Len(active) \ {i} : active'[k] = active[k]
            /\ active'[i].spec = active[i].spec
      BY <1>6, RunTaskEffect
    <3>. QED  BY <1>b, <3>1
  <2>. QED  BY <2>1, <2>2, <2>3 DEF EmptyInv, MirrorInv
<1>7. CASE \/ EditFile \/ SetFilename \/ Main \/ LoopHead \/ LoopTail
           \/ CloseWindow \/ CheckFile \/ Done \/ ReadThrows \/ RenderThrows
  BY <1>7 DEF EditFile, SetFilename, Main, LoopHead, BeginTick, LoopTail,
              CloseWindow, CheckFile, Done, ReadThrows, RenderThrows, EmptyInv,
              MirrorInv, cfgVars, rldVars
<1>8. CASE InitialReadThrows
  <2>1. pc = "start" /\ UNCHANGED <<config, injected>>
    BY <1>8 DEF InitialReadThrows, cfgVars
  <2>2. CASE pc' = "crashed"
    BY <1>8, <2>1, <2>2 DEF InitialReadThrows, EmptyInv, MirrorInv
  <2>3. CASE pc' # "crashed"
    <3>1. Len(active) = i - 1
      BY <2>1 DEF MirrorInv
    <3>2. i \in 1..Len(config.tasks) /\ DOMAIN active' = 1..i
      BY <1>8, <1>b, <2>3, <3>1, InitialReadThrowsEffect, LenProperties
    <3>3. \A k \in 1..(i - 1) : active'[k].spec = config.tasks[k]
      BY <1>8, <1>b, <2>3, <3>1, InitialReadThrowsEffect DEF MirrorInv
    <3>4. active'[i].spec = config.tasks[i]
      BY <1>8, <1>b, <1>c, <2>3, <3>1, InitialReadThrowsEffect
    <3>5. \A k \in DOMAIN active' :
            k \in DOMAIN config.tasks /\ active'[k].spec = config.tasks[k]
      BY <1>a, <1>c, <3>2, <3>3, <3>4
    <3>6. Len(config.tasks) = Len(active') + injected + skipped'
      BY <1>8, <1>a, <1>b, <1>c, <2>1, <2>3, <3>1, InitialReadThrowsEffect
      DEF EmptyInv
    <3>. QED  BY <1>8, <2>1, <2>3, <3>5, <3>6, InitialReadThrowsEffect
              DEF EmptyInv, MirrorInv
  <2>. QED  BY <2>2, <2>3
<1>9. CASE Terminated \/ UNCHANGED vars
  BY <1>9 DEF Terminated, EmptyInv, MirrorInv, vars
<1>. QED
  BY <1>1, <1>2, <1>3, <1>4, <1>5, <1>6, <1>7, <1>8, <1>9 DEF Next, Program

THEOREM MirrorCorrect == Spec => [](EmptyInv /\ MirrorInv)
<1>1. Init => EmptyInv /\ MirrorInv
  BY EmptySeq DEF Init, EmptyInv, MirrorInv
<1>. QED  BY <1>1, MirrorStep, TypeCorrect, PTL DEF Spec
-----------------------------------------------------------------------------
(* One session, many providers.                                             *)

\* What the two ends of a read know of each other.
LEMMA ReadsThroughSession ==
  ASSUME NEW ses \in Sessions, NEW provider,
         NEW src \in ReadOutcomes(provider, ses)
  PROVE  IF provider = "ssh" THEN src \in {ses, None} ELSE src = Local
BY DEF ReadOutcomes, ExecuteOutcomes

LEMMA SessionStep ==
  TypeOK /\ EmptyInv /\ SessionInv /\ [Next]_vars => SessionInv'
<1>. SUFFICES ASSUME TypeOK, EmptyInv, SessionInv, [Next]_vars
              PROVE  SessionInv'
  OBVIOUS
<1>a. /\ Len(active) \in Nat
      /\ DOMAIN active = 1..Len(active)
      /\ active = << >> => DOMAIN active = {}
  BY LenProperties DEF TypeOK
<1>1. CASE \/ EditFile \/ BootFromFile \/ BootFromCommandLine \/ ParseArguments
           \/ SetFilename \/ Main \/ LoopHead \/ LoopTail \/ CloseWindow
           \/ CheckFile \/ ReadThrows \/ RenderThrows
  BY <1>1, SshAssumption
  DEF EditFile, BootFromFile, BootFromCommandLine, ParseArguments, SetFilename,
      Main, LoopHead, BeginTick, LoopTail, CloseWindow, CheckFile,
      ReadThrows, RenderThrows, SessionInv, cfgVars, outVars
<1>2. CASE BeginInitialize
  BY <1>2, <1>a DEF BeginInitialize, EmptyInv, SessionInv, outVars
<1>3. CASE StartTask
  <2>1. CASE pc' = "crashed"
    BY <1>3, <2>1
    DEF StartTask, AfterInitialize, SessionInv, cfgVars, outVars
  <2>2. CASE pc' # "crashed"
    <3>1. PICK provider \in {"local", "ssh"}, src \in Sources :
            /\ session' \in IF provider = "ssh" THEN
                   SetupOutcomes(session, ProviderHost(config.tasks[i]))
                 ELSE {session}
            /\ session' \in Sessions
            /\ src \in ReadOutcomes(provider, session')
            /\ active' \in Seq(Tasks)
            /\ Len(active') = Len(active) + 1
            /\ \A k \in 1..Len(active) : active'[k] = active[k]
            /\ active'[Len(active) + 1]
                 = NewTask(config.tasks[i], provider, src)
      BY <1>3, <2>2, StartTaskEffect
    <3>2. pc = "start" /\ UNCHANGED out
      BY <1>3 DEF StartTask, outVars
    <3>3. session # None => session' = session
      BY <3>1 DEF SetupOutcomes
    <3>4. DOMAIN active' = 1..(Len(active) + 1)
      BY <3>1, LenProperties
    <3>5. /\ active'[Len(active) + 1].provider = provider
          /\ active'[Len(active) + 1].prev.src = src
          /\ Unmixed(active'[Len(active) + 1].rate)
      BY <3>1 DEF NewTask, Sample, NoRate, NoSample, Unmixed
    <3>6. IF provider = "ssh" THEN src \in {session', None} ELSE src = Local
      BY <3>1, ReadsThroughSession
    <3>7. ASSUME NEW k \in 1..Len(active)
          PROVE  /\ active'[k].provider = "local" => active'[k].prev.src = Local
                 /\ (active'[k].provider = "ssh" /\ active'[k].prev.src # None)
                      => session' = active'[k].prev.src
                 /\ Unmixed(active'[k].rate)
      BY <1>a, <3>1, <3>2, <3>3 DEF SessionInv
    <3>8. /\ active'[Len(active) + 1].provider = "local"
               => active'[Len(active) + 1].prev.src = Local
          /\ (/\ active'[Len(active) + 1].provider = "ssh"
              /\ active'[Len(active) + 1].prev.src # None)
               => session' = active'[Len(active) + 1].prev.src
      BY <3>5, <3>6
    <3>9. \A k \in DOMAIN active' :
            k \in 1..Len(active) \/ k = Len(active) + 1
      BY <1>a, <3>4
    <3>. QED  BY <3>2, <3>5, <3>7, <3>8, <3>9 DEF SessionInv
  <2>. QED  BY <2>1, <2>2
<1>4. CASE InjectTask
  <2>1. /\ pc \in {"main", "head"}
        /\ UNCHANGED <<pc, session, out>>
    BY <1>4 DEF InjectTask, outVars
  <2>2. DOMAIN active' = DOMAIN active
    BY <1>4, <1>a, InjectTaskEffect, LenProperties
  <2>. QED  BY <1>4, <1>a, <2>1, <2>2, InjectTaskEffect DEF SessionInv
<1>5. CASE Reload
  <2>1. CASE file.content = Throws
    BY <1>5, <2>1 DEF Reload, SessionInv, outVars
  <2>2. CASE file.content # Throws
    <3>1. active' = << >> /\ UNCHANGED out
      BY <1>5, <2>2, ReloadEffect DEF Reload, outVars
    <3>2. DOMAIN active' = {}
      BY <3>1
    <3>. QED  BY <3>1, <3>2 DEF SessionInv
  <2>. QED  BY <2>1, <2>2
<1>6. CASE RunTask
  <2>1. PICK src \in Sources :
          /\ src \in ReadOutcomes(active[i].provider, session)
          /\ i \in 1..Len(active)
          /\ active[i] \in Tasks
          /\ active' \in Seq(Tasks)
          /\ Len(active') = Len(active)
          /\ \A k \in 1..Len(active) \ {i} : active'[k] = active[k]
          /\ active'[i].provider = active[i].provider
          /\ active'[i].prev = Sample(src)
          /\ active'[i].rate = [from |-> active[i].prev, to |-> Sample(src)]
    BY <1>6, RunTaskEffect
  <2>2. /\ pc = "tasks"
        /\ session' = Cleanup(active[i].provider, session)
        /\ UNCHANGED <<pc, out>>
    BY <1>6 DEF RunTask, outVars
  <2>3. session' \in {session, None}
    BY <2>2 DEF Cleanup, CleanupSession
  <2>4. DOMAIN active' = DOMAIN active
    BY <1>a, <2>1, LenProperties
  <2>5. IF active[i].provider = "ssh" THEN src \in {session, None}
                                      ELSE src = Local
    BY <2>1, ReadsThroughSession DEF TypeOK
  <2>6. Sample(src).src = src
    BY DEF Sample
  <2>7. Unmixed(active'[i].rate)
    <3>1. active[i].provider \in {"local", "ssh"}
      BY <2>1 DEF Tasks
    <3>. QED  BY <1>a, <2>1, <2>2, <2>5, <2>6, <3>1 DEF SessionInv, Unmixed
  <2>8. active[i].provider = "ssh" => session' = None
    BY <2>2 DEF Cleanup, CleanupSession
  <2>9. ASSUME NEW k \in DOMAIN active, k # i
        PROVE  /\ active'[k].provider = "local" => active'[k].prev.src = Local
               /\ (active'[k].provider = "ssh" /\ active'[k].prev.src # None)
                    => session' \in {active'[k].prev.src, None}
               /\ Unmixed(active'[k].rate)
    BY <1>a, <2>1, <2>2, <2>3, <2>9 DEF SessionInv
  <2>10. active'[i].provider = "local" => active'[i].prev.src = Local
    BY <2>1, <2>5, <2>6
  <2>. QED  BY <2>1, <2>2, <2>4, <2>7, <2>8, <2>9, <2>10 DEF SessionInv
<1>7. CASE Done
  <2>1. /\ pc = "tasks" /\ pc' = "tail"
        /\ UNCHANGED <<active, session>>
        /\ \A k \in DOMAIN out' : out'[k].rate = active[k].rate
        /\ DOMAIN out' = DOMAIN active
    BY <1>7, DocumentType DEF Done
  <2>. QED  BY <2>1 DEF SessionInv
<1>8. CASE InitialReadThrows
  <2>1. pc = "start" /\ UNCHANGED out
    BY <1>8 DEF InitialReadThrows, outVars
  <2>2. session # None => session' = session
    BY <1>8 DEF InitialReadThrows, SetupOutcomes
  <2>3. CASE pc' = "crashed"
    BY <1>8, <2>1, <2>2, <2>3 DEF InitialReadThrows, SessionInv
  <2>4. CASE pc' # "crashed"
    <3>1. DOMAIN active' = 1..(Len(active) + 1)
      BY <1>8, <2>4, InitialReadThrowsEffect, LenProperties
    <3>2. /\ pc' = "tasks"
          /\ active'[Len(active) + 1].provider = "ssh"
          /\ active'[Len(active) + 1].prev.src = None
          /\ Unmixed(active'[Len(active) + 1].rate)
      BY <1>8, <2>4, InitialReadThrowsEffect
      DEF NoRate, NoSample, Unmixed
    <3>3. ASSUME NEW k \in 1..Len(active)
          PROVE  /\ active'[k].provider = "local" => active'[k].prev.src = Local
                 /\ (active'[k].provider = "ssh" /\ active'[k].prev.src # None)
                      => session' = active'[k].prev.src
                 /\ Unmixed(active'[k].rate)
      BY <1>8, <1>a, <2>1, <2>2, <2>4, InitialReadThrowsEffect DEF SessionInv
    <3>4. \A k \in DOMAIN active' :
            k \in 1..Len(active) \/ k = Len(active) + 1
      BY <1>a, <3>1
    <3>. QED  BY <2>1, <3>2, <3>3, <3>4 DEF SessionInv
  <2>. QED  BY <2>3, <2>4
<1>9. CASE Terminated \/ UNCHANGED vars
  BY <1>9 DEF Terminated, SessionInv, vars
<1>. QED
  BY <1>1, <1>2, <1>3, <1>4, <1>5, <1>6, <1>7, <1>8, <1>9 DEF Next, Program

\* No published rate mixes the counters of two machines, for any number of
\* hosts and SSH tasks, whichever of them fail, and across every reload.
THEOREM HostsNeverMixed == Spec => []NoMixedHosts
<1>1. Init => SessionInv
  BY DEF Init, SessionInv
<1>2. SessionInv => NoMixedHosts
  BY DEF SessionInv, Unmixed, NoMixedHosts
<1>. QED  BY <1>1, <1>2, SessionStep, MirrorCorrect, TypeCorrect, PTL DEF Spec
-----------------------------------------------------------------------------
(* Baselines of rates.                                                      *)

\* TickInv after a step, spelt out: the provers do not prime definitions.
LEMMA TickInvPrimed ==
  TickInv' <=>
    /\ \A k \in DOMAIN active' :
         /\ pc' \in {"start", "main", "head", "tail"}
              => active'[k].prev.at = tick'
         /\ pc' \in {"check", "reload"}
              => Following(active'[k].prev.at) = tick'
         /\ pc' = "tasks" =>
              \/ k < i' /\ Polled(active[k])'
              \/ k >= i' /\ Following(active'[k].prev.at) = tick'
              \/ /\ k >= i' /\ broke_at' = tick'
                 /\ active'[k].prev.at = tick' \/ active'[k].prev = NoSample
    /\ pc' \notin {"tasks", "crashed"} =>
         \A k \in DOMAIN out' : SpansOneTick(out[k].rate)'
BY DEF TickInv, Due, Fresh, Following, NoSample

\* What has been polled stays polled while the tick and the mark of the last
\* broken reload stay.
LEMMA SpansStable ==
  ASSUME UNCHANGED <<out, broke_at>>
  PROVE  \A k \in DOMAIN out' :
           SpansOneTick(out[k].rate)' <=> SpansOneTick(out[k].rate)
BY DEF SpansOneTick, Following

LEMMA TickStep ==
  TypeOK /\ EmptyInv /\ TickInv /\ [Next]_vars => TickInv'
<1>. SUFFICES ASSUME TypeOK, EmptyInv, TickInv, [Next]_vars
              PROVE  TickInv'
  OBVIOUS
<1>. USE DEF Fresh, Due
<1>a. /\ Len(active) \in Nat
      /\ DOMAIN active = 1..Len(active)
      /\ active = << >> => DOMAIN active = {}
  BY LenProperties DEF TypeOK
<1>b. i \in Nat
  BY DEF TypeOK
<1>1. CASE BootFromFile \/ BootFromCommandLine \/ ParseArguments \/ SetFilename
  <2>1. /\ pc \in {"boot", "stamp"} /\ pc' \notin {"tasks"}
        /\ UNCHANGED <<active, out, broke_at>>
    BY <1>1 DEF BootFromFile, BootFromCommandLine, ParseArguments, SetFilename,
                rldVars, outVars
  <2>. QED  BY <1>a, <2>1, TickInvPrimed, SpansStable DEF TickInv, EmptyInv
<1>2. CASE EditFile \/ Main \/ LoopTail \/ CloseWindow
  <2>1. /\ pc' = pc \/ (pc \in {"main", "head", "tail"}
                        /\ pc' \in {"head", "exit"})
        /\ UNCHANGED <<active, i, tick, out, broke_at>>
    BY <1>2 DEF EditFile, Main, LoopTail, CloseWindow, rldVars, outVars
  <2>2. \A k \in DOMAIN active : Polled(active[k])' <=> Polled(active[k])
    BY <2>1 DEF Polled, SpansOneTick, Following
  <2>. QED  BY <2>1, <2>2, TickInvPrimed, SpansStable DEF TickInv
<1>3. CASE BeginInitialize
  <2>1. /\ pc = "init" /\ pc' \in {"main", "tail", "start"}
        /\ UNCHANGED <<active, out, broke_at>>
    BY <1>3 DEF BeginInitialize, AfterInitialize, rldVars, outVars
  <2>. QED  BY <1>a, <2>1, TickInvPrimed, SpansStable DEF TickInv, EmptyInv
<1>4. CASE StartTask
  <2>1. pc = "start" /\ UNCHANGED <<tick, out, broke_at>>
    BY <1>4 DEF StartTask, rldVars, outVars
  <2>2. CASE pc' = "crashed"
    BY <2>1, <2>2, TickInvPrimed
  <2>3. CASE pc' # "crashed"
    <3>1. PICK provider \in {"local", "ssh"}, src \in Sources :
            /\ active' \in Seq(Tasks)
            /\ Len(active') = Len(active) + 1
            /\ \A k \in 1..Len(active) : active'[k] = active[k]
            /\ active'[Len(active) + 1]
                 = NewTask(config.tasks[i], provider, src)
      BY <1>4, <2>3, StartTaskEffect
    <3>2. pc' \in {"start", "main", "tail"}
      BY <1>4, <2>3 DEF StartTask, AfterInitialize
    <3>3. DOMAIN active' = 1..(Len(active) + 1)
      BY <3>1, LenProperties
    <3>4. active'[Len(active) + 1].prev.at = tick
      BY <3>1 DEF NewTask, Sample
    <3>5. \A k \in 1..Len(active) : active'[k].prev.at = tick
      BY <1>a, <2>1, <3>1 DEF TickInv
    <3>6. \A k \in DOMAIN active' : active'[k].prev.at = tick
      BY <1>a, <3>3, <3>4, <3>5
    <3>. QED  BY <2>1, <3>2, <3>6, TickInvPrimed, SpansStable DEF TickInv
  <2>. QED  BY <2>2, <2>3
<1>5. CASE InitialReadThrows
  <2>1. pc = "start" /\ tick' = tick
    BY <1>5 DEF InitialReadThrows
  <2>2. CASE pc' = "crashed"
    BY <2>2, TickInvPrimed
  <2>3. CASE pc' # "crashed"
    <3>1. /\ pc' = "tasks" /\ i' = 1 /\ broke_at' = tick
          /\ DOMAIN active' = 1..(Len(active) + 1)
      BY <1>5, <2>3, InitialReadThrowsEffect, LenProperties
    <3>2. \A k \in 1..Len(active) : active'[k].prev.at = tick
      BY <1>5, <1>a, <2>1, <2>3, InitialReadThrowsEffect DEF TickInv
    <3>3. active'[Len(active) + 1].prev = NoSample
      BY <1>5, <2>3, InitialReadThrowsEffect
    <3>4. \A k \in DOMAIN active' :
            k >= 1 /\ (active'[k].prev.at = tick \/ active'[k].prev = NoSample)
      BY <1>a, <3>1, <3>2, <3>3
    <3>. QED  BY <2>1, <3>1, <3>4, TickInvPrimed
  <2>. QED  BY <2>2, <2>3
<1>6. CASE InjectTask
  <2>1. /\ pc \in {"main", "head"}
        /\ UNCHANGED <<pc, tick, out, broke_at>>
    BY <1>6 DEF InjectTask, rldVars, outVars
  <2>2. DOMAIN active' = DOMAIN active
    BY <1>6, <1>a, InjectTaskEffect, LenProperties
  <2>3. \A k \in DOMAIN active : active'[k].prev = active[k].prev
    BY <1>6, <1>a, InjectTaskEffect
  <2>. QED  BY <2>1, <2>2, <2>3, TickInvPrimed, SpansStable DEF TickInv
<1>7. CASE LoopHead
  <2>1. pc = "head" /\ UNCHANGED <<active, out, broke_at>>
    BY <1>7 DEF LoopHead, rldVars, outVars
  <2>2. \/ pc' = "exit"
        \/ pc' = "check" /\ tick' = Following(tick)
    BY <1>7 DEF LoopHead, BeginTick, Following
  <2>. QED  BY <2>1, <2>2, TickInvPrimed, SpansStable DEF TickInv
<1>8. CASE CheckFile
  <2>1. /\ pc = "check"
        /\ pc' = "reload" \/ (pc' = "tasks" /\ i' = 1)
        /\ UNCHANGED <<active, tick, out, broke_at>>
    BY <1>8 DEF CheckFile, rldVars, outVars
  <2>. QED  BY <1>a, <2>1, TickInvPrimed, SpansStable DEF TickInv
<1>9. CASE Reload
  <2>1. pc = "reload" /\ UNCHANGED <<tick, out, broke_at>>
    BY <1>9 DEF Reload, outVars
  <2>2. CASE file.content = Throws
    <3>1. pc' = "tasks" /\ i' = 1 /\ active' = active
      BY <1>9, <2>2 DEF Reload
    <3>. QED  BY <1>a, <2>1, <3>1, TickInvPrimed DEF TickInv
  <2>3. CASE file.content # Throws
    <3>1. active' = << >> /\ pc' = "init"
      BY <1>9, <2>3, ReloadEffect
    <3>. QED  BY <2>1, <3>1, TickInvPrimed, SpansStable DEF TickInv
  <2>. QED  BY <2>2, <2>3
<1>10. CASE RunTask
  <2>1. PICK src \in Sources :
          /\ i \in 1..Len(active)
          /\ active' \in Seq(Tasks)
          /\ Len(active') = Len(active)
          /\ \A k \in 1..Len(active) \ {i} : active'[k] = active[k]
          /\ active'[i].prev = Sample(src)
          /\ active'[i].rate = [from |-> active[i].prev, to |-> Sample(src)]
    BY <1>10, RunTaskEffect
  <2>2. pc = "tasks" /\ i' = i + 1 /\ UNCHANGED <<pc, tick, broke_at>>
    BY <1>10 DEF RunTask, rldVars
  <2>3. DOMAIN active' = DOMAIN active
    BY <1>a, <2>1, LenProperties
  <2>4. ASSUME NEW k \in DOMAIN active, k = i
        PROVE  Polled(active[k])'
    <3>1. \/ Following(active[i].prev.at) = tick
          \/ /\ active[i].prev.at = tick \/ active[i].prev = NoSample
             /\ broke_at = tick
      BY <1>a, <1>b, <2>1, <2>2 DEF TickInv
    <3>2. /\ active'[i].prev.at = tick
          /\ active'[i].rate.from = active[i].prev
          /\ active'[i].rate.to.at = tick
      BY <2>1 DEF Sample
    <3>. QED  BY <2>2, <2>4, <3>1, <3>2 DEF Polled, SpansOneTick, Following,
                                                 NoSample
  <2>5. ASSUME NEW k \in DOMAIN active, k < i
        PROVE  Polled(active[k])'
    <3>1. Polled(active[k]) /\ active'[k] = active[k]
      BY <1>a, <1>b, <2>1, <2>2, <2>5 DEF TickInv
    <3>. QED  BY <2>2, <3>1 DEF Polled, SpansOneTick, Following
  <2>6. ASSUME NEW k \in DOMAIN active, k > i
        PROVE  \/ Following(active'[k].prev.at) = tick'
               \/ /\ active'[k].prev.at = tick' \/ active'[k].prev = NoSample
                  /\ broke_at' = tick'
    BY <1>a, <1>b, <2>1, <2>2, <2>6 DEF TickInv
  <2>7. ASSUME NEW k \in DOMAIN active'
        PROVE  \/ k < i' /\ Polled(active[k])'
               \/ k >= i' /\ Following(active'[k].prev.at) = tick'
               \/ /\ k >= i' /\ broke_at' = tick'
                  /\ active'[k].prev.at = tick' \/ active'[k].prev = NoSample
    <3>1. k \in Nat /\ k \in DOMAIN active
      BY <1>a, <2>3
    <3>2. CASE k = i
      BY <1>b, <2>2, <2>4, <3>1, <3>2
    <3>3. CASE k < i
      BY <1>b, <2>2, <2>5, <3>1, <3>3
    <3>4. CASE k > i
      BY <1>b, <2>2, <2>6, <3>1, <3>4
    <3>. QED  BY <1>b, <3>1, <3>2, <3>3, <3>4
  <2>. QED  BY <2>2, <2>7, TickInvPrimed
<1>11. CASE Done
  <2>1. /\ pc = "tasks" /\ pc' = "tail" /\ i > Len(active)
        /\ UNCHANGED <<active, tick, broke_at>>
        /\ \A k \in DOMAIN out' : out'[k].rate = active[k].rate
        /\ DOMAIN out' = DOMAIN active
    BY <1>11, DocumentType DEF Done, rldVars
  <2>2. \A k \in DOMAIN active : Polled(active[k])
    BY <1>a, <1>b, <2>1 DEF TickInv
  <2>3. \A k \in DOMAIN out' : SpansOneTick(out[k].rate)'
    BY <2>1, <2>2 DEF Polled, SpansOneTick, Following
  <2>. QED  BY <2>1, <2>2, <2>3, TickInvPrimed DEF Polled
<1>12. CASE ReadThrows \/ RenderThrows
  <2>1. pc' = "crashed"
    BY <1>12 DEF ReadThrows, RenderThrows
  <2>. QED  BY <2>1, TickInvPrimed
<1>13. CASE Terminated \/ UNCHANGED vars
  <2>1. UNCHANGED <<pc, active, i, tick, out, broke_at>>
    BY <1>13 DEF Terminated, vars
  <2>2. \A k \in DOMAIN active : Polled(active[k])' <=> Polled(active[k])
    BY <2>1 DEF Polled, SpansOneTick, Following
  <2>. QED  BY <2>1, <2>2, TickInvPrimed, SpansStable DEF TickInv
<1>. QED
  BY <1>1, <1>2, <1>3, <1>4, <1>5, <1>6, <1>7, <1>8, <1>9, <1>10, <1>11, <1>12,
     <1>13
  DEF Next, Program

\* Every published rate spans exactly one tick, however the loop of the tick
\* is interrupted by failed and successful reloads; only a reload that breaks
\* off publishes rates within its own tick.
THEOREM RatesAreCurrent == Spec => []RatesSpanOneTick
<1>1. Init => TickInv
  BY DEF Init, TickInv
<1>2. TickInv => RatesSpanOneTick
  BY DEF TickInv, RatesSpanOneTick
<1>. QED  BY <1>1, <1>2, TickStep, MirrorCorrect, TypeCorrect, PTL DEF Spec
-----------------------------------------------------------------------------
(* The processor follows the configuration.                                 *)

\* With a list of tasks and a registered mode, configure_renderer leaves the
\* processor of that mode and of the first task; otherwise it does nothing.
LEMMA RendererOfConfig ==
  ASSUME NEW cfg \in Configs, NEW old
  PROVE  ConfigureRenderer(cfg, old) =
           IF cfg.tasks # << >> /\ cfg.output_mode \in Modes
           THEN [mode |-> cfg.output_mode, settings |-> cfg.tasks[1].settings]
           ELSE old
<1>1. cfg.tasks \in Seq(TaskSpecs)
  BY DEF Configs
<1>2. cfg.tasks # << >> => Head(cfg.tasks) = cfg.tasks[1]
  BY <1>1
<1>. QED  BY <1>2 DEF ConfigureRenderer

LEMMA RendererStep ==
  TypeOK /\ EmptyInv /\ MirrorInv /\ RendererInv /\ [Next]_vars => RendererInv'
<1>. SUFFICES ASSUME TypeOK, EmptyInv, MirrorInv, RendererInv, [Next]_vars
              PROVE  RendererInv'
  OBVIOUS
<1>a. "none" \notin Modes
  BY ControllerAssumption
<1>b. /\ Len(active) \in Nat
      /\ DOMAIN active = 1..Len(active)
      /\ active # << >> <=> Len(active) # 0
  BY LenProperties, EmptySeq DEF TypeOK
<1>1. CASE BootFromFile \/ BootFromCommandLine \/ ParseArguments
  BY <1>1 DEF BootFromFile, BootFromCommandLine, ParseArguments, EmptyInv,
              RendererInv, outVars
<1>2. CASE EditFile \/ SetFilename \/ LoopHead \/ LoopTail \/ CloseWindow
  BY <1>2 DEF EditFile, SetFilename, LoopHead, BeginTick, LoopTail,
              CloseWindow, RendererInv, EmptyInv, cfgVars, outVars
<1>3. CASE BeginInitialize
  <2>1. /\ pc = "init" /\ active = << >>
        /\ pc' = IF config.tasks = << >> THEN AfterInitialize ELSE "start"
        /\ UNCHANGED <<config, runner, active, out>>
    BY <1>3 DEF BeginInitialize, EmptyInv, outVars
  <2>2. renderer' =
          IF config.tasks # << >> /\ config.output_mode \in Modes
          THEN [mode |-> config.output_mode,
                settings |-> config.tasks[1].settings]
          ELSE renderer
    BY <1>3, RendererOfConfig DEF BeginInitialize, TypeOK
  <2>. QED  BY <1>a, <2>1, <2>2 DEF RendererInv, AfterInitialize
<1>4. CASE StartTask
  <2>1. pc = "start" /\ UNCHANGED <<config, renderer, runner, out>>
    BY <1>4 DEF StartTask, cfgVars, outVars
  <2>2. \/ pc' \in {"crashed", "start"}
        \/ runner = "none" /\ pc' = "main"
        \/ runner # "none" /\ pc' = "tail"
    BY <1>4 DEF StartTask, AfterInitialize
  <2>. QED  BY <2>1, <2>2 DEF RendererInv
<1>5. CASE Main
  BY <1>5 DEF Main, RendererInv, cfgVars, outVars
<1>6. CASE InjectTask
  <2>1. /\ pc \in {"main", "head"}
        /\ UNCHANGED <<pc, renderer, runner, out>>
    BY <1>6 DEF InjectTask, outVars
  <2>2. active' # << >> => active # << >>
    BY <1>6, <1>b, InjectTaskEffect, EmptySeq
  <2>3. active # << >> => config'.tasks[1] = config.tasks[1]
    <3>1. active # << >> => 1 \in DOMAIN config.tasks
      BY <1>b DEF MirrorInv
    <3>2. DOMAIN config.tasks = 1..Len(config.tasks)
      BY LenProperties DEF TypeOK, Configs
    <3>. QED  BY <1>6, <3>1, <3>2, InjectTaskEffect
  <2>4. config'.output_mode = config.output_mode
    BY <1>6, InjectTaskEffect
  <2>. QED  BY <2>1, <2>2, <2>3, <2>4 DEF RendererInv
<1>7. CASE CheckFile
  BY <1>7 DEF CheckFile, RendererInv, outVars
<1>8. CASE Reload
  <2>1. pc = "reload" /\ UNCHANGED <<renderer, runner, out>>
    BY <1>8 DEF Reload, outVars
  <2>2. CASE file.content = Throws
    <3>1. pc' = "tasks" /\ UNCHANGED <<config, active>>
      BY <1>8, <2>2 DEF Reload
    <3>. QED  BY <2>1, <3>1 DEF RendererInv
  <2>3. CASE file.content # Throws
    <3>1. /\ pc' = "init"
          /\ config.output_mode \in Modes => config'.output_mode \in Modes
      BY <1>8, <2>3, ReloadEffect
    <3>. QED  BY <2>1, <3>1 DEF RendererInv
  <2>. QED  BY <2>2, <2>3
<1>9. CASE RunTask
  <2>1. pc = "tasks" /\ UNCHANGED <<pc, config, renderer, runner, out>>
    BY <1>9 DEF RunTask, cfgVars, outVars
  <2>2. active # << >>
    <3>1. i \in 1..Len(active)
      BY <1>9, RunTaskEffect
    <3>. QED  BY <1>b, <3>1
  <2>. QED  BY <2>1, <2>2 DEF RendererInv
<1>10. CASE Done
  <2>1. /\ pc = "tasks" /\ pc' = "tail"
        /\ UNCHANGED <<active, config, renderer, runner>>
        /\ DOMAIN out' = DOMAIN active
        /\ \A k \in DOMAIN out' : /\ out'[k].settings = renderer.settings
                                  /\ out'[k].spec = active[k].spec
    BY <1>10, DocumentType DEF Done, cfgVars
  <2>2. config.output_mode \in Modes
    BY <2>1 DEF RendererInv
  <2>3. active # << >> => renderer.settings = active[1].spec.settings
    BY <1>b, <2>1, <2>2 DEF RendererInv, MirrorInv
  <2>4. active # << >> => 1 \in DOMAIN active
    BY <1>b
  <2>5. DOMAIN active # {} => active # << >>
    BY <1>b
  <2>6. \A k \in DOMAIN out' : out'[k].settings = out'[1].spec.settings
    BY <2>1, <2>3, <2>4, <2>5
  <2>. QED  BY <2>1, <2>2, <2>6 DEF RendererInv
<1>11. CASE InitialReadThrows
  <2>1. pc = "start" /\ UNCHANGED <<config, renderer, runner, out>>
    BY <1>11 DEF InitialReadThrows, cfgVars, outVars
  <2>2. pc' = "crashed" \/ (runner # "none" /\ pc' = "tasks")
    BY <1>11 DEF InitialReadThrows
  <2>. QED  BY <2>1, <2>2 DEF RendererInv
<1>12. CASE ReadThrows \/ RenderThrows
  BY <1>12 DEF ReadThrows, RenderThrows, RendererInv, cfgVars, outVars
<1>13. CASE Terminated \/ UNCHANGED vars
  BY <1>13 DEF Terminated, RendererInv, vars
<1>. QED
  BY <1>1, <1>2, <1>3, <1>4, <1>5, <1>6, <1>7, <1>8, <1>9, <1>10, <1>11, <1>12,
     <1>13 DEF Next, Program

\* No document is rendered with the processor or the settings of a
\* configuration that a reload has replaced.
THEOREM RendererIsCurrent == Spec => []RendererCurrent
<1>1. Init => RendererInv
  BY DEF Init, RendererInv, NoRenderer
<1>2. RendererInv => RendererCurrent
  BY DEF RendererInv, RendererCurrent
<1>. QED  BY <1>1, <1>2, RendererStep, MirrorCorrect, TypeCorrect, PTL DEF Spec

-----------------------------------------------------------------------------
(* Contexts outlive their tasks.                                            *)

LEMMA ContextsStep ==
  TypeOK /\ EmptyInv /\ ContextsLive /\ [Next]_vars => ContextsLive'
<1>. SUFFICES ASSUME TypeOK, EmptyInv, ContextsLive, [Next]_vars
              PROVE  ContextsLive'
  OBVIOUS
<1>a. DOMAIN active = 1..Len(active) /\ Len(active) \in Nat
  BY LenProperties DEF TypeOK
<1>1. CASE StartTask
  <2>1. CASE pc' = "crashed"
    BY <1>1, <2>1 DEF StartTask, AfterInitialize, ContextsLive
  <2>2. CASE pc' # "crashed"
    <3>1. PICK provider \in {"local", "ssh"}, src \in Sources :
            /\ active' \in Seq(Tasks)
            /\ Len(active') = Len(active) + 1
            /\ \A k \in 1..Len(active) : active'[k] = active[k]
            /\ active'[Len(active) + 1]
                 = NewTask(config.tasks[i], provider, src)
      BY <1>1, <2>2, StartTaskEffect
    <3>2. /\ DOMAIN active' = 1..(Len(active) + 1)
          /\ active'[Len(active) + 1].context = "live"
      BY <3>1, LenProperties DEF NewTask
    <3>3. injected' = injected
      BY <1>1 DEF StartTask
    <3>. QED  BY <1>a, <3>1, <3>2, <3>3 DEF ContextsLive
  <2>. QED  BY <2>1, <2>2
<1>2. CASE InjectTask
  <2>1. injected' # 0
    BY <1>2, ControllerAssumption DEF InjectTask, TypeOK
  <2>. QED  BY <2>1 DEF ContextsLive
<1>3. CASE Reload
  <2>1. CASE file.content = Throws
    BY <1>3, <2>1 DEF Reload, ContextsLive
  <2>2. CASE file.content # Throws
    <3>1. active' = << >>
      BY <1>3, <2>2, ReloadEffect
    <3>2. DOMAIN active' = {}
      BY <3>1
    <3>. QED  BY <3>2 DEF ContextsLive
  <2>. QED  BY <2>1, <2>2
<1>4. CASE RunTask
  <2>1. /\ \A k \in 1..Len(active) \ {i} : active'[k] = active[k]
        /\ active'[i].context = active[i].context
        /\ active' \in Seq(Tasks) /\ Len(active') = Len(active)
    BY <1>4, RunTaskEffect
  <2>2. DOMAIN active' = DOMAIN active
    BY <1>a, <2>1, LenProperties
  <2>3. injected' = injected
    BY <1>4 DEF RunTask
  <2>. QED  BY <1>a, <2>1, <2>2, <2>3 DEF ContextsLive
<1>5. CASE \/ EditFile \/ BootFromFile \/ BootFromCommandLine \/ ParseArguments
           \/ SetFilename \/ BeginInitialize \/ Main \/ LoopHead \/ LoopTail
           \/ CloseWindow \/ CheckFile \/ Done \/ ReadThrows \/ RenderThrows
  BY <1>5
  DEF EditFile, BootFromFile, BootFromCommandLine, ParseArguments, SetFilename,
      BeginInitialize, Main, LoopHead, BeginTick, LoopTail, CloseWindow,
      CheckFile, Done, ReadThrows, RenderThrows, ContextsLive
<1>6. CASE InitialReadThrows
  <2>1. CASE pc' = "crashed"
    BY <1>6, <2>1 DEF InitialReadThrows, ContextsLive
  <2>2. CASE pc' # "crashed"
    <3>1. /\ DOMAIN active' = 1..(Len(active) + 1)
          /\ active'[Len(active) + 1].context = "live"
      BY <1>6, <2>2, InitialReadThrowsEffect, LenProperties
    <3>2. \A k \in 1..Len(active) : active'[k] = active[k]
      BY <1>6, <2>2, InitialReadThrowsEffect
    <3>3. injected' = injected
      BY <1>6 DEF InitialReadThrows
    <3>. QED  BY <1>a, <3>1, <3>2, <3>3 DEF ContextsLive
  <2>. QED  BY <2>1, <2>2
<1>7. CASE Terminated \/ UNCHANGED vars
  BY <1>7 DEF Terminated, ContextsLive, vars
<1>. QED  BY <1>1, <1>2, <1>3, <1>4, <1>5, <1>6, <1>7 DEF Next, Program

\* As long as no context is injected, no task outlives the vector of contexts
\* its lambdas refer into.
THEOREM ContextsOutliveTasks == Spec => []ContextsLive
<1>1. Init => ContextsLive
  BY DEF Init, ContextsLive
<1>. QED  BY <1>1, ContextsStep, MirrorCorrect, TypeCorrect, PTL DEF Spec
-----------------------------------------------------------------------------
(* A watched file whose stamp was taken is in force.                        *)

\* The stamp is never ahead of the file, and what was loaded is of that stamp
\* or the file has a newer one.  Where parse_arguments has loaded the file and
\* has yet to stamp it, the file is still what was loaded.
FreshInv ==
  /\ pc \in {"boot", "stamp"} => ~watched
  /\ pc = "stamp" => config = LoadLuaConfig(file.content)
  /\ watched => last_write <= file.mtime
  /\ (/\ watched /\ pc # "reload" /\ injected = 0
      /\ file.mtime = last_write /\ file.content \notin {Missing, Throws})
     => LET loaded == LoadLuaConfig(file.content) IN
        /\ config.tasks = loaded.tasks
        /\ config.run_mode = loaded.run_mode

LEMMA FreshStep ==
  ASSUME NewerEdits, ~BootRace, TypeOK, FreshInv, [Next]_vars
  PROVE  FreshInv'
<1>a. file.mtime \in Nat /\ last_write \in Nat
  BY DEF TypeOK
<1>1. CASE EditFile
  <2>1. pc # "stamp" /\ UNCHANGED <<pc, watched, last_write>>
    BY <1>1 DEF EditFile, cfgVars
  <2>2. file'.mtime \in Nat /\ file'.mtime > file.mtime
    BY <1>1, ControllerAssumption DEF EditFile
  <2>3. watched => last_write < file'.mtime
    BY <1>a, <2>2 DEF FreshInv
  <2>. QED  BY <1>a, <2>1, <2>2, <2>3 DEF FreshInv
<1>2. CASE BootFromFile \/ BootFromCommandLine \/ ParseArguments
  BY <1>2 DEF BootFromFile, BootFromCommandLine, ParseArguments, FreshInv,
              envVars
<1>3. CASE SetFilename
  BY <1>a, <1>3 DEF SetFilename, FreshInv, envVars
<1>4. CASE InjectTask
  <2>1. injected' # 0
    BY <1>4, ControllerAssumption DEF InjectTask, TypeOK
  <2>. QED  BY <1>4, <2>1 DEF InjectTask, FreshInv, envVars
<1>5. CASE CheckFile
  <2>1. /\ pc = "check" /\ pc' \in {"reload", "tasks"}
        /\ UNCHANGED <<file, config, watched, injected>>
        /\ pc' = "reload" => last_write' = file.mtime
        /\ pc' = "tasks" => last_write' = last_write
    BY <1>5 DEF CheckFile, envVars
  <2>. QED  BY <1>a, <2>1 DEF FreshInv
<1>6. CASE Reload
  <2>1. pc = "reload" /\ UNCHANGED <<file, watched, last_write>>
    BY <1>6 DEF Reload, envVars
  <2>2. CASE file.content = Throws
    BY <1>6, <2>1, <2>2 DEF Reload, FreshInv
  <2>3. CASE file.content # Throws
    <3>1. /\ pc' = "init"
          /\ config'.tasks = LoadLuaConfig(file.content).tasks
          /\ config'.run_mode = LoadLuaConfig(file.content).run_mode
      BY <1>6, <2>3 DEF Reload
    <3>. QED  BY <2>1, <3>1 DEF FreshInv
  <2>. QED  BY <2>2, <2>3
<1>7. ASSUME pc \notin {"boot", "stamp", "reload"},
             pc' \notin {"boot", "stamp", "reload"},
             UNCHANGED <<file, config, watched, last_write, injected>>
      PROVE  FreshInv'
  BY <1>7 DEF FreshInv
<1>8. CASE BeginInitialize
  BY <1>7, <1>8 DEF BeginInitialize, AfterInitialize, envVars
<1>9. CASE StartTask \/ InitialReadThrows
  BY <1>7, <1>9
  DEF StartTask, InitialReadThrows, AfterInitialize, envVars, cfgVars
<1>10. CASE Main \/ LoopHead \/ LoopTail \/ CloseWindow
  BY <1>7, <1>10
  DEF Main, LoopHead, BeginTick, LoopTail, CloseWindow, envVars, cfgVars
<1>11. CASE RunTask \/ ReadThrows \/ Done \/ RenderThrows
  BY <1>7, <1>11 DEF RunTask, ReadThrows, Done, RenderThrows, envVars, cfgVars
<1>12. CASE Terminated \/ UNCHANGED vars
  BY <1>12 DEF Terminated, FreshInv, vars
<1>. QED
  BY <1>1, <1>2, <1>3, <1>4, <1>5, <1>6, <1>8, <1>9, <1>10, <1>11, <1>12
  DEF Next, Program

\* Where every edit has a later time stamp and none falls between the load and
\* the stamp of parse_arguments, the configuration in force is that of the file
\* whose stamp was taken, however many edits and reloads went before.
THEOREM EditsAreInForce ==
  ASSUME NewerEdits, ~BootRace  PROVE Spec => []UpToDate
<1>1. Init => FreshInv
  BY DEF Init, FreshInv
<1>2. FreshInv => UpToDate
  BY DEF FreshInv, UpToDate
<1>3. TypeOK /\ FreshInv /\ [Next]_vars => FreshInv'
  BY FreshStep
<1>. QED  BY <1>1, <1>2, <1>3, TypeCorrect, PTL DEF Spec

-----------------------------------------------------------------------------
(* Edits cost ticks.                                                        *)

\* An edit that the process has yet to notice.
Pending == watched /\ file.mtime > last_write

\* Where a tick that has begun can still publish.
InTick ==
  \/ pc \in {"check", "reload", "tasks"}
  \/ runner # "none" /\ pc \in {"init", "start"}

\* Every edit pays for one tick without a document, the one in which it is
\* noticed: until then it is there to be noticed.  The tick the process is in
\* is not paid for until it turns into a reload.
PaidInv ==
  /\ pc \in {"boot", "stamp"} => runner = "none"
  /\ owed >= IF InTick THEN 1 ELSE 0
  /\ owed + (IF Pending THEN 1 ELSE 0)
       <= edits + (IF pc \in {"check", "tasks", "crashed"} THEN 1 ELSE 0)

LEMMA PaidStep == TypeOK /\ PaidInv /\ [Next]_vars => PaidInv'
<1>. SUFFICES ASSUME TypeOK, PaidInv, [Next]_vars  PROVE PaidInv'
  OBVIOUS
<1>a. /\ file.mtime \in Nat /\ last_write \in Nat /\ owed \in Int
      /\ MaxEdits \in Nat /\ edits \in 0..MaxEdits
  BY ControllerAssumption DEF TypeOK
<1>. USE DEF PaidInv, InTick, Pending
<1>1. CASE EditFile
  BY <1>a, <1>1 DEF EditFile, cfgVars, outVars
<1>2. CASE BootFromFile \/ BootFromCommandLine \/ ParseArguments
  BY <1>a, <1>2
  DEF BootFromFile, BootFromCommandLine, ParseArguments, envVars, outVars
<1>3. CASE SetFilename
  BY <1>a, <1>3 DEF SetFilename, envVars, outVars
<1>4. CASE BeginInitialize
  BY <1>a, <1>4 DEF BeginInitialize, AfterInitialize, envVars, outVars
<1>5. CASE StartTask \/ InitialReadThrows
  <2>1. /\ pc = "start"
        /\ UNCHANGED <<file, edits, watched, last_write, runner, owed>>
    BY <1>5 DEF StartTask, InitialReadThrows, envVars, cfgVars, outVars
  <2>2. \/ pc' \in {"crashed", "start"}
        \/ runner = "none" /\ pc' = "main"
        \/ runner # "none" /\ pc' \in {"tail", "tasks"}
    BY <1>5 DEF StartTask, InitialReadThrows, AfterInitialize
  <2>. QED  BY <1>a, <2>1, <2>2
<1>6. CASE Main \/ InjectTask \/ LoopTail \/ CloseWindow
  BY <1>a, <1>6
  DEF Main, InjectTask, LoopTail, CloseWindow, envVars, cfgVars, outVars
<1>7. CASE LoopHead
  <2>1. /\ pc = "head"
        /\ UNCHANGED <<file, edits, watched, last_write, runner>>
        /\ \/ pc' = "exit" /\ owed' = owed
           \/ pc' = "check" /\ owed' = IF owed > MaxEdits THEN owed
                                                          ELSE owed + 1
    BY <1>7 DEF LoopHead, BeginTick, envVars, cfgVars
  <2>2. owed <= MaxEdits
    BY <1>a, <2>1
  <2>. QED  BY <1>a, <2>1, <2>2
<1>8. CASE CheckFile
  <2>1. /\ pc = "check" /\ UNCHANGED <<file, edits, watched, runner, owed>>
        /\ \/ /\ Pending /\ pc' = "reload"
              /\ last_write' = file.mtime
           \/ pc' = "tasks" /\ last_write' = last_write
    BY <1>8 DEF CheckFile, FileIsNewer, envVars, outVars
  <2>. QED  BY <1>a, <2>1
<1>9. CASE Reload
  <2>1. /\ pc = "reload" /\ pc' \in {"tasks", "init"}
        /\ UNCHANGED <<file, edits, watched, last_write, runner, owed>>
    BY <1>9 DEF Reload, envVars, outVars
  <2>. QED  BY <1>a, <2>1
<1>10. CASE RunTask \/ ReadThrows \/ RenderThrows
  BY <1>a, <1>10
  DEF RunTask, ReadThrows, RenderThrows, envVars, cfgVars, outVars
<1>11. CASE Done
  BY <1>a, <1>11 DEF Done, envVars, cfgVars
<1>12. CASE Terminated \/ UNCHANGED vars
  BY <1>a, <1>12 DEF Terminated, vars
<1>. QED
  BY <1>1, <1>2, <1>3, <1>4, <1>5, <1>6, <1>7, <1>8, <1>9, <1>10, <1>11, <1>12
  DEF Next, Program

\* However often and whenever the file is edited, between two ticks at most as
\* many ticks have passed without a document as there were edits, and no tick
\* has published two.
THEOREM EditsArePaid == Spec => []EditsCostOneTick
<1>1. Init => PaidInv
  BY DEF Init, PaidInv, InTick, Pending
<1>2. TypeOK /\ PaidInv => EditsCostOneTick
  BY ControllerAssumption
  DEF PaidInv, InTick, Pending, TypeOK, EditsCostOneTick
<1>. QED  BY <1>1, <1>2, PaidStep, TypeCorrect, PTL DEF Spec

-----------------------------------------------------------------------------
(* A run-once process publishes once.                                       *)

\* While the file is not watched the run mode stays what it was at the start,
\* and with it the one way of json_main through a tick.
OnceInv ==
  /\ runner = "none" =>
       outputs = 0 /\ pc \notin {"head", "check", "reload", "tasks", "tail"}
  /\ pc = "main" => runner = "none"
  /\ (/\ runner # "none"
      /\ pc \in {"boot", "stamp", "init", "start", "reload"}) => watched
  /\ ~watched /\ runner = "json" =>
       /\ config.run_mode # "persistent" =>
            /\ pc \in {"head", "check", "tasks"} => outputs = 0
            /\ pc = "tail" => outputs = 1
       /\ pc = "exit" => outputs = 1

LEMMA OnceStep == TypeOK /\ OnceInv /\ [Next]_vars => OnceInv'
<1>. SUFFICES ASSUME TypeOK, OnceInv, [Next]_vars  PROVE OnceInv'
  OBVIOUS
<1>1. CASE BootFromFile \/ BootFromCommandLine \/ ParseArguments
  BY <1>1 DEF BootFromFile, BootFromCommandLine, ParseArguments, OnceInv,
              outVars
<1>2. CASE EditFile \/ SetFilename
  BY <1>2 DEF EditFile, SetFilename, OnceInv, cfgVars, outVars
<1>3. CASE BeginInitialize
  BY <1>3 DEF BeginInitialize, AfterInitialize, OnceInv, outVars
<1>4. CASE StartTask \/ InitialReadThrows
  <2>1. /\ pc = "start"
        /\ UNCHANGED <<config, watched, runner, outputs>>
    BY <1>4 DEF StartTask, InitialReadThrows, cfgVars, outVars
  <2>2. \/ pc' \in {"crashed", "start"}
        \/ runner = "none" /\ pc' = "main"
        \/ runner # "none" /\ pc' \in {"tail", "tasks"}
    BY <1>4 DEF StartTask, InitialReadThrows, AfterInitialize
  <2>. QED  BY <2>1, <2>2 DEF OnceInv
<1>5. CASE Main
  BY <1>5 DEF Main, OnceInv, cfgVars, outVars
<1>6. CASE InjectTask
  <2>1. config'.run_mode = config.run_mode
    BY <1>6, InjectTaskEffect
  <2>2. UNCHANGED <<pc, watched, runner, outputs>>
    BY <1>6 DEF InjectTask, outVars
  <2>. QED  BY <2>1, <2>2 DEF OnceInv
<1>7. CASE LoopHead \/ CloseWindow
  BY <1>7 DEF LoopHead, BeginTick, CloseWindow, OnceInv, cfgVars, outVars
<1>8. CASE LoopTail
  BY <1>8 DEF LoopTail, OnceInv, cfgVars, outVars
<1>9. CASE CheckFile
  <2>1. /\ pc = "check" /\ pc' \in {"reload", "tasks"}
        /\ pc' = "reload" => watched
        /\ UNCHANGED <<config, watched, runner, outputs>>
    BY <1>9 DEF CheckFile, FileIsNewer, outVars
  <2>. QED  BY <2>1 DEF OnceInv
<1>10. CASE Reload
  <2>1. pc = "reload" /\ pc' \in {"tasks", "init"}
        /\ UNCHANGED <<watched, runner, outputs>>
    BY <1>10 DEF Reload, outVars
  <2>2. watched /\ runner # "none"
    BY <2>1 DEF OnceInv
  <2>. QED  BY <2>1, <2>2 DEF OnceInv
<1>11. CASE RunTask \/ ReadThrows \/ RenderThrows
  BY <1>11 DEF RunTask, ReadThrows, RenderThrows, OnceInv, cfgVars, outVars
<1>12. CASE Done
  <2>1. /\ pc = "tasks" /\ pc' = "tail"
        /\ outputs = 0 => outputs' = 1
        /\ UNCHANGED <<config, watched, runner>>
    BY <1>12 DEF Done, cfgVars
  <2>. QED  BY <2>1 DEF OnceInv
<1>13. CASE Terminated \/ UNCHANGED vars
  BY <1>13 DEF Terminated, OnceInv, vars
<1>. QED
  BY <1>1, <1>2, <1>3, <1>4, <1>5, <1>6, <1>7, <1>8, <1>9, <1>10, <1>11, <1>12,
     <1>13 DEF Next, Program

\* A run-once JSON process that is not watching a file has published exactly
\* one document when it is done, whatever its tasks and hosts did.
THEOREM RunOnceIsOnce == Spec => []RunOncePublishesOnce
<1>1. Init => OnceInv
  BY DEF Init, OnceInv
<1>2. OnceInv => RunOncePublishesOnce
  BY DEF OnceInv, RunOncePublishesOnce
<1>. QED  BY <1>1, <1>2, OnceStep, TypeCorrect, PTL DEF Spec

-----------------------------------------------------------------------------
(* The controller implements MetricsFeed.                                   *)

Over     == pc \in {"exit", "crashed"}
Offers   == {c.tasks : c \in Contents \cup CliConfigs} \cup {<< >>}
Feeding  == [k \in DOMAIN out |-> out[k].spec]

\* What a load yields was offered by a file, or is the empty list.
LEMMA LoadOffers ==
  ASSUME NEW content PROVE LoadLuaConfig(content).tasks \in Offers
BY DEF LoadLuaConfig, ParseConfig, DefaultConfig, Offers

\* Without injected contexts the whole configuration is in force.
LEMMA AllInForce ==
  ASSUME NEW tasks \in Seq(TaskSpecs)
  PROVE  SubSeq(tasks, 1, Len(tasks) - 0) = tasks
<1>1. Len(tasks) - 0 = Len(tasks)
  BY LenProperties
<1>. QED  BY <1>1, SubSeqFull

\* Without the injected contexts, what is configured is what was built.
LEMMA BuiltInForce ==
  ASSUME NEW tasks \in Seq(TaskSpecs), NEW built \in Seq(Tasks),
         NEW m \in Nat, NEW n \in Nat, Len(tasks) = Len(built) + m + n,
         \A k \in DOMAIN built :
           k \in DOMAIN tasks /\ built[k].spec = tasks[k]
  PROVE  SubSeq(tasks, 1, Len(tasks) - (m + n))
           = [k \in DOMAIN built |-> built[k].spec]
<1>1. /\ Len(built) \in Nat
      /\ DOMAIN built = 1..Len(built)
      /\ Len(tasks) - (m + n) = Len(built)
  BY LenProperties
<1>2. \A k \in 1..Len(built) : tasks[k] \in TaskSpecs
  BY <1>1, LenProperties, ElementOfSeq
<1>3. /\ SubSeq(tasks, 1, Len(built)) \in Seq(TaskSpecs)
      /\ Len(SubSeq(tasks, 1, Len(built)))
           = IF 1 <= Len(built) THEN Len(built) - 1 + 1 ELSE 0
      /\ \A k \in 1..(Len(built) - 1 + 1) :
           SubSeq(tasks, 1, Len(built))[k] = tasks[1 + k - 1]
  BY <1>1, <1>2, SubSeqProperties
<1>4. Len(SubSeq(tasks, 1, Len(built))) = Len(built)
  BY <1>1, <1>3
<1>5. SubSeq(tasks, 1, Len(built)) \in [1..Len(built) -> TaskSpecs]
  BY <1>3, <1>4, LenProperties
<1>6. \A k \in 1..Len(built) :
        SubSeq(tasks, 1, Len(built))[k] = built[k].spec
  BY <1>1, <1>3
<1>. QED  BY <1>1, <1>5, <1>6

LEMMA FeedStep ==
  ASSUME TypeOK, TypeOK', EmptyInv, MirrorInv, MirrorInv', [Next]_vars
  PROVE  \/ (Over' <=> Over) /\ UNCHANGED <<InForce, Feeding>>
         \/ ~Over /\ ~Over' /\ InForce' \in Offers /\ UNCHANGED Feeding
         \/ /\ ~Over /\ ~Over' /\ UNCHANGED Feeding
            /\ \E n \in 1..Len(InForce) : InForce' = SubSeq(InForce, 1, n)
         \/ ~Over /\ ~Over' /\ Feeding' = InForce /\ UNCHANGED InForce
         \/ ~Over /\ Over' /\ UNCHANGED <<InForce, Feeding>>
<1>a. /\ config.tasks \in Seq(TaskSpecs) /\ config'.tasks \in Seq(TaskSpecs)
      /\ active \in Seq(Tasks) /\ active' \in Seq(Tasks)
      /\ injected \in Nat /\ injected' \in Nat
      /\ skipped \in Nat /\ skipped' \in Nat
  BY ControllerAssumption DEF TypeOK, Configs
<1>1. CASE BootFromFile \/ BootFromCommandLine \/ ParseArguments
  <2>1. /\ pc = "boot" /\ UNCHANGED <<injected, skipped, out>>
        /\ injected + skipped = 0
    BY <1>1 DEF BootFromFile, BootFromCommandLine, ParseArguments, EmptyInv,
                rldVars, outVars
  <2>2. \/ pc' = "crashed" /\ UNCHANGED config
        \/ pc' \in {"init", "stamp"} /\ config'.tasks \in Offers
    BY <1>1, LoadOffers
    DEF BootFromFile, BootFromCommandLine, ParseArguments, Offers
  <2>3. InForce' = config'.tasks
    BY <1>a, <2>1, AllInForce DEF InForce
  <2>. QED  BY <2>1, <2>2, <2>3 DEF Over, Feeding, InForce
<1>2. CASE InjectTask
  <2>1. pc \in {"main", "head"} /\ UNCHANGED <<pc, out>>
    BY <1>2 DEF InjectTask, outVars
  <2>2. /\ Len(config.tasks) = Len(active) + injected + skipped
        /\ Len(config'.tasks) = Len(active') + injected' + skipped'
    BY <2>1 DEF MirrorInv
  <2>3. InForce = [k \in DOMAIN active |-> active[k].spec]
    BY <1>a, <2>2, BuiltInForce DEF InForce, MirrorInv
  <2>4. InForce' = [k \in DOMAIN active' |-> active'[k].spec]
    BY <1>a, <2>2, BuiltInForce DEF InForce, MirrorInv
  <2>5. /\ DOMAIN active' = DOMAIN active
        /\ \A k \in DOMAIN active : active'[k].spec = active[k].spec
    BY <1>2, <1>a, InjectTaskEffect, LenProperties
  <2>. QED  BY <2>1, <2>3, <2>4, <2>5 DEF Over, Feeding
<1>3. CASE Reload
  <2>1. UNCHANGED out /\ pc = "reload"
    BY <1>3 DEF Reload, outVars
  <2>2. CASE file.content = Throws
    BY <1>3, <2>1, <2>2 DEF Reload, Over, Feeding, InForce
  <2>3. CASE file.content # Throws
    <3>1. /\ pc' = "init" /\ injected' + skipped' = 0
          /\ config'.tasks \in Offers
      BY <1>3, <2>3, ReloadEffect, LoadOffers
    <3>2. InForce' = config'.tasks
      BY <1>a, <3>1, AllInForce DEF InForce
    <3>. QED  BY <2>1, <3>1, <3>2 DEF Over, Feeding
  <2>. QED  BY <2>2, <2>3
<1>4. CASE Done
  <2>1. /\ pc = "tasks" /\ pc' = "tail"
        /\ UNCHANGED <<active, config, injected, skipped>>
    BY <1>4 DEF Done, cfgVars, rldVars
  <2>2. /\ DOMAIN out' = DOMAIN active
        /\ \A k \in DOMAIN active : out'[k].spec = active[k].spec
    BY <1>4, DocumentType DEF Done
  <2>3. Feeding' = [k \in DOMAIN active |-> active[k].spec]
    BY <2>2 DEF Feeding
  <2>4. Len(config.tasks) = Len(active) + injected + skipped
    BY <2>1 DEF MirrorInv
  <2>5. InForce = [k \in DOMAIN active |-> active[k].spec]
    BY <1>a, <2>4, BuiltInForce DEF InForce, MirrorInv
  <2>. QED  BY <2>1, <2>3, <2>5 DEF Over, InForce
<1>5. CASE InitialReadThrows
  <2>1. /\ pc = "start" /\ injected = 0 /\ skipped = 0
        /\ UNCHANGED <<config, injected, out>>
    BY <1>5 DEF InitialReadThrows, EmptyInv, cfgVars, outVars
  <2>2. CASE pc' = "crashed"
    BY <1>5, <2>1, <2>2 DEF InitialReadThrows, Over, Feeding, InForce
  <2>3. CASE pc' # "crashed"
    <3>1. /\ pc' = "tasks"
          /\ i \in 1..Len(config.tasks)
          /\ skipped' = Len(config.tasks) - i
      BY <1>5, <2>3, InitialReadThrowsEffect
    <3>2. InForce = config.tasks
      BY <1>a, <2>1, AllInForce DEF InForce
    <3>3. Len(config.tasks) - (injected' + skipped') = i
      BY <1>a, <2>1, <3>1, LenProperties
    <3>4. InForce' = SubSeq(config.tasks, 1, i)
      BY <2>1, <3>3 DEF InForce
    <3>. QED  BY <2>1, <3>1, <3>2, <3>4 DEF Over, Feeding
  <2>. QED  BY <2>2, <2>3
<1>6. CASE \/ EditFile \/ SetFilename \/ BeginInitialize \/ StartTask \/ Main
           \/ LoopHead \/ LoopTail \/ CloseWindow \/ CheckFile \/ RunTask
           \/ ReadThrows \/ RenderThrows
  <2>1. /\ pc \notin {"exit", "crashed"} \/ pc' = pc
        /\ UNCHANGED <<config, injected, skipped, out>>
    BY <1>6 DEF EditFile, SetFilename, BeginInitialize, StartTask, Main,
                LoopHead, BeginTick, LoopTail, CloseWindow, CheckFile, RunTask,
                ReadThrows, RenderThrows, cfgVars, rldVars, outVars
  <2>. QED  BY <2>1 DEF Over, Feeding, InForce
<1>7. CASE Terminated \/ UNCHANGED vars
  BY <1>7 DEF Terminated, vars, Over, Feeding, InForce
<1>. QED  BY <1>1, <1>2, <1>3, <1>4, <1>5, <1>6, <1>7 DEF Next, Program

\* Every document reports on exactly the tasks in force, and what is in force
\* is only ever exchanged as a whole, or cut short when a reload breaks off:
\* the controller is a MetricsFeed.
THEOREM ControllerFeeds == Spec => PublishesWhatIsInForce
<1>1. Init => Feed!FeedInit
  <2>. SUFFICES ASSUME Init PROVE Feed!FeedInit
    OBVIOUS
  <2>1. InForce = << >>
    BY SubSeqEmpty, EmptySeq DEF Init, InForce, DefaultConfig
  <2>2. Feeding = << >>
    BY DEF Init, Feeding
  <2>. QED  BY <2>1, <2>2 DEF Init, Feeding, Feed!FeedInit
<1>2. TypeOK /\ TypeOK' /\ EmptyInv /\ MirrorInv /\ MirrorInv' /\ [Next]_vars
        => [Feed!FeedNext]_Feed!feedVars
  BY FeedStep
  DEF Over, Offers, Feeding, Feed!FeedNext, Feed!Adopt, Feed!BreakOff,
      Feed!Publish, Feed!Finish, Feed!feedVars
<1>. QED  BY <1>1, <1>2, MirrorCorrect, TypeCorrect, PTL
          DEF Spec, PublishesWhatIsInForce, Feed!FeedSpec
=============================================================================
