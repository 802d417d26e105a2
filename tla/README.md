# Verification of telemetry

`telemetry` (C++17, `src/`) samples `/proc`, `/sys` and a few commands, locally
or over SSH, and publishes one document per tick: a JSON line on stdout, a
value for a Qt/QML window, or a message to WebSocket clients.  This directory
holds TLA+ models of it, the TLC runs that check them, and theorems about them
that TLAPS proves.

Run everything from this directory:

    tlc -workers 2 -config MCController_safety.cfg MCController.tla
    tlapm ControllerProofs.tla

## 1. Inventory

| Part | State it keeps | Operations | Talks to |
|---|---|---|---|
| `Controller` (core/controller.cpp) | the ParsedConfig, the list of SystemMetrics tasks | initialize, tick, is_persistent, sleep, inject_task, main | ParsedConfig, tasks, the runner that ticks it |
| `ParsedConfig` (core/parsed_config.cpp) | run mode, output mode, interval, contexts, active pipeline, file name and time stamp | set_*, configure_renderer, initialize, done, reload_if_changed, set_filename, sleep | the loader, the pipeline registry, the file system |
| Command line (core/cli_parser.cpp, configuration_builder.cpp) | the options found so far, the argument that is next | parse_cli, build_config_from_options, parse_arguments | loader |
| Loader (core/lua_parser.cpp, lua_metrics.cpp and the deserialize functions of the types) | the log level of the program | load_lua_config, load_lua_settings, parse_* | Lua, the file system, the log |
| Task (data/metrics.cpp, polling.cpp) | provider, lambdas, polling tasks with two snapshots each, results | create_pipeline, read_data, take_initial_snapshot, take_new_snapshot, calculate, commit | provider |
| SSH session (data/ssh.cpp) | ONE file-static `ssh_session` | setup, execute, cleanup | every SSH provider of the process |
| Polling algorithms (systeminfo/corestat, networkstats, diskstat, processinfo) | previous and current snapshot | calculate, commit | task, provider |
| Readers of single files (systeminfo/meminfo, load_avg, uptime, cpuinfo, cputemp, sysinfo, system_stability, frag_stats, batteryinfo) | none; what they leave alone keeps an earlier value | one function each | task, provider |
| JSON document (json/) | a serializer for the features of the first task | to_json, from_json, processor | ParsedConfig, tasks |
| Other pipelines (qt_widgets/, libwebsockets/) | a proxy | factory, processor, entry point | ParsedConfig, runner |
| Runner loops (json_main, qt_main, lws_main) | none | the order of sleep, tick, broadcast and of the test for "persistent" | Controller |
| WebSocket server (libwebsockets/lws_server.cpp) | the set of clients, the last message | callback, broadcast, step | libwebsockets, lws_main |
| Logging (logging/) | the sinks and colour state of two tee buffers, the numbered logs on disk | setup_io, TeeBuf::overflow and xsputn, rotate_logs | kout, kerr, the file system |

The program is single threaded.  What makes it hard is not parallel threads but
an environment that acts between any two of its steps (an editor that writes
the configuration, hosts that drop out or answer half a line, processes that
end while they are read, cores that are switched off, libwebsockets that calls
back, a program that is killed while it renames), state that is shared behind
the scenes (the session, the vector of contexts that lambdas refer into, one
serializer for all tasks), and a tick that may be replaced, cut short or broken
off by a reload.  `PROJECT.json` lists the hazards at their lines.

What makes each part correct:

* Controller and reload: what is published is what is in force; a reload leaves
  nothing of the old configuration (processor, settings, snapshots, contexts)
  behind; every newer edit is taken up; an edit costs one tick of output and no
  more.
* Command line and loader: every word finds its place and is used once; what a
  file says, and nothing else, is in force where the program looks for it.
* Sampling: a rate is the difference of two snapshots of the same machine, one
  tick apart.
* SSH session: a provider never mixes two hosts and is closed when it is done
  with.
* Algorithms: a rate is within bounds; counters that wrap, and devices,
  interfaces, cores or processes that come and go, give no absurd values; the
  heaviest processes are the ones listed.
* Readers and document: what is shown was read in this tick and is true of the
  machine, or says that nothing is known.
* WebSocket server: each client sees snapshots in order, nothing is sent to a
  closed connection, no client keeps an outdated message for ever.
* Logging: the sinks have the same text, a colour ends before its line does or
  the output stops, and no log is lost before it is the oldest.

## 2. Plan

Order of work, most important behaviour first.

| Step | Modules | State |
|---|---|---|
| 1 | `SshSession` (operators), `Controller` (state machine), `MetricsFeed` (abstract), `ControllerProofs` | done |
| 2 | `LwsServer` with proxy, pipeline and loop; `Bulletin` (abstract); their part of `OutputProofs` | done |
| 3 | `Counters` (the kernel), `NetPolling`, `DiskPolling`, `CpuPolling`; one proof module for each | done |
| 4 | `ProcessPolling` and `ProcessPollingProofs` on `Counters`: numbers given again, processes that end while they are read, the ranked lists and their copies | done |
| 5 | `CommandLine`: the loop over the arguments and both builders; its part of `ConfigurationProofs` | done |
| 6 | `LuaConfig`: what every setting of a file does; its part of `ConfigurationProofs` | done |
| 7 | `Readers` (operators) and `Document` (state machine): what a task reads, what a document shows, whether it can be read back; their part of `OutputProofs` | done |
| 8 | `LogSinks`: the tee, the colours, rotation; its part of `OutputProofs` | done |
| 9 | `LoopPacing`: polling_interval, sleep_until and the deadlines of the three loops | not begun, see section 6 |

Composition: `Controller` EXTENDS `SshSession` and is an instance of
`MetricsFeed`; `LwsServer` is an instance of `Bulletin` and contains the tick of
`Controller` as one of three outcomes (it publishes, it reloads, it throws); the
polling modules EXTEND `Counters` and are what `Controller` abstracts to a
sample and a rate (`Poll`); `Document` EXTENDS `Readers` and is what
`Controller` abstracts to `Done`.  `CommandLine` and `LuaConfig` are what it
abstracts to `CliConfigs`, `Contents` and `LoadLuaConfig`.

Each of the modules `MC...` is an instance for TLC.  Two of them have two
components: in `MCConfiguration` a command line that names a file is followed by
loading and editing that file, and in `MCOutput` the document moves while the
log is at its beginning, or the log while the document is, as the two share
nothing.

## 3. How the modules correspond to the code

`PROJECT.json` maps every definition to its lines; this is the overview.

**SshSession** has the possible outcomes of `setup_ssh_session`,
`execute_ssh_command` and `cleanup_ssh_session` on the one static session:
opening does nothing if a session is open, whatever host was asked for; reading
without a session, or from a host that has dropped out, gives nothing; cleanup
closes.  A sample carries the machine it came from and the tick it was taken in.

**Controller** is the process.  `pc` names the next stretch of code: `boot` (the
two ways to a configuration, `build_config_from_options` and `parse_arguments`),
`stamp`, `init` and `start` (`ParsedConfig::initialize`, one step per task),
`main`, `head` and `tail` (the loop of the runner), `check` and `reload`
(`reload_if_changed`, split between its look at the time stamp and its load
because the file may change there), `tasks` (the loop of `tick`, one step per
task: sample, calculate, commit, clean up; then `done` and the processor).
`config`, `watched`, `last_write`, `renderer` and `active` are the fields of
`ParsedConfig` and `Controller`; `file` and `edits` are the world outside;
`injected`, `skipped`, `broke_at`, `tick`, `out`, `outputs` and `owed` (the
ticks begun less the documents published) are histories and the published
document. A task keeps its context, its provider, whether the `MetricsContext`
its lambdas refer to still exists, its last sample and its last rate; one whose
first reading threw has none of either (`Unsampled`).  What throws in the code
does so here: a reload that finds no table, a reading that breaks off inside a
number (caught in a reload, fatal in a tick), a document that cannot be written.

**CommandLine** has one action per branch of the loop of `parse_cli`, with the
index `i` and the `ProgramOptions` it fills, and one action for each of the two
functions that turn these into a configuration.  A string that is kept is its
place in the argument list.  What a settings file may turn out to be is
`Loaded`: this machine, another one with its host and user, or nothing, which
leaves the provider uninitialised.

**LuaConfig** is the whole of a configuration file with its sections and fields:
one operator per `deserialize`, with the defaults of the constructors
(`StructDefaults`) apart from those of `value_or` (`TableDefaults`), which
differ.  `ParseSettings` and `ParseConfig` are what becomes of it in a context:
the settings are copied whole, the credentials one by one, and the lists of
interfaces and file systems come from members that nothing fills.  The actions
are the edits of a file and `LoadLuaConfig`, which also sets the log level of
the program.  `InForce` says, for each setting, where the program looks for it.

**Readers** and **Document**.  `Readers` says what each function of a single
file makes of an answer that is whole, missing or broken off.  `Document` is a
life of the program as far as its data go: `RunTask` runs the lambdas that
`create_pipeline` made for the features of a task, `Done` renders every task by
the features of the first one (`Render`), and the metrics of a task may be
written as JSON and read back, as the test of the repository does (`ReadBack`):
`ToJson` says what kind of value each member becomes, and `FromJson` throws at
the first line that finds another kind than its member needs.  A member of
`SystemMetrics` is `[at, what]`: whether it was written in this tick, an earlier
one, by its initialiser or never, and what with.

**LwsServer** is one step per call of `lws_main` and one per event that
libwebsockets delivers while `lws_service` or `lws_context_destroy` runs.
`clients`, `pending` are `ServerInternalState`, `current` and `has_new_data` the
proxy; `peer`, `want` and `context` are libwebsockets; `stage` is where the loop
is; `received` is what each reader has.  A connection that hung up may be given
to another reader.

**Counters** is the kernel: entries that come, count, start again and go, and
beside them what really happened since the last reading.  **NetPolling**,
**DiskPolling**, **CpuPolling** and **ProcessPolling** are one polling task each
over its whole life: `TakeInitialSnapshot`, then `TakeNewSnapshot`, `Calculate`
and `Commit` for ever, as `initialize` and `tick` call them.  A reading may be
whole, empty (no file, no session) or broken off.  A rate is kept as its
numerator, as the division by the time between the readings distinguishes no
behaviour except for a time of zero.  `DiskPolling` also has the way of its
configuration from a Lua file, a command or `inject_task` to the task.
`CpuPolling` keeps the lines without their labels, as the code does, and the
labels in a history.  `ProcessPolling` has both providers: the local one lists
the numbers and then opens the files of each, so that a process may be gone by
then (`ended`); the remote one reads the answer of `ps`, but the owner of a
process from the local machine.

**LogSinks** is the log of a program that is started again and again.  `tee` is
`TeeBuf` with the badbit of the stream that uses it; `Put` is one character on
its way through the sinks, and any character may follow any other.  `terminal`
is what a terminal makes of the console, and `tangled` notes that an escape came
inside a sequence, or a line end right behind an escape.  `disk` holds the
numbered logs; `Start` finds a log, makes an empty one or, where there is no
directory yet, makes none; `BeginSetup`, `RotateOne`, `RotateLast` and `Open`
are `setup_io` with the renames one by one, and `Stop` ends the program between
any two of them.

**MetricsFeed** and **Bulletin** are what the two components promise, with
nothing of files, ticks, sessions, sockets or callbacks in them.

## 4. Runs

| Run | Shows |
|---|---|
| `safety` | type correctness, rates over one tick, no rate across two machines, contexts alive, the processor of the configuration in force, no more than one tick of output lost for each edit, refinement of `MetricsFeed`: under every kind of edit at any moment, a host that drops out and answers half lines, a reload that breaks off, an injected context |
| `reload` | a watched file whose stamp was taken is in force between ticks; a run-once process publishes exactly once; every newer edit is taken up or overtaken; once the edits stop a process that does not end publishes again and again, for all three runners |
| `broken` | a statement of a comment that the code does not keep (section 7) |
| `configuration` | whatever the arguments are and in whatever order, none is used twice or lost, and every command becomes one task at its place that reads the machine it names; what a file says, and nothing else, is in force after a load where the program looks for it, except for seven settings that are named (`NoEffect`); an edit changes no other setting, nor the machine that is read, nor the log level |
| `storage` | a statement of a comment that the code does not keep (section 7) |
| `output` | every value shown was read in this tick except where the property says which is not; it is true of the machine or says that nothing is known; no sink has more than one character more than the others, no colour over the end of a line unless the text is tangled, and the logs stay in order and complete, wherever the program ends and whatever rename fails |
| `roundtrip` | a statement of a test that the code does not keep (section 7) |
| `lws` | no dangling connection, no document overwritten in the proxy, nothing written twice, refinement of `Bulletin`, and the newest document reaches every reader that stays |
| `net` | no rate is below zero or more than what was moved, and none is missing, whatever interfaces come, go and start again |
| `disk` | the same for devices with a path and in the table; a device that is gone shows nothing |
| `cpu` | the row of the sum, and every row whose line stayed where it was, are exact while cores are switched on and off |
| `procs` | no process is shown with more than its number used, the heaviest ones are listed, and no list shows one that has gone |

Every property of a passing run has a mutant in `PROJECT.json`: a plausible slip
in one mapped definition (named `...Keeps`, `...Unchecked`, `...Once` and so on
beside the definition it changes) under which the property fails.

Some properties describe what the code does with a case rather than rule it out,
and would not notice if the case were handled in another, equally silent way:
`ReadInThisTick` names the values that stay old (the load averages behind a
missing one, the counts, the members that another task was asked for);
`TellsTheTruth` says what is left of a sum when a line is missing;
`EveryCommandRuns` asks for the interfaces of an SSH command only;
`DiskNothingLost` promises nothing above the limit of the table, and to the last
of two paths to one device only.  The hazards in `PROJECT.json` say so where it
matters.

### Bounds

* `MaxEdits = 2`, `MaxMtime = 2` (Controller): an edit, its reload, and another
  edit during that reload.  A third would find the program in a state a second
  one already did: nothing but the time stamp is remembered of an edit.
* Two hosts, up to two tasks per configuration: one task opens the session and
  another finds it open, for the same host or for another one.
* `TickWrap`: ticks are counted modulo 4 (2 where only liveness is asked); a
  rate that skipped a tick or had none is told from a correct one.
* `Settings` has two values: the processor either has the right one or not.
* Command lines have up to four arguments, which allows for two commands, a list
  and a missing value; those that begin with `--ssh` have up to six, so that
  another command follows its host and user.  All files of one command line turn
  out alike: a task depends on the file of its own command only.
* Two edits of three Lua files (none, one with empty tables, one with every
  setting): a setting and the table around it, or two settings that could be
  mixed up.
* `output`, the document: four configurations that between them ask for every
  feature, with local and remote tasks side by side that ask for different ones;
  a machine that changes between its states from tick to tick.  Zones of memory
  have up to eleven orders, as the kernel has: with more the index leaves its
  range.
* `output`, the log: `MaxFiles = 3` where the code has 10, and five logs in all:
  every place is filled and the oldest is dropped.  Text is in the first two
  only (`TextLogs`), as a tee remembers nothing of the number of its log.
  `MaxChars = 3` to a call of `setup_io`, and as the state of the colours
  outlasts that call six in a row: a whole sequence with two digits and the end
  of the line, or a sequence inside another.  `OutputProofs` has no such bounds.
* Two readers and four documents: one reader is served between two broadcasts
  and the other is not, twice over.  The theorems are about any number.
* `MaxCount` is 1 or 2, for the counters and for what they count between two
  readings: every comparison of two readings (less, equal, more) occurs, also
  across a restart.  `MaxEvents = 2` in `CpuPolling`: a core is switched off or
  on, and something counts, in the same interval.
* `procs`: two process numbers, given again and again, and a list of one: one of
  them is always left out.  `Capacity = 1`: a process may use more than one
  core.
* `MaxIo = 0` where the code has 100: the table of devices is over its limit at
  the second device instead of at the 102nd; the theorems are about any limit.
* The kernel counts only while a task waits for a reading.  `Calculate` and
  `Commit` do not look at the counters, so what happens during them may as well
  happen after them.
* `MCView` of the `cpu` run leaves out `cores` after the commit, where no
  action reads it and it only stays as it is.

### Fairness

* `FairSpec` (Controller): weak fairness of the program as a whole.  It waits
  for the clock and for answers only.  An `ssh_channel_read` without a timeout
  may in truth block for ever (data/ssh.cpp:79): the liveness results are about
  hosts that answer, fail or break off.  Edits and the closing of a window are
  not fair: nobody has to do them.  For `TakesUpEdits` and `UpToDate` every edit
  has a later time stamp (`NewerEdits`), as the code relies on, and no edit
  falls between the load and the stamp of `parse_arguments` (`BootRace`); the
  `safety` run has both.
* `LwsFairSpec`: weak fairness of the loop; strong fairness of WRITEABLE and
  CLOSED for each connection, as libwebsockets polls its sockets only inside
  `lws_service`: an event is possible again and again, not all the time.
* The other modules state no liveness.

## 5. What is proved

TLAPS proves every safety invariant and every action property that a run checks,
for all values of the constants that satisfy the assumptions of the modules
(`ControllerAssumption`, `SshAssumption`, `CommandLinesAssumption`,
`LuaAssumption`, `DocumentAssumption`, `LwsAssumption`, `LogAssumption`,
`CountersAssumption`, `DiskAssumption`, `CpuAssumption`, `ProcessAssumption`;
TLC evaluates each in some run):

* `ControllerProofs`: `TypeCorrect`, `MirrorCorrect`, `HostsNeverMixed`,
  `RatesAreCurrent`, `RendererIsCurrent`, `ContextsOutliveTasks`,
  `EditsAreInForce` (under `NewerEdits` and without `BootRace`),
  `RunOnceIsOnce`, `EditsArePaid`, and `ControllerFeeds` (Controller implements
  MetricsFeed).
* `ConfigurationProofs`, the command line, for arguments of any number and
  order: `CliInvariant`, `ArgumentsUsedOnce`, `WordsKept`,
  `CommandsBecomeTasks`.  The files, for all files and any number of edits:
  `LuaInvariant`, `FileIsInForce` (of every setting but the seven of
  `NoEffect`), and `EditsAreLocal` (an action property).
* `OutputProofs`, the document, for any configurations, machines and answers:
  `DocumentInvariant`, `ValuesAreOfThisTick`, `DocumentTellsTheTruth`.  The
  WebSocket server, for any number of readers and documents: `LwsTypeCorrect`,
  `NoDanglingConnection`, `ProxyLosesNothing`, `NoRepeats`, and
  `ServerIsABulletin` (LwsServer implements Bulletin).  The log, for any number
  of logs, starts and characters: `RotationKeepsLogs`, `SinksHaveTheSame`, and
  `ColoursEndWithTheLine`, for text that is not tangled.
* `NetPollingProofs`, `DiskPollingProofs`, `CpuPollingProofs`,
  `ProcessPollingProofs`: every invariant of the runs `net`, `disk`, `cpu` and
  `procs`, on lemmas about the kernel (`CountersProofs`).

`DocumentAssumption` says what the files of a machine look like, as the readers
rely on it: `/proc/meminfo` has lines of a label and a number, each total before
what is left of it and not below it; a zone of `/proc/buddyinfo` has at most
eleven orders; and the files of the stability are those the program knows.
Sensors may come in any order and say anything, and answers may break off
anywhere.

None of the invariants is inductive as it stands.

* Controller.  `EmptyInv`: while a list is being built there is no other one.
  `MirrorInv`: the list is a beginning of the configured one; with `EmptyInv` it
  gives the refinement.  `SessionInv`: an open session is the one every SSH task
  took its snapshot through, which is why rates never mix two machines although
  they may come from the wrong one (section 7). `TickInv`: where in a tick each
  task's snapshot is of this tick or of the last, with the exception of a reload
  that broke off.  `RendererInv`: the processor is that of the first task as
  soon as there is one.  `FreshInv`: the remembered stamp is never ahead of the
  file's, so that content and stamp agree or an edit is still to be noticed.
  `OnceInv`: the run mode of a file that is not watched never changes, which
  leaves `json_main` one way through its only tick. `PaidInv`: the ticks that
  passed without a document, and an edit that is still to be noticed, are
  together no more than the edits.
* LwsServer.  `FlagInv`: the flag of the proxy is up only between the tick and
  the loop's look at it.  `AheadInv`: then the proxy is one document ahead,
  otherwise level.  `ReaderInv`: a callback is outstanding only for a reader
  that lacks the newest message.
* Polling.  `Tracks`: what an earlier reading still says about the counters (at
  most what moved since, exactly that for an entry that was there all the time);
  the kernel keeps it (`KernelStep`), a whole reading establishes it
  (`ReadingStep`).  `WaitInv`, `ReadInv` and `FreshInv` carry it from the
  reading through `Calculate` to the `Commit` that makes the newer reading the
  older one; `ResultInv` says what was calculated.  `MadeInv` of `CpuPolling`
  ties lines without labels to the tables they were read from.
* CommandLine.  `CommandsInv`: the commands found so far are in order and end
  before the argument that is next; with it an argument used twice would have to
  stand both before and behind another one.  `WordsInv`: unless one file makes
  all tasks, every word before that argument has found its place.  `RunsInv`:
  the tasks are those of the commands with what their files make of them.
* LuaConfig.  `ContextInv`: the context is what `ParseConfig` makes of the table
  that was loaded; `ForceOfRoot` and `ForceOfTask` follow each setting from
  there to where the program looks for it.  `LoadedInv`, `LogLevelInv`,
  `RunModeInv` and `TasksInv` relate what the program holds to the file as it is
  now, up to the edits since the load: what an edit explains.  The load makes
  them exact, and from them follows that the next load changes only what they
  leave open.
* Document.  `MetricsInv`: when each member of each task was written, according
  to whether the task has had its turn in this tick; `Shown` and `Pipeline` tie
  it to the features.  `ToldInv`: what a value of this tick was made of,
  although the machine may look different in the next.  `BetweenTicks`:
  documents are there between ticks only, which is what keeps `ReadInThisTick`
  through a tick.  That the values are true is a matter of the readers:
  `AnswerBreaksOff` says what is left of an answer, `MemoryIsRight`,
  `TemperatureIsRight` and `IndexIsBounded` what each makes of it.  The index is
  a quotient of two sums over the orders of a zone; `SumsCompare` compares them
  by induction over finite sets, as a set that is minimal among those that fail
  (`MinimalSet`, from the library's theorem that inclusion of finite sets is
  well-founded).
* LogSinks, the output.  `SinksInv`: until a sink refuses, all have the same;
  `PutInStep` carries it through the sinks one by one.  `ColourInv`: what the
  tee remembers of the colours is what a terminal shows (`Agree`), up to the
  first tangle.
* LogSinks, the disk.  `OrderInv` (the newer log has the lower number) makes
  sure that the newest log never stands where another one is moved to, which is
  all that `KeptInv` needs; `ExactInv` says for a rotation that is under way
  where every log is: a gap moves down from the highest number to the log
  itself.

## 6. What is only model-checked, and what is not modelled

Only model-checked: the liveness properties `PublishesWhenLeftAlone`,
`TakesUpEdits` and `NewestArrives`, as liveness under fairness is out of the
prover's reach.

A polling task promises something for two whole readings only.  After an answer
that broke off inside a number the next rate may be anything; the models show
it, and no comment or test says otherwise.

Not modelled:

* The pace of the loops.  `ParsedConfig::sleep` adds the interval to a deadline
  and waits for it, so that ticks that were late are made up for at once, and
  `initialize` sets it to now.  Nothing but the time between two readings
  depends on it, of which the models tell zero from more; a model of it would be
  one of the clock.
* Mount points, the usage of file systems and the discovery of devices
  (`filesystems.cpp`, `Storage`), the list and the addresses of interfaces:
  calls of the system that keep nothing between ticks.
* The Qt proxy, which converts a document to a QVariant; QML and eww layouts.
* GTK, websocketpp, TCP, waybar and conky front ends: the CMake build does not
  contain them or switches them off, and they do not compile against the headers
  as these are (they make a SystemMetrics without a context), so that there is
  no behaviour of theirs to be true to.
* The Lua generator and the `serialize` functions, which nothing calls.
* Formatting, traces and the wording of messages.

libssh, libwebsockets, sol2, nlohmann::json, the kernel, the terminal and the
file system appear through what the code in `src/` sees of them.

Hazards that are known and that no property covers:

* A file that is edited in every tick starves the output: each successful reload
  takes the place of a tick (core/controller.cpp:35).  `EditsCostOneTick` says
  that it costs no more than that.
* An escape inside a sequence, or right before the end of a line, gets a colour
  past the protection of the log (logging/teebuf.cpp:124, 136): behind ESC ESC
  [31m and behind ESC [ ESC [31m a terminal is red and `TeeBuf` is at TEXT.
  `LineEndsPlain` without its premise `~tangled` is refuted by the same run.
* The name of the source, the key, the time limit and the keepalive of ssh, the
  window with its scrolling, and the icon, threshold and status of a battery
  arrive in the context of a task, where nothing of the build reads them.
* An edit between the load and the stamp of `parse_arguments` is never taken up
  (core/cli_parser.cpp:151), nor is one with an equal or older time stamp
  (core/parsed_config.cpp:126).  The theorem `EditsAreInForce` names both as its
  assumptions.
* `ssh_channel_read` blocks the only thread for as long as a host is silent
  (data/ssh.cpp:79).
* With a taken port `lws_create_context` gives a null pointer that nobody tests
  (libwebsockets/lws_server.cpp:79); the result of `lws_write` is ignored (line
  34).
* Two programs that share a directory of logs rotate each other's.
* The remote list of processes reads three of five columns of `ps` and so never
  the elapsed time, and asks the local machine for the owner of a remote number.

## 7. Where code and comments disagree

Three runs are refuted by TLC, and `PROJECT.json` quotes the lines:

* `broken`: a configuration that Lua cannot run empties the list of tasks, while
  the comment (parsed_config.cpp:161) says the old tasks keep running.
* `storage`: the comment at lua_parser.cpp:109 says that the inherited lists of
  the storage are already populated.  What the file says of them is one table
  further in, and the lists of the context are empty after every load.
* `roundtrip`: the test of a JSON round trip
  (tests/unit_json_definitions.cpp:28) reads a `SystemMetrics` back.  `disk_io`
  is written as an array and read as a map, so that `from_json` always throws at
  its last line (json_definitions.cpp:219).

Noted while modelling, without a run.  Start-up and settings:

* `parse_arguments`, the only start that enables hot reload, is called by
  nothing in the repository.
* The CMake build defines `OUTPUT_MODE_LIBWEBSOCKETS_SOCKETS` where `main.cpp`
  tests `OUTPUT_MODE_LIBWEBSOCKETS`, so that it does not register the WebSocket
  pipeline.
* `enable_mapper` and the other filters of the sample configuration
  (config.lua:85) never reach a task: `LuaFilters` declares members that hide
  those of `Filters` (diskstat.cpp:436).  Two of the features are not read
  either.

Reading:

* The cleanup after each task closes the SSH session and nothing opens it again:
  SSH sources deliver once.  Clearing the tasks in a reload does not close it
  (parsed_config.cpp:135), and a provider built for one host reads from another
  while a session is open (data_ssh.cpp:18).
* The system information, stability and fragmentation of an SSH task are those
  of the local machine.
* The counts of processes are looked for in `/proc/loadavg`, which does not have
  them.
* The fragmentation index is between 0 and 1, as its comment says, up to eleven
  orders only.
* With a core switched off, rows are not numbered by core (corestat.cpp:59); a
  load above 100 percent is possible when one of irq, softirq and steal goes
  back, as these are not compared.

Documents:

* One serializer, made for the features of the first task, renders all tasks:
  others show members that nothing initialised.
* "Immediate protection" (teebuf.cpp:80) lets a line end through that a terminal
  shows in colour, behind an escape inside a sequence (section 6).
