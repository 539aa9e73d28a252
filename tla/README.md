# periodic, verified

TLA+ models of `periodic`, a user-space job scheduler: a daemon that fires jobs on
wall-clock schedules, a SQLite store that remembers what ran, an executor that
supervises commands, a desired-state file that commands edit, and a CLI beside them.
Small instances are checked with TLC; the results that matter most are proved with
TLAPS for every value of the constants.

## 1. Inventory

Paths are relative to the repository's `src/`.

| Component | State it keeps | Operations | Behaviours that are hard |
|---|---|---|---|
| Daemon core, `daemon.rs` | the schedule table, handles of run threads, stop flag, control channel | start, recover, replay missed runs, loop, reload, stop, drain | several processes on one store, crashes between any two statements, shutdown while commands hang |
| Run ledger, `state.rs` | `runs`, `run_attempts`, `jobs_state` | `create_run`, `mark_run_running`, `finish_run`, `start_attempt`, `finish_attempt`, `update_job_outcome`, `recover_interrupted_runs` | rows written by id by whoever holds it; claims decided by a unique index |
| Daemon liveness, `state.rs` | `daemon_state`: pid, state, heartbeat | `record_daemon_started`, `record_daemon_heartbeat`, `record_daemon_state`, `daemon_is_stale` | check-then-act in `start`; three keys written one by one; a late last word; stale pids |
| Executor, `executor.rs` | one run: attempt number, process group, reader and waiter threads | `execute_run`, `run_attempt`, `wait_loop`, `drain_after_kill`, `finalize` | cancellation and timeouts racing exits, descendants that outlive the command, joins that block |
| Schedule engine, `scheduler.rs` | none | `resolve_wall_clock`, `next_minute_aligned`, `next_hour_aligned`, `next_calendar`, `next_cron`, `next_occurrence` | DST gaps and folds, months without a day, strictness |
| Schedule table, `scheduler.rs` | a heap of next firings | `build`, `next_wake`, `pop_due` | backlog after a suspension, termination of `pop_due` |
| Projection and migrations, `state.rs` | `jobs_state` rows, schema version | `reconcile`, `migrate`, `open` | openers that migrate at once, processes with different configs, removed jobs |
| IPC and control plane, `ipc.rs`, `main.rs`, `daemon.rs` | socket file, one connection at a time, control channel | `daemon.reload`, mutations, bind, accept, shutdown | an answer that comes and an effect that does not, idle clients, stale sockets, crashes between write and answer |
| Service supervision, `service.rs` | unit files | install, start, stop | restart policy against the heartbeat check |
| Config, `config.rs`, `validation.rs` | none | parse, validate, normalise, hash | two readers of one text that must agree, defaults, boundary values |
| Config editing, `config_edit.rs`, `config_mutation.rs`, `jobs_edit.rs`, `job_block.rs` | the YAML file | pause, resume, remove, add, replace, edit | spans of lines and what belongs to them, two writers, a write that succeeds and a reload that does not |
| Daily log, `logs.rs` | files by date | append, read | four threads and two runs on one file, midnight |
| History, doctor, CLI, self update | none | read, render | none |

How they interact. The CLI talks to the daemon in three ways: through the store
(liveness rows, run rows), through signals (`daemon stop`) and through the socket
(reload and mutations). The daemon's main thread computes what is due from the
table, claims it with a row in the store, and hands it to a run thread with its own
database connection; it learns of the thread's end through a `done` flag only. The
IPC thread and the signal watcher reach the main thread through one mpsc channel
and the stop flag. The file is written by the daemon's IPC thread when one is recorded
as running, by the command itself when none is, and by the user's editor at any time.
A service manager starts the daemon again when it fails. Commands that jobs run are
sessions of their own: they outlive any of these processes.

What makes each part correct:

- ledger: an occurrence is claimed once and executed at most once; terminal rows are
  final; an unfinished row is always somebody's;
- daemon: every firing is answered, by a run, a skip or a later replay; a job has one
  thread at a time; shutdown ends and leaves nothing running;
- executor: a run's outcome is its last attempt's, attempts do not overlap, what an
  attempt printed is in the log when its end is recorded (unless a line that is not UTF-8
  cut its reader off), cancelled and timed-out runs end, unless a descendant of the
  command holds its output;
- engine and table: firings are exactly those a clock on the wall would show, each
  once, strictly later than what they were computed from;
- store: the schema is what its version says, and gets to the latest; outcomes and
  look-ups find the row their config promises;
- control plane: a pause, resume, removal or addition loses no other change of a served
  file, `jobs edit` overwrites nothing that changed while the user was editing, a command's
  answer is true, every write reaches the schedule, a daemon gets its socket and ends when
  told to, unless a client holds its connection;
- supervision: a crashed daemon comes up again; "not running" is true when it is said;
- config: what validation has passed is what runs, but for a list of values that can be
  given exactly; hashes tell jobs apart whose texts hold no separator; an edit does what it
  says to the jobs and nothing to the lines of others;
- daily log: what a command printed is read back, whole and in order.

`PROJECT.json` lists every component with its status, and under `hazards` what is hard
to test, at the line where it bites.

## 2. Modules

| Module | What it is |
|---|---|
| `RunLedger` | the abstract specification: what the run history promises, whoever writes it |
| `Daemon` | the daemon processes, the store, the run threads, the CLI's manual run, and their environment |
| `DaemonProofs` | types, at-most-once execution and one thread per job, any number of daemons, faults included; under a service manager, custody of rows and what follows from it, the anchor of the missed-run scan and the answered firings |
| `WallClock` | the schedule engine as operators, and a reference definition of what a schedule means |
| `TimeTable` | `ScheduleTable` on top of the engine: build, reload, `pop_due`, the missed-run walk |
| `ScheduleProofs` | the engine gives the next time its rule names, for every rule, zone and size of the calendar; the table, `pop_due` and the missed-run walk on top of it |
| `Executor` | `execute_run` in detail: one run, its attempts and their processes |
| `ExecutorProofs` | the executor's history and process invariants, any number of retries |
| `ConfigFile` | the abstract specification of the desired-state file: surgical mutations, each applied to what the last write left; whole texts, which overwrite it; and what is spoilt by hand |
| `ControlPlane` | commands, socket, IPC thread, main thread and file; implements `ConfigFile` |
| `ControlPlaneProofs` | its types, the truth of its answers, the refinement, and what a `jobs edit` may overwrite, for any number of commands |
| `Supervision` | service managers, the three liveness keys, `daemon start` and `daemon stop` |
| `SupervisionProofs` | what start, stop and status may conclude from the liveness row, for any thresholds |
| `Store` | concurrent openers: migrations, projection, outcomes and look-ups |
| `StoreProofs` | the schema and the rows, any number of processes and migrations |
| `ConfigRules` | validation, normalisation and the canonical text as operators |
| `ConfigEdit` | the edits on the lines of the file, against what the lines mean |
| `ConfigProofs` | what an accepted file means and what its hash tells apart, for every file |
| `DailyLog` | the writers and the reader of the files of the day |
| `DailyLogProofs` | the order of lines in those files, and that the reader finds all of it, for any runs, streams and days |
| `MC...` | small instances of these for TLC |

### Daemon

`Pid` is the set of daemon processes ever started; each has a main thread at `pc[p]`:

    idle -> checked -> loaded -> recovered -> missed -> loop <-> due -> sleep -> loop
                                                          \-> drain -> join -> leaving -> exited

Each transition is one SQL statement or one blocking call of `run_foreground` and
`scheduler_loop`, so that other processes, run threads, the CLI and crashes interleave
between any two. Computation on data the process owns, or has just read, is part of the
step that reads it: `LoadConfig` also builds the table, since it depends only on the
loaded config and the captured `now`. `at[p]` is that captured `now`, which the code
keeps using while the clock goes on (`now`).

- Store: `runs` (status by run; "none" is no row), `created` (`created_at`),
  `lastSuccess` (`jobs_state.last_success_at`), `dstate` (`daemon_state`).
- A run is an occurrence `<<job, instant>>`, as the occurrence key is made of job and
  instant, or a manual trigger `<<job, name>>`. Rows of the same occurrence cannot be
  told apart in the code either: that is what the unique index is for.
- Run threads: `thread[o][r]` with o a daemon or `Cli`: spawned, running, the outcome
  decided, `credit` (between `finish_run` and `update_job_outcome`), idle. `cancel`
  holds the owners that raised their cancel flags.
- `proc[r]` is the command's process, which no crash of a daemon ends; `started[r]`
  counts its executions.
- `held`: runs whose descendants keep the output of an ended command open; `visited`:
  daemons whose IPC thread has a client that does not hang up. Both only make joins wait:
  a run thread with an outcome goes on when its run is not held (`HoldOutput`,
  `ReleaseOutput`), and a daemon records "stopped" when nobody visits it (`Connect`,
  `HangUp`). `Lingers` and `IdleClients` say whether a run of the model has them.
- `todo[p]`: occurrences computed (by `pop_due` or the missed-run scan) and not yet
  claimed; `closing[p]`: a row just created which is to be closed as skipped.

`ClaimAndSpawn` and `ClaimToClose` are the two ways a claim succeeds, `SkipClaimed` is
the claim somebody else has won, or that failed. With `DbFaults` any statement may
fail, and what the code does then (log and go on, end the thread, end the start-up)
is what the model does. `Supervised` says whether two daemons may be up at a time:
under a service manager there is one; started by hand there may be two, since `start`
checks liveness long before it records its own.

Abstractions. The projection columns of `jobs_state` other than `last_success_at` are
left out, as nothing in the daemon reads them. `record_daemon_started` writes three
keys; they are one step here and three in `Supervision`. Run ids embed microseconds and
are taken to be distinct. A reload request is one step here; `ControlPlane` opens it. A
run's attempts are inside "running"; `Executor` opens them. The schedule is a set of
instants `Sched[j]`, and `NextOccurrence` is the engine's contract, which `TimeTable`
checks against the engine.

### WallClock and TimeTable

Instants and wall-clock times are integers in minutes; the sizes of hour, day, week and
of two alternating month lengths are constants. A zone has one transition, by any shift:
a gap or a fold. `ResolveWallClock`, the `Next...` operators and `DatesFrom` follow
`scheduler.rs` line by line; loops become "the first that satisfies" over a range that
is shown to be long enough by the check itself (an empty set would stop TLC). Seconds
are dropped, as every rule drops them. Cron is the `croner` crate's and not modelled.
The reference is `Names` (which wall-clock times a rule names) and `Firings` (the first
instant at which the clock shows a named time or has jumped past it).

### Executor

One run from its pending row on. `alive` holds processes `<<kind, attempt>>`: the
command, descendants in its group with and without its pipes, and descendants in a
session of their own. SIGTERM obliges nobody, SIGKILL removes the group. `printed` is what
the attempt has written to each of its two pipes, line by line; `logged` how much of it
the reader thread of that stream has handed to the daily log; `reader` where that thread
is. A reader ends at the end of its stream, when nothing is left in the pipe and nobody
holds it, or is cut off by a line that is not UTF-8, and the run thread joins both. The
environment forks, exits, prints, cancels and lets deadlines pass at any time.
`StatementFails` ends the thread at any statement, or event after one.

### ControlPlane and ConfigFile

A command is at `pc[c]`. It reads the liveness row (`Dispatch`) and then goes one of two
ways: over the socket (`Connect`, `Send`, and an answer or a broken connection), or to
the file (`DirectRead`, `DirectWrite`). `jobs edit` opens an editor first and compares
the file with what it opened (`CloseEditor`, which notes in `base` how much had been
written by then), but the comparison and the write are not one step. A daemon has an IPC
thread (`Bind`, `Accept`, `Handle`, `Commit`, `Reply`, `EndOfFile`, `StopServing`) and a
main thread (`Start`, `Load`, `Record`, `Reload`, `LeaveLoop`, `Join`), which share the
stop flag and the channel `chan`, a count of queued reloads. Reading the file, writing
it and answering are three steps of a mutation; a crash may come between any two. The
liveness row and the socket file outlive a crash.

The content of the file is which jobs there are and whether they are on, or `Broken`.
`history` is a ghost: every write, who made it, and for which command; `seen[p]` is how
much of it the daemon's schedule was built from. `ConfigFile` promises that while the file
is served each change is one of three: a surgical mutation, made to what was there
(`Mutate`); the text of a `jobs edit`, which parses and replaces whatever was there
(`Overwrite`); or a file broken by hand (`Spoil`). `Served` says when that is due: a daemon
is recorded as running, no command that found none before is still about to write, and
nobody else has written while a request is handled. Outside of it the code promises
nothing of a lost update, and the model shows why (section 3). What a `jobs edit` may
overwrite, served or not, is `EditClobbersOnlyTheNew`.

### Supervision

One tick is `HEARTBEAT_INTERVAL`; starts, reads and signals take no time. A daemon goes
through `readPid`, `readState`, `readHeartbeat` (each a query of `read_daemon_status`),
then `load`, then `recordPid`, `recordState`, `recordHeartbeat` (each an upsert of
`record_daemon_started`), then `loop` and `asleep`, then `draining`. Reads and writes of
different processes interleave. The row's keys are variables of their own, `hb` as the
heartbeat's age, and stay when the process dies. systemd starts a failed service at once
and gives up after `StartLimit` starts within a tick; launchd starts it whenever it
ends, once in a tick. `load` stands for what lies between the check and the recording
(open, `load_validated_config`, `reconcile`, `recover_interrupted_runs`): it fails while
the configuration is `broken`, and the process ends with a failure. The user breaks and
mends it; `loadFailed` says that a start since the last tick has failed so. A database
out of order has the same effect and is not told apart; the statements of the loop,
whose failures end a daemon like a crash, are left out. `daemon stop` reads the same
three keys and signals the pid it has read. Pids are given out again, to other programs
too.

### Store

A command reads the config, opens the database, applies what migrations are missing
statement by statement (`execute_batch` is no transaction), projects its config job by
job, and then looks a job up or runs it. A daemon (`StartDaemon`) opens the database first,
reads and projects the config (`LoadValidated`), and does so again at each `Reload`, while
a run it has begun goes on in its own thread and ends wherever the main thread is by then
(`UpdateOutcome`). The file is edited between any two steps. A statement that is in force
already fails, as `create table` does.

### ConfigRules and ConfigEdit

`ConfigRules` translates `validate_config`, `normalize` and `canonical_job` as operators on
a raw job, a record with "none" for what is not written. Texts of which only the verdict
matters (a time, a zone, a cron expression) are good or bad. `U64` and `U32` are where the
types end: a duration's number must be below `U64` and its product is reckoned modulo it,
as a release build does; retries from `U32` on become 0. The number of an interval, which
the code parses as u32, is any: one beyond u32 is refused either way, as not a number or as
no divisor. `CanonicalJob` is one text, as in the code: a sequence of symbols in which
words, keys, line ends, commas and U+001F follow each other. A word is one symbol, unless
`Spelled` gives the symbols of it, separators among them; the empty word is none.

`ConfigEdit` has a text as a sequence of lines and two readers of it. `JobAt` reads lines
as YAML does: items, entries, nested values, comments; `JobsIn` is the family of jobs by
the lines they begin at, `JobsOf` the list of them. `SetEnabled`, `RemoveJob` and
`AppendJob` find spans as `config_edit.rs` does and splice them. Where a span ends is in
part for the YAML library to say (comments behind a last item, the end of a nested
value): the operators return the set of all outcomes.

### DailyLog

Each run has a writer, shared by the drain threads of its two streams behind a mutex. A
line is stamped before the lock is taken, goes to the file of its own date, and is
written in two parts, record and line end. The reader takes files by date and lines in
order and skips what does not parse.

## 3. Runs

| Run | Expects | What it asks |
|---|---|---|
| `Contended` | pass | two daemons by hand, one crash, failing statements: is an occurrence executed at most once? |
| `Manual` | pass | the same beside `periodic jobs run`, its cancellation and its crash; types |
| `Supervised` | pass | two jobs (`run_once`, `skip`) under one daemon that crashes and comes back: final history, attended rows, one thread per job, every firing answered, idle when stopped, last success advances, the ledger is implemented |
| `Shutdown` | pass | liveness, with descendants that hold outputs and clients that stay: a daemon told to stop exits, or hangs for ever in a join; a claimed row is served |
| `Schedules` | pass | eight rules in seventeen zones: engine contract, `pop_due`, missed-run walk |
| `Executor` | pass | one run of up to two attempts: history, overlap, output, and its end |
| `ControlPlane` | pass | two commands against a daemon that stops, crashes and comes back: updates, what `jobs edit` overwrites, answers, reloads, socket, shutdown |
| `Supervision` | pass | both service managers, two crashes, one foreign program, a configuration that may be broken: does the daemon come back, and is the row read rightly? |
| `Store` | pass | a run by hand, a look-up and a daemon that reloads, on an empty database; one edit, one death: schema, projection, look-ups |
| `Config` | pass | files of many contents and layouts, two edits each: which values pass validation and mean something else, which hashes collide, what an edit does to the lines |
| `DailyLog` | pass | two runs, four streams, two days: is the output read back? |
| `FoldMinutes` | violation | does an aligned firing lie after `after`, in a fold? |

Bounds, and why they are enough. Two daemon processes suffice for every pairwise race
(check and act, claim against claim, an old process's last word); `Pid` is a symmetry
set where no liveness is checked. The clock goes to 1 to 3, with firings at 1 and 2: one
firing can be missed, one be due, and one lie ahead. `StaleAfter` is 0 to 2 in the
daemon's runs, so that heartbeats go stale within the bound. One crash, one edit and one
reload at most, where a run says so: the counters are in `budget`. `Shutdown` has one
job with two firings, whose descendants may hold its output, a client that may stay, one
edit and one reload. In `Schedules` an hour has 2 minutes and a day 4 hours; transitions
lie on and off the hour and shift by 1 to 4 minutes, less than, equal to and more than
an hour; months have 2 or 3 days, so that a third day is sometimes missing; the clock
jumps by up to 6 minutes at a time, and goes through 3 days. `MaxDue` only cuts the
endless loop of `FoldMinutes`. `Executor` has two attempts, a first that may be retried
and a last one, and one line on a stream, which is enough for a reader to be behind, to
be cut off, and to wait for a descendant; the theorems are about any number of both.

In `ControlPlane` two commands run at a time, in three pairs that meet over one job,
over two jobs, and over a reload; two processes and two faults (a stop, a crash, a
suspended command, a broken file) let a daemon go down between any two steps and another
take its place. In `Supervision` a heartbeat is stale after three intervals, as in the
code (90 seconds, 30 seconds), and the configuration is broken or mended once; systemd
gives up after three starts, where its default is five: what matters is that starts take
less than the staleness bound. `Store` has two migrations of three and two statements,
and one process of each kind; the one edit can take away or pause the job that a command
and the daemon run. `Config` has some 18 000 states: every rule of the schedule, the
duration and the policies, by itself and in one file, and two items in every pair of
layouts, with comments before, between and behind them; three words hold a separator;
`U64` is 262144, so that four days of seconds overflow, and `U32` 512. `DailyLog` prints
up to two lines on a stream.

Fairness. `FairSpec` of `Daemon` asks weak fairness of each daemon's main thread and of
each run thread's own steps: the operating system schedules every thread of a live
process. Most of their blocking calls have timeouts or are answered by other fair steps.
Two joins have no bound: a run thread's, of the readers of its command's output, which
end when the last descendant has closed it (executor.rs:280-282), and the main thread's,
of the IPC thread, which ends when its client hangs up (daemon.rs:159). Nothing is
assumed of those descendants and clients: `ReleaseOutput` and `HangUp` are not fair, and
`ShutdownCompletes` says that a daemon told to stop exits or hangs in one of these two
joins for ever. The clock, users, signals, crashes and commands owe nothing, so a
command may hang for ever. `GraceExpires` is among the main thread's steps: the wait is
bounded by `SHUTDOWN_GRACE`. In `Executor` time is fair too (`DeadlinePasses`), as
deadlines are compared with a clock that advances, and so are the reader threads.
Descendants owe nothing: that is why `CancelEndsTheRun` and `TimeoutEndsTheRun` make an
exception of them. In `ControlPlane` the threads of a daemon and the commands are fair;
the user, who may leave an editor open or a command suspended for ever, signals and
crashes are not, and nobody has to start a daemon. In `Supervision` the managers keep
their word, processes are scheduled, time passes once nothing is left to do at once, and
a foreign program ends some time. In `Store` each process is fair, unless it dies.

`CHECK_DEADLOCK FALSE` is in every configuration: the clock is bounded, daemons exit,
commands and runs end and budgets run out, so these systems really stop.

### What the runs show

- `FoldMinutes`. In a repeated hour a boundary's wall-clock time is ambiguous and resolves
  to the earlier offset. Computed during the second pass it lies up to an hour in the
  past: `pop_due` takes it for due, puts the same entry back, and does not return. A
  reload or start within the repeated hour brings the daemon there. The same happens to
  hour-aligned jobs where a fold repeats a full hour's boundary. `Schedules` shows that
  the engine is right wherever the fold repeats no boundary, and for calendar rules
  everywhere; `EngineIsRight` proves it for every rule, zone and instant, and
  `TableFiresLater` that `FiresStrictlyAfter` then holds.
- `Shutdown`. What is claimed is served and a stop ends, though commands hang, unless from
  some point on the daemon hangs for ever: in a run thread that joins the readers of a
  command that has ended, while a descendant holds its output, or in the join of the IPC
  thread, while a client stays connected (`Hangs`). Both exceptions are in the formula.
  `StopEnds` in `ControlPlane` shows the second one with the connection loop opened up.
- `ControlPlane`. A pause, resume, removal or addition is lost, or undoes another, only
  where a writer goes past the daemon: two commands that both find no daemon running
  read the same file and the second overwrites the first; a command that found none
  writes while a daemon has started and serves another. These are the conjuncts of
  `Served`. `jobs edit` is different: its text goes through a serving daemon, with `Served`
  true, and replaces what is there, a pause answered a moment before included
  (`Overwrite`). Its one guard is the comparison before it is dispatched, and
  `EditClobbersOnlyTheNew` says how far that reaches: nothing that was written while the
  user was editing is overwritten, whatever is written between the comparison and the
  replacement may be. A command whose connection breaks cannot tell whether its
  mutation was made (`unclear`). A reload that meets a file broken by hand is dropped, and
  a mutation before it is then in the file and not in the schedule until the next one.
- `Supervision`. A daemon that crashes is refused while its own heartbeat is fresh.
  launchd tries again until it is stale; systemd, with its default start limit and
  hardly a delay between starts, gives up first, and the service stays down. A
  configuration that does not load has systemd give up too, over whatever heartbeat;
  launchd tries until it is mended. `GivesUpOnFresh` says that besides a fresh
  heartbeat, a start that failed while it loaded, and an unreadable row (the next) there
  is no reason for it. A crash between the first and the last upsert of the very first
  start leaves a row without a heartbeat, which every later start, stop and status fails
  to parse (`Bricked`).
- `Store`. Openers of a new database get into each other's way: the statement that comes
  second fails, and the command with it. `VersionMatchesSchema` and `MigrationCompletes`
  show that the schema comes out right all the same; but a process that dies after a
  statement and before the version is set leaves a database no later opener can migrate
  (the exception in `MigrationCompletes`). Rows of removed jobs stay, so a look-up may
  succeed for a job that the config no longer has; the converse never happens.
- `Config`. `ValidMeansSaid` gives the values that validation passes and the job then does
  not have, exactly (`Unnoticed`): a list of `every` that is empty or has an interval in it
  becomes a daily or a days-only schedule; `at`, `on_day` and `last_day` beside an interval
  or a cron expression are dropped; a duration whose seconds overflow u64 wraps; retries
  over u32 become 0; a policy word nobody knows becomes skip. `HashTellsJobsApart` is about
  jobs whose texts hold no separator (`Clean`) and no empty word where the text cannot tell
  it from nothing (`Ambiguous`): their canonical texts differ. The others do collide.
  `EditsDoWhatTheySay` says that an edit touches no line of another job; that pausing,
  resuming and adding lose no comment; and that removing a job loses those between it and
  the next job, and no others (behind a last job it is for the YAML library to say).
- `DailyLog`. Lines of two runs that write at the same moment may merge, and both are
  lost to the reader; lines of one run never are.

### Claims of the documentation that the code does not keep

`FoldMinutes` is a run of its own because the model shows there what a reader of the code
would not believe. These are stated beside the properties too. To see one violated, add it
as INVARIANT (or PROPERTY, where it is temporal) to the configuration named.

| Claim | Where it is made | Configuration | What happens |
|---|---|---|---|
| `ShutdownIsBounded` (`Daemon`, temporal) | CHANGELOG.md:72-73, "drains in-flight runs (up to a 10s grace) before exiting" | `Shutdown` | the two joins above have no bound |
| `TreeIsTerminated` (`Executor`, temporal) | CHANGELOG.md:121-122, "terminate the whole tree (SIGTERM, then SIGKILL after a grace period)" | `Executor` | `drain_after_kill` (executor.rs:381-382) sends no SIGKILL when the command itself ends within the grace period; a descendant that ignores SIGTERM stays |
| `MostRecentMissIsFound` (`TimeTable`) | daemon.rs:250-251, "`run_once` dispatches the most recent missed occurrence"; CHANGELOG.md:86 | `Schedules` | the walk goes forward and stops after `MISSED_CAP` (1000) occurrences; a job that fires every minute has 1440 a day, so `run_once`, which takes the last, runs one that is hours old |
| `ValidationIsTheGate` (`ConfigEdit`) | config.rs:369, "validation is the real gate" | `Config` | the lists of `BadList` pass (config.rs:348) |
| `DistinctInputsDiffer` (`ConfigEdit`) | config.rs:410-411, "every value is delimited so distinct inputs cannot collide" | `Config` | a U+001F in an argument, a line feed in a command, argument or directory, an empty string beside none (config.rs:412-418) |
| `EditsKeepComments` (`ConfigEdit`, action) | config_edit.rs:5-6, "survive every edit"; CHANGELOG.md:51 | `Config` | a removal cuts up to the line the next job starts on (config_edit.rs:287-291) |

CHANGELOG.md:24-25 says of `jobs edit` that it "is refused rather than clobbering the
concurrent change", without the window that the comment at main.rs:498-500 knows of.

### Known to happen in the daemon, and not promised by any property

- A reload builds a table from its own `now`: a firing that fell due after the last
  `pop_due` and before the reload is in neither table, and nothing replays it until a
  restart. `Supervised`, which checks `EveryFiringAnswered`, has no reload for this reason
  (set `MaxReloads` to 1 to see it).
- `recover_interrupted_runs` takes every unfinished row for one of a crashed daemon. A
  `periodic jobs run` at work is marked interrupted while its command runs on, and
  marked again with its outcome when it ends (`Manual` allows it; `HistoryIsFinal` is
  stated where there are no manual runs).
- A daemon that is "stopping" does not count as live, so another may start while it
  drains; when the first has drained it writes "stopped" over the second's row
  (`Supervised` has one daemon at a time).
- A reload that a stopping daemon has acknowledged is never made (`ScheduleCatchesUp`
  excepts it); its successor loads the file anyway.
- A daemon that exits late removes whatever socket file is at the path, its successor's
  too (`Bind` and `StopServing` in `ControlPlane`; two daemons at a time are needed).
- The deadline is set anew for each attempt, so a run with retries may take several times
  its timeout (`TimeoutEndsTheRun` asks only that it ends).
- A `run_all` job gets a thread for every missed occurrence at once, so its runs overlap
  each other (`OneThreadPerJob` excepts it). A command outlives its crashed daemon, whose
  successor neither knows nor stops it, so two commands of a job may run side by side
  although no occurrence is executed twice.
- `daemon stop` signals whatever program has the recorded pid by now (`stray` in
  `Supervision`).

## 4. Proofs

| Theorem | Says | Assumes |
|---|---|---|
| `TypeCorrect`, `AtMostOnce`, `NoOverlap`, `OneThread` (`DaemonProofs`) | `TypeOK`, `ExecutedAtMostOnce` and `OneThreadPerJob` always hold | the constants' types |
| `CustodyHolds`, `FinalHistory`, `StoppedIsIdle`, `LedgerImplemented` (`DaemonProofs`) | the custody invariant; terminal rows are final; no thread when stopped; refinement of `RunLedger` | one daemon at a time, no manual runs |
| `RowsAreAttended` (`DaemonProofs`) | no unfinished row is unattended | also that statements do not fail |
| `AnchorAdvances` (`DaemonProofs`) | a job's last success never moves back | one daemon, no manual runs, no `run_all` |
| `FiringsAnswered` (`DaemonProofs`) | every firing before the table's entry is answered | `Undisturbed`: one daemon, no manual runs, edits or reloads, no failing statement, the history within reach of the scan |
| `EngineIsRight` (`ScheduleProofs`) | `next_occurrence` is the earliest instant after the given one at which the rule fires, with no horizon | no fold repeats a time the rule names |
| `TableInvariant`, `ContractHolds`, `BacklogCollapses` (`ScheduleProofs`) | the table holds each job's next firing, later than what it was computed from (`TableFiresLater`, a corollary); `pop_due` takes what has elapsed, once | the same of every configured job |
| `MissedRunsAreFound` (`ScheduleProofs`) | the missed-run walk finds the firings of its window, the earliest `MissedCap` | the same |
| `LinesInOrder`, `OutputIsReadBack` (`DailyLogProofs`) | the day files hold every stream's lines in order; reading gives them back | the constants' types |
| `ExecutorInvariant`, `ExecutorTypes`, `LastAttemptDecides`, `NoRetryLeft`, `CommandsAreReaped`, `OutputComesFirst` (`ExecutorProofs`) | the executor's types, history, processes and output, for any number of attempts and lines | the constants' types |
| `ControlTypes`, `AnswersTrue` (`ControlPlaneProofs`) | types and sessions; every answer to a command is true | the constants' types |
| `EditsSpareTheOld` (`ControlPlaneProofs`) | `EditClobbersOnlyTheNew`, any number of daemons and faults | the constants' types |
| `OwnershipHolds`, `ConfigFileImplemented` (`ControlPlaneProofs`) | the serving daemon owns the file; refinement of `ConfigFile`, in which a whole text overwrites | one daemon at a time |
| `SupervisionInvariant`, `NotRunningHolds`, `ReadsFailOnlyBeforeFirst` (`SupervisionProofs`) | the liveness row and what is concluded from it | the constants' types |
| `GivesUpHolds` (`SupervisionProofs`) | systemd gives up only over a fresh heartbeat, an unreadable row, or a start that failed to load | fewer crashes than `StartLimit` |
| `StoreInvariant`, `SchemaIsComplete`, `OutcomesLand`, `NoSuchJobIsRight` (`StoreProofs`) | the schema is what its version says; outcomes and look-ups find their rows | the constants' types |
| `MeaningIsKept`, `HashesTellApart` (`ConfigProofs`) | `ValidMeansSaid` and `HashTellsJobsApart` hold of every file, whatever edits are made | the constants' types; no name of a day holds a separator (`RulesAssumption`) |

At most once. `started[r] <= 1` is not inductive. `ClaimGate` says why it holds: a run
without a row was never started and belongs to no thread; a run has at most one thread
over all owners, and none once it is started twice over; a thread at "spawned" has not
started it. The claim is the only step that creates a thread, and it needs `runs[r] =
"none"`, which no step restores. The argument needs no liveness row, no clock and no
success of any statement: the unique index alone carries it.

One thread. That no row is executed twice does not keep two occurrences of one job
apart: `pop_due` skips a job with a thread, but reads the threads once for all that is
due, and the missed-run scan reads none. `Overlap` ties together what a daemon has in
flight, what it has yet to claim (`todo`), which jobs it has yet to scan and the snapshot
(`active`): nothing in flight is of a job still to be scanned, and of a job with a claim
to come nothing is in flight, or the snapshot has it. Each daemon's part is
inductive by itself, so the theorem needs neither supervision nor working statements.

Custody. Under a service manager the live daemon is the only one (`OneDaemon`). Each of its
threads owns a row at the stage the thread is in, each row in `closing` is pending, and no
thread owns a row that is closed (`ThreadsOwnRows`, `ClosingOwnsRows`). Then recovery, which
runs before the daemon has any thread, meets only orphans, and no statement meets a
terminal row; so history is final and every step is a step of the ledger or leaves it
alone. `StoppedIsRecordedLast` adds that "stopped" is written by the last daemon up, after
its joins. Manual runs and a second daemon break it (section 3): both assumptions are
needed.

The anchor. `finalize` reads the clock once for two statements, and other threads come in
between. `Credits` says that a stamp is no later than the clock and that of one job only
one thread has a stamp still to be credited (`Overlap`), which is later than the credit
before. With `run_all` two successes of one job may be credited in the wrong order: that
assumption is needed, as is one daemon.

The firings. `Plan` follows a daemon from its load to its end: what is before a table's
entry is `Settled` (a row, a claim to come, or a success that no later credit
replaces), or the job is still to be scanned; what is after the entry has no row. Across
a restart this rests on `RowsFollow` (a row is created no earlier than its occurrence) and
on `AnchorAdvances`: the scan starts from the last success, and what was answered before
the crash is either credited, or found again after the anchor. Each assumption excludes
a case in which a firing is lost (section 3): a reload between a firing and the next
`pop_due`, a disabled job, a claim whose statement fails, a history longer than the lookback
or the cap.

The engine. The reference is freed of TLC's horizon: `FirstAt(z, w, t)` says that the clock
of zone `z` shows the wall time `w` first at `t` (or skips it, and `t` is the end of the
gap), `Fires` that the rule names such a `w`, and `IsNext` that an instant is the first
after another at which the rule fires. `ResolvesToFirst` shows that `ResolveWallClock`
computes `FirstAt`, with a gap and a fold; `NextNamedIsNext` carries "the next named wall
time" over to instants, which needs that the clock does not show a named time twice
(`FoldRepeatsNone`, the assumption). What is left is arithmetic: `HourMultiples` and
`NextMultiple` for the aligned kinds; for calendars `WalkReaches` (the walk visits
dates the rule names, one of them two days ahead or more, over however many short months)
and `WalkLeavesOutLater` (a date it does not visit is later than all it does).
`FiringsWithin` says that the bounded reference TLC uses agrees with it as far as the
horizon counts.

The table. `EntriesFollow` says that the heap is exactly one entry for each job, computed
from an instant no later than now, and that in a pop a job is untouched or taken once, with
the entry it had before; `NothingLeft` that nothing is due when `pop_due` returns. With
`EngineIsRight`, an entry put back lies after now, so no job is taken twice and what is
taken is the first of what elapsed. The missed-run walk is followed as the iteration of one
function (`Iterates`): `StepsMeetTheEarliest` says that as long as a step is not in the
future, the first `n` steps are the `n` earliest firings of the window.

The daily log. Two writes make a line, and two threads of a run take turns only by its
writer's lock. `InOrderOf` says that the files hold the lines of a stream from the first
to the last written, in order, and none later than the day the held line is stamped
with: this is why the stamp may be taken before the lock and across midnight. `Holding`
says that the line a thread holds is the last one printed, and is in the open file while
the thread has the writer; `TakeTurns`, that where one run writes, a record without its
line end is the last write, and only under the lock. The reader is two concatenations,
and `Flattened` says what either gives when its parts are increasing and each begins
beyond those before it; that a reader of one run alone finds every line is then a count
(`AsLongAsItsMembers`).

The executor. `History` says which rows there are at each place of the thread,
`Processes` which commands may be alive there; it needs the first only where a failed
statement ends a run that is already recorded. `Readers` says that a reader at the end
of its stream has logged all that was printed, and that then nobody holds the pipes or
could fork somebody who does, so that nothing is added later; and that both readers have
ended when an attempt is recorded.

The control plane. `Sessions` says that a daemon has at most one request of a command,
and which writes are in the history at each place of both ends of a connection. An
answer is true because a request is consumed when it is handled, and a command that lost
its connection never sends again (`unclear`). For the refinement, `Ownership`: one daemon
is alive, its IPC thread lives in it, and since it read the file at `base` nobody but a
command that found no daemon has written; then the candidate it writes is made from what
is there, or `Served` is false. With two daemons the second would overwrite the first's
change: the assumption is needed. Of a replacement this says only that it parses. What it
spares is `Compared`: as long as nothing has been written since a `jobs edit` compared the
file, it is what the user was given. Only `CloseEditor` notes a `base`, only with the file
as it was opened, and every change of the file adds to the history.

The service. `RowFollows` says that what a starting daemon has read key by key is still
in the row, since nobody else starts meanwhile; that a daemon up has the row to itself;
and that its heartbeat and the time it will yet sleep are within the interval (the
reason why a status finds it live). `Conclusions` says that a command on its way to "not
running" has seen a moment without a daemon. `Attempts` counts: under systemd each start
since the last tick has crashed, has failed to load, or has met a row that refuses it
and keeps refusing until the next tick. As many crashes as the start limit allows make
systemd give up by themselves; hence the assumption.

The store. `VersionMatchesSchema` is not inductive: it must be known that a process about
to set a version has seen every statement of that migration succeed, and that all earlier
migrations are in force (`Migrating`). Since a statement in force is never undone
(`DoneGrows`) other processes cannot disturb that. For the rows, a process that projects
has a row for each listed job that is not in `todo` any more (`Projecting`, `Projected`), a
run is begun of a job that is listed then, and no step removes a row (`RowsStay`): that is
where it matters that reconcile only upserts, and why a daemon may reload under a run.

The file. `IsText` is what the edits preserve: a text is a list of lines that hold raw
jobs. It needs that spans end inside the text (`SpanIsInside`, `EntryEndsInside`), which
rest on `LeastNumber`: a set of naturals with a member has a least one. `LeastNumber` is
also how inductions over a list are done, by the least position at which two would
differ. `MeaningIsKept` goes through the keys (`LostIsUnnoticed`): a value is in the
normal form, or it is in `Unnoticed`, and never both. `HashesTellApart` splits the
joined text again: `LinesSplit` says that two equal texts have the same ten lines when
no value holds a line end, `ListsTellApart` that lists of words without a separator
whose joined texts are equal are equal, `EndsSplit` that the days of a calendar end
where its eight other symbols begin; `ScheduleTellsApart` and `JobIsRendered` put the
fields together. Each rests on `Clean`: with a separator in a word the same text has two
readings. A zone is not empty because validation refuses one that is.

Only model-checked: liveness (`ShutdownCompletes`, `ClaimedIsServed`,
`CancelEndsTheRun`, `TimeoutEndsTheRun`, `ScheduleCatchesUp`, `SocketIsTaken`,
`StopEnds`, `ComesBack`, `MigrationCompletes`) is out of the prover's reach.
`EditsDoWhatTheySay` compares lists whose line numbers an edit shifts, filtered with
`SelectSeq`, which the prover does not expand.

## 5. Not modelled

- Cron expressions (the `croner` crate), the YAML grammar (`serde-saphyr` and
  `granit-parser`): `ConfigEdit` has block lists whose items stand on lines of their
  own; the indentation of a list under `jobs:`, quoting, anchors and several documents
  are left out.
- Rendering, argument parsing, diagnostics' messages and paths, the doctor's report,
  shell completion and self update: no state, nothing interleaves.
- The wire format of the socket, and `daemon.status`, which changes nothing.
- Writing, loading and removing the units of a service manager: one command each,
  without state of their own; what the units ask for is `Supervision`.
- The projection columns `next_run_at`, `schedule_kind` and `config_hash`, which are
  written and rendered and never read back.

## 6. Plan

All modules of the plan are written; every safety invariant that a run checks is proved,
and so is every action property but one. What is left is `EditsDoWhatTheySay`: a lemma on
how a splice shifts items, entries and spans, with the lists built by `FlattenSeq` as in
`DailyLog`. `GivesUpOnFresh` and `LastSuccessAdvances` show the form: an invariant, and one
step from it.
