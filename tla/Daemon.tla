------------------------------- MODULE Daemon -------------------------------
(***************************************************************************)
(* The periodic daemon around its SQLite store: start-up and crash         *)
(* recovery, missed-run replay, the scheduler loop, reload, shutdown with  *)
(* draining, the run threads that execute claimed rows, and the CLI        *)
(* process of `periodic jobs run`.  One action per SQL statement or        *)
(* blocking point, so the actors interleave where they do in the program.  *)
(* Any number of daemon processes may be started, one Pid for each.        *)
(***************************************************************************)
EXTENDS Integers, Sequences, FiniteSets, FiniteSetsExt

CONSTANTS
    Job,              \* job ids of the config
    Pid,              \* one per daemon process ever started
    Cli,              \* the `periodic jobs run` process
    NoPid,            \* daemon_state before the first daemon
    ManualId,         \* names of the manual triggers
    MaxTime,          \* the clock is bounded
    Sched,            \* Sched[j]: the instants job j's schedule fires at
    Policy,           \* Policy[j]: missed_run_policy
    Lookback,         \* MISSED_LOOKBACK
    MissedCap,        \* MISSED_CAP
    StaleAfter,       \* DAEMON_STALE_AFTER
    HeartbeatInterval,\* HEARTBEAT_INTERVAL
    Supervised,       \* a service manager runs at most one daemon at a time
    DbFaults,         \* statements may fail (busy timeout, disk full)
    Lingers,          \* jobs whose command may leave a descendant with its output
    IdleClients,      \* clients may connect to the control socket and stay idle
    MaxEdits, MaxReloads, MaxCrashes   \* bounds on the environment

Time == 0..MaxTime
Never == MaxTime + 1

ASSUME ConfigAssumption ==
    /\ MaxTime \in Nat
    /\ Sched \in [Job -> SUBSET (1..MaxTime)]
    /\ Policy \in [Job -> {"skip", "run_once", "run_all"}]
    /\ {Lookback, MissedCap, StaleAfter, HeartbeatInterval} \subseteq Nat
    /\ {MaxEdits, MaxReloads, MaxCrashes} \subseteq Nat
    /\ Lingers \subseteq Job
    /\ {Supervised, DbFaults, IdleClients} \subseteq BOOLEAN

ASSUME NameAssumption ==
    /\ Cli \notin Pid
    /\ NoPid \notin Pid
    /\ ManualId \cap Nat = {}

VARIABLES
    now,          \* wall clock
    disk,         \* the YAML file: does it validate, which jobs it enables
    runs,         \* table runs: status of each row, "none" where there is no row
    created,      \* runs.created_at
    lastSuccess,  \* jobs_state.last_success_at, -1 for null
    dstate,       \* table daemon_state
    started,      \* how often the command of a run was executed
    proc,         \* whether the command's process group is alive
    thread,       \* run threads of each daemon, and the CLI's own execution
    stamp,        \* run_finished held by the thread that finalizes the run
    pc,           \* where each daemon's main thread is
    at,           \* its captured `now`
    scan,         \* jobs handle_missed_runs has still to look at
    table,        \* ScheduleTable: next firing of each scheduled job
    todo,         \* occurrences computed and not yet claimed
    active,       \* jobs in flight when the loop last looked
    closing,      \* row created and about to be closed without executing
    ctl,          \* the mpsc control channel
    stop,         \* the stop flag
    cancel,       \* owners that asked their unfinished runs to cancel
    held,         \* runs whose output pipes a descendant of the command holds open
    visited,      \* daemons whose IPC thread reads from a client that sends nothing
    budget        \* what is left of the environment's bounds

store   == <<runs, created, lastSuccess, dstate>>
procs   == <<started, proc, thread, stamp>>
plan    == <<at, scan, table, todo, active, closing>>
signals == <<ctl, stop, cancel>>
env     == <<now, disk, held, visited, budget>>
vars    == <<now, disk, runs, created, lastSuccess, dstate, started, proc, thread, stamp,
             pc, at, scan, table, todo, active, closing, ctl, stop, cancel, held, visited, budget>>

-----------------------------------------------------------------------------
\* Occurrences and rows

Occ    == {o \in Job \X Time : o[2] \in Sched[o[1]]}
Manual == Job \X ManualId
RunId  == Occ \cup Manual
JobOf(r) == r[1]
Owner  == Pid \cup {Cli}

Live        == {"pending", "running"}
Outcome     == {"success", "failed", "timeout", "cancelled"}
Terminal    == Outcome \cup {"skipped", "skipped_overlap", "interrupted"}
RowStatus   == {"none"} \cup Live \cup Terminal

\* "spawned": created, not yet at mark_run_running; "running": the attempt loop;
\* an outcome: decided and not yet written; "credit": finish_run done and
\* update_job_outcome to come; "idle": no such thread, or its done flag is set.
Phase == {"idle", "spawned", "running", "credit"} \cup Outcome

PcValue == {"idle", "checked", "loaded", "recovered", "missed", "loop", "due",
            "sleep", "drain", "join", "leaving", "exited"}

\* The schedule engine's contract: the first firing strictly after t.
NextOccurrence(j, t) ==
    LET later == {u \in Sched[j] : u > t}
    IN IF later = {} THEN Never ELSE Min(later)

\* ScheduleTable::build
Build(jobs, t) == [j \in Job |-> IF j \in jobs THEN NextOccurrence(j, t) ELSE Never]

DueJobs(p) == {j \in Job : table[p][j] <= now}

InFlight(o)   == {r \in RunId : thread[o][r] # "idle"}
Stale(d)      == d.state = "running" /\ now - d.heartbeat > StaleAfter
LiveStatus(d) == d.state = "running" /\ ~Stale(d)
Gone(p)       == pc[p] \in {"idle", "exited"}
\* The signal handlers and the IPC thread are in place.
Serving(p)    == pc[p] \in {"missed", "loop", "due", "sleep", "drain", "join", "leaving"}

-----------------------------------------------------------------------------
Init ==
    /\ now = 0
    /\ disk \in [valid : {TRUE}, enabled : SUBSET Job]
    /\ runs = [r \in RunId |-> "none"]
    /\ created = [r \in RunId |-> 0]
    /\ lastSuccess = [j \in Job |-> -1]
    /\ dstate = [pid |-> NoPid, state |-> "none", heartbeat |-> 0]
    /\ started = [r \in RunId |-> 0]
    /\ proc = [r \in RunId |-> FALSE]
    /\ thread = [o \in Owner |-> [r \in RunId |-> "idle"]]
    /\ stamp = [r \in RunId |-> 0]
    /\ pc = [p \in Pid |-> "idle"]
    /\ at = [p \in Pid |-> 0]
    /\ scan = [p \in Pid |-> {}]
    /\ table = [p \in Pid |-> [j \in Job |-> Never]]
    /\ todo = [p \in Pid |-> {}]
    /\ active = [p \in Pid |-> {}]
    /\ closing = [p \in Pid |-> {}]
    /\ ctl = [p \in Pid |-> <<>>]
    /\ stop = [p \in Pid |-> FALSE]
    /\ cancel = {}
    /\ held = {}
    /\ visited = {}
    /\ budget = [edits |-> MaxEdits, reloads |-> MaxReloads, crashes |-> MaxCrashes]

\* What a daemon process holds in memory is gone with it.
Forget(p) ==
    /\ at' = [at EXCEPT ![p] = 0]
    /\ scan' = [scan EXCEPT ![p] = {}]
    /\ table' = [table EXCEPT ![p] = [j \in Job |-> Never]]
    /\ todo' = [todo EXCEPT ![p] = {}]
    /\ active' = [active EXCEPT ![p] = {}]
    /\ closing' = [closing EXCEPT ![p] = {}]
    /\ ctl' = [ctl EXCEPT ![p] = <<>>]
    /\ stop' = [stop EXCEPT ![p] = FALSE]
    /\ cancel' = cancel \ {p}

-----------------------------------------------------------------------------
\* Start-up

\* start: refused while a daemon with a fresh heartbeat claims "running".
Start(p) ==
    /\ pc[p] = "idle"
    /\ Supervised => \A q \in Pid : Gone(q)
    /\ ~LiveStatus(dstate)
    /\ pc' = [pc EXCEPT ![p] = "checked"]
    /\ UNCHANGED <<store, procs, plan, signals, env>>

\* load_validated_config, then `now` is captured for the whole start-up.  The
\* table is built at once: it depends on the loaded config and that `now` only.
LoadConfig(p) ==
    /\ pc[p] = "checked"
    /\ disk.valid
    /\ pc' = [pc EXCEPT ![p] = "loaded"]
    /\ at' = [at EXCEPT ![p] = now]
    /\ scan' = [scan EXCEPT ![p] = disk.enabled]
    /\ table' = [table EXCEPT ![p] = Build(disk.enabled, now)]
    /\ UNCHANGED <<store, procs, todo, active, closing, signals, env>>

\* An invalid config, or a failed statement, ends the process with an error.
StartupFails(p) ==
    /\ \/ pc[p] = "checked" /\ ~disk.valid
       \/ pc[p] \in {"checked", "loaded", "recovered"} /\ DbFaults
    /\ pc' = [pc EXCEPT ![p] = "exited"]
    /\ Forget(p)
    /\ UNCHANGED <<store, procs, env>>

\* The rows recover_interrupted_runs updates; mutants forget the claimed ones,
\* and take every row that is not a success.
OnlyRunning   == {"running"}
NotSuccessful == RowStatus \ {"none", "success"}
Interruptible == Live

\* recover_interrupted_runs: one update over every unfinished row.
RecoverInterruptedRuns(p) ==
    /\ pc[p] = "loaded"
    /\ runs' = [r \in RunId |-> IF runs[r] \in Interruptible THEN "interrupted" ELSE runs[r]]
    /\ pc' = [pc EXCEPT ![p] = "recovered"]
    /\ UNCHANGED <<created, lastSuccess, dstate, procs, plan, signals, env>>

\* record_daemon_started, then the signal handlers and the IPC thread.
RecordDaemonStarted(p) ==
    /\ pc[p] = "recovered"
    /\ dstate' = [pid |-> p, state |-> "running", heartbeat |-> at[p]]
    /\ pc' = [pc EXCEPT ![p] = "missed"]
    /\ UNCHANGED <<runs, created, lastSuccess, procs, plan, signals, env>>

\* Mutants: every instant is taken for a firing; the bound `inst > now` is >=.
EveryElapsedInstant(p, j, last) == {t \in Time : last < t /\ t <= at[p]}
MissedBeforeNow(p, j, last)     == {t \in Sched[j] : last < t /\ t < at[p]}

\* missed_occurrences: forward from the last success, at most Lookback back,
\* and no more than the first MissedCap.
MissedOccurrences(p, j, last) ==
    LET anchor == Max({last, at[p] - Lookback})
        elapsed == {t \in Sched[j] : anchor < t /\ t <= at[p]}
    IN {t \in elapsed : Cardinality({u \in elapsed : u <= t}) <= MissedCap}

\* handle_missed_runs reads one job's misses and picks what its policy asks for.
ScanMissed(p) ==
    /\ pc[p] = "missed"
    /\ todo[p] = {} /\ closing[p] = {}
    /\ \E j \in scan[p], last \in {-1} \cup {lastSuccess[k] : k \in scan[p]} :
         /\ last = lastSuccess[j] \/ (DbFaults /\ last = -1)
         /\ scan' = [scan EXCEPT ![p] = @ \ {j}]
         /\ LET missed == MissedOccurrences(p, j, last)
                chosen == IF missed = {} \/ Policy[j] = "run_all" THEN missed
                          ELSE {Max(missed)}
            IN todo' = [todo EXCEPT ![p] = {j} \X chosen]
    /\ UNCHANGED <<store, procs, pc, at, table, active, closing, signals, env>>

MissedDone(p) ==
    /\ pc[p] = "missed"
    /\ scan[p] = {} /\ todo[p] = {} /\ closing[p] = {}
    /\ pc' = [pc EXCEPT ![p] = "loop"]
    /\ UNCHANGED <<store, procs, plan, signals, env>>

-----------------------------------------------------------------------------
\* Claiming: create_run's insert is the dedupe gate on occurrence_key

\* The occurrence handled next: both callers walk theirs in time order.
IsNext(p, o) == o \in todo[p] /\ \A u \in todo[p] : o[2] <= u[2]

Claiming(p, o) ==
    /\ pc[p] \in {"missed", "due"}
    /\ closing[p] = {}
    /\ IsNext(p, o)
    /\ todo' = [todo EXCEPT ![p] = @ \ {o}]

\* create_run's insert: a pending row stamped with the caller's `now`.
CreateRun(r, t) ==
    /\ runs' = [runs EXCEPT ![r] = "pending"]
    /\ created' = [created EXCEPT ![r] = t]

\* Mutant: a plain insert, with no conflict clause on occurrence_key.
NeverClaimed(p, o) == FALSE

\* on conflict(occurrence_key) do nothing: some daemon already has this row.
AlreadyClaimed(p, o) == runs[o] # "none"

\* Mutant: dispatch_due without its overlap check.
OnlySkippedMisses(p, o) == pc[p] = "missed" /\ Policy[JobOf(o)] = "skip"

\* A missed occurrence under `skip`, or a due one whose job is in flight, gets a
\* row but no thread.
NotToExecute(p, o) ==
    IF pc[p] = "missed" THEN Policy[JobOf(o)] = "skip" ELSE JobOf(o) \in active[p]

\* The row exists; or (with DbFaults) the insert fails and is only logged.
SkipClaimed(p, o) ==
    /\ Claiming(p, o)
    /\ AlreadyClaimed(p, o) \/ DbFaults
    /\ UNCHANGED <<store, procs, pc, at, scan, table, active, closing, signals, env>>

\* create_run and spawn_run.
ClaimAndSpawn(p, o) ==
    /\ Claiming(p, o)
    /\ ~AlreadyClaimed(p, o)
    /\ ~NotToExecute(p, o)
    /\ CreateRun(o, at[p])
    /\ thread' = [thread EXCEPT ![p][o] = "spawned"]
    /\ UNCHANGED <<lastSuccess, dstate, started, proc, stamp,
                   pc, at, scan, table, active, closing, signals, env>>

\* Mutant: the row is claimed, and finish_run(.., "skipped") forgotten.
ClaimAndForget(p, o) ==
    /\ Claiming(p, o)
    /\ ~AlreadyClaimed(p, o)
    /\ NotToExecute(p, o)
    /\ CreateRun(o, at[p])
    /\ UNCHANGED <<lastSuccess, dstate, procs, pc, at, scan, table, active, closing,
                   signals, env>>

\* create_run for an occurrence that will not execute.
ClaimToClose(p, o) ==
    /\ Claiming(p, o)
    /\ ~AlreadyClaimed(p, o)
    /\ NotToExecute(p, o)
    /\ CreateRun(o, at[p])
    /\ closing' = [closing EXCEPT ![p] = {o}]
    /\ UNCHANGED <<lastSuccess, dstate, procs, pc, at, scan, table, active, signals, env>>

\* finish_run(.., "skipped" | "skipped_overlap"); its failure is only logged.
CloseUnexecuted(p) ==
    /\ \E o \in closing[p] :
         \/ runs' = [runs EXCEPT ![o] = IF pc[p] = "missed" THEN "skipped"
                                                            ELSE "skipped_overlap"]
         \/ DbFaults /\ UNCHANGED runs
    /\ closing' = [closing EXCEPT ![p] = {}]
    /\ UNCHANGED <<created, lastSuccess, dstate, procs, pc, at, scan, table, todo, active,
                   signals, env>>

-----------------------------------------------------------------------------
\* The scheduler loop

\* Top of the loop: capture `now`, heartbeat, drop finished handles, note the
\* jobs in flight, and pop_due: each due job yields its table entry once and is
\* put back at its next firing after `now`.
LoopTop(p) ==
    /\ pc[p] = "loop"
    /\ ~stop[p]
    /\ at' = [at EXCEPT ![p] = now]
    /\ \/ dstate' = [dstate EXCEPT !.heartbeat = now]
       \/ DbFaults /\ UNCHANGED dstate
    /\ active' = [active EXCEPT ![p] = {JobOf(r) : r \in InFlight(p)}]
    /\ todo' = [todo EXCEPT ![p] = {<<j, table[p][j]>> : j \in DueJobs(p)}]
    /\ table' = [table EXCEPT ![p] =
                   [j \in Job |-> IF j \in DueJobs(p) THEN NextOccurrence(j, now) ELSE @[j]]]
    /\ pc' = [pc EXCEPT ![p] = "due"]
    /\ UNCHANGED <<runs, created, lastSuccess, procs, scan, closing, signals, env>>

\* Everything due is dispatched: block on the control channel.
Sleep(p) ==
    /\ pc[p] = "due"
    /\ todo[p] = {} /\ closing[p] = {}
    /\ pc' = [pc EXCEPT ![p] = "sleep"]
    /\ at' = [at EXCEPT ![p] = now]
    /\ UNCHANGED <<store, procs, scan, table, todo, active, closing, signals, env>>

\* recv_timeout elapsed: sleep_until is the next firing, at most a heartbeat away.
WakeByTimeout(p) ==
    /\ pc[p] = "sleep"
    /\ ctl[p] = <<>>
    /\ DueJobs(p) # {} \/ now - at[p] >= HeartbeatInterval
    /\ pc' = [pc EXCEPT ![p] = "loop"]
    /\ UNCHANGED <<store, procs, plan, signals, env>>

\* ControlEvent::Wake or Reload.  A reload that cannot load keeps the old table.
ReceiveControl(p) ==
    /\ pc[p] = "sleep"
    /\ ctl[p] # <<>>
    /\ ctl' = [ctl EXCEPT ![p] = Tail(@)]
    /\ pc' = [pc EXCEPT ![p] = "loop"]
    /\ \/ /\ Head(ctl[p]) = "reload" /\ disk.valid
          /\ table' = [table EXCEPT ![p] = Build(disk.enabled, now)]
       \/ /\ Head(ctl[p]) = "wake" \/ ~disk.valid \/ DbFaults
          /\ UNCHANGED table
    /\ UNCHANGED <<store, procs, at, scan, todo, active, closing, stop, cancel, env>>

-----------------------------------------------------------------------------
\* Shutdown

\* The loop saw the stop flag: record "stopping" and start to drain.
BeginStopping(p) ==
    /\ pc[p] = "loop"
    /\ stop[p]
    /\ \/ dstate' = [dstate EXCEPT !.state = "stopping"]
       \/ DbFaults /\ UNCHANGED dstate
    /\ pc' = [pc EXCEPT ![p] = "drain"]
    /\ UNCHANGED <<runs, created, lastSuccess, procs, plan, signals, env>>

\* Mutant: the stragglers are joined without being cancelled.
JoinWithoutCancel(p) ==
    /\ pc[p] = "drain"
    /\ InFlight(p) # {}
    /\ pc' = [pc EXCEPT ![p] = "join"]
    /\ UNCHANGED <<store, procs, plan, signals, env>>

\* The grace period ran out: cancel what is unfinished, then join.
GraceExpires(p) ==
    /\ pc[p] = "drain"
    /\ InFlight(p) # {}
    /\ cancel' = cancel \cup {p}
    /\ pc' = [pc EXCEPT ![p] = "join"]
    /\ UNCHANGED <<store, procs, plan, ctl, stop, env>>

\* Mutant: the threads are not joined.
LeaveUndrained(p) ==
    /\ pc[p] \in {"drain", "join"}
    /\ pc' = [pc EXCEPT ![p] = "leaving"]
    /\ UNCHANGED <<store, procs, plan, signals, env>>

\* Every run thread has finished and is joined.
Drained(p) ==
    /\ pc[p] \in {"drain", "join"}
    /\ InFlight(p) = {}
    /\ pc' = [pc EXCEPT ![p] = "leaving"]
    /\ UNCHANGED <<store, procs, plan, signals, env>>

\* The IPC thread is joined, which waits for the client it may be reading from;
\* then record "stopped" and exit.
RecordStopped(p) ==
    /\ pc[p] = "leaving"
    /\ p \notin visited
    /\ \/ dstate' = [dstate EXCEPT !.state = "stopped"]
       \/ DbFaults /\ UNCHANGED dstate
    /\ pc' = [pc EXCEPT ![p] = "exited"]
    /\ Forget(p)
    /\ UNCHANGED <<runs, created, lastSuccess, procs, env>>

-----------------------------------------------------------------------------
\* Executing a claimed row: a daemon's run thread, or the CLI itself

\* mark_run_running and the spawn of the command; a command that cannot be
\* spawned is a failed attempt (127).
ThreadStart(o, r) ==
    /\ thread[o][r] = "spawned"
    /\ runs' = [runs EXCEPT ![r] = "running"]
    /\ \/ /\ started' = [started EXCEPT ![r] = @ + 1]
          /\ proc' = [proc EXCEPT ![r] = TRUE]
          /\ thread' = [thread EXCEPT ![o][r] = "running"]
       \/ /\ thread' = [thread EXCEPT ![o][r] = "failed"]
          /\ UNCHANGED <<started, proc>>
    /\ UNCHANGED <<created, lastSuccess, dstate, stamp, pc, plan, signals, env>>

\* wait_loop saw the exit status; retries are over when the outcome is decided.
ThreadExit(o, r) ==
    /\ thread[o][r] = "running"
    /\ ~proc[r]
    /\ \E s \in {"success", "failed"} : thread' = [thread EXCEPT ![o][r] = s]
    /\ UNCHANGED <<store, started, proc, stamp, pc, plan, signals, env>>

\* The process group is signalled, killed after KILL_GRACE if its leader is still
\* there, and the leader reaped: the attempt ends as s.
ThreadKill(o, r, s) ==
    /\ thread[o][r] = "running"
    /\ thread' = [thread EXCEPT ![o][r] = s]
    /\ proc' = [proc EXCEPT ![r] = FALSE]
    /\ UNCHANGED <<store, started, stamp, pc, plan, signals, env>>

ThreadCancel(o, r)  == o \in cancel /\ ThreadKill(o, r, "cancelled")
ThreadTimeout(o, r) == ThreadKill(o, r, "timeout")

\* The waiter and both readers are joined, which waits for every descendant that
\* holds the output; then finalize, first statement: finish_run, with the instant
\* both writes carry.
FinishRun(o, r) ==
    /\ thread[o][r] \in Outcome
    /\ r \notin held
    /\ runs' = [runs EXCEPT ![r] = thread[o][r]]
    /\ thread' = [thread EXCEPT ![o][r] = IF @ = "success" THEN "credit" ELSE "idle"]
    /\ stamp' = [stamp EXCEPT ![r] = IF thread[o][r] = "success" THEN now ELSE @]
    /\ UNCHANGED <<created, lastSuccess, dstate, started, proc, pc, plan, signals, env>>

\* finalize, second statement: update_job_outcome of a success.
CreditSuccess(o, r) ==
    /\ thread[o][r] = "credit"
    /\ lastSuccess' = [lastSuccess EXCEPT ![JobOf(r)] = stamp[r]]
    /\ stamp' = [stamp EXCEPT ![r] = 0]
    /\ thread' = [thread EXCEPT ![o][r] = "idle"]
    /\ UNCHANGED <<runs, created, dstate, started, proc, pc, plan, signals, env>>

\* Any statement of the thread may fail: the error is logged, the done flag set.
ThreadError(o, r) ==
    /\ DbFaults
    /\ thread[o][r] # "idle"
    /\ thread' = [thread EXCEPT ![o][r] = "idle"]
    /\ stamp' = [stamp EXCEPT ![r] = 0]
    /\ UNCHANGED <<store, started, proc, pc, plan, signals, env>>

\* What a thread does once it is scheduled, and what may also befall it.
ThreadProgress(o, r) ==
    \/ ThreadStart(o, r) \/ ThreadExit(o, r) \/ ThreadCancel(o, r)
    \/ FinishRun(o, r) \/ CreditSuccess(o, r)

ThreadStep(o, r) ==
    ThreadProgress(o, r) \/ ThreadTimeout(o, r) \/ ThreadError(o, r)

-----------------------------------------------------------------------------
\* The environment: clock, commands, users, crashes

Tick ==
    /\ now < MaxTime
    /\ now' = now + 1
    /\ UNCHANGED <<disk, held, visited, budget, store, procs, pc, plan, signals>>

ProcExit(r) ==
    /\ proc[r]
    /\ proc' = [proc EXCEPT ![r] = FALSE]
    /\ UNCHANGED <<store, started, thread, stamp, pc, plan, signals, env>>

\* The command forks a descendant that keeps its output open and outlives it (one
\* that ignores SIGTERM, or a session of its own); such a descendant ends.
HoldOutput(o, r) ==
    /\ JobOf(r) \in Lingers
    /\ thread[o][r] = "running" /\ proc[r]
    /\ held' = held \cup {r}
    /\ UNCHANGED <<now, disk, visited, budget, store, procs, pc, plan, signals>>

ReleaseOutput(r) ==
    /\ r \in held
    /\ held' = held \ {r}
    /\ UNCHANGED <<now, disk, visited, budget, store, procs, pc, plan, signals>>

\* ipc::serve accepts a client, unless it has seen the stop flag, and reads from it
\* until the client sends a request or hangs up.
Connect(p) ==
    /\ IdleClients
    /\ Serving(p) /\ ~stop[p]
    /\ visited' = visited \cup {p}
    /\ UNCHANGED <<now, disk, held, budget, store, procs, pc, plan, signals>>

HangUp(p) ==
    /\ p \in visited
    /\ visited' = visited \ {p}
    /\ UNCHANGED <<now, disk, held, budget, store, procs, pc, plan, signals>>

\* The user, or a mutation command, replaces the config file.
EditConfig ==
    /\ budget.edits > 0
    /\ budget' = [budget EXCEPT !.edits = @ - 1]
    /\ \E v \in BOOLEAN, s \in SUBSET Job : disk' = [valid |-> v, enabled |-> s]
    /\ UNCHANGED <<now, held, visited, store, procs, pc, plan, signals>>

\* ipc_handler: daemon.reload, or a mutation, queues a reload.
RequestReload(p) ==
    /\ Serving(p)
    /\ budget.reloads > 0
    /\ budget' = [budget EXCEPT !.reloads = @ - 1]
    /\ ctl' = [ctl EXCEPT ![p] = Append(@, "reload")]
    /\ UNCHANGED <<now, disk, held, visited, store, procs, pc, plan, stop, cancel>>

\* SIGTERM or SIGINT with the handlers installed: the watcher sets the flag and
\* wakes the loop.
Signal(p) ==
    /\ Serving(p)
    /\ ~stop[p]
    /\ stop' = [stop EXCEPT ![p] = TRUE]
    /\ ctl' = [ctl EXCEPT ![p] = Append(@, "wake")]
    /\ UNCHANGED <<store, procs, pc, plan, cancel, env>>

\* `periodic daemon stop`: the recorded pid, if its status is live.
StopCommand == LiveStatus(dstate) /\ \E p \in Pid : dstate.pid = p /\ Signal(p)

\* SIGKILL (`daemon stop --force`), a panic, or a signal before the handlers:
\* the threads die, the commands are sessions of their own and live on.
Crash(p) ==
    /\ ~Gone(p)
    /\ budget.crashes > 0
    /\ budget' = [budget EXCEPT !.crashes = @ - 1]
    /\ pc' = [pc EXCEPT ![p] = "exited"]
    /\ thread' = [thread EXCEPT ![p] = [r \in RunId |-> "idle"]]
    /\ stamp' = [r \in RunId |-> IF thread[p][r] # "idle" THEN 0 ELSE stamp[r]]
    /\ visited' = visited \ {p}
    /\ Forget(p)
    /\ UNCHANGED <<now, disk, held, store, started, proc>>

\* `periodic jobs run`: a row of its own, with no occurrence_key, then
\* execute_run in the CLI process.
ManualRun(r) ==
    /\ r \in Manual
    /\ runs[r] = "none"
    /\ disk.valid
    /\ CreateRun(r, now)
    /\ thread' = [thread EXCEPT ![Cli][r] = "spawned"]
    /\ UNCHANGED <<lastSuccess, dstate, started, proc, stamp, pc, plan, signals, env>>

\* The CLI process is killed: its command lives on, its row stays as it is.
CrashCli ==
    /\ InFlight(Cli) # {}
    /\ thread' = [thread EXCEPT ![Cli] = [r \in RunId |-> "idle"]]
    /\ stamp' = [r \in RunId |-> IF thread[Cli][r] # "idle" THEN 0 ELSE stamp[r]]
    /\ cancel' = cancel \ {Cli}
    /\ UNCHANGED <<store, started, proc, pc, plan, ctl, stop, env>>

\* Ctrl-C at the CLI.
CancelManual ==
    /\ Cli \notin cancel
    /\ InFlight(Cli) # {}
    /\ cancel' = cancel \cup {Cli}
    /\ UNCHANGED <<store, procs, pc, plan, ctl, stop, env>>

-----------------------------------------------------------------------------
Dispatch(p) ==
    \E o \in Occ : SkipClaimed(p, o) \/ ClaimAndSpawn(p, o) \/ ClaimToClose(p, o)

\* What a running daemon's main thread does of itself.
MainStep(p) ==
    \/ LoadConfig(p) \/ StartupFails(p)
    \/ RecoverInterruptedRuns(p) \/ RecordDaemonStarted(p)
    \/ ScanMissed(p) \/ MissedDone(p)
    \/ Dispatch(p) \/ CloseUnexecuted(p)
    \/ LoopTop(p) \/ Sleep(p) \/ WakeByTimeout(p) \/ ReceiveControl(p)
    \/ BeginStopping(p) \/ GraceExpires(p) \/ Drained(p) \/ RecordStopped(p)

\* What others do that a join of the daemon waits for.
Visitors ==
    \/ \E o \in Owner, r \in RunId : HoldOutput(o, r)
    \/ \E r \in RunId : ReleaseOutput(r)
    \/ \E p \in Pid : Connect(p) \/ HangUp(p)

Environment ==
    \/ Tick \/ EditConfig \/ StopCommand \/ CancelManual \/ CrashCli \/ Visitors
    \/ \E r \in RunId : ProcExit(r) \/ ManualRun(r)
    \/ \E p \in Pid : Start(p) \/ RequestReload(p) \/ Signal(p) \/ Crash(p)

Next ==
    \/ \E p \in Pid : MainStep(p)
    \/ \E o \in Owner, r \in RunId : ThreadStep(o, r)
    \/ Environment

Spec == Init /\ [][Next]_vars

\* The operating system schedules every thread of a live process; the clock,
\* users, crashes, clients, the commands and their descendants owe nothing.
Fairness ==
    /\ \A p \in Pid : WF_vars(MainStep(p))
    /\ \A o \in Owner, r \in RunId : WF_vars(ThreadProgress(o, r))

FairSpec == Spec /\ Fairness

-----------------------------------------------------------------------------
TypeOK ==
    /\ now \in Time
    /\ disk \in [valid : BOOLEAN, enabled : SUBSET Job]
    /\ runs \in [RunId -> RowStatus]
    /\ created \in [RunId -> Time]
    /\ lastSuccess \in [Job -> Time \cup {-1}]
    /\ dstate \in [pid : Pid \cup {NoPid},
                   state : {"none", "running", "stopping", "stopped"}, heartbeat : Time]
    /\ started \in [RunId -> Nat]
    /\ proc \in [RunId -> BOOLEAN]
    /\ thread \in [Owner -> [RunId -> Phase]]
    /\ stamp \in [RunId -> Time]
    /\ pc \in [Pid -> PcValue]
    /\ at \in [Pid -> Time]
    /\ scan \in [Pid -> SUBSET Job]
    /\ table \in [Pid -> [Job -> Nat]]
    /\ \A p \in Pid, j \in Job : table[p][j] \in Sched[j] \cup {Never}
    /\ todo \in [Pid -> SUBSET Occ]
    /\ active \in [Pid -> SUBSET Job]
    /\ closing \in [Pid -> SUBSET Occ]
    /\ ctl \in [Pid -> Seq({"reload", "wake"})]
    /\ stop \in [Pid -> BOOLEAN]
    /\ cancel \in SUBSET Owner
    /\ held \in SUBSET RunId
    /\ visited \in SUBSET Pid
    /\ budget \in [edits : Nat, reloads : Nat, crashes : Nat]

\* A scheduled occurrence's command is executed at most once, and so is a manual
\* trigger's, whatever daemons start, overlap, crash or replay what was missed:
\* create_run's conflict clause is the only gate (daemon.rs, dispatch_due).
ExecutedAtMostOnce == \A r \in RunId : started[r] <= 1

\* A terminal row of the history is never written again (state.rs, finish_run
\* and mark_run_running update whatever row has the id).
HistoryIsFinal ==
    [][\A r \in RunId : runs[r] \in Terminal => runs'[r] = runs[r]]_vars

\* Once a daemon has recovered, an unfinished row is somebody's: a thread is on
\* its way with it or the main thread is about to close it (state.rs,
\* recover_interrupted_runs; daemon.rs, dispatch_due and spawn_run).
Attended(r) ==
    \/ \E o \in Owner : thread[o][r] # "idle"
    \/ \E p \in Pid : r \in closing[p]
NoUnattendedRow ==
    \A p \in Pid : pc[p] \notin {"idle", "checked", "loaded", "exited"} =>
        \A r \in RunId : runs[r] \in Live => Attended(r)

\* A job whose policy does not replay every miss has one run thread at most:
\* the overlap rule of dispatch_due, whose view of what is in flight is taken
\* before it claims (daemon.rs, scheduler_loop).
OneThreadPerJob ==
    \A p \in Pid, j \in Job : Policy[j] # "run_all" =>
        \A r, s \in InFlight(p) : JobOf(r) = j /\ JobOf(s) = j => r = s

\* Every firing the table has moved past is answered: since it fell due the job
\* succeeded, or got a row (run, skipped or collapsed into a neighbour's), or is
\* about to get one.  Nothing slips between a crash, the misses replayed at
\* start-up, the table built from the same instant, and pop_due (daemon.rs,
\* run_foreground; scheduler.rs, ScheduleTable).
Answered(p, j, t) ==
    \/ lastSuccess[j] >= t
    \/ \E u \in Sched[j] :
         \/ <<j, u>> \in todo[p]
         \/ runs[<<j, u>>] # "none" /\ created[<<j, u>>] >= t
EveryFiringAnswered ==
    \A p \in Pid : pc[p] \in {"loop", "due", "sleep"} =>
        \A j \in disk.enabled : \A t \in Sched[j] :
            t < table[p][j] => Answered(p, j, t)

\* A job's last success, the anchor of the next missed-run scan, never moves back:
\* finalize stamps its two statements alike but other steps come between them
\* (executor.rs, finalize; state.rs, update_job_outcome).
LastSuccessAdvances ==
    [][\A j \in Job : lastSuccess'[j] >= lastSuccess[j]]_vars

\* A daemon that has recorded "stopped" leaves no run thread behind
\* (daemon.rs, drain_runs before record_daemon_state).
StoppedMeansIdle ==
    dstate.state = "stopped" =>
        \A p \in Pid : InFlight(p) = {}

\* A join nothing bounds: a run thread's, while a descendant holds the output of
\* its ended command, and the main thread's, while a client stays connected.
ReadersHang(p) == \E r \in held : thread[p][r] \in Outcome
ClientHangs(p) == pc[p] = "leaving" /\ p \in visited
Hangs(p)       == ReadersHang(p) \/ ClientHangs(p)

\* A daemon that was told to stop exits, even if a command never ends by itself
\* (the wake-up, the grace period, cancellation and the joins; daemon.rs), unless
\* from some point on it hangs for ever in a join that waits for somebody else.
ShutdownCompletes == \A p \in Pid : stop[p] ~> (pc[p] = "exited" \/ []Hangs(p))

\* CHANGELOG, v0.6.0: a signal triggers a graceful shutdown that drains the runs
\* in flight, for ten seconds at most, before exiting; so it always exits.
ShutdownIsBounded == \A p \in Pid : stop[p] ~> pc[p] = "exited"

\* A claimed row does not wait for ever: it is executed or closed.
ClaimedIsServed == \A o \in Occ : runs[o] = "pending" ~> runs[o] # "pending"

\* The run history as the abstract ledger sees it.
Stage(s) == CASE s = "none"    -> "free"
              [] s = "pending" -> "claimed"
              [] s = "running" -> "executing"
              [] OTHER         -> "closed"

Ledger == INSTANCE RunLedger WITH Run <- RunId, ledger <- [r \in RunId |-> Stage(runs[r])]

\* The daemon implements the ledger.
ImplementsLedger == Ledger!Spec

=============================================================================
