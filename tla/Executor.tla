------------------------------ MODULE Executor ------------------------------
(***************************************************************************)
(* One run in detail, from the pending row to its outcome: execute_run of  *)
(* executor.rs.  The run thread makes one attempt after another; each has  *)
(* a command in a session of its own, which may leave descendants behind,  *)
(* a waiter thread, and readers that copy its output to the daily log.     *)
(* What Daemon.tla takes for one stretch of work is opened up here.        *)
(***************************************************************************)
EXTENDS Integers, Sequences

CONSTANTS
    MaxRetries,     \* the largest execution.max_retries considered
    MaxLines,       \* lines an attempt prints to a stream, at most
    DbFaults        \* statements may fail (busy timeout, disk full)

ASSUME ExecutorAssumption ==
    /\ MaxRetries \in Nat /\ MaxLines \in Nat
    /\ DbFaults \in BOOLEAN

VARIABLES
    job,            \* the effective job: retries, and whether it has a timeout
    pc,             \* where the run thread is
    attempt,        \* attempt_number
    result,         \* how the attempt ended, as its row will say
    row,            \* runs.status
    attempts,       \* run_attempts.status, "none" where there is no row
    alive,          \* processes of each attempt
    printed,        \* the lines the attempt has written to each of its pipes
    logged,         \* how many of them the reader has handed to the daily log
    reader,         \* where the reader thread of each stream is
    overdue,        \* the attempt's deadline has passed
    cancel          \* the cancel flag

vars == <<job, pc, attempt, result, row, attempts, alive, printed, logged, reader,
          overdue, cancel>>
rows   == <<row, attempts>>
output == <<printed, logged, reader>>
sys    == <<alive, output, overdue>>

-----------------------------------------------------------------------------
Attempt == 1..(MaxRetries + 1)
Outcome == {"success", "failed", "timeout", "cancelled"}

\* The command itself; a descendant in its process group; one in the group that
\* closed the pipes; one in a session of its own.
Kind    == {"leader", "member", "quiet", "escaped"}
Process == Kind \X Attempt
Stream  == {"stdout", "stderr"}

\* A line that is not UTF-8 is garbled.  A reader has not started, reads on, came to
\* the end of its stream, or was cut off by a garbled line.
Line        == {"text", "garbled"}
ReaderPlace == {"idle", "reading", "eof", "cut"}

PcValue == {"mark", "attempt", "spawn", "pid", "wait", "check", "grace", "join",
            "record", "decide", "credit", "done", "errored"}

Leader(a)     == <<"leader", a>>
Group(a)      == {"leader", "member", "quiet"} \X {a}
HoldsPipes(a) == alive \cap ({"leader", "member", "escaped"} \X {a})
Ended         == pc \in {"done", "errored"}

Init ==
    /\ job \in [retries : 0..MaxRetries, timeout : BOOLEAN]
    /\ pc = "mark"
    /\ attempt = 1
    /\ result = "none"
    /\ row = "pending"
    /\ attempts = [a \in Attempt |-> "none"]
    /\ alive = {}
    /\ printed = [s \in Stream |-> <<>>]
    /\ logged = [s \in Stream |-> 0]
    /\ reader = [s \in Stream |-> "idle"]
    /\ overdue = FALSE
    /\ cancel = FALSE

Goto(there) == pc' = there

-----------------------------------------------------------------------------
\* The run thread

\* mark_run_running
MarkRunning ==
    /\ pc = "mark" /\ Goto("attempt")
    /\ row' = "running"
    /\ UNCHANGED <<job, attempt, result, attempts, sys, cancel>>

\* start_attempt
StartAttempt ==
    /\ pc = "attempt" /\ Goto("spawn")
    /\ attempts' = [attempts EXCEPT ![attempt] = "running"]
    /\ UNCHANGED <<job, attempt, result, row, sys, cancel>>

\* New pipes; the readers are in the given place.
NewPipes(place) ==
    /\ printed' = [s \in Stream |-> <<>>]
    /\ logged' = [s \in Stream |-> 0]
    /\ reader' = [s \in Stream |-> place]

Spawn ==
    /\ pc = "spawn" /\ Goto("pid")
    /\ alive' = alive \cup {Leader(attempt)}
    /\ NewPipes("idle")
    /\ UNCHANGED <<job, attempt, result, rows, overdue, cancel>>

\* A command that cannot be spawned is a failed attempt with exit code 127, without
\* output.
SpawnFails ==
    /\ pc = "spawn" /\ Goto("record")
    /\ result' = "failed"
    /\ NewPipes("eof")
    /\ UNCHANGED <<job, attempt, rows, alive, overdue, cancel>>

\* start_attempt_pid; then the readers and the waiter start, and the deadline is set.
RecordPid ==
    /\ pc = "pid" /\ Goto("wait")
    /\ overdue' = FALSE
    /\ reader' = [s \in Stream |-> "reading"]
    /\ UNCHANGED <<job, attempt, result, rows, alive, printed, logged, cancel>>

\* wait_loop: the waiter reported the exit status ...
SeeExit ==
    /\ pc = "wait" /\ Goto("join")
    /\ Leader(attempt) \notin alive
    /\ result' \in {"success", "failed"}
    /\ UNCHANGED <<job, attempt, rows, sys, cancel>>

\* ... or the tick elapsed: look at the cancel flag, then at the deadline.
PollTimesOut ==
    /\ pc = "wait" /\ Goto("check")
    /\ Leader(attempt) \in alive
    /\ UNCHANGED <<job, attempt, result, rows, sys, cancel>>

CheckPasses ==
    /\ pc = "check" /\ Goto("wait")
    /\ ~cancel /\ ~(job.timeout /\ overdue)
    /\ UNCHANGED <<job, attempt, result, rows, sys, cancel>>

\* Mutants: SIGTERM is taken for the end of the attempt; the deadline alone is
\* looked at.
TerminateAndRecord ==
    /\ pc = "check" /\ (cancel \/ (job.timeout /\ overdue))
    /\ Goto("record")
    /\ result' = IF cancel THEN "cancelled" ELSE "timeout"
    /\ UNCHANGED <<job, attempt, rows, sys, cancel>>

TerminateOverdue ==
    /\ pc = "check" /\ job.timeout /\ overdue
    /\ Goto("grace")
    /\ result' = "timeout"
    /\ UNCHANGED <<job, attempt, rows, sys, cancel>>

\* kill_group: SIGTERM obliges no process to end.
Terminate ==
    /\ pc = "check" /\ (cancel \/ (job.timeout /\ overdue))
    /\ Goto("grace")
    /\ result' = IF cancel THEN "cancelled" ELSE "timeout"
    /\ UNCHANGED <<job, attempt, rows, sys, cancel>>

\* drain_after_kill: the leader ended within KILL_GRACE.
GraceSuffices ==
    /\ pc = "grace" /\ Goto("join")
    /\ Leader(attempt) \notin alive
    /\ UNCHANGED <<job, attempt, result, rows, sys, cancel>>

\* Mutant: a leader that outlives the grace period is waited for.
WaitOn ==
    /\ pc = "grace" /\ Goto("join")
    /\ Leader(attempt) \notin alive
    /\ UNCHANGED <<job, attempt, result, rows, sys, cancel>>

\* It did not: SIGKILL to the group, and the leader is reaped.
ForceKill ==
    /\ pc = "grace" /\ Goto("join")
    /\ Leader(attempt) \in alive
    /\ alive' = alive \ Group(attempt)
    /\ UNCHANGED <<job, attempt, result, rows, output, overdue, cancel>>

\* Mutant: the readers are not joined.
JoinWaiter ==
    /\ pc = "join" /\ Goto("record")
    /\ Leader(attempt) \notin alive
    /\ UNCHANGED <<job, attempt, result, rows, sys, cancel>>

\* The waiter, which has reaped the leader, and both readers have ended.
JoinReaders ==
    /\ pc = "join" /\ Goto("record")
    /\ Leader(attempt) \notin alive
    /\ \A s \in Stream : reader[s] \in {"eof", "cut"}
    /\ UNCHANGED <<job, attempt, result, rows, sys, cancel>>

\* finish_attempt
RecordAttempt ==
    /\ pc = "record" /\ Goto("decide")
    /\ attempts' = [attempts EXCEPT ![attempt] = result]
    /\ UNCHANGED <<job, attempt, result, row, sys, cancel>>

\* Mutants: whatever is no success is retried; max_retries counts attempts; one
\* retry too many.
RetryAnything == result # "success" /\ attempt <= job.retries
RetryTooFew   == result = "failed" /\ attempt < job.retries

RetryTooMany  == result = "failed" /\ attempt <= job.retries + 1

\* Only normal non-zero exits are retried.
Retrying == result = "failed" /\ attempt <= job.retries

Retry ==
    /\ pc = "decide" /\ Goto("attempt")
    /\ Retrying
    /\ attempt' = attempt + 1
    /\ UNCHANGED <<job, result, rows, sys, cancel>>

\* finalize: finish_run, then update_job_outcome.
FinishRun ==
    /\ pc = "decide" /\ Goto("credit")
    /\ ~Retrying
    /\ row' = result
    /\ UNCHANGED <<job, attempt, result, attempts, sys, cancel>>

UpdateOutcome ==
    /\ pc = "credit" /\ Goto("done")
    /\ UNCHANGED <<job, attempt, result, rows, sys, cancel>>

\* Each statement, and each event emitted after one, ends the run when it fails;
\* a command already spawned is left to itself.
StatementFails ==
    /\ DbFaults
    /\ pc \in {"mark", "attempt", "spawn", "pid", "record", "decide", "credit"}
    /\ Goto("errored")
    /\ UNCHANGED <<job, attempt, result, rows, sys, cancel>>

ThreadStep ==
    \/ MarkRunning \/ StartAttempt \/ Spawn \/ SpawnFails \/ RecordPid
    \/ SeeExit \/ PollTimesOut \/ CheckPasses \/ Terminate
    \/ GraceSuffices \/ ForceKill \/ JoinReaders \/ RecordAttempt
    \/ Retry \/ FinishRun \/ UpdateOutcome

-----------------------------------------------------------------------------
\* The reader threads (spawn_reader)

\* A line of text goes to the log; one that is not UTF-8 ends the reader.
ReadLine(s) ==
    /\ reader[s] = "reading"
    /\ logged[s] < Len(printed[s])
    /\ \/ /\ printed[s][logged[s] + 1] = "text"
          /\ logged' = [logged EXCEPT ![s] = @ + 1]
          /\ UNCHANGED reader
       \/ /\ printed[s][logged[s] + 1] = "garbled"
          /\ reader' = [reader EXCEPT ![s] = "cut"]
          /\ UNCHANGED logged
    /\ UNCHANGED <<job, pc, attempt, result, rows, alive, printed, overdue, cancel>>

\* The end of the stream: nothing is left in the pipe and nobody can write to it.
ReadEnd(s) ==
    /\ reader[s] = "reading"
    /\ logged[s] = Len(printed[s])
    /\ HoldsPipes(attempt) = {}
    /\ reader' = [reader EXCEPT ![s] = "eof"]
    /\ UNCHANGED <<job, pc, attempt, result, rows, alive, printed, logged, overdue, cancel>>

ReaderStep(s) == ReadLine(s) \/ ReadEnd(s)

-----------------------------------------------------------------------------
\* Its environment: processes, the clock, and who asks to cancel

\* One descendant of each kind an attempt, at most.
Fork(a) ==
    /\ Leader(a) \in alive \/ <<"member", a>> \in alive
    /\ \E k \in Kind \ {"leader"} : alive' = alive \cup {<<k, a>>}
    /\ UNCHANGED <<job, pc, attempt, result, rows, output, overdue, cancel>>

Exit(x) ==
    /\ x \in alive
    /\ alive' = alive \ {x}
    /\ UNCHANGED <<job, pc, attempt, result, rows, output, overdue, cancel>>

\* Whoever holds the pipes prints a line.  The pipe of a reader that was cut off is
\* closed: a write gives SIGPIPE, of which the process may end (Exit).
PrintLine(s) ==
    /\ HoldsPipes(attempt) # {}
    /\ reader[s] # "cut"
    /\ Len(printed[s]) < MaxLines
    /\ \E l \in Line : printed' = [printed EXCEPT ![s] = Append(@, l)]
    /\ UNCHANGED <<job, pc, attempt, result, rows, alive, logged, reader, overdue, cancel>>

DeadlinePasses ==
    /\ pc \in {"wait", "check"}
    /\ ~overdue /\ overdue' = TRUE
    /\ UNCHANGED <<job, pc, attempt, result, rows, alive, output, cancel>>

\* Ctrl-C at the CLI, or the daemon's shutdown.
Cancel ==
    /\ ~cancel /\ cancel' = TRUE
    /\ UNCHANGED <<job, pc, attempt, result, rows, sys>>

Environment ==
    \/ \E a \in Attempt : Fork(a)
    \/ \E x \in Process : Exit(x)
    \/ \E s \in Stream : PrintLine(s)
    \/ DeadlinePasses \/ Cancel

Next ==
    \/ ThreadStep \/ StatementFails
    \/ \E s \in Stream : ReaderStep(s)
    \/ Environment

\* The threads are scheduled and time passes; commands owe nothing.
Fairness ==
    /\ WF_vars(ThreadStep) /\ WF_vars(DeadlinePasses)
    /\ \A s \in Stream : WF_vars(ReaderStep(s))

Spec     == Init /\ [][Next]_vars
FairSpec == Spec /\ Fairness

-----------------------------------------------------------------------------
TypeOK ==
    /\ job \in [retries : 0..MaxRetries, timeout : BOOLEAN]
    /\ pc \in PcValue
    /\ attempt \in 1..(job.retries + 1)
    /\ result \in {"none"} \cup Outcome
    /\ row \in {"pending", "running"} \cup Outcome
    /\ attempts \in [Attempt -> {"none", "running"} \cup Outcome]
    /\ alive \in SUBSET Process
    /\ printed \in [Stream -> Seq(Line)]
    /\ logged \in [Stream -> Nat]
    /\ reader \in [Stream -> ReaderPlace]
    /\ overdue \in BOOLEAN /\ cancel \in BOOLEAN

\* The history agrees with itself: a run's outcome is that of its last attempt,
\* and only failed attempts came before; a failed run has used up its retries
\* (executor.rs, the loop of execute_run).
OutcomeIsTheLastAttempts ==
    row \in Outcome =>
        /\ attempts[attempt] = row
        /\ \A a \in Attempt : a < attempt => attempts[a] = "failed"
        /\ \A a \in Attempt : a > attempt => attempts[a] = "none"
RetriesAreUsed == row = "failed" => attempt = job.retries + 1

\* Attempts do not overlap, and none outlives the recorded outcome: of earlier
\* attempts, and of the last one too once the row is terminal, the command is
\* gone, even if it ignores SIGTERM (executor.rs, wait_loop, drain_after_kill).
OneCommandAtATime ==
    \A a \in Attempt : Leader(a) \in alive => a = attempt /\ row \notin Outcome

\* When the end of an attempt is recorded, and from then on, every line that was
\* printed to a stream has been handed to the log, by whichever process and however
\* late: nothing is left in a pipe, and nobody can print any more.  A stream whose
\* reader met a line that is not UTF-8 is excepted: what comes after it is lost
\* (executor.rs, spawn_reader and the joins of run_attempt).
OutputIsWhole ==
    pc \in {"record", "decide", "credit", "done"} =>
        \A s \in Stream : reader[s] = "cut" \/ logged[s] = Len(printed[s])

\* A cancelled run ends, whatever its command does, unless a descendant keeps the
\* readers waiting (executor.rs, wait_loop).
CancelEndsTheRun == cancel ~> (Ended \/ HoldsPipes(attempt) \ {Leader(attempt)} # {})

\* The same of a run with a timeout, which each attempt has of its own.
TimeoutEndsTheRun == job.timeout ~> (Ended \/ HoldsPipes(attempt) \ {Leader(attempt)} # {})

\* CHANGELOG: Ctrl-C and timeouts terminate the whole tree, SIGTERM, then SIGKILL after
\* a grace period; so nobody in the group of an attempt that ended so lives for ever.
TreeIsTerminated ==
    \A a \in Attempt :
        attempts[a] \in {"timeout", "cancelled"} ~> alive \cap Group(a) = {}
=============================================================================
