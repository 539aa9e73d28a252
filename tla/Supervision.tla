---------------------------- MODULE Supervision ----------------------------
(***************************************************************************)
(* The daemon under a service manager: systemd's Restart=on-failure with   *)
(* its start limit, or launchd's KeepAlive with its throttle; the liveness *)
(* row that decides whether a start is refused, its three keys written and *)
(* read one at a time; a configuration that may not load; and `periodic    *)
(* daemon stop`, which believes the row.                                   *)
(* One tick is HEARTBEAT_INTERVAL.  Starts, reads and signals take no tick.*)
(***************************************************************************)
EXTENDS Integers, FiniteSets

CONSTANTS
    Pid,                    \* process ids; they are used again
    Missing,                \* a key that has no row
    StaleAfter,             \* DAEMON_STALE_AFTER
    Interval,               \* HEARTBEAT_INTERVAL
    MaxWake,                \* the next firing may be this far ahead
    StartLimit,             \* starts systemd makes before it gives up
    MaxCrashes, MaxReuses, MaxEdits     \* bounds on the environment

VARIABLES
    manager, due, starts, failed,   \* the service manager
    pid, state, hb,                 \* the keys of daemon_state; hb is the heartbeat's age
    phase, got, sleep, term,        \* processes
    cmd, read, whole, downSeen,     \* one `daemon stop`
    broken,                         \* a start fails: the configuration does not load
    loadFailed,                     \* a start since the last tick has failed so
    budget

managerVars == <<manager, due, starts, failed>>
row         == <<pid, state, hb>>
procVars    == <<phase, got, sleep, term>>
cmdVars     == <<cmd, read>>
env         == <<broken, budget>>
vars == <<managerVars, row, procVars, cmdVars, whole, downSeen, loadFailed, env>>

ASSUME SupervisionAssumption ==
    /\ Missing \notin Pid \cup Int
    /\ {StaleAfter, Interval, MaxWake, StartLimit} \subseteq Nat \ {0}
    /\ Interval < StaleAfter
    /\ {MaxCrashes, MaxReuses, MaxEdits} \subseteq Nat

Age == 0 .. StaleAfter + 1          \* older is no different
Reading   == {"readPid", "readState", "readHeartbeat"}
Recording == {"recordPid", "recordState", "recordHeartbeat"}
Starting  == Reading \cup {"load"} \cup Recording
Daemon    == Starting \cup {"loop", "asleep", "draining"}

Up == \E p \in Pid : phase[p] \in {"loop", "asleep"}
Service == {p \in Pid : phase[p] \in Daemon}
Blank == [pid |-> Missing, state |-> Missing, hb |-> Missing]

Init ==
    /\ manager \in {"systemd", "launchd"}
    /\ due = TRUE /\ starts = 0 /\ failed = FALSE
    /\ pid = Missing /\ state = Missing /\ hb = Missing
    /\ phase = [p \in Pid |-> "free"] /\ got = [p \in Pid |-> Blank]
    /\ sleep = [p \in Pid |-> 0] /\ term = {}
    /\ cmd = "idle" /\ read = Blank /\ whole = FALSE /\ downSeen = FALSE
    /\ broken \in BOOLEAN /\ loadFailed = FALSE
    /\ budget = [crashes |-> MaxCrashes, reuses |-> MaxReuses, edits |-> MaxEdits]

\* What was read: no daemon was ever recorded, or the heartbeat does not parse,
\* or the daemon is taken to be alive: running, with a heartbeat not too old.
Unknown(r) == r.pid = Missing
Unparsable(r) == r.pid # Missing /\ r.hb = Missing

\* Mutant: a recorded daemon is alive however old its heartbeat.
NeverStale(r) == FALSE

Stale(r) == r.state = "running" /\ r.hb > StaleAfter

\* Mutant: whatever the state, a fresh heartbeat is a live daemon.
LiveByHeartbeat(r) == r.pid # Missing /\ r.hb # Missing /\ r.hb <= StaleAfter

Live(r) == r.pid # Missing /\ r.hb # Missing /\ r.state = "running" /\ ~Stale(r)

-----------------------------------------------------------------------------
(* The service manager.                                                      *)

\* A process ends.  systemd starts the service again after a failure, launchd
\* always.
Ended(p, failure) ==
    /\ phase' = [phase EXCEPT ![p] = "free"]
    /\ got' = [got EXCEPT ![p] = Blank]
    /\ sleep' = [sleep EXCEPT ![p] = 0]
    /\ term' = term \ {p}
    /\ due' = (manager = "launchd" \/ failure)
    /\ UNCHANGED <<manager, starts, failed>>

\* systemd restarts at once, and no more than StartLimit times in a tick;
\* launchd at most once in a tick.
MayStart == starts < (IF manager = "systemd" THEN StartLimit ELSE 1)

StartService(p) ==
    /\ due /\ ~failed /\ Service = {} /\ MayStart /\ phase[p] = "free"
    /\ due' = FALSE /\ starts' = starts + 1
    /\ phase' = [phase EXCEPT ![p] = "readPid"]
    /\ UNCHANGED <<manager, failed, row, got, sleep, term, cmdVars, env>>

GiveUp ==
    /\ manager = "systemd" /\ due /\ ~MayStart
    /\ failed' = TRUE /\ due' = FALSE
    /\ UNCHANGED <<manager, starts, row, procVars, cmdVars, env>>

-----------------------------------------------------------------------------
(* daemon start --foreground.                                                *)

\* read_daemon_status: three queries.  Without a pid the others are not made.
ReadPid(p) ==
    /\ phase[p] = "readPid"
    /\ got' = [got EXCEPT ![p].pid = pid]
    /\ phase' = [phase EXCEPT ![p] = IF pid = Missing THEN "load" ELSE "readState"]
    /\ UNCHANGED <<managerVars, row, sleep, term, cmdVars, env>>

ReadState(p) ==
    /\ phase[p] = "readState"
    /\ got' = [got EXCEPT ![p].state = state]
    /\ phase' = [phase EXCEPT ![p] = "readHeartbeat"]
    /\ UNCHANGED <<managerVars, row, sleep, term, cmdVars, env>>

\* The start goes on, is refused (exit 1), or fails for a heartbeat that does
\* not parse.
ReadHeartbeat(p) ==
    LET r == [got[p] EXCEPT !.hb = hb] IN
    /\ phase[p] = "readHeartbeat"
    /\ IF Unparsable(r) \/ Live(r)
         THEN Ended(p, TRUE)
         ELSE /\ phase' = [phase EXCEPT ![p] = "load"]
              /\ got' = [got EXCEPT ![p] = Blank]
              /\ UNCHANGED <<managerVars, sleep, term>>
    /\ UNCHANGED <<row, cmdVars, env>>

\* open, load_validated_config, reconcile, recover_interrupted_runs.  A database that
\* is out of order fails the start as a configuration does.
Load(p) ==
    /\ phase[p] = "load" /\ ~broken
    /\ phase' = [phase EXCEPT ![p] = "recordPid"]
    /\ UNCHANGED <<managerVars, row, got, sleep, term, cmdVars, env>>

LoadFails(p) ==
    /\ phase[p] = "load" /\ broken
    /\ Ended(p, TRUE)
    /\ UNCHANGED <<row, cmdVars, env>>

\* record_daemon_started: three upserts.  The last one precedes the loop.
RecordPid(p) ==
    /\ phase[p] = "recordPid"
    /\ pid' = p
    /\ phase' = [phase EXCEPT ![p] = "recordState"]
    /\ UNCHANGED <<managerVars, state, hb, got, sleep, term, cmdVars, env>>

RecordState(p) ==
    /\ phase[p] = "recordState"
    /\ state' = "running"
    /\ phase' = [phase EXCEPT ![p] = "recordHeartbeat"]
    /\ UNCHANGED <<managerVars, pid, hb, got, sleep, term, cmdVars, env>>

RecordHeartbeat(p) ==
    /\ phase[p] = "recordHeartbeat"
    /\ hb' = 0
    /\ phase' = [phase EXCEPT ![p] = "loop"]
    /\ UNCHANGED <<managerVars, pid, state, got, sleep, term, cmdVars, env>>

\* Mutant: the clamp is forgotten.
SleepThrough(wake) == wake

\* sleep_until: no longer than a heartbeat interval.
SleepUntil(wake) == IF wake < Interval THEN wake ELSE Interval

\* One round of the loop: heartbeat, and sleep until the next firing.
Beat(p) ==
    /\ phase[p] = "loop" /\ p \notin term
    /\ hb' = 0
    /\ \E wake \in 1 .. MaxWake : sleep' = [sleep EXCEPT ![p] = SleepUntil(wake)]
    /\ phase' = [phase EXCEPT ![p] = "asleep"]
    /\ UNCHANGED <<managerVars, pid, state, got, term, cmdVars, env>>

Wake(p) ==
    /\ phase[p] = "asleep" /\ (sleep[p] = 0 \/ p \in term)
    /\ phase' = [phase EXCEPT ![p] = "loop"]
    /\ sleep' = [sleep EXCEPT ![p] = 0]
    /\ UNCHANGED <<managerVars, row, got, term, cmdVars, env>>

LeaveLoop(p) ==
    /\ phase[p] = "loop" /\ p \in term
    /\ state' = "stopping"
    /\ phase' = [phase EXCEPT ![p] = "draining"]
    /\ UNCHANGED <<managerVars, pid, hb, got, sleep, term, cmdVars, env>>

\* Mutant: the last word clears the heartbeat.
ExitCleared(p) ==
    /\ phase[p] = "draining"
    /\ state' = "stopped" /\ hb' = Missing
    /\ Ended(p, FALSE)
    /\ UNCHANGED <<pid, cmdVars, env>>

Exit(p) ==
    /\ phase[p] = "draining"
    /\ state' = "stopped"
    /\ Ended(p, FALSE)
    /\ UNCHANGED <<pid, hb, cmdVars, env>>

\* A kill or a panic; or a statement of the start that fails, which ends it alike.
Crash(p) ==
    /\ phase[p] \in Daemon
    /\ budget.crashes > 0 /\ budget' = [budget EXCEPT !.crashes = @ - 1]
    /\ Ended(p, TRUE)
    /\ UNCHANGED <<row, cmdVars, broken>>

-----------------------------------------------------------------------------
(* daemon stop, and the rest of the system.                                  *)

StopReadsPid ==
    /\ cmd = "idle"
    /\ read' = [Blank EXCEPT !.pid = pid]
    /\ cmd' = IF pid = Missing THEN "notRunning" ELSE "readState"
    /\ UNCHANGED <<managerVars, row, procVars, env>>

StopReadsState ==
    /\ cmd = "readState"
    /\ read' = [read EXCEPT !.state = state]
    /\ cmd' = "readHeartbeat"
    /\ UNCHANGED <<managerVars, row, procVars, env>>

StopReadsHeartbeat ==
    /\ cmd = "readHeartbeat"
    /\ read' = [read EXCEPT !.hb = hb]
    /\ cmd' = CASE Unparsable(read') -> "error"
                [] Live(read') -> "kill"
                [] OTHER -> "notRunning"
    /\ UNCHANGED <<managerVars, row, procVars, env>>

\* kill(pid): the watcher of a daemon that is up sees it; a daemon that has not
\* installed its handlers dies; a pid nobody has is taken for "not running".
StopKills ==
    LET p == read.pid IN
    /\ cmd = "kill"
    /\ CASE phase[p] \in {"loop", "asleep", "draining"} ->
              /\ cmd' = "signalled" /\ term' = term \cup {p}
              /\ UNCHANGED <<managerVars, phase, got, sleep>>
         [] phase[p] \in Starting -> cmd' = "signalled" /\ Ended(p, FALSE)
         [] phase[p] = "free" -> cmd' = "notRunning" /\ UNCHANGED <<managerVars, procVars>>
         [] phase[p] = "other" -> cmd' = "stray" /\ UNCHANGED <<managerVars, procVars>>
    /\ UNCHANGED <<row, read, env>>

\* Some other program is given a free pid, and ends.
Reuse(p) ==
    /\ phase[p] = "free"
    /\ budget.reuses > 0 /\ budget' = [budget EXCEPT !.reuses = @ - 1]
    /\ phase' = [phase EXCEPT ![p] = "other"]
    /\ UNCHANGED <<managerVars, row, got, sleep, term, cmdVars, broken>>

\* Somebody spoils the configuration file (or the database), or mends it.
EditConfig ==
    /\ budget.edits > 0 /\ budget' = [budget EXCEPT !.edits = @ - 1]
    /\ broken' = ~broken
    /\ UNCHANGED <<managerVars, row, procVars, cmdVars>>

Vanish(p) ==
    /\ phase[p] = "other"
    /\ phase' = [phase EXCEPT ![p] = "free"]
    /\ UNCHANGED <<managerVars, row, got, sleep, term, cmdVars, env>>

\* Time passes when nobody has anything to do at once; stop may then be given again.
Quiet ==
    /\ \A p \in Pid : \/ phase[p] \in {"free", "other", "draining"}
                      \/ (phase[p] = "asleep" /\ sleep[p] > 0 /\ p \notin term)
    /\ cmd \notin {"readState", "readHeartbeat", "kill"}
    /\ due => failed \/ Service # {} \/ (manager = "launchd" /\ ~MayStart)

Tick ==
    /\ Quiet
    /\ hb' = IF hb = Missing \/ hb = StaleAfter + 1 THEN hb ELSE hb + 1
    /\ sleep' = [p \in Pid |-> IF sleep[p] > 0 THEN sleep[p] - 1 ELSE 0]
    /\ starts' = 0
    /\ cmd' = "idle" /\ read' = Blank
    /\ UNCHANGED <<manager, due, failed, pid, state, phase, got, term, env>>

-----------------------------------------------------------------------------
Process(p) ==
    \/ ReadPid(p) \/ ReadState(p) \/ ReadHeartbeat(p) \/ Load(p) \/ LoadFails(p)
    \/ RecordPid(p) \/ RecordState(p) \/ RecordHeartbeat(p)
    \/ Beat(p) \/ Wake(p) \/ LeaveLoop(p) \/ Exit(p)
Command == StopReadsPid \/ StopReadsState \/ StopReadsHeartbeat \/ StopKills

Step ==
    \/ GiveUp \/ Command \/ Tick \/ EditConfig
    \/ \E p \in Pid : StartService(p) \/ Process(p) \/ Crash(p) \/ Reuse(p) \/ Vanish(p)

\* Ghosts.  Of the command: the row was whole when it began to read; there was no
\* daemon up at some time while it was at work.  Of the manager: a start since the
\* last tick has failed while it loaded.
Witness ==
    /\ whole' = IF cmd = "idle" THEN (pid # Missing /\ state # Missing /\ hb # Missing) ELSE whole
    /\ downSeen' = IF cmd = "idle" THEN ~Up \/ ~Up' ELSE downSeen \/ ~Up'
    /\ loadFailed' = (starts' # 0 /\ (loadFailed \/ \E p \in Pid : LoadFails(p)))

Next == Step /\ Witness

Spec == Init /\ [][Next]_vars

\* The manager starts what is due, processes run, time passes, and a program that
\* has taken all the pids there are leaves one.
Fairness ==
    /\ WF_vars(\E p \in Pid : StartService(p) /\ Witness) /\ WF_vars(GiveUp /\ Witness)
    /\ \A p \in Pid : WF_vars(Process(p) /\ Witness) /\ WF_vars(Vanish(p) /\ Witness)
    /\ WF_vars(Command /\ cmd # "idle" /\ Witness)
    /\ WF_vars(Tick /\ Witness)
FairSpec == Spec /\ Fairness

-----------------------------------------------------------------------------
(* Properties.                                                               *)

\* The daemon has crashed between the first and the last key it ever recorded: no
\* start, stop or status will read the row.
Bricked == pid # Missing /\ hb = Missing /\ Service = {}

\* A service that is due, after a crash, a refusal or a start that failed, comes up,
\* unless systemd has given up on it, nobody can read the row, the configuration
\* stays broken, or a stop has met it on its way (start's staleness check and load
\* against Restart=on-failure and KeepAlive).
ComesBack == due ~> (Up \/ failed \/ Bricked \/ cmd = "signalled" \/ []broken)

\* With fewer crashes than starts allowed, systemd gives up only on a service whose
\* crashed daemon's heartbeat is fresh, or whose row cannot be read, or when one of
\* the starts it counts has failed while it loaded.  A stale heartbeat and starts that
\* load never lead there.
GivesUpOnFresh ==
    [][failed' /\ ~failed =>
         Bricked \/ (state = "running" /\ hb <= StaleAfter) \/ loadFailed]_vars

\* When stop (and with it status and doctor, which read the same way) says that no
\* daemon is running, there was none up at some time while it was reading.
NotRunningIsTrue == cmd = "notRunning" => downSeen

\* A reader fails only on a row that had never been whole: the keys are written one
\* by one only the first time.
ReadsFailBeforeFirst == cmd = "error" => ~whole
=============================================================================
