------------------------------ MODULE TimeTable ------------------------------
(***************************************************************************)
(* ScheduleTable of scheduler.rs on top of the engine: built at start-up   *)
(* and reload, slept on until the earliest entry is due (or long past, when*)
(* the machine was suspended), and popped entry by entry.  Daemon.tla      *)
(* uses what is checked here as the contract of its NextOccurrence, Build, *)
(* MissedOccurrences and DueJobs.                                          *)
(***************************************************************************)
EXTENDS WallClock, Sequences

CONSTANTS
    Job,
    Configs,            \* what users may configure: a zone and a rule for each job
    Horizon,            \* instants the clock goes through are 0..Horizon
    MaxJump,            \* the longest sleep or suspension
    Lookback, MissedCap,
    MaxDue              \* pop_due gives up here; the code would not

ASSUME TableAssumption ==
    /\ Configs \subseteq [Job -> [zone : ZoneType, rule : RuleType]]
    /\ {Horizon, MaxJump, Lookback, MissedCap, MaxDue} \subseteq Nat

VARIABLES
    schedule,           \* the config: each job's zone and rule
    clock,              \* `now`
    heap,               \* the table: [job, at] entries
    since,              \* the instant each job's entry was computed from
    popping,            \* inside pop_due
    due,                \* DueRuns of the current or last pop_due
    before              \* `since` when that pop_due began

vars == <<schedule, clock, heap, since, popping, due, before>>

NextFor(j, t) == NextOccurrence(schedule[j].zone, schedule[j].rule, t)
Entry(j, t)   == [job |-> j, at |-> NextFor(j, t)]

\* ScheduleTable::build, every job enabled.
BuiltFrom(t) ==
    /\ heap' = {Entry(j, t) : j \in Job}
    /\ since' = [j \in Job |-> t]

InitAnyFold ==
    /\ schedule \in Configs
    /\ clock = 0
    /\ heap = {Entry(j, 0) : j \in Job}
    /\ since = [j \in Job |-> 0]
    /\ popping = FALSE
    /\ due = <<>>
    /\ before = since

\* The same without the folds that break the aligned kinds.
Init ==
    /\ InitAnyFold
    /\ \A j \in Job : FoldRepeatsNone(schedule[j].zone, schedule[j].rule)

\* The due runs are dispatched; time passes while the daemon, or the machine, sleeps.
Advance ==
    /\ ~popping
    /\ \E d \in 1..MaxJump : clock + d <= Horizon /\ clock' = clock + d
    /\ due' = <<>> /\ before' = since
    /\ UNCHANGED <<schedule, heap, since, popping>>

\* A reload builds a new table.
Reload ==
    /\ ~popping
    /\ BuiltFrom(clock)
    /\ due' = <<>>
    /\ before' = since'
    /\ UNCHANGED <<schedule, clock, popping>>

PopDue ==
    /\ ~popping
    /\ popping' = TRUE
    /\ due' = <<>>
    /\ before' = since
    /\ UNCHANGED <<schedule, clock, heap, since>>

\* The heap's least entry, by instant.
Earliest(e) == \A f \in heap : e.at <= f.at

\* Mutant: the entry is put back at the firing after its own, not after now.
PopIntoBacklog ==
    /\ popping
    /\ \E e \in heap :
         /\ Earliest(e) /\ e.at <= clock
         /\ due' = Append(due, e)
         /\ heap' = (heap \ {e}) \cup {Entry(e.job, e.at)}
         /\ since' = [since EXCEPT ![e.job] = e.at]
    /\ Len(due) < MaxDue
    /\ UNCHANGED <<schedule, clock, popping, before>>

\* One round of pop_due's loop: take the earliest entry if it is due, and put the
\* job back at its next occurrence after `now`.
PopEntry ==
    /\ popping
    /\ \E e \in heap :
         /\ Earliest(e) /\ e.at <= clock
         /\ due' = Append(due, e)
         /\ heap' = (heap \ {e}) \cup {Entry(e.job, clock)}
         /\ since' = [since EXCEPT ![e.job] = clock]
    /\ Len(due) < MaxDue
    /\ UNCHANGED <<schedule, clock, popping, before>>

PopEnds ==
    /\ popping
    /\ \A e \in heap : e.at > clock
    /\ popping' = FALSE
    /\ UNCHANGED <<schedule, clock, heap, since, due, before>>

Next == Advance \/ Reload \/ PopDue \/ PopEntry \/ PopEnds

Spec        == Init /\ [][Next]_vars
SpecAnyFold == InitAnyFold /\ [][Next]_vars

-----------------------------------------------------------------------------
\* missed_occurrences: step the engine from the anchor while its firings are not
\* in the future, MissedCap of them at most.
Missed(j, anchor) ==
    LET walk[n \in 0..MissedCap] ==
          IF n = 0 THEN anchor
          ELSE IF walk[n - 1] > clock THEN walk[n - 1]
          ELSE NextFor(j, walk[n - 1])
    IN {t \in {walk[n] : n \in 1..MissedCap} : t <= clock}

-----------------------------------------------------------------------------
\* Far enough before the clock to hold every lookback, and far enough beyond it to
\* hold every schedule's next firing.
Around == (-(Lookback + 2 * Day))..(Horizon + (Week + 4 * LongMonth + 4) * Day)
AllFirings == [s \in UNION {Range(c) : c \in Configs} |-> Firings(s.zone, s.rule, Around)]
FiringsOf(j) == AllFirings[schedule[j]]

\* The engine's contract: an entry is the first firing strictly after the instant
\* it was computed from, whatever gap or fold lies between them (scheduler.rs,
\* the doc comments of the next_* functions).
EngineMeetsContract ==
    \A j \in Job : \E e \in heap :
        /\ e.job = j
        /\ e.at = Min({t \in FiringsOf(j) : t > since[j]})

\* One pop_due dispatches a job once if a firing of it has elapsed since its entry
\* was computed, under the key of the first one, and otherwise not at all: the
\* backlog collapses, nothing is invented (scheduler.rs, pop_due).
PopTakesWhatElapsed ==
    ~popping /\ due # <<>> => \A j \in Job :
        LET elapsed == {t \in FiringsOf(j) : before[j] < t /\ t <= clock}
            taken == {i \in 1..Len(due) : due[i].job = j}
        IN IF elapsed = {} THEN taken = {}
           ELSE Cardinality(taken) = 1 /\ \A i \in taken : due[i].at = Min(elapsed)

\* At start-up, when the table has just been built from the same instant, the
\* missed-run walk finds the firings of its window and no others, the earliest
\* MissedCap of them (daemon.rs, missed_occurrences).
MissedAreTheFirings ==
    (\A j \in Job : since[j] = clock) => \A j \in Job :
        LET anchor == clock - Lookback
            window == {t \in FiringsOf(j) : anchor < t /\ t <= clock}
        IN Missed(j, anchor) = {t \in window : Cardinality({u \in window : u <= t}) <= MissedCap}

\* "`run_once` dispatches the most recent missed occurrence" (daemon.rs,
\* handle_missed_runs): the last firing of the window is among what the walk finds.
\* The cap counts from the oldest, so for a job every minute it is not.
MostRecentMissIsFound ==
    (\A j \in Job : since[j] = clock) => \A j \in Job :
        LET anchor == clock - Lookback
            window == {t \in FiringsOf(j) : anchor < t /\ t <= clock}
        IN window # {} => Max(window) \in Missed(j, anchor)

\* "Next minute-aligned firing strictly after `after`" (scheduler.rs): pop_due ends
\* only if it is.
FiresStrictlyAfter == \A e \in heap : e.at > since[e.job]
=============================================================================
