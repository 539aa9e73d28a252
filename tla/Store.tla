------------------------------- MODULE Store -------------------------------
(***************************************************************************)
(* How processes open the state database and project the config into it:   *)
(* migrations that each opener applies statement by statement, and         *)
(* reconcile, which upserts a row for each job of the config the process   *)
(* has read.  A command does so once; a daemon opens the database before   *)
(* it reads the config, and reads and projects it again at each reload,    *)
(* while the run threads it has started before go on.  The config read is  *)
(* always valid here; a reload that fails is ControlPlane's.               *)
(***************************************************************************)
EXTENDS Integers, FiniteSets

CONSTANTS
    Proc,           \* processes: commands and daemons
    Kind, Target,   \* a "read" or a "run" command, or a "daemon", and its job
    Job,
    Latest,         \* MIGRATIONS.len()
    ScriptLen,      \* the number of statements of each migration
    FirstVersion,   \* the schema version to begin with
    FirstConfig,
    MaxEdits, MaxFaults     \* bounds on the environment

VARIABLES
    version,        \* PRAGMA user_version
    done,           \* the statements in force: <<migration, number>>
    config,         \* the file: what each job is
    rowState,       \* jobs_state.state, "none" without a row
    outcome,        \* whether a job's row has been given an outcome
    pc,             \* where each process is
    running,        \* it has a run of its job at work
    cfg, script, stmt, todo,    \* the config it read, and how far it has come
    budget

dbVars   == <<version, done, rowState, outcome>>
procVars == <<pc, running, cfg, script, stmt, todo>>
vars == <<dbVars, config, procVars, budget>>

Script == 1 .. Latest
Statements(s) == {<<s, k>> : k \in 1 .. ScriptLen[s]}
Config == [Job -> {"absent", "active", "disabled"}]
Listed(c) == {j \in Job : c[j] # "absent"}

ASSUME StoreAssumption ==
    /\ Kind \in [Proc -> {"read", "run", "daemon"}] /\ Target \in [Proc -> Job]
    /\ Latest \in Nat \ {0}
    /\ ScriptLen \in [Script -> Nat \ {0}]
    /\ FirstVersion \in 0 .. Latest
    /\ FirstConfig \in Config
    /\ MaxEdits \in Nat /\ MaxFaults \in Nat

Init ==
    /\ version = FirstVersion
    /\ done = UNION {Statements(s) : s \in 1 .. FirstVersion}
    /\ config = FirstConfig
    /\ rowState = [j \in Job |-> "none"] /\ outcome = [j \in Job |-> FALSE]
    /\ pc = [p \in Proc |-> "idle"] /\ running = [p \in Proc |-> FALSE]
    /\ cfg = [p \in Proc |-> FirstConfig]
    /\ script = [p \in Proc |-> 0] /\ stmt = [p \in Proc |-> 0]
    /\ todo = [p \in Proc |-> {}]
    /\ budget = [edits |-> MaxEdits, faults |-> MaxFaults]

Goto(p, label) == pc' = [pc EXCEPT ![p] = label]

\* Somebody edits the file.
Edit ==
    /\ budget.edits > 0 /\ budget' = [budget EXCEPT !.edits = @ - 1]
    /\ \E c \in Config :
         /\ Cardinality({j \in Job : c[j] # config[j]}) = 1
         /\ config' = c
    /\ UNCHANGED <<dbVars, procVars>>

\* project_state and run_jobs_run load the config and open the database ...
LoadConfig(p) ==
    /\ pc[p] = "idle" /\ Kind[p] # "daemon"
    /\ cfg' = [cfg EXCEPT ![p] = config]
    /\ todo' = [todo EXCEPT ![p] = Listed(config)]
    \* run_jobs_run: a job that is not in the config is refused at once
    /\ Goto(p, IF Kind[p] = "run" /\ config[Target[p]] = "absent" THEN "refused" ELSE "open")
    /\ UNCHANGED <<dbVars, config, running, script, stmt, budget>>

\* ... and daemon start does the one before the other.
StartDaemon(p) ==
    /\ pc[p] = "idle" /\ Kind[p] = "daemon"
    /\ Goto(p, "open")
    /\ UNCHANGED <<dbVars, config, running, cfg, script, stmt, todo, budget>>

\* load_validated_config, at start and at a reload.
LoadValidated(p) ==
    /\ pc[p] = "load"
    /\ cfg' = [cfg EXCEPT ![p] = config]
    /\ todo' = [todo EXCEPT ![p] = Listed(config)]
    /\ Goto(p, "reconcile")
    /\ UNCHANGED <<dbVars, config, running, script, stmt, budget>>

\* Somebody asks a daemon to reload.
Reload(p) ==
    /\ pc[p] = "act" /\ Kind[p] = "daemon"
    /\ Goto(p, "load")
    /\ UNCHANGED <<dbVars, config, running, cfg, script, stmt, todo, budget>>

-----------------------------------------------------------------------------
(* migrate.                                                                  *)

\* The next migration to apply after s, or on to the projection.
Proceed(p, s) ==
    IF s < Latest
    THEN /\ Goto(p, "migrate")
         /\ script' = [script EXCEPT ![p] = s + 1]
         /\ stmt' = [stmt EXCEPT ![p] = 1]
    ELSE /\ Goto(p, IF Kind[p] = "daemon" THEN "load" ELSE "reconcile")
         /\ script' = [script EXCEPT ![p] = 0]
         /\ stmt' = [stmt EXCEPT ![p] = 0]

\* `current` is read once.
ReadVersion(p) ==
    /\ pc[p] = "open"
    /\ Proceed(p, version)
    /\ UNCHANGED <<dbVars, config, running, cfg, todo, budget>>

\* execute_batch: each statement commits for itself, and fails when it is in force
\* already (a table that exists, a column that is gone).
ExecuteStatement(p) ==
    LET s == script[p] IN
    /\ pc[p] = "migrate" /\ stmt[p] <= ScriptLen[s]
    /\ IF <<s, stmt[p]>> \in done
         THEN Goto(p, "failed") /\ UNCHANGED <<done, stmt>>
         ELSE /\ done' = done \cup {<<s, stmt[p]>>}
              /\ stmt' = [stmt EXCEPT ![p] = @ + 1]
              /\ UNCHANGED pc
    /\ UNCHANGED <<version, rowState, outcome, config, running, cfg, script, todo,
                   budget>>

\* Mutant: the version is set with the script's last statement still to come.
SetVersionEarly(p) ==
    /\ pc[p] = "migrate" /\ stmt[p] >= ScriptLen[script[p]]
    /\ version' = script[p]
    /\ Proceed(p, script[p])
    /\ UNCHANGED <<done, rowState, outcome, config, running, cfg, todo, budget>>

\* Mutant: the index is taken for the version.
SetVersionToIndex(p) ==
    /\ pc[p] = "migrate" /\ stmt[p] > ScriptLen[script[p]]
    /\ version' = script[p] - 1
    /\ Proceed(p, script[p])
    /\ UNCHANGED <<done, rowState, outcome, config, running, cfg, todo, budget>>

SetVersion(p) ==
    /\ pc[p] = "migrate" /\ stmt[p] > ScriptLen[script[p]]
    /\ version' = script[p]
    /\ Proceed(p, script[p])
    /\ UNCHANGED <<done, rowState, outcome, config, running, cfg, todo, budget>>

\* A process dies, or a statement fails for another reason before it has got to act.
Fault(p) ==
    /\ pc[p] \in {"migrate", "load", "reconcile", "act"}
    /\ budget.faults > 0 /\ budget' = [budget EXCEPT !.faults = @ - 1]
    /\ Goto(p, "dead")
    /\ running' = [running EXCEPT ![p] = FALSE]
    /\ UNCHANGED <<dbVars, config, cfg, script, stmt, todo>>

-----------------------------------------------------------------------------
(* reconcile, and what follows it.                                           *)

\* One upsert.  The outcome columns of a row that is there are kept; rows of jobs
\* that are not in the config are left alone.
Upsert(p) == \E j \in todo[p] :
    /\ pc[p] = "reconcile"
    /\ rowState' = [rowState EXCEPT ![j] = cfg[p][j]]
    /\ todo' = [todo EXCEPT ![p] = @ \ {j}]
    /\ UNCHANGED <<version, done, outcome, config, pc, running, cfg, script, stmt,
                   budget>>

\* Mutant: rows of jobs that are not in the config are deleted.
ReconciledPruned(p) ==
    /\ pc[p] = "reconcile" /\ todo[p] = {}
    /\ rowState' = [j \in Job |-> IF j \in Listed(cfg[p]) THEN rowState[j] ELSE "none"]
    /\ Goto(p, "act")
    /\ UNCHANGED <<version, done, outcome, config, running, cfg, script, stmt, todo,
                   budget>>

\* Mutant: paused jobs are not projected.
ReconciledActiveOnly(p) ==
    /\ pc[p] = "reconcile" /\ {j \in todo[p] : cfg[p][j] = "active"} = {}
    /\ Goto(p, "act")
    /\ UNCHANGED <<dbVars, config, running, cfg, script, stmt, todo, budget>>

Reconciled(p) ==
    /\ pc[p] = "reconcile" /\ todo[p] = {}
    /\ Goto(p, "act")
    /\ UNCHANGED <<dbVars, config, running, cfg, script, stmt, todo, budget>>

\* jobs status, history, logs: get_job_state or job_exists of one job.
Read(p) ==
    /\ pc[p] = "act" /\ Kind[p] = "read"
    /\ Goto(p, IF rowState[Target[p]] = "none" THEN "noSuchJob" ELSE "known")
    /\ UNCHANGED <<dbVars, config, running, cfg, script, stmt, todo, budget>>

\* A run is begun: by hand of the job LoadConfig has found, whatever its state, by a
\* daemon of a job that is active in the config it has.
BeginRun(p) ==
    /\ pc[p] = "act" /\ ~running[p]
    /\ \/ Kind[p] = "run"
       \/ Kind[p] = "daemon" /\ cfg[p][Target[p]] = "active"
    /\ running' = [running EXCEPT ![p] = TRUE]
    /\ UNCHANGED <<dbVars, config, pc, cfg, script, stmt, todo, budget>>

\* update_job_outcome, when the run has ended, wherever a daemon's main thread is by
\* then: nobody looks whether there was a row to update.
UpdateOutcome(p) ==
    /\ running[p] /\ running' = [running EXCEPT ![p] = FALSE]
    /\ outcome' = [outcome EXCEPT ![Target[p]] = @ \/ rowState[Target[p]] # "none"]
    /\ Goto(p, IF Kind[p] = "run" THEN "done" ELSE pc[p])
    /\ UNCHANGED <<version, done, rowState, config, cfg, script, stmt, todo, budget>>

-----------------------------------------------------------------------------
Step(p) ==
    \/ LoadConfig(p) \/ ReadVersion(p) \/ ExecuteStatement(p) \/ SetVersion(p)
    \/ Upsert(p) \/ Reconciled(p) \/ Read(p) \/ BeginRun(p) \/ UpdateOutcome(p)
    \/ StartDaemon(p) \/ LoadValidated(p)

Next == Edit \/ \E p \in Proc : Step(p) \/ Reload(p) \/ Fault(p)

Spec == Init /\ [][Next]_vars
FairSpec == Spec /\ \A p \in Proc : WF_vars(Step(p))

-----------------------------------------------------------------------------
(* Properties.                                                               *)

TypeOK ==
    /\ version \in 0 .. Latest
    /\ done \subseteq UNION {Statements(s) : s \in Script}
    /\ config \in Config
    /\ rowState \in [Job -> {"none", "active", "disabled"}]
    /\ outcome \in [Job -> BOOLEAN] /\ running \in [Proc -> BOOLEAN]
    /\ cfg \in [Proc -> Config]
    /\ pc \in [Proc -> {"idle", "open", "migrate", "load", "reconcile", "act", "known",
                        "noSuchJob", "done", "refused", "failed", "dead"}]
    /\ script \in [Proc -> 0 .. Latest] /\ stmt \in [Proc -> Nat]
    /\ todo \in [Proc -> SUBSET Job]

\* The schema is never behind the version it claims, whoever migrates beside whom
\* and dies where (doctor's "healthy" looks at the version only).
VersionMatchesSchema ==
    \A s \in Script : s <= version => Statements(s) \subseteq done

\* Openers that get into each other's way may fail, but not all of them: the schema
\* becomes the latest, unless a process dies on its way.
MigrationCompletes ==
    (\E p \in Proc : pc[p] = "open") ~> (version = Latest \/ budget.faults < MaxFaults)

\* An outcome finds its row, whatever others have projected since the run began and
\* however often the daemon has reloaded (update_job_outcome updates by job id).
OutcomeFindsItsRow == \A p \in Proc : running[p] => rowState[Target[p]] # "none"

\* "no such job" is said only of a job that the command's config does not have.
NoSuchJobIsTrue == \A p \in Proc :
    pc[p] = "noSuchJob" => cfg[p][Target[p]] = "absent"
=============================================================================
