---------------------------- MODULE DaemonProofs ----------------------------
(***************************************************************************)
(* Machine-checked proofs about Daemon.tla, for any jobs, schedules,       *)
(* policies, number of daemon processes, manual triggers and bounds: first *)
(* what holds whatever else runs and fails, then what holds when a service *)
(* manager runs one daemon at a time.                                      *)
(***************************************************************************)
EXTENDS Daemon, FiniteSetTheorems, WellFoundedInduction, TLAPS

-----------------------------------------------------------------------------
\* The schedule helpers

\* A non-empty set of naturals has a least element, and Min picks it.
LEMMA MinIsLeast ==
    ASSUME NEW S, S \subseteq Nat, S # {}
    PROVE  Min(S) \in S /\ \A u \in S : Min(S) <= u
<1>. DEFINE R == {r \in Nat \X Nat : r[1] < r[2]}
<1>1. IsWellFoundedOn(R, Nat)
  <2>1. R = OpToRel(<, Nat)
    BY DEF OpToRel
  <2>. QED BY <2>1, NatLessThanWellFounded
<1>2. PICK t \in S : \A u \in S : <<u, t>> \notin R
  <2>. HIDE DEF R
  <2>. QED BY <1>1, WFMin
<1>3. \A u \in S : t <= u
  <2>. TAKE u \in S
  <2>1. <<u, t>> \notin R
    BY <1>2
  <2>2. u \in Nat /\ t \in Nat
    OBVIOUS
  <2>. QED BY <2>1, <2>2
<1>. QED BY <1>3 DEF Min

\* Likewise for the greatest element of a bounded set of naturals.
LEMMA MaxIsGreatest ==
    ASSUME NEW N \in Nat, NEW S, S \subseteq 0..N, S # {}
    PROVE  Max(S) \in S /\ \A u \in S : Max(S) >= u
<1>. DEFINE D == {N - u : u \in S}
<1>1. D \subseteq Nat /\ D # {}
  <2>1. \A u \in S : N - u \in Nat
    BY SMT
  <2>. QED BY <2>1
<1>2. PICK d \in D : \A e \in D : d <= e
  <2>. HIDE DEF D
  <2>. QED BY <1>1, MinIsLeast
<1>3. PICK t \in S : d = N - t
  OBVIOUS
<1>4. \A u \in S : t >= u
  <2>. TAKE u \in S
  <2>1. N - t <= N - u
    BY <1>2, <1>3
  <2>2. u \in Int /\ t \in Int
    OBVIOUS
  <2>. QED BY <2>1, <2>2
<1>. QED BY <1>4 DEF Max

\* The engine yields a firing of the job's schedule strictly after t, or none.
LEMMA NextOccurrenceType ==
    ASSUME NEW j \in Job, NEW t \in Nat
    PROVE  /\ NextOccurrence(j, t) \in Sched[j] \cup {Never}
           /\ NextOccurrence(j, t) \in Nat
           /\ NextOccurrence(j, t) > t \/ NextOccurrence(j, t) = Never
<1>. DEFINE later == {u \in Sched[j] : u > t}
<1>1. Sched[j] \subseteq Nat /\ Never \in Nat
  BY ConfigAssumption DEF Never
<1>2. CASE later = {}
  BY <1>1, <1>2 DEF NextOccurrence
<1>3. CASE later # {}
  <2>1. Min(later) \in later
    BY <1>1, <1>3, MinIsLeast
  <2>. QED BY <1>1, <1>3, <2>1 DEF NextOccurrence
<1>. QED BY <1>2, <1>3

\* A table built for any jobs at any instant holds firings of their schedules.
LEMMA BuildType ==
    ASSUME NEW jobs \in SUBSET Job, NEW t \in Nat
    PROVE  /\ Build(jobs, t) \in [Job -> Nat]
           /\ \A j \in Job : Build(jobs, t)[j] \in Sched[j] \cup {Never}
<1>1. Never \in Nat
  BY ConfigAssumption DEF Never
<1>2. \A j \in Job : NextOccurrence(j, t) \in Nat /\ NextOccurrence(j, t) \in Sched[j] \cup {Never}
  BY NextOccurrenceType
<1>. QED BY <1>1, <1>2 DEF Build

\* The misses picked for a job are occurrences of its schedule.
LEMMA MissedType ==
    ASSUME NEW p \in Pid, NEW j \in Job, NEW last
    PROVE  /\ MissedOccurrences(p, j, last) \subseteq Sched[j]
           /\ MissedOccurrences(p, j, last) # {} =>
                Max(MissedOccurrences(p, j, last)) \in Sched[j]
<1>. DEFINE M == MissedOccurrences(p, j, last)
<1>1. M \subseteq Sched[j]
  BY DEF MissedOccurrences
<1>2. M \subseteq 0..MaxTime /\ MaxTime \in Nat
  BY <1>1, ConfigAssumption
<1>3. M # {} => Max(M) \in M
  <2>. HIDE DEF M
  <2>. QED BY <1>2, MaxIsGreatest
<1>. QED BY <1>1, <1>3

\* Scheduled occurrences and manual triggers are the runs, and their jobs are jobs.
LEMMA RunIdFacts ==
    /\ Occ \subseteq RunId
    /\ Manual \subseteq RunId
    /\ \A r \in RunId : JobOf(r) \in Job
    /\ \A j \in Job : \A t \in Sched[j] : <<j, t>> \in Occ
    /\ Time \subseteq Nat
BY ConfigAssumption DEF RunId, Occ, Manual, JobOf, Time

-----------------------------------------------------------------------------
\* Type correctness: every variable keeps its type, and the schedule table
\* holds only firings of each job's schedule.

\* The initial values have their types.
LEMMA TypeInit == Init => TypeOK
<1>. SUFFICES ASSUME Init PROVE TypeOK
  OBVIOUS
<1>. USE DEF Init
<1>1. 0 \in Time /\ Never \in Nat
  BY ConfigAssumption DEF Time, Never
<1>2. /\ now \in Time
      /\ disk \in [valid : BOOLEAN, enabled : SUBSET Job]
      /\ dstate \in [pid : Pid \cup {NoPid},
                     state : {"none", "running", "stopping", "stopped"}, heartbeat : Time]
      /\ budget \in [edits : Nat, reloads : Nat, crashes : Nat]
  BY <1>1, ConfigAssumption
<1>3. /\ runs \in [RunId -> RowStatus]
      /\ created \in [RunId -> Time]
      /\ lastSuccess \in [Job -> Time \cup {-1}]
      /\ started \in [RunId -> Nat]
      /\ proc \in [RunId -> BOOLEAN]
      /\ thread \in [Owner -> [RunId -> Phase]]
      /\ stamp \in [RunId -> Time]
  BY <1>1 DEF RowStatus, Phase
<1>4. /\ pc \in [Pid -> PcValue]
      /\ at \in [Pid -> Time]
      /\ scan \in [Pid -> SUBSET Job]
      /\ table \in [Pid -> [Job -> Nat]]
      /\ \A p \in Pid, j \in Job : table[p][j] \in Sched[j] \cup {Never}
  BY <1>1 DEF PcValue
<1>5. /\ todo \in [Pid -> SUBSET Occ]
      /\ active \in [Pid -> SUBSET Job]
      /\ closing \in [Pid -> SUBSET Occ]
      /\ ctl \in [Pid -> Seq({"reload", "wake"})]
      /\ stop \in [Pid -> BOOLEAN]
      /\ cancel \in SUBSET Owner
      /\ held \in SUBSET RunId
      /\ visited \in SUBSET Pid
  OBVIOUS
<1>. QED
  BY <1>2, <1>3, <1>4, <1>5 DEF TypeOK

\* Forgetting a process leaves its locals well typed.
LEMMA ForgetType ==
    ASSUME TypeOK, NEW p \in Pid, Forget(p)
    PROVE  /\ at' \in [Pid -> Time]
           /\ scan' \in [Pid -> SUBSET Job]
           /\ table' \in [Pid -> [Job -> Nat]]
           /\ \A q \in Pid, j \in Job : table'[q][j] \in Sched[j] \cup {Never}
           /\ todo' \in [Pid -> SUBSET Occ]
           /\ active' \in [Pid -> SUBSET Job]
           /\ closing' \in [Pid -> SUBSET Occ]
           /\ ctl' \in [Pid -> Seq({"reload", "wake"})]
           /\ stop' \in [Pid -> BOOLEAN]
           /\ cancel' \in SUBSET Owner
<1>1. 0 \in Time /\ Never \in Nat
  BY ConfigAssumption DEF Time, Never
<1>. QED
  BY <1>1 DEF TypeOK, Forget

\* Every step of a daemon's main thread keeps the types.
LEMMA TypeMain ==
    ASSUME TypeOK, NEW p \in Pid, MainStep(p)
    PROVE  TypeOK'
<1>. USE RunIdFacts DEF TypeOK, store, procs, plan, signals, env
<1>1. CASE LoadConfig(p)
  <2>1. now \in Nat /\ disk.enabled \in SUBSET Job
    OBVIOUS
  <2>2. Build(disk.enabled, now) \in [Job -> Nat]
    BY <2>1, BuildType
  <2>3. \A j \in Job : Build(disk.enabled, now)[j] \in Sched[j] \cup {Never}
    BY <2>1, BuildType
  <2>. QED BY <1>1, <2>1, <2>2, <2>3 DEF LoadConfig, PcValue
<1>2. CASE StartupFails(p)
  BY <1>2, ForgetType DEF StartupFails, PcValue
<1>3. CASE RecoverInterruptedRuns(p)
  BY <1>3 DEF RecoverInterruptedRuns, Interruptible, PcValue, RowStatus, Terminal
<1>4. CASE RecordDaemonStarted(p)
  BY <1>4 DEF RecordDaemonStarted, PcValue
<1>5. CASE ScanMissed(p)
  <2>1. PICK j \in scan[p], last \in {-1} \cup {lastSuccess[k] : k \in scan[p]} :
          todo' = [todo EXCEPT ![p] = {j} \X
                     (IF MissedOccurrences(p, j, last) = {} \/ Policy[j] = "run_all"
                      THEN MissedOccurrences(p, j, last)
                      ELSE {Max(MissedOccurrences(p, j, last))})]
    BY <1>5 DEF ScanMissed
  <2>2. j \in Job
    OBVIOUS
  <2>3. todo'[p] \subseteq Occ
    <3>. DEFINE M == MissedOccurrences(p, j, last)
    <3>1. M \subseteq Sched[j] /\ (M # {} => Max(M) \in Sched[j])
      BY <2>2, MissedType
    <3>2. todo'[p] = {j} \X (IF M = {} \/ Policy[j] = "run_all" THEN M ELSE {Max(M)})
      BY <2>1
    <3>. HIDE DEF M
    <3>3. \A t \in Sched[j] : <<j, t>> \in Occ
      BY <2>2
    <3>. QED BY <3>1, <3>2, <3>3
  <2>4. todo' \in [Pid -> SUBSET Occ]
    BY <2>1, <2>3
  <2>5. scan' \in [Pid -> SUBSET Job]
    BY <1>5 DEF ScanMissed
  <2>. QED BY <1>5, <2>4, <2>5 DEF ScanMissed
<1>6. CASE MissedDone(p)
  BY <1>6 DEF MissedDone, PcValue
<1>7. CASE Dispatch(p)
  <2>1. PICK o \in Occ : SkipClaimed(p, o) \/ ClaimAndSpawn(p, o) \/ ClaimToClose(p, o)
    BY <1>7 DEF Dispatch
  <2>2. CASE SkipClaimed(p, o)
    BY <2>2 DEF SkipClaimed, Claiming
  <2>3. CASE ClaimAndSpawn(p, o)
    BY <2>3 DEF ClaimAndSpawn, Claiming, CreateRun, RowStatus, Live, Phase, Owner
  <2>4. CASE ClaimToClose(p, o)
    BY <2>4 DEF ClaimToClose, Claiming, CreateRun, RowStatus, Live
  <2>. QED BY <2>1, <2>2, <2>3, <2>4
<1>8. CASE CloseUnexecuted(p)
  BY <1>8 DEF CloseUnexecuted, RowStatus, Terminal
<1>9. CASE LoopTop(p)
  <2>1. todo' \in [Pid -> SUBSET Occ]
    <3>1. \A j \in DueJobs(p) : <<j, table[p][j]>> \in Occ
      <4>. TAKE j \in DueJobs(p)
      <4>1. table[p][j] \in Sched[j]
        BY ConfigAssumption DEF DueJobs, Time, Never
      <4>. QED BY <4>1 DEF DueJobs
    <3>. QED BY <1>9, <3>1 DEF LoopTop
  <2>2. active' \in [Pid -> SUBSET Job]
    BY <1>9 DEF LoopTop, InFlight
  <2>3. /\ table' \in [Pid -> [Job -> Nat]]
        /\ \A q \in Pid, j \in Job : table'[q][j] \in Sched[j] \cup {Never}
    <3>1. \A j \in Job : /\ NextOccurrence(j, now) \in Nat
                          /\ NextOccurrence(j, now) \in Sched[j] \cup {Never}
      BY NextOccurrenceType
    <3>. QED BY <1>9, <3>1 DEF LoopTop
  <2>. QED BY <1>9, <2>1, <2>2, <2>3 DEF LoopTop, PcValue
<1>10. CASE Sleep(p)
  BY <1>10 DEF Sleep, PcValue
<1>11. CASE WakeByTimeout(p)
  BY <1>11 DEF WakeByTimeout, PcValue
<1>12. CASE ReceiveControl(p)
  <2>1. /\ table' \in [Pid -> [Job -> Nat]]
        /\ \A q \in Pid, j \in Job : table'[q][j] \in Sched[j] \cup {Never}
    <3>1. now \in Nat /\ disk.enabled \in SUBSET Job
      OBVIOUS
    <3>2. /\ Build(disk.enabled, now) \in [Job -> Nat]
          /\ \A j \in Job : Build(disk.enabled, now)[j] \in Sched[j] \cup {Never}
      BY <3>1, BuildType
    <3>. DEFINE B == Build(disk.enabled, now)
    <3>3. table' = [table EXCEPT ![p] = B] \/ table' = table
      BY <1>12 DEF ReceiveControl
    <3>. HIDE DEF B
    <3>4. CASE table' = table
      BY <3>4
    <3>5. CASE table' = [table EXCEPT ![p] = B]
      BY <3>2, <3>5 DEF B
    <3>. QED BY <3>3, <3>4, <3>5
  <2>2. ctl' \in [Pid -> Seq({"reload", "wake"})]
    BY <1>12 DEF ReceiveControl
  <2>. QED BY <1>12, <2>1, <2>2 DEF ReceiveControl, PcValue
<1>13. CASE BeginStopping(p)
  BY <1>13 DEF BeginStopping, PcValue
<1>14. CASE GraceExpires(p)
  BY <1>14 DEF GraceExpires, PcValue, Owner
<1>15. CASE Drained(p)
  BY <1>15 DEF Drained, PcValue
<1>16. CASE RecordStopped(p)
  BY <1>16, ForgetType DEF RecordStopped, PcValue
<1>. QED
  BY <1>1, <1>2, <1>3, <1>4, <1>5, <1>6, <1>7, <1>8, <1>9, <1>10, <1>11, <1>12,
     <1>13, <1>14, <1>15, <1>16 DEF MainStep

\* Spending from the environment's bounds keeps them natural numbers.
LEMMA BudgetSpent ==
    ASSUME NEW b \in [edits : Nat, reloads : Nat, crashes : Nat]
    PROVE  /\ b.edits > 0 =>
                [b EXCEPT !.edits = @ - 1] \in [edits : Nat, reloads : Nat, crashes : Nat]
           /\ b.reloads > 0 =>
                [b EXCEPT !.reloads = @ - 1] \in [edits : Nat, reloads : Nat, crashes : Nat]
           /\ b.crashes > 0 =>
                [b EXCEPT !.crashes = @ - 1] \in [edits : Nat, reloads : Nat, crashes : Nat]
<1>1. /\ b.edits > 0 => b.edits - 1 \in Nat
      /\ b.reloads > 0 => b.reloads - 1 \in Nat
      /\ b.crashes > 0 => b.crashes - 1 \in Nat
  OBVIOUS
<1>. QED BY <1>1

\* Every step of a run thread, or of the CLI's own run, keeps the types.
LEMMA TypeThread ==
    ASSUME TypeOK, NEW o \in Owner, NEW r \in RunId, ThreadStep(o, r)
    PROVE  TypeOK'
<1>. USE RunIdFacts DEF TypeOK, store, procs, plan, signals, env
<1>0. 0 \in Time
  BY ConfigAssumption DEF Time
<1>1. CASE ThreadStart(o, r)
  <2>1. runs' \in [RunId -> RowStatus]
    BY <1>1 DEF ThreadStart, RowStatus, Live
  <2>2. started' = [started EXCEPT ![r] = started[r] + 1] \/ started' = started
    BY <1>1 DEF ThreadStart
  <2>3. started[r] + 1 \in Nat
    OBVIOUS
  <2>4. started' \in [RunId -> Nat]
    BY <2>2, <2>3
  <2>5. proc' = [proc EXCEPT ![r] = TRUE] \/ proc' = proc
    BY <1>1 DEF ThreadStart
  <2>6. proc' \in [RunId -> BOOLEAN]
    BY <2>5
  <2>7. \E s \in {"running", "failed"} : thread' = [thread EXCEPT ![o][r] = s]
    BY <1>1 DEF ThreadStart
  <2>8. thread' \in [Owner -> [RunId -> Phase]]
    BY <2>7 DEF Phase, Outcome
  <2>. QED BY <1>1, <2>1, <2>4, <2>6, <2>8 DEF ThreadStart
<1>2. CASE ThreadExit(o, r)
  BY <1>2 DEF ThreadExit, Phase, Outcome
<1>3. CASE ThreadCancel(o, r)
  BY <1>3 DEF ThreadCancel, ThreadKill, Phase, Outcome
<1>4. CASE ThreadTimeout(o, r)
  BY <1>4 DEF ThreadTimeout, ThreadKill, Phase, Outcome
<1>5. CASE FinishRun(o, r)
  BY <1>5 DEF FinishRun, RowStatus, Terminal, Phase
<1>6. CASE CreditSuccess(o, r)
  BY <1>0, <1>6 DEF CreditSuccess, Phase
<1>7. CASE ThreadError(o, r)
  BY <1>0, <1>7 DEF ThreadError, Phase
<1>. QED
  BY <1>1, <1>2, <1>3, <1>4, <1>5, <1>6, <1>7 DEF ThreadStep, ThreadProgress

\* A descendant or a client that keeps the daemon waiting changes nothing else.
LEMMA VisitorsFrame ==
    Visitors => /\ UNCHANGED <<now, disk, runs, created, lastSuccess, dstate, started, proc,
                               thread, stamp, pc, budget>>
                /\ UNCHANGED <<at, scan, table, todo, active, closing, ctl, stop, cancel>>
BY DEF Visitors, HoldOutput, ReleaseOutput, Connect, HangUp, store, procs, plan, signals

\* The clock, users, commands and crashes keep the types.
LEMMA TypeEnvironment == TypeOK /\ Environment => TypeOK'
<1>. SUFFICES ASSUME TypeOK, Environment PROVE TypeOK'
  OBVIOUS
<1>. USE RunIdFacts DEF TypeOK, store, procs, plan, signals, env
<1>0. 0 \in Time
  BY ConfigAssumption DEF Time
<1>. DEFINE Budget == [edits : Nat, reloads : Nat, crashes : Nat]
<1>1. CASE Tick
  <2>1. now' \in Time
    BY <1>1, ConfigAssumption DEF Tick, Time
  <2>. QED BY <1>1, <2>1 DEF Tick
<1>2. CASE EditConfig
  <2>1. budget' \in Budget
    BY BudgetSpent, <1>2 DEF EditConfig
  <2>2. disk' \in [valid : BOOLEAN, enabled : SUBSET Job]
    BY <1>2 DEF EditConfig
  <2>. QED BY <1>2, <2>1, <2>2 DEF EditConfig
<1>3. ASSUME NEW p \in Pid, Signal(p) PROVE TypeOK'
  BY <1>3 DEF Signal
<1>4. CASE StopCommand
  BY <1>3, <1>4 DEF StopCommand
<1>5. CASE CancelManual
  BY <1>5 DEF CancelManual, Owner
<1>6. CASE CrashCli
  <2>1. /\ thread' \in [Owner -> [RunId -> Phase]]
        /\ stamp' \in [RunId -> Time]
        /\ cancel' \in SUBSET Owner
    BY <1>0, <1>6 DEF CrashCli, Phase
  <2>. QED BY <1>6, <2>1 DEF CrashCli
<1>7. ASSUME NEW r \in RunId, ProcExit(r) PROVE TypeOK'
  BY <1>7 DEF ProcExit
<1>8. ASSUME NEW r \in RunId, ManualRun(r) PROVE TypeOK'
  BY <1>8 DEF ManualRun, CreateRun, RowStatus, Live, Phase, Owner
<1>9. ASSUME NEW p \in Pid, Start(p) PROVE TypeOK'
  BY <1>9 DEF Start, PcValue
<1>10. ASSUME NEW p \in Pid, RequestReload(p) PROVE TypeOK'
  <2>1. budget' \in Budget
    BY BudgetSpent, <1>10 DEF RequestReload
  <2>2. ctl' \in [Pid -> Seq({"reload", "wake"})]
    BY <1>10 DEF RequestReload
  <2>. QED BY <1>10, <2>1, <2>2 DEF RequestReload
<1>11. ASSUME NEW p \in Pid, Crash(p) PROVE TypeOK'
  <2>1. budget' \in Budget
    BY BudgetSpent, <1>11 DEF Crash
  <2>2. /\ thread' \in [Owner -> [RunId -> Phase]]
        /\ stamp' \in [RunId -> Time]
        /\ pc' \in [Pid -> PcValue]
    BY <1>0, <1>11 DEF Crash, Phase, PcValue
  <2>. QED BY <1>11, <2>1, <2>2, ForgetType DEF Crash
<1>12. CASE Visitors
  <2>1. held' \in SUBSET RunId /\ visited' \in SUBSET Pid
    BY <1>12 DEF Visitors, HoldOutput, ReleaseOutput, Connect, HangUp
  <2>. QED BY <1>12, <2>1, VisitorsFrame
<1>. QED
  BY <1>1, <1>2, <1>3, <1>4, <1>5, <1>6, <1>7, <1>8, <1>9, <1>10, <1>11, <1>12
     DEF Environment

\* Every variable has its type in every reachable state.
THEOREM TypeCorrect == Spec => []TypeOK
<1>1. TypeOK /\ [Next]_vars => TypeOK'
  <2>. SUFFICES ASSUME TypeOK, [Next]_vars PROVE TypeOK'
    OBVIOUS
  <2>1. CASE UNCHANGED vars
    BY <2>1 DEF TypeOK, vars
  <2>. QED BY <2>1, TypeMain, TypeThread, TypeEnvironment DEF Next
<1>. QED BY <1>1, TypeInit, PTL DEF Spec
-----------------------------------------------------------------------------
\* At most one execution, in every configuration.  The gate is the conflict
\* clause of create_run's insert, so the strengthening follows a claim from the
\* row to the command: only a row that exists is executed or has a thread, a
\* thread that has not started yet belongs to a run nobody executed, and no
\* second owner has one for the same run.

ClaimGate ==
    /\ \A r \in RunId : started[r] \in {0, 1}
    /\ \A r \in RunId : started[r] # 0 => runs[r] # "none"
    /\ \A o \in Owner, r \in RunId :
         thread[o][r] = "spawned" => started[r] = 0 /\ runs[r] # "none"
    /\ \A o, q \in Owner, r \in RunId :
         thread[o][r] = "spawned" /\ thread[q][r] = "spawned" => o = q

\* No action takes a row away, so a free row stays the mark of an unclaimed run.
LEMMA GateFrame ==
    ASSUME TypeOK, ClaimGate, UNCHANGED <<runs, started, thread>>
    PROVE  ClaimGate'
BY DEF ClaimGate

\* Steps that spawn no thread and execute nothing keep the gate.
LEMMA GateNoSpawn ==
    ASSUME TypeOK, ClaimGate,
           started' = started,
           \A r \in RunId : runs[r] # "none" => runs'[r] # "none",
           \A o \in Owner, r \in RunId : thread'[o][r] = "spawned" => thread[o][r] = "spawned"
    PROVE  ClaimGate'
BY DEF ClaimGate

\* Spawning a thread for a claimed run that was free keeps the gate.
LEMMA GateSpawn ==
    ASSUME TypeOK, ClaimGate, NEW o \in Owner, NEW r \in RunId, NEW t,
           runs[r] = "none",
           CreateRun(r, t),
           thread' = [thread EXCEPT ![o][r] = "spawned"],
           started' = started
    PROVE  ClaimGate'
<1>1. \A s \in RunId : runs'[s] = IF s = r THEN "pending" ELSE runs[s]
  BY DEF CreateRun, TypeOK
<1>2. \A q \in Owner, s \in RunId :
        thread'[q][s] = IF q = o /\ s = r THEN "spawned" ELSE thread[q][s]
  BY DEF TypeOK
<1>3. \A q \in Owner : thread[q][r] # "spawned"
  BY DEF ClaimGate
<1>4. started[r] = 0
  BY DEF ClaimGate
<1>. QED BY <1>1, <1>2, <1>3, <1>4 DEF ClaimGate

\* The main thread claims through the conflict clause and executes nothing.
LEMMA GateMain ==
    ASSUME TypeOK, ClaimGate, NEW p \in Pid, MainStep(p)
    PROVE  ClaimGate'
<1>. USE DEF store, procs, plan, signals, env
<1>1. CASE Dispatch(p)
  <2>1. PICK o \in Occ : SkipClaimed(p, o) \/ ClaimAndSpawn(p, o) \/ ClaimToClose(p, o)
    BY <1>1 DEF Dispatch
  <2>2. o \in RunId /\ p \in Owner
    BY RunIdFacts DEF Owner
  <2>3. CASE SkipClaimed(p, o)
    BY <2>3, GateFrame DEF SkipClaimed
  <2>4. CASE ClaimAndSpawn(p, o)
    BY <2>2, <2>4, GateSpawn DEF ClaimAndSpawn, AlreadyClaimed
  <2>5. CASE ClaimToClose(p, o)
    <3>1. \A s \in RunId : runs[s] # "none" => runs'[s] # "none"
      BY <2>2, <2>5 DEF ClaimToClose, CreateRun, TypeOK
    <3>. QED BY <2>5, <3>1, GateNoSpawn DEF ClaimToClose
  <2>. QED BY <2>1, <2>3, <2>4, <2>5
<1>2. CASE CloseUnexecuted(p)
  <2>1. \A s \in RunId : runs[s] # "none" => runs'[s] # "none"
    BY <1>2 DEF CloseUnexecuted, TypeOK
  <2>. QED BY <1>2, <2>1, GateNoSpawn DEF CloseUnexecuted
<1>3. CASE RecoverInterruptedRuns(p)
  <2>1. \A s \in RunId : runs[s] # "none" => runs'[s] # "none"
    BY <1>3 DEF RecoverInterruptedRuns, Interruptible
  <2>. QED BY <1>3, <2>1, GateNoSpawn DEF RecoverInterruptedRuns
<1>4. CASE UNCHANGED <<runs, started, thread>>
  BY <1>4, GateFrame
<1>5. \/ Dispatch(p) \/ CloseUnexecuted(p) \/ RecoverInterruptedRuns(p)
      \/ UNCHANGED <<runs, started, thread>>
  BY DEF MainStep, LoadConfig, StartupFails, RecordDaemonStarted, ScanMissed, MissedDone,
         LoopTop, Sleep, WakeByTimeout, ReceiveControl, BeginStopping, GraceExpires,
         Drained, RecordStopped
<1>. QED BY <1>1, <1>2, <1>3, <1>4, <1>5

\* A thread executes only the run it was spawned for, and only once.
LEMMA GateThread ==
    ASSUME TypeOK, ClaimGate, NEW o \in Owner, NEW r \in RunId, ThreadStep(o, r)
    PROVE  ClaimGate'
<1>. USE DEF store, procs, plan, signals, env
<1>1. CASE ThreadStart(o, r)
  <2>1. started[r] = 0 /\ \A q \in Owner : thread[q][r] = "spawned" => q = o
    BY <1>1 DEF ThreadStart, ClaimGate
  <2>2. \A s \in RunId : runs'[s] = IF s = r THEN "running" ELSE runs[s]
    BY <1>1 DEF ThreadStart, TypeOK
  <2>3. /\ \A s \in RunId : s # r => started'[s] = started[s]
        /\ started'[r] \in {0, 1}
    <3>1. \/ started' = started
          \/ started' = [started EXCEPT ![r] = started[r] + 1]
      BY <1>1 DEF ThreadStart
    <3>2. started[r] + 1 = 1
      BY <2>1
    <3>. QED BY <2>1, <3>1, <3>2 DEF TypeOK
  <2>4. /\ \A q \in Owner, s \in RunId :
             thread'[q][s] = "spawned" => thread[q][s] = "spawned" /\ s # r
    <3>1. PICK x \in {"running", "failed"} : thread' = [thread EXCEPT ![o][r] = x]
      BY <1>1 DEF ThreadStart
    <3>2. \A q \in Owner, s \in RunId :
            thread'[q][s] = IF q = o /\ s = r THEN x ELSE thread[q][s]
      BY <3>1 DEF TypeOK
    <3>. QED BY <2>1, <3>1, <3>2
  <2>. QED BY <2>1, <2>2, <2>3, <2>4 DEF ClaimGate
<1>2. CASE ThreadExit(o, r) \/ ThreadCancel(o, r) \/ ThreadTimeout(o, r)
  <2>1. /\ \E x \in Outcome : thread' = [thread EXCEPT ![o][r] = x]
        /\ UNCHANGED <<runs, started>>
    BY <1>2 DEF ThreadExit, ThreadCancel, ThreadTimeout, ThreadKill, Outcome
  <2>2. \A q \in Owner, s \in RunId : thread'[q][s] = "spawned" => thread[q][s] = "spawned"
    BY <2>1 DEF Outcome, TypeOK
  <2>. QED BY <2>1, <2>2, GateNoSpawn
<1>3. CASE FinishRun(o, r)
  <2>1. \A s \in RunId : runs[s] # "none" => runs'[s] # "none"
    BY <1>3 DEF FinishRun, TypeOK, Outcome
  <2>. QED BY <1>3, <2>1, GateNoSpawn DEF FinishRun, TypeOK
<1>4. CASE CreditSuccess(o, r)
  BY <1>4, GateNoSpawn DEF CreditSuccess, TypeOK
<1>5. CASE ThreadError(o, r)
  BY <1>5, GateNoSpawn DEF ThreadError, TypeOK
<1>. QED BY <1>1, <1>2, <1>3, <1>4, <1>5 DEF ThreadStep, ThreadProgress

\* The environment claims only manual rows of their own, and kills threads.
LEMMA GateEnvironment ==
    ASSUME TypeOK, ClaimGate, Environment
    PROVE  ClaimGate'
<1>. USE DEF store, procs, plan, signals, env
<1>1. ASSUME NEW r \in RunId, ManualRun(r) PROVE ClaimGate'
  BY <1>1, GateSpawn DEF ManualRun, Owner
<1>2. ASSUME NEW p \in Pid, Crash(p) PROVE ClaimGate'
  <2>1. \A o \in Owner, r \in RunId : thread'[o][r] = "spawned" => thread[o][r] = "spawned"
    BY <1>2 DEF Crash, TypeOK
  <2>. QED BY <1>2, <2>1, GateNoSpawn DEF Crash
<1>3. CASE CrashCli
  <2>1. \A o \in Owner, r \in RunId : thread'[o][r] = "spawned" => thread[o][r] = "spawned"
    BY <1>3 DEF CrashCli, TypeOK
  <2>. QED BY <1>3, <2>1, GateNoSpawn DEF CrashCli
<1>4. CASE UNCHANGED <<runs, started, thread>>
  BY <1>4, GateFrame
<1>. QED
  BY <1>1, <1>2, <1>3, <1>4, VisitorsFrame
     DEF Environment, Tick, EditConfig, StopCommand, CancelManual, ProcExit, Start,
         RequestReload, Signal

\* A run is executed at most once, whatever daemons start, overlap, crash or
\* replay, and whatever statements fail.
THEOREM AtMostOnce == Spec => []ExecutedAtMostOnce
<1>1. Init => ClaimGate
  BY DEF Init, ClaimGate
<1>2. TypeOK /\ ClaimGate /\ [Next]_vars => ClaimGate'
  <2>. SUFFICES ASSUME TypeOK, ClaimGate, [Next]_vars PROVE ClaimGate'
    OBVIOUS
  <2>1. CASE UNCHANGED vars
    BY <2>1, GateFrame DEF vars
  <2>. QED BY <2>1, GateMain, GateThread, GateEnvironment DEF Next
<1>3. ClaimGate => ExecutedAtMostOnce
  BY DEF ClaimGate, ExecutedAtMostOnce
<1>. QED BY <1>1, <1>2, <1>3, TypeCorrect, PTL DEF Spec

-----------------------------------------------------------------------------
\* One run thread for a job that does not replay every miss.  What is in flight
\* when the loop last looked is still good when it claims, because between the
\* two the daemon takes at most one occurrence of each job; and while it replays
\* misses it does not come back to a job.

\* Where the main thread can have run threads.
Working == {"missed", "loop", "due", "sleep", "drain", "join"}

Single(r, s) == JobOf(r) = JobOf(s) /\ Policy[JobOf(r)] # "run_all"

\* The occurrences a daemon still has to claim, and the threads it has.
Overlap(p) ==
    /\ InFlight(p) # {} => pc[p] \in Working
    /\ pc[p] \notin {"missed", "due"} => todo[p] = {}
    /\ \A o, u \in todo[p] : Single(o, u) => o = u
    /\ pc[p] = "missed" =>
         /\ \A o \in todo[p] \cup InFlight(p) : JobOf(o) \notin scan[p]
         /\ \A r \in InFlight(p), o \in todo[p] : ~Single(r, o)
    /\ pc[p] = "due" =>
         \A r \in InFlight(p), o \in todo[p] : Single(r, o) => JobOf(r) \in active[p]
    /\ \A r, s \in InFlight(p) : Single(r, s) => r = s

\* A daemon that plans nothing new has no more threads than before.
LEMMA OverlapFrame ==
    ASSUME NEW p \in Pid, Overlap(p), pc'[p] = pc[p], scan'[p] = scan[p],
           active'[p] = active[p], todo'[p] \subseteq todo[p],
           \A r \in RunId : thread'[p][r] # "idle" => thread[p][r] # "idle"
    PROVE  Overlap(p)'
<1>1. InFlight(p)' \subseteq InFlight(p)
  BY DEF InFlight
<1>. QED BY <1>1 DEF Overlap, Single

\* A daemon with nothing planned and nothing in flight, or with nothing planned
\* where it goes, overlaps nothing.
LEMMA OverlapIdle ==
    ASSUME NEW p \in Pid, Overlap(p), todo'[p] = {},
           \A r \in RunId : thread'[p][r] # "idle" => thread[p][r] # "idle",
           \/ InFlight(p)' = {}
           \/ pc'[p] \in Working \ {"missed"}
    PROVE  Overlap(p)'
<1>1. InFlight(p)' \subseteq InFlight(p)
  BY DEF InFlight
<1>. QED BY <1>1 DEF Overlap, Single

\* Threads that have ended, or whose daemon has.
LEMMA OverlapThreads ==
    ASSUME TypeOK, NEW p \in Pid, Overlap(p),
           \/ \E o \in Owner, r \in RunId : ThreadStep(o, r)
           \/ Environment
    PROVE  Overlap(p)'
<1>. USE DEF store, procs, plan, signals, env
<1>0. p \in Owner /\ p # Cli
  BY NameAssumption DEF Owner
<1>1. ASSUME NEW o \in Owner, NEW r \in RunId, ThreadStep(o, r) PROVE Overlap(p)'
  <2>1. /\ thread[o][r] # "idle"
        /\ \E x : thread' = [thread EXCEPT ![o][r] = x]
        /\ UNCHANGED <<pc, scan, active, todo>>
    <3>1. CASE ThreadStart(o, r)
      BY <3>1 DEF ThreadStart
    <3>2. CASE ThreadExit(o, r) \/ ThreadCancel(o, r) \/ ThreadTimeout(o, r)
      BY <3>2 DEF ThreadExit, ThreadCancel, ThreadTimeout, ThreadKill
    <3>3. CASE FinishRun(o, r)
      BY <3>3 DEF FinishRun, Outcome
    <3>4. CASE CreditSuccess(o, r) \/ ThreadError(o, r)
      BY <3>4 DEF CreditSuccess, ThreadError
    <3>. QED BY <1>1, <3>1, <3>2, <3>3, <3>4 DEF ThreadStep, ThreadProgress
  <2>2. \A s \in RunId : thread'[p][s] # "idle" => thread[p][s] # "idle"
    BY <1>0, <2>1 DEF TypeOK
  <2>. QED BY <2>1, <2>2, OverlapFrame
<1>2. ASSUME NEW q \in Pid, Crash(q) PROVE Overlap(p)'
  <2>1. CASE q = p
    <3>1. todo'[p] = {} /\ \A r \in RunId : thread'[p][r] = "idle"
      BY <1>0, <1>2, <2>1 DEF Crash, Forget, TypeOK
    <3>2. InFlight(p)' = {}
      BY <3>1 DEF InFlight
    <3>. QED BY <3>1, <3>2, OverlapIdle
  <2>2. CASE q # p
    BY <1>2, <2>2, OverlapFrame DEF Crash, Forget, TypeOK, Owner
  <2>. QED BY <2>1, <2>2
<1>3. ASSUME NEW q \in Pid, Start(q) PROVE Overlap(p)'
  <2>1. CASE q = p
    <3>1. /\ pc[p] = "idle" /\ UNCHANGED <<todo, thread>>
          /\ InFlight(p) = {} /\ todo[p] = {}
      BY <1>3, <2>1 DEF Start, Overlap, Working
    <3>2. InFlight(p)' = {}
      BY <3>1 DEF InFlight
    <3>. QED BY <3>1, <3>2, OverlapIdle
  <2>2. CASE q # p
    BY <1>3, <2>2, OverlapFrame DEF Start, TypeOK
  <2>. QED BY <2>1, <2>2
<1>4. CASE UNCHANGED <<pc, scan, active, todo>> /\ thread'[p] = thread[p]
  BY <1>4, OverlapFrame
<1>5. ASSUME NEW r \in RunId, ManualRun(r) PROVE thread'[p] = thread[p]
  BY <1>0, <1>5 DEF ManualRun, TypeOK
<1>6. CrashCli => thread'[p] = thread[p]
  BY <1>0 DEF CrashCli, TypeOK
<1>. QED
  BY <1>1, <1>2, <1>3, <1>4, <1>5, <1>6, VisitorsFrame
     DEF Environment, Tick, EditConfig, StopCommand, CancelManual, CrashCli, ProcExit,
         ManualRun, RequestReload, Signal

\* The main thread's own steps.
LEMMA OverlapMain ==
    ASSUME TypeOK, NEW p \in Pid, Overlap(p), MainStep(p)
    PROVE  Overlap(p)'
<1>. USE DEF store, procs, plan, signals, env
<1>1. CASE /\ UNCHANGED thread /\ todo'[p] = {}
           /\ pc[p] \notin Working \/ pc'[p] \in Working \ {"missed"}
  <2>1. pc[p] \notin Working => InFlight(p)' = {}
    BY <1>1 DEF Overlap, InFlight
  <2>. QED BY <1>1, <2>1, OverlapIdle
<1>2. CASE \/ LoadConfig(p) \/ StartupFails(p) \/ RecoverInterruptedRuns(p)
           \/ RecordDaemonStarted(p)
  <2>1. pc[p] \notin Working /\ UNCHANGED thread /\ (todo'[p] = todo[p] \/ todo'[p] = {})
    BY <1>2
       DEF LoadConfig, StartupFails, RecoverInterruptedRuns, RecordDaemonStarted, Forget,
           Working, TypeOK
  <2>2. todo[p] = {}
    BY <2>1 DEF Overlap, Working
  <2>. QED BY <1>1, <2>1, <2>2
<1>3. CASE ScanMissed(p)
  <2>0. PICK j \in scan[p], last \in {-1} \cup {lastSuccess[k] : k \in scan[p]} :
          /\ scan' = [scan EXCEPT ![p] = scan[p] \ {j}]
          /\ todo' = [todo EXCEPT ![p] = {j} \X
                        (IF MissedOccurrences(p, j, last) = {} \/ Policy[j] = "run_all"
                         THEN MissedOccurrences(p, j, last)
                         ELSE {Max(MissedOccurrences(p, j, last))})]
    BY <1>3 DEF ScanMissed
  <2>. DEFINE chosen == IF MissedOccurrences(p, j, last) = {} \/ Policy[j] = "run_all"
                        THEN MissedOccurrences(p, j, last)
                        ELSE {Max(MissedOccurrences(p, j, last))}
  <2>a. Policy[j] # "run_all" => \A t, u \in chosen : t = u
    OBVIOUS
  <2>. HIDE DEF chosen
  <2>1. /\ scan' = [scan EXCEPT ![p] = scan[p] \ {j}]
        /\ todo' = [todo EXCEPT ![p] = {j} \X chosen]
    BY <2>0 DEF chosen
  <2>2. /\ UNCHANGED <<pc, thread>> /\ pc[p] = "missed"
        /\ scan'[p] = scan[p] \ {j} /\ todo'[p] = {j} \X chosen
    BY <1>3, <2>1 DEF ScanMissed, TypeOK
  <2>3. InFlight(p)' = InFlight(p)
    BY <2>2 DEF InFlight
  <2>4. \A o \in todo'[p] : JobOf(o) = j /\ o = <<j, o[2]>> /\ o[2] \in chosen
    BY <2>2 DEF JobOf
  <2>5. \A o, u \in todo'[p] : Single(o, u) => o = u
    BY <2>a, <2>4 DEF Single
  <2>6. \A r \in InFlight(p)', o \in todo'[p] : ~Single(r, o)
    BY <2>2, <2>3, <2>4 DEF Overlap, Single
  <2>7. \A o \in todo'[p] \cup InFlight(p)' : JobOf(o) \notin scan'[p]
    BY <2>2, <2>3, <2>4 DEF Overlap
  <2>8. pc'[p] = "missed" /\ \A r, s \in InFlight(p)' : Single(r, s) => r = s
    BY <2>2, <2>3 DEF Overlap
  <2>9. InFlight(p)' # {} => pc'[p] \in Working
    BY <2>8 DEF Working
  <2>. QED BY <2>5, <2>6, <2>7, <2>8, <2>9 DEF Overlap, Single
<1>4. CASE Dispatch(p)
  <2>1. PICK o \in Occ : SkipClaimed(p, o) \/ ClaimAndSpawn(p, o) \/ ClaimToClose(p, o)
    BY <1>4 DEF Dispatch
  <2>2. CASE SkipClaimed(p, o) \/ ClaimToClose(p, o)
    <3>1. todo'[p] \subseteq todo[p] /\ UNCHANGED <<pc, scan, active, thread>>
      BY <2>2 DEF SkipClaimed, ClaimToClose, Claiming, TypeOK
    <3>. QED BY <3>1, OverlapFrame
  <2>3. CASE ClaimAndSpawn(p, o)
    <3>1. /\ o \in todo[p] /\ o \in RunId /\ p \in Owner
          /\ todo'[p] = todo[p] \ {o}
          /\ UNCHANGED <<pc, scan, active>> /\ pc[p] \in {"missed", "due"}
          /\ thread' = [thread EXCEPT ![p][o] = "spawned"]
          /\ IF pc[p] = "missed" THEN Policy[JobOf(o)] # "skip" ELSE JobOf(o) \notin active[p]
      BY <2>3, RunIdFacts DEF ClaimAndSpawn, Claiming, IsNext, NotToExecute, TypeOK, Owner
    <3>2. \A r \in RunId : thread'[p][r] = IF r = o THEN "spawned" ELSE thread[p][r]
      BY <3>1 DEF TypeOK
    <3>3. InFlight(p)' = InFlight(p) \cup {o}
      BY <3>1, <3>2 DEF InFlight
    <3>4. \A r \in InFlight(p) : ~Single(r, o) /\ ~Single(o, r)
      BY <3>1 DEF Overlap, Single
    <3>5. \A u \in todo'[p] : ~Single(o, u)
      BY <3>1 DEF Overlap, Single
    <3>6. \A u \in todo'[p] \cup InFlight(p)' : u \in todo[p] \cup InFlight(p)
      BY <3>1, <3>3
    <3>7. \A r, s \in InFlight(p)' : Single(r, s) => r = s
      BY <3>3, <3>4 DEF Overlap
    <3>8. pc[p] = "missed" =>
            /\ \A u \in todo'[p] \cup InFlight(p)' : JobOf(u) \notin scan[p]
            /\ \A r \in InFlight(p)', u \in todo'[p] : ~Single(r, u)
      BY <3>1, <3>3, <3>5, <3>6 DEF Overlap
    <3>9. pc[p] = "due" =>
            \A r \in InFlight(p)', u \in todo'[p] : Single(r, u) => JobOf(r) \in active[p]
      BY <3>1, <3>3, <3>5 DEF Overlap
    <3>10. \A u, v \in todo'[p] : Single(u, v) => u = v
      BY <3>1 DEF Overlap
    <3>. QED BY <3>1, <3>7, <3>8, <3>9, <3>10 DEF Overlap, Single, Working
  <2>. QED BY <2>1, <2>2, <2>3
<1>5. CASE LoopTop(p)
  <2>1. /\ todo'[p] = {<<j, table[p][j]>> : j \in DueJobs(p)}
        /\ active'[p] = {JobOf(r) : r \in InFlight(p)}
        /\ UNCHANGED thread /\ pc[p] = "loop" /\ pc'[p] = "due"
    BY <1>5 DEF LoopTop, TypeOK
  <2>2. InFlight(p)' = InFlight(p)
    BY <2>1 DEF InFlight
  <2>3. \A o, u \in todo'[p] : Single(o, u) => o = u
    BY <2>1 DEF Single, JobOf
  <2>. QED BY <2>1, <2>2, <2>3 DEF Overlap, Single, Working
<1>6. CASE CloseUnexecuted(p)
  BY <1>6, OverlapFrame DEF CloseUnexecuted
<1>7. CASE MissedDone(p) \/ Sleep(p)
  BY <1>1, <1>7 DEF MissedDone, Sleep, Working, TypeOK
<1>8. CASE \/ WakeByTimeout(p) \/ ReceiveControl(p) \/ BeginStopping(p) \/ GraceExpires(p)
  <2>1. /\ pc[p] \notin {"missed", "due"} /\ pc'[p] \in Working \ {"missed"}
        /\ UNCHANGED <<todo, thread>>
    BY <1>8 DEF WakeByTimeout, ReceiveControl, BeginStopping, GraceExpires, Working, TypeOK
  <2>. QED BY <1>1, <2>1 DEF Overlap
<1>9. CASE Drained(p)
  <2>1. todo'[p] = {} /\ UNCHANGED thread /\ InFlight(p)' = {}
    BY <1>9 DEF Drained, Overlap, InFlight
  <2>. QED BY <2>1, OverlapIdle
<1>10. CASE RecordStopped(p)
  BY <1>1, <1>10 DEF RecordStopped, Forget, Working, TypeOK
<1>. QED
  BY <1>2, <1>3, <1>4, <1>5, <1>6, <1>7, <1>8, <1>9, <1>10 DEF MainStep

\* What another daemon's main thread leaves alone.
LEMMA OverlapOther ==
    ASSUME TypeOK, NEW p \in Pid, Overlap(p), NEW q \in Pid \ {p}, MainStep(q)
    PROVE  Overlap(p)'
<1>. USE DEF store, procs, plan, signals, env
<1>1. /\ pc'[p] = pc[p] /\ scan'[p] = scan[p] /\ active'[p] = active[p]
      /\ todo'[p] = todo[p]
  BY DEF MainStep, LoadConfig, StartupFails, RecoverInterruptedRuns, RecordDaemonStarted,
         ScanMissed, MissedDone, Dispatch, SkipClaimed, ClaimAndSpawn, ClaimToClose, Claiming,
         CloseUnexecuted, LoopTop, Sleep, WakeByTimeout, ReceiveControl, BeginStopping,
         GraceExpires, Drained, RecordStopped, Forget, TypeOK
<1>2. thread'[p] = thread[p]
  <2>1. UNCHANGED thread \/ \E o \in Occ : thread' = [thread EXCEPT ![q][o] = "spawned"]
    BY DEF MainStep, LoadConfig, StartupFails, RecoverInterruptedRuns, RecordDaemonStarted,
           ScanMissed, MissedDone, Dispatch, SkipClaimed, ClaimAndSpawn, ClaimToClose,
           CloseUnexecuted, LoopTop, Sleep, WakeByTimeout, ReceiveControl, BeginStopping,
           GraceExpires, Drained, RecordStopped
  <2>. QED BY <2>1 DEF TypeOK, Owner
<1>. QED BY <1>1, <1>2, OverlapFrame

\* The plan and the threads of every daemon, however many there are.
THEOREM NoOverlap == Spec => [](\A p \in Pid : Overlap(p))
<1>1. Init => \A p \in Pid : Overlap(p)
  <2>. SUFFICES ASSUME Init, NEW p \in Pid PROVE Overlap(p)
    OBVIOUS
  <2>1. InFlight(p) = {}
    BY DEF Init, InFlight, Owner
  <2>. QED BY <2>1 DEF Init, Overlap
<1>2. TypeOK /\ (\A p \in Pid : Overlap(p)) /\ [Next]_vars => (\A p \in Pid : Overlap(p))'
  <2>. SUFFICES ASSUME TypeOK, \A p \in Pid : Overlap(p), [Next]_vars, NEW p \in Pid
                PROVE  Overlap(p)'
    OBVIOUS
  <2>1. CASE UNCHANGED vars
    BY <2>1, OverlapFrame DEF vars
  <2>. QED BY <2>1, OverlapMain, OverlapOther, OverlapThreads DEF Next
<1>. QED BY <1>1, <1>2, TypeCorrect, PTL DEF Spec

\* A job whose policy does not replay every miss has one run thread at most,
\* whatever daemons run and whatever fails: the overlap rule of dispatch_due,
\* whose view of what is in flight is older than its claims.
THEOREM OneThread == Spec => []OneThreadPerJob
<1>1. (\A p \in Pid : Overlap(p)) => OneThreadPerJob
  BY DEF Overlap, Single, OneThreadPerJob
<1>. QED BY <1>1, NoOverlap, PTL

-----------------------------------------------------------------------------
(* What holds of the daemon when a service manager runs one at a time and    *)
(* nobody uses `periodic jobs run`: the history is final, the daemon         *)
(* implements the abstract ledger, a stopped daemon is idle, no unfinished   *)
(* row is abandoned, the last success only moves forward, and, when nothing  *)
(* is edited or fails, every firing is answered.                             *)

\* The status a row has while its thread is in a phase.
RowOf(phase) == CASE phase = "spawned" -> "pending"
                  [] phase = "credit"  -> "success"
                  [] OTHER             -> "running"

\* One daemon at a time.
OneDaemon == \A p, q \in Pid : ~Gone(p) /\ ~Gone(q) => p = q

\* A thread belongs to a working daemon, and nobody else writes its row.
ThreadsOwnRows ==
    \A o \in Owner, r \in RunId :
        thread[o][r] # "idle" => /\ o \in Pid
                                 /\ pc[o] \in Working
                                 /\ runs[r] = RowOf(thread[o][r])

\* A row about to be closed is pending, and no thread has it.
ClosingOwnsRows ==
    \A p \in Pid : \A r \in closing[p] :
        /\ pc[p] \in {"missed", "due"}
        /\ r \in RunId
        /\ runs[r] = "pending"
        /\ \A o \in Owner : thread[o][r] = "idle"
        /\ \A s \in closing[p] : s = r

StoppedIsRecordedLast == dstate.state = "stopped" => \A p \in Pid : pc[p] \notin Working

\* Who holds which row: the inductive invariant of this module.
Custody == OneDaemon /\ ThreadsOwnRows /\ ClosingOwnsRows /\ StoppedIsRecordedLast

-----------------------------------------------------------------------------
\* Custody is inductive

\* Two threads with the same run are the same thread.
LEMMA OneThreadPerRun ==
    ASSUME Custody, NEW o \in Owner, NEW q \in Owner, NEW r \in RunId,
           thread[o][r] # "idle", thread[q][r] # "idle"
    PROVE  o = q
BY DEF Custody, OneDaemon, ThreadsOwnRows, Gone, Working

\* Custody does not mention what these steps change.
LEMMA CustodyFrame ==
    ASSUME Custody, UNCHANGED <<runs, thread, pc, closing>>,
           dstate'.state = dstate.state
    PROVE  Custody'
BY DEF Custody, OneDaemon, ThreadsOwnRows, ClosingOwnsRows, StoppedIsRecordedLast, Gone

\* A daemon that is alone keeps its custody of the rows while it starts up.
LEMMA CustodyStartup ==
    ASSUME TypeOK, Custody, NEW p \in Pid,
           LoadConfig(p) \/ StartupFails(p) \/ RecoverInterruptedRuns(p) \/ RecordDaemonStarted(p)
    PROVE  Custody'
<1>. USE DEF store, procs, plan, signals, env
<1>0. /\ pc[p] \in {"checked", "loaded", "recovered"}
      /\ UNCHANGED thread
      /\ \A q \in Pid : q # p => pc'[q] = pc[q]
  BY DEF LoadConfig, StartupFails, RecoverInterruptedRuns, RecordDaemonStarted, TypeOK
<1>1. \A q \in Pid : q # p => Gone(q)
  BY <1>0 DEF Custody, OneDaemon, Gone
<1>2. \A o \in Owner, r \in RunId : thread[o][r] = "idle"
  BY <1>0, <1>1 DEF Custody, ThreadsOwnRows, Gone, Working
<1>3. \A q \in Pid : closing[q] = {}
  BY <1>0, <1>1 DEF Custody, ClosingOwnsRows, Gone
<1>4. closing' = closing \/ closing' = [closing EXCEPT ![p] = {}]
  BY DEF LoadConfig, StartupFails, RecoverInterruptedRuns, RecordDaemonStarted, Forget
<1>5. ClosingOwnsRows' /\ ThreadsOwnRows'
  <2>1. \A q \in Pid : closing'[q] = {}
    BY <1>3, <1>4 DEF TypeOK
  <2>. QED BY <1>0, <1>2, <2>1 DEF ClosingOwnsRows, ThreadsOwnRows
<1>6. OneDaemon'
  BY <1>0, <1>1 DEF OneDaemon, Gone
<1>7. StoppedIsRecordedLast'
  <2>1. CASE RecordDaemonStarted(p)
    BY <2>1 DEF RecordDaemonStarted, StoppedIsRecordedLast
  <2>2. CASE ~RecordDaemonStarted(p)
    <3>1. pc'[p] \notin Working
      BY <2>2 DEF LoadConfig, StartupFails, RecoverInterruptedRuns, TypeOK, Working
    <3>. QED BY <1>0, <1>1, <3>1 DEF StoppedIsRecordedLast, Gone, Working
  <2>. QED BY <2>1, <2>2
<1>. QED BY <1>5, <1>6, <1>7 DEF Custody

\* Claiming takes a row nobody has; closing gives one up.
LEMMA CustodyDispatch ==
    ASSUME TypeOK, Custody, NEW p \in Pid, Dispatch(p) \/ CloseUnexecuted(p)
    PROVE  Custody'
<1>. USE DEF store, procs, plan, signals, env
<1>1. CASE CloseUnexecuted(p)
  <2>1. PICK o \in closing[p] :
          \/ \E s \in RowStatus : runs' = [runs EXCEPT ![o] = s]
          \/ UNCHANGED runs
    BY <1>1 DEF CloseUnexecuted, RowStatus, Terminal
  <2>2. /\ o \in RunId
        /\ \A q \in Owner : thread[q][o] = "idle"
        /\ \A q \in Pid : q # p => closing[q] = {}
    BY DEF Custody, ClosingOwnsRows, OneDaemon, Gone
  <2>3. \A s \in RunId : s # o => runs'[s] = runs[s]
    BY <2>1 DEF TypeOK
  <2>4. UNCHANGED <<thread, pc, dstate>> /\ closing' = [closing EXCEPT ![p] = {}]
    BY <1>1 DEF CloseUnexecuted
  <2>5. ThreadsOwnRows'
    BY <2>2, <2>3, <2>4 DEF Custody, ThreadsOwnRows
  <2>6. ClosingOwnsRows'
    BY <2>2, <2>4 DEF ClosingOwnsRows, TypeOK
  <2>. QED BY <2>4, <2>5, <2>6 DEF Custody, OneDaemon, StoppedIsRecordedLast, Gone
<1>2. CASE Dispatch(p)
  <2>1. PICK o \in Occ : SkipClaimed(p, o) \/ ClaimAndSpawn(p, o) \/ ClaimToClose(p, o)
    BY <1>2 DEF Dispatch
  <2>2. CASE SkipClaimed(p, o)
    BY <2>2, CustodyFrame DEF SkipClaimed
  <2>3. CASE ClaimAndSpawn(p, o) \/ ClaimToClose(p, o)
    <3>1. /\ o \in RunId /\ p \in Owner
          /\ runs[o] = "none"
          /\ runs' = [runs EXCEPT ![o] = "pending"]
          /\ pc[p] \in {"missed", "due"}
          /\ UNCHANGED <<pc, dstate>>
      BY <2>3, RunIdFacts
         DEF ClaimAndSpawn, ClaimToClose, CreateRun, Claiming, AlreadyClaimed, Owner
    <3>2. \A q \in Owner : thread[q][o] = "idle"
      BY <3>1 DEF Custody, ThreadsOwnRows, RowOf
    <3>3. \A q \in Pid : o \notin closing[q]
      BY <3>1 DEF Custody, ClosingOwnsRows
    <3>4. \A r \in RunId : runs'[r] = IF r = o THEN "pending" ELSE runs[r]
      BY <3>1 DEF TypeOK
    <3>5. CASE ClaimAndSpawn(p, o)
      <4>1. /\ UNCHANGED closing
            /\ thread' = [thread EXCEPT ![p][o] = "spawned"]
        BY <3>5 DEF ClaimAndSpawn
      <4>2. \A q \in Owner, r \in RunId :
              thread'[q][r] = IF q = p /\ r = o THEN "spawned" ELSE thread[q][r]
        BY <3>1, <4>1 DEF TypeOK
      <4>3. ThreadsOwnRows'
        BY <3>1, <3>2, <3>4, <4>2 DEF Custody, ThreadsOwnRows, RowOf, Working
      <4>4. ClosingOwnsRows'
        BY <3>1, <3>3, <3>4, <4>1, <4>2 DEF Custody, ClosingOwnsRows
      <4>. QED BY <3>1, <4>3, <4>4 DEF Custody, OneDaemon, StoppedIsRecordedLast, Gone
    <3>6. CASE ClaimToClose(p, o)
      <4>1. /\ UNCHANGED thread
            /\ closing' = [closing EXCEPT ![p] = {o}]
        BY <3>6 DEF ClaimToClose, procs
      <4>2. ThreadsOwnRows'
        BY <3>1, <3>2, <3>4, <4>1 DEF Custody, ThreadsOwnRows
      <4>3. ClosingOwnsRows'
        BY <3>1, <3>2, <3>3, <3>4, <4>1 DEF Custody, ClosingOwnsRows, TypeOK
      <4>. QED BY <3>1, <4>2, <4>3 DEF Custody, OneDaemon, StoppedIsRecordedLast, Gone
    <3>. QED BY <2>3, <3>5, <3>6
  <2>. QED BY <2>1, <2>2, <2>3
<1>. QED BY <1>1, <1>2

\* The loop and the shutdown move pc; "stopped" is written when the threads are gone.
LEMMA CustodyLoop ==
    ASSUME TypeOK, Custody, NEW p \in Pid,
           \/ ScanMissed(p) \/ MissedDone(p) \/ LoopTop(p) \/ Sleep(p) \/ WakeByTimeout(p)
           \/ ReceiveControl(p) \/ BeginStopping(p) \/ GraceExpires(p) \/ Drained(p)
           \/ RecordStopped(p)
    PROVE  Custody'
<1>. USE DEF store, procs, plan, signals, env
<1>0. /\ ~Gone(p)
      /\ UNCHANGED <<runs, thread>>
      /\ \A q \in Pid : q # p => pc'[q] = pc[q]
      /\ closing' = closing \/ closing' = [closing EXCEPT ![p] = {}]
  BY DEF ScanMissed, MissedDone, LoopTop, Sleep, WakeByTimeout, ReceiveControl, BeginStopping,
         GraceExpires, Drained, RecordStopped, Forget, Gone, TypeOK
<1>1. \A q \in Pid : q # p => Gone(q)
  BY <1>0 DEF Custody, OneDaemon
<1>2. OneDaemon'
  BY <1>0, <1>1 DEF OneDaemon, Gone
<1>3. CASE RecordStopped(p)
  <2>1. pc' = [pc EXCEPT ![p] = "exited"] /\ pc[p] = "leaving"
    BY <1>3 DEF RecordStopped
  <2>2. \A q \in Pid : pc'[q] \notin Working /\ pc[q] \notin Working
    BY <1>1, <2>1 DEF Working, Gone, TypeOK
  <2>3. ThreadsOwnRows'
    BY <1>0, <2>2 DEF Custody, ThreadsOwnRows
  <2>4. ClosingOwnsRows'
    <3>1. \A q \in Pid : closing[q] = {}
      BY <2>2 DEF Custody, ClosingOwnsRows, Working
    <3>. QED BY <1>0, <3>1 DEF ClosingOwnsRows, TypeOK
  <2>. QED BY <1>2, <2>2, <2>3, <2>4 DEF Custody, StoppedIsRecordedLast
<1>4. CASE Drained(p)
  <2>1. /\ InFlight(p) = {}
        /\ pc[p] \in {"drain", "join"}
        /\ pc' = [pc EXCEPT ![p] = "leaving"]
        /\ UNCHANGED <<closing, dstate>>
    BY <1>4 DEF Drained
  <2>2. \A o \in Owner, r \in RunId : thread[o][r] = "idle"
    BY <1>1, <2>1 DEF InFlight, Custody, ThreadsOwnRows, Gone, Working
  <2>3. \A q \in Pid : closing[q] = {}
    BY <1>1, <2>1 DEF Custody, ClosingOwnsRows, Gone
  <2>4. \A q \in Pid : pc'[q] \notin Working
    BY <1>0, <1>1, <2>1 DEF Working, Gone, TypeOK
  <2>. QED
    BY <1>0, <1>2, <2>1, <2>2, <2>3, <2>4
       DEF Custody, ThreadsOwnRows, ClosingOwnsRows, StoppedIsRecordedLast
<1>5. CASE ~RecordStopped(p) /\ ~Drained(p)
  <2>1. /\ UNCHANGED closing
        /\ pc[p] \in Working /\ pc'[p] \in Working
        /\ \/ pc'[p] = pc[p]
           \/ closing[p] = {}
           \/ pc[p] \notin {"missed", "due"}
        /\ dstate'.state \in {dstate.state, "stopping"}
    <3>1. CASE ScanMissed(p)
      BY <3>1 DEF ScanMissed, Working
    <3>2. CASE MissedDone(p) \/ Sleep(p)
      BY <3>2 DEF MissedDone, Sleep, Working, TypeOK
    <3>3. CASE WakeByTimeout(p) \/ ReceiveControl(p) \/ GraceExpires(p)
      BY <3>3 DEF WakeByTimeout, ReceiveControl, GraceExpires, Working, TypeOK
    <3>4. CASE LoopTop(p)
      BY <3>4 DEF LoopTop, Working, TypeOK
    <3>5. CASE BeginStopping(p)
      BY <3>5 DEF BeginStopping, Working, TypeOK
    <3>. QED BY <1>5, <3>1, <3>2, <3>3, <3>4, <3>5
  <2>2. dstate.state # "stopped"
    BY <2>1 DEF Custody, StoppedIsRecordedLast
  <2>3. ThreadsOwnRows'
    BY <1>0, <2>1 DEF Custody, ThreadsOwnRows
  <2>4. ClosingOwnsRows'
    BY <1>0, <2>1 DEF Custody, ClosingOwnsRows
  <2>. QED BY <1>2, <2>1, <2>2, <2>3, <2>4 DEF Custody, StoppedIsRecordedLast
<1>. QED BY <1>3, <1>4, <1>5

\* A thread writes its own row only.
LEMMA CustodyThread ==
    ASSUME TypeOK, Custody, NEW o \in Owner, NEW r \in RunId, ThreadStep(o, r)
    PROVE  Custody'
<1>. USE DEF store, procs, plan, signals, env
<1>1. /\ thread[o][r] # "idle"
      /\ UNCHANGED <<pc, closing, dstate>>
  BY DEF ThreadStep, ThreadProgress, ThreadStart, ThreadExit, ThreadCancel, ThreadTimeout,
         ThreadKill, FinishRun, CreditSuccess, ThreadError, Outcome
<1>2. \A q \in Owner : q # o => thread[q][r] = "idle"
  BY <1>1, OneThreadPerRun
<1>3. \A q \in Pid : r \notin closing[q]
  BY <1>1 DEF Custody, ClosingOwnsRows
<1>4. o \in Pid /\ pc[o] \in Working /\ runs[r] = RowOf(thread[o][r])
  BY <1>1 DEF Custody, ThreadsOwnRows
<1>5. \E x \in Phase, s \in RowStatus :
        /\ thread' = [thread EXCEPT ![o][r] = x]
        /\ runs' = [runs EXCEPT ![r] = s]
        /\ x = "idle" \/ s = RowOf(x)
  <2>0. runs = [runs EXCEPT ![r] = runs[r]]
    BY DEF TypeOK
  <2>1. CASE ThreadStart(o, r)
    <3>1. \E x \in {"running", "failed"} : thread' = [thread EXCEPT ![o][r] = x]
      BY <2>1 DEF ThreadStart
    <3>2. runs' = [runs EXCEPT ![r] = "running"]
      BY <2>1 DEF ThreadStart
    <3>. QED BY <3>1, <3>2 DEF Phase, Outcome, RowStatus, Live, RowOf
  <2>2. CASE ThreadExit(o, r) \/ ThreadCancel(o, r) \/ ThreadTimeout(o, r)
    <3>1. /\ \E x \in Outcome : thread' = [thread EXCEPT ![o][r] = x]
          /\ runs' = runs /\ thread[o][r] = "running"
      BY <2>2 DEF ThreadExit, ThreadCancel, ThreadTimeout, ThreadKill, Outcome
    <3>2. runs[r] = "running"
      BY <1>4, <3>1 DEF RowOf
    <3>. QED BY <2>0, <3>1, <3>2 DEF Phase, Outcome, RowStatus, Live, RowOf
  <2>3. CASE FinishRun(o, r)
    <3>1. /\ runs' = [runs EXCEPT ![r] = thread[o][r]]
          /\ thread[o][r] \in Outcome
          /\ thread' = [thread EXCEPT ![o][r] = IF thread[o][r] = "success" THEN "credit" ELSE "idle"]
      BY <2>3 DEF FinishRun
    <3>. QED BY <3>1 DEF Phase, RowStatus, Terminal, RowOf
  <2>4. CASE CreditSuccess(o, r) \/ ThreadError(o, r)
    <3>1. thread' = [thread EXCEPT ![o][r] = "idle"] /\ runs' = runs
      BY <2>4 DEF CreditSuccess, ThreadError
    <3>. QED BY <2>0, <3>1 DEF Phase, TypeOK
  <2>. QED BY <2>1, <2>2, <2>3, <2>4 DEF ThreadStep, ThreadProgress
<1>6. PICK x \in Phase, s \in RowStatus :
        /\ thread' = [thread EXCEPT ![o][r] = x]
        /\ runs' = [runs EXCEPT ![r] = s]
        /\ x = "idle" \/ s = RowOf(x)
  BY <1>5
<1>7. /\ \A q \in Owner, t \in RunId :
           thread'[q][t] = IF q = o /\ t = r THEN x ELSE thread[q][t]
      /\ \A t \in RunId : runs'[t] = IF t = r THEN s ELSE runs[t]
  BY <1>6 DEF TypeOK
<1>8. ThreadsOwnRows'
  BY <1>1, <1>2, <1>4, <1>6, <1>7 DEF Custody, ThreadsOwnRows
<1>9. ClosingOwnsRows'
  BY <1>1, <1>3, <1>7 DEF Custody, ClosingOwnsRows
<1>. QED BY <1>1, <1>8, <1>9 DEF Custody, OneDaemon, StoppedIsRecordedLast, Gone

\* A service manager starts a daemon when the last one is gone; a crash takes
\* the daemon and its threads together.
LEMMA CustodyEnvironment ==
    ASSUME Supervised, ManualId = {}, TypeOK, Custody, Environment
    PROVE  Custody'
<1>. USE DEF store, procs, plan, signals, env
<1>1. ASSUME NEW p \in Pid, Start(p) PROVE Custody'
  <2>1. /\ \A q \in Pid : Gone(q)
        /\ pc' = [pc EXCEPT ![p] = "checked"]
        /\ UNCHANGED <<runs, thread, closing, dstate>>
    BY <1>1 DEF Start
  <2>2. /\ \A o \in Owner, r \in RunId : thread[o][r] = "idle"
        /\ \A q \in Pid : closing[q] = {}
    BY <2>1 DEF Custody, ThreadsOwnRows, ClosingOwnsRows, Gone, Working
  <2>3. \A q \in Pid : pc'[q] \notin Working /\ (q # p => Gone(q)')
    BY <2>1 DEF Gone, Working, TypeOK
  <2>. QED
    BY <2>1, <2>2, <2>3
       DEF Custody, OneDaemon, ThreadsOwnRows, ClosingOwnsRows, StoppedIsRecordedLast
<1>2. ASSUME NEW p \in Pid, Crash(p) PROVE Custody'
  <2>1. /\ ~Gone(p)
        /\ pc' = [pc EXCEPT ![p] = "exited"]
        /\ thread' = [thread EXCEPT ![p] = [r \in RunId |-> "idle"]]
        /\ closing' = [closing EXCEPT ![p] = {}]
        /\ UNCHANGED <<runs, dstate>>
    BY <1>2 DEF Crash, Forget
  <2>2. \A q \in Pid : q # p => Gone(q)
    BY <2>1 DEF Custody, OneDaemon
  <2>3. \A q \in Pid : Gone(q)' /\ pc'[q] \notin Working
    BY <2>1, <2>2 DEF Gone, Working, TypeOK
  <2>4. \A o \in Owner, r \in RunId : thread'[o][r] = "idle"
    <3>1. \A o \in Owner, r \in RunId : o # p => thread[o][r] = "idle"
      BY <2>2 DEF Custody, ThreadsOwnRows, Gone, Working
    <3>2. \A o \in Owner, r \in RunId :
            thread'[o][r] = IF o = p THEN "idle" ELSE thread[o][r]
      BY <2>1 DEF TypeOK
    <3>. QED BY <3>1, <3>2
  <2>5. \A q \in Pid : closing'[q] = {}
    BY <2>1, <2>2 DEF Custody, ClosingOwnsRows, Gone, TypeOK
  <2>. QED
    BY <2>3, <2>4, <2>5
       DEF Custody, OneDaemon, ThreadsOwnRows, ClosingOwnsRows, StoppedIsRecordedLast
<1>3. ~CrashCli
  <2>1. InFlight(Cli) = {}
    BY NameAssumption DEF InFlight, Custody, ThreadsOwnRows, Owner
  <2>. QED BY <2>1 DEF CrashCli
<1>4. ASSUME NEW r \in RunId, ManualRun(r) PROVE FALSE
  BY <1>4 DEF ManualRun, Manual
<1>5. CASE UNCHANGED <<runs, thread, pc, closing, dstate>>
  BY <1>5, CustodyFrame
<1>. QED
  BY <1>1, <1>2, <1>3, <1>4, <1>5, VisitorsFrame
     DEF Environment, Tick, EditConfig, StopCommand, CancelManual, ProcExit, RequestReload,
         Signal

\* Custody holds in every state a supervised daemon reaches.
THEOREM CustodyHolds ==
    ASSUME Supervised, ManualId = {}
    PROVE  Spec => [](TypeOK /\ Custody)
<1>1. Init => Custody
  <2>. SUFFICES ASSUME Init PROVE Custody
    OBVIOUS
  <2>1. \A o \in Owner, r \in RunId : thread[o][r] = "idle"
    BY DEF Init
  <2>2. \A p \in Pid : closing[p] = {} /\ pc[p] = "idle"
    BY DEF Init
  <2>3. dstate.state # "stopped"
    BY DEF Init
  <2>. QED
    BY <2>1, <2>2, <2>3
       DEF Custody, OneDaemon, ThreadsOwnRows, ClosingOwnsRows, StoppedIsRecordedLast, Gone
<1>2. TypeOK /\ Custody /\ [Next]_vars => Custody'
  <2>. SUFFICES ASSUME TypeOK, Custody, [Next]_vars PROVE Custody'
    OBVIOUS
  <2>1. CASE UNCHANGED vars
    BY <2>1, CustodyFrame DEF vars
  <2>2. ASSUME NEW p \in Pid, MainStep(p) PROVE Custody'
    BY <2>2, CustodyStartup, CustodyDispatch, CustodyLoop DEF MainStep
  <2>3. CASE Environment
    BY <2>3, CustodyEnvironment
  <2>. QED BY <2>1, <2>2, <2>3, CustodyThread DEF Next
<1>. QED BY <1>1, <1>2, TypeCorrect, PTL DEF Spec
-----------------------------------------------------------------------------
\* What follows from custody

\* No step writes a row that is already final.
LEMMA FinalStep ==
    ASSUME Supervised, ManualId = {}, TypeOK, Custody, [Next]_vars,
           NEW r \in RunId, runs[r] \in Terminal
    PROVE  runs'[r] = runs[r]
<1>. USE DEF store, procs, plan, signals, env
<1>1. runs[r] \notin {"none"} \cup Live
  BY DEF Terminal, Outcome, Live
<1>2. ASSUME NEW p \in Pid, MainStep(p) PROVE runs'[r] = runs[r]
  <2>1. CASE Dispatch(p)
    <3>1. PICK o \in Occ : SkipClaimed(p, o) \/ ClaimAndSpawn(p, o) \/ ClaimToClose(p, o)
      BY <2>1 DEF Dispatch
    <3>2. CASE SkipClaimed(p, o)
      BY <3>2 DEF SkipClaimed
    <3>3. CASE ClaimAndSpawn(p, o) \/ ClaimToClose(p, o)
      <4>1. runs[o] = "none" /\ runs' = [runs EXCEPT ![o] = "pending"]
        BY <3>3 DEF ClaimAndSpawn, ClaimToClose, AlreadyClaimed, CreateRun
      <4>. QED BY <1>1, <4>1 DEF TypeOK
    <3>. QED BY <3>1, <3>2, <3>3
  <2>2. CASE CloseUnexecuted(p)
    <3>1. PICK o \in closing[p] :
            \/ \E s \in RowStatus : runs' = [runs EXCEPT ![o] = s]
            \/ UNCHANGED runs
      BY <2>2 DEF CloseUnexecuted, RowStatus, Terminal
    <3>2. runs[o] = "pending"
      BY DEF Custody, ClosingOwnsRows
    <3>. QED BY <1>1, <3>1, <3>2 DEF Live, TypeOK
  <2>3. CASE RecoverInterruptedRuns(p)
    BY <1>1, <2>3 DEF RecoverInterruptedRuns, Interruptible
  <2>4. CASE UNCHANGED runs
    BY <2>4
  <2>. QED
    BY <1>2, <2>1, <2>2, <2>3, <2>4
       DEF MainStep, LoadConfig, StartupFails, RecordDaemonStarted, ScanMissed, MissedDone,
           LoopTop, Sleep, WakeByTimeout, ReceiveControl, BeginStopping, GraceExpires,
           Drained, RecordStopped
<1>3. ASSUME NEW o \in Owner, NEW s \in RunId, ThreadStep(o, s) PROVE runs'[r] = runs[r]
  <2>1. CASE ThreadStart(o, s) \/ FinishRun(o, s)
    <3>1. /\ thread[o][s] \in {"spawned"} \cup Outcome
          /\ \E x \in RowStatus : runs' = [runs EXCEPT ![s] = x]
      BY <2>1 DEF ThreadStart, FinishRun, RowStatus, Live, Terminal
    <3>2. runs[s] \in Live
      BY <3>1 DEF Custody, ThreadsOwnRows, RowOf, Outcome, Live
    <3>. QED BY <1>1, <3>1, <3>2 DEF TypeOK
  <2>2. CASE UNCHANGED runs
    BY <2>2
  <2>. QED
    BY <1>3, <2>1, <2>2
       DEF ThreadStep, ThreadProgress, ThreadExit, ThreadCancel, ThreadTimeout, ThreadKill,
           CreditSuccess, ThreadError
<1>4. CASE Environment
  <2>1. UNCHANGED runs
    BY <1>4, VisitorsFrame
       DEF Environment, Tick, EditConfig, StopCommand, CancelManual, CrashCli, ProcExit,
           ManualRun, Manual, Start, RequestReload, Signal, Crash
  <2>. QED BY <2>1
<1>5. CASE UNCHANGED vars
  BY <1>5 DEF vars
<1>. QED BY <1>2, <1>3, <1>4, <1>5 DEF Next

\* One daemon at a time and no manual runs: a terminal row of the history is
\* never written again, not by recovery, a late thread or a replayed miss.
THEOREM FinalHistory ==
    ASSUME Supervised, ManualId = {}
    PROVE  Spec => HistoryIsFinal
<1>1. TypeOK /\ Custody /\ [Next]_vars
        => [\A r \in RunId : runs[r] \in Terminal => runs'[r] = runs[r]]_vars
  BY FinalStep
<1>. QED BY <1>1, CustodyHolds, PTL DEF Spec, HistoryIsFinal

\* A daemon that has recorded "stopped" has joined every run thread.
THEOREM StoppedIsIdle ==
    ASSUME Supervised, ManualId = {}
    PROVE  Spec => []StoppedMeansIdle
<1>1. TypeOK /\ Custody => StoppedMeansIdle
  BY DEF Custody, ThreadsOwnRows, StoppedIsRecordedLast, StoppedMeansIdle, InFlight, Owner
<1>. QED BY <1>1, CustodyHolds, PTL
-----------------------------------------------------------------------------
\* The daemon implements the ledger

\* The ledger under the refinement mapping.
Mapped == [r \in RunId |-> Stage(runs[r])]

\* Writing one row moves one run of the ledger.
LEMMA MappedWrite ==
    ASSUME TypeOK, NEW r \in RunId, NEW s, runs' = [runs EXCEPT ![r] = s]
    PROVE  Mapped' = [Mapped EXCEPT ![r] = Stage(s)]
<1>1. \A q \in RunId : runs'[q] = IF q = r THEN s ELSE runs[q]
  BY DEF TypeOK
<1>2. \A q \in RunId : Stage(runs'[q]) = IF q = r THEN Stage(s) ELSE Stage(runs[q])
  BY <1>1
<1>3. Mapped' = [q \in RunId |-> Stage(runs'[q])]
  BY DEF Mapped, Stage
<1>. QED BY <1>2, <1>3 DEF Mapped

\* Closing a row that is pending or running is the ledger's Close.
LEMMA CloseStep ==
    ASSUME TypeOK, NEW r \in RunId, NEW s \in Terminal,
           runs[r] \in Live, runs' = [runs EXCEPT ![r] = s]
    PROVE  Ledger!Close({r})
<1>1. Stage(runs[r]) \in {"claimed", "executing"} /\ Stage(s) = "closed"
  BY DEF Stage, Live, Terminal, Outcome
<1>2. Mapped' = [Mapped EXCEPT ![r] = "closed"]
  BY <1>1, MappedWrite
<1>3. Mapped' = [q \in RunId |-> IF q \in {r} THEN "closed" ELSE Mapped[q]]
  BY <1>2 DEF Mapped
<1>. QED BY <1>1, <1>3 DEF Ledger!Close, Mapped

\* Every step of the main thread is a step of the ledger or a stutter.
LEMMA LedgerMain ==
    ASSUME TypeOK, Custody, NEW p \in Pid, MainStep(p)
    PROVE  Ledger!Next \/ Mapped' = Mapped
<1>. USE DEF store, procs, plan, signals, env
<1>0. UNCHANGED runs => Mapped' = Mapped
  BY DEF Mapped
<1>1. CASE Dispatch(p)
  <2>1. PICK o \in Occ : SkipClaimed(p, o) \/ ClaimAndSpawn(p, o) \/ ClaimToClose(p, o)
    BY <1>1 DEF Dispatch
  <2>2. CASE SkipClaimed(p, o)
    BY <1>0, <2>2 DEF SkipClaimed
  <2>3. CASE ClaimAndSpawn(p, o) \/ ClaimToClose(p, o)
    <3>1. /\ o \in RunId
          /\ runs[o] = "none"
          /\ runs' = [runs EXCEPT ![o] = "pending"]
      BY <2>3, RunIdFacts DEF ClaimAndSpawn, ClaimToClose, AlreadyClaimed, CreateRun
    <3>2. Stage("none") = "free" /\ Stage("pending") = "claimed"
      BY DEF Stage
    <3>3. Mapped' = [Mapped EXCEPT ![o] = "claimed"] /\ Mapped[o] = "free"
      BY <3>1, <3>2, MappedWrite DEF Mapped
    <3>4. Ledger!Claim(o)
      BY <3>3 DEF Ledger!Claim, Mapped
    <3>. QED BY <3>1, <3>4 DEF Ledger!Next
  <2>. QED BY <2>1, <2>2, <2>3
<1>2. CASE CloseUnexecuted(p)
  <2>1. PICK o \in closing[p] :
          \/ \E s \in Terminal : runs' = [runs EXCEPT ![o] = s]
          \/ UNCHANGED runs
    BY <1>2 DEF CloseUnexecuted, Terminal
  <2>2. o \in RunId /\ runs[o] \in Live
    BY DEF Custody, ClosingOwnsRows, Live
  <2>3. Ledger!Close({o}) \/ UNCHANGED runs
    BY <2>1, <2>2, CloseStep
  <2>. QED BY <1>0, <2>2, <2>3 DEF Ledger!Next
<1>3. CASE RecoverInterruptedRuns(p)
  <2>. DEFINE S == {r \in RunId : runs[r] \in Live}
  <2>1. /\ Stage("pending") = "claimed" /\ Stage("running") = "executing"
        /\ Stage("interrupted") = "closed"
    BY DEF Stage
  <2>2. Mapped' = [r \in RunId |-> IF r \in S THEN "closed" ELSE Mapped[r]]
    BY <1>3, <2>1 DEF RecoverInterruptedRuns, Interruptible, Mapped
  <2>3. \A r \in S : Mapped[r] \in {"claimed", "executing"}
    BY <2>1 DEF Mapped, Live
  <2>4. CASE S = {}
    BY <2>2, <2>4 DEF Mapped
  <2>5. CASE S # {}
    <3>1. Ledger!Close(S)
      BY <2>2, <2>3, <2>5 DEF Ledger!Close, Mapped
    <3>. QED BY <3>1 DEF Ledger!Next
  <2>. QED BY <2>4, <2>5
<1>. QED
  BY <1>0, <1>1, <1>2, <1>3
     DEF MainStep, LoadConfig, StartupFails, RecordDaemonStarted, ScanMissed, MissedDone,
         LoopTop, Sleep, WakeByTimeout, ReceiveControl, BeginStopping, GraceExpires,
         Drained, RecordStopped

\* A thread executes its run once, or closes it.
LEMMA LedgerThread ==
    ASSUME TypeOK, Custody, NEW o \in Owner, NEW r \in RunId, ThreadStep(o, r)
    PROVE  Ledger!Next \/ Mapped' = Mapped
<1>. USE DEF store, procs, plan, signals, env
<1>1. CASE ThreadStart(o, r)
  <2>1. runs' = [runs EXCEPT ![r] = "running"] /\ thread[o][r] = "spawned"
    BY <1>1 DEF ThreadStart
  <2>2. runs[r] = "pending"
    BY <2>1 DEF Custody, ThreadsOwnRows, RowOf
  <2>3. Stage("pending") = "claimed" /\ Stage("running") = "executing"
    BY DEF Stage
  <2>4. Mapped' = [Mapped EXCEPT ![r] = "executing"] /\ Mapped[r] = "claimed"
    BY <2>1, <2>2, <2>3, MappedWrite DEF Mapped
  <2>5. Ledger!Execute(r)
    BY <2>4 DEF Ledger!Execute, Mapped
  <2>. QED BY <2>5 DEF Ledger!Next
<1>2. CASE FinishRun(o, r)
  <2>1. /\ thread[o][r] \in Outcome
        /\ runs' = [runs EXCEPT ![r] = thread[o][r]]
    BY <1>2 DEF FinishRun
  <2>2. runs[r] \in Live
    BY <2>1 DEF Custody, ThreadsOwnRows, RowOf, Outcome, Live
  <2>3. Ledger!Close({r})
    BY <2>1, <2>2, CloseStep DEF Terminal
  <2>. QED BY <2>3 DEF Ledger!Next
<1>3. CASE UNCHANGED runs
  BY <1>3 DEF Mapped
<1>. QED
  BY <1>1, <1>2, <1>3
     DEF ThreadStep, ThreadProgress, ThreadExit, ThreadCancel, ThreadTimeout, ThreadKill,
         CreditSuccess, ThreadError

\* Under one daemon at a time the run history is the abstract ledger: a run is
\* claimed once, executed at most once, and closed for good.
THEOREM LedgerImplemented ==
    ASSUME Supervised, ManualId = {}
    PROVE  Spec => ImplementsLedger
<1>1. Init => Ledger!Init
  BY DEF Init, Ledger!Init, Stage
<1>2. TypeOK /\ Custody /\ [Next]_vars => [Ledger!Next]_Mapped
  <2>. SUFFICES ASSUME TypeOK, Custody, [Next]_vars PROVE Ledger!Next \/ Mapped' = Mapped
    OBVIOUS
  <2>1. CASE Environment \/ UNCHANGED vars
    <3>1. UNCHANGED runs
      BY <2>1, VisitorsFrame
         DEF Environment, Tick, EditConfig, StopCommand, CancelManual, CrashCli, ProcExit,
             ManualRun, Manual, Start, RequestReload, Signal, Crash, vars, store
    <3>. QED BY <3>1 DEF Mapped
  <2>. QED BY <2>1, LedgerMain, LedgerThread DEF Next
<1>3. TypeOK /\ Custody /\ [Next]_vars => [Ledger!Next]_([r \in RunId |-> Stage(runs[r])])
  BY <1>2 DEF Mapped
<1>. QED BY <1>1, <1>3, CustodyHolds, PTL DEF Spec, ImplementsLedger, Ledger!Spec

-----------------------------------------------------------------------------
\* No unfinished row is abandoned

Recovered(p) == pc[p] \notin {"idle", "checked", "loaded", "exited"}

\* Recovery closes what it finds, and from then on a row becomes unfinished only
\* in the hands of the thread or the main thread that claims it.
LEMMA AttendedStep ==
    ASSUME Supervised, ManualId = {}, ~DbFaults,
           TypeOK, Custody, NoUnattendedRow, [Next]_vars
    PROVE  NoUnattendedRow'
<1>. USE DEF store, procs, plan, signals, env
<1>. SUFFICES ASSUME NEW p \in Pid, Recovered(p)', NEW r \in RunId, runs'[r] \in Live
              PROVE  Attended(r)'
  BY DEF NoUnattendedRow, Recovered
<1>0. Recovered(p) /\ runs[r] \in Live => Attended(r)
  BY DEF NoUnattendedRow, Recovered
<1>1. CASE UNCHANGED <<runs, pc, thread, closing>>
  BY <1>0, <1>1 DEF Attended, Recovered
<1>2. ASSUME NEW q \in Pid, MainStep(q) PROVE Attended(r)'
  <2>1. CASE RecoverInterruptedRuns(q)
    BY <2>1 DEF RecoverInterruptedRuns, Interruptible, Live
  <2>2. CASE ~RecoverInterruptedRuns(q)
    <3>1. Recovered(p) /\ q = p /\ pc'[p] \notin {"exited"}
      <4>1. ~Gone(q)
        BY <1>2
           DEF MainStep, LoadConfig, StartupFails, RecoverInterruptedRuns, RecordDaemonStarted,
               ScanMissed, MissedDone, Dispatch, SkipClaimed, ClaimAndSpawn, ClaimToClose,
               Claiming, CloseUnexecuted, LoopTop, Sleep, WakeByTimeout, ReceiveControl,
               BeginStopping, GraceExpires, Drained, RecordStopped, Gone, Custody,
               ClosingOwnsRows
      <4>2. \A s \in Pid : s # q => pc'[s] = pc[s] /\ Gone(s)
        <5>1. \A s \in Pid : s # q => Gone(s)
          BY <4>1 DEF Custody, OneDaemon
        <5>2. pc' = pc \/ \E x \in PcValue : pc' = [pc EXCEPT ![q] = x]
          BY <1>2
             DEF MainStep, LoadConfig, StartupFails, RecoverInterruptedRuns,
                 RecordDaemonStarted, ScanMissed, MissedDone, Dispatch, SkipClaimed,
                 ClaimAndSpawn, ClaimToClose, CloseUnexecuted, LoopTop, Sleep, WakeByTimeout,
                 ReceiveControl, BeginStopping, GraceExpires, Drained, RecordStopped, PcValue
        <5>. QED BY <5>1, <5>2 DEF TypeOK
      <4>3. q = p
        BY <4>2 DEF Recovered, Gone
      <4>4. Recovered(p)
        BY <1>2, <2>2, <4>1, <4>3
           DEF MainStep, LoadConfig, StartupFails, RecordDaemonStarted, ScanMissed, MissedDone,
               Dispatch, SkipClaimed, ClaimAndSpawn, ClaimToClose, Claiming, CloseUnexecuted,
               LoopTop, Sleep, WakeByTimeout, ReceiveControl, BeginStopping, GraceExpires,
               Drained, RecordStopped, Recovered, TypeOK, Custody, ClosingOwnsRows
      <4>. QED BY <4>3, <4>4 DEF Recovered
    <3>2. CASE Dispatch(q)
      <4>1. PICK o \in Occ : SkipClaimed(q, o) \/ ClaimAndSpawn(q, o) \/ ClaimToClose(q, o)
        BY <3>2 DEF Dispatch
      <4>2. CASE SkipClaimed(q, o)
        BY <1>0, <3>1, <4>2 DEF SkipClaimed, Attended
      <4>3. CASE ClaimAndSpawn(q, o)
        <5>1. /\ thread' = [thread EXCEPT ![q][o] = "spawned"]
              /\ runs' = [runs EXCEPT ![o] = "pending"]
              /\ UNCHANGED closing
              /\ o \in RunId /\ q \in Owner
          BY <4>3, RunIdFacts DEF ClaimAndSpawn, CreateRun, Owner
        <5>2. \A s \in Owner, t \in RunId :
                thread'[s][t] = IF s = q /\ t = o THEN "spawned" ELSE thread[s][t]
          BY <5>1 DEF TypeOK
        <5>3. CASE r = o
          BY <5>1, <5>2, <5>3 DEF Attended
        <5>4. CASE r # o
          <6>1. runs'[r] = runs[r]
            BY <5>1, <5>4 DEF TypeOK
          <6>. QED BY <1>0, <3>1, <5>1, <5>2, <5>4, <6>1 DEF Attended
        <5>. QED BY <5>3, <5>4
      <4>4. CASE ClaimToClose(q, o)
        <5>1. /\ closing' = [closing EXCEPT ![q] = {o}] /\ closing[q] = {}
              /\ runs' = [runs EXCEPT ![o] = "pending"]
              /\ UNCHANGED thread
          BY <4>4 DEF ClaimToClose, CreateRun, Claiming
        <5>2. CASE r = o
          BY <5>1, <5>2 DEF Attended, TypeOK
        <5>3. CASE r # o
          <6>1. runs'[r] = runs[r]
            BY <5>1, <5>3 DEF TypeOK
          <6>. QED BY <1>0, <3>1, <5>1, <6>1 DEF Attended, TypeOK
        <5>. QED BY <5>2, <5>3
      <4>. QED BY <4>1, <4>2, <4>3, <4>4
    <3>3. CASE CloseUnexecuted(q)
      <4>1. PICK o \in closing[q] :
              \E s \in Terminal : runs' = [runs EXCEPT ![o] = s]
        BY <3>3 DEF CloseUnexecuted, Terminal
      <4>2. /\ closing' = [closing EXCEPT ![q] = {}]
            /\ UNCHANGED thread
            /\ closing[q] = {o}
        <5>1. closing[q] \subseteq {o}
          BY DEF Custody, ClosingOwnsRows
        <5>. QED BY <3>3, <5>1 DEF CloseUnexecuted
      <4>3. o \in RunId
        BY DEF Custody, ClosingOwnsRows
      <4>4. r # o /\ runs'[r] = runs[r]
        BY <4>1, <4>3 DEF TypeOK, Live, Terminal, Outcome
      <4>. QED BY <1>0, <3>1, <4>2, <4>4 DEF Attended, TypeOK
    <3>4. CASE RecordStopped(q)
      BY <3>1, <3>4 DEF RecordStopped, TypeOK
    <3>5. CASE StartupFails(q)
      BY <3>1, <3>5 DEF StartupFails, TypeOK
    <3>6. CASE UNCHANGED <<runs, thread, closing>>
      BY <1>0, <3>1, <3>6 DEF Attended
    <3>. QED
      BY <1>2, <2>2, <3>2, <3>3, <3>4, <3>5, <3>6
         DEF MainStep, LoadConfig, RecordDaemonStarted, ScanMissed, MissedDone, LoopTop,
             Sleep, WakeByTimeout, ReceiveControl, BeginStopping, GraceExpires, Drained
  <2>. QED BY <2>1, <2>2
<1>3. ASSUME NEW o \in Owner, NEW s \in RunId, ThreadStep(o, s) PROVE Attended(r)'
  <2>1. /\ UNCHANGED <<pc, closing>>
        /\ \A q \in Owner, t \in RunId : t # s => thread'[q][t] = thread[q][t]
        /\ \A t \in RunId : t # s => runs'[t] = runs[t]
    <3>1. /\ UNCHANGED <<pc, closing>>
          /\ \E x : thread' = [thread EXCEPT ![o][s] = x]
          /\ UNCHANGED runs \/ \E x : runs' = [runs EXCEPT ![s] = x]
      <4>1. CASE ThreadStart(o, s)
        BY <4>1 DEF ThreadStart
      <4>2. CASE ThreadExit(o, s)
        BY <4>2 DEF ThreadExit
      <4>3. CASE ThreadCancel(o, s) \/ ThreadTimeout(o, s)
        BY <4>3 DEF ThreadCancel, ThreadTimeout, ThreadKill
      <4>4. CASE FinishRun(o, s)
        BY <4>4 DEF FinishRun
      <4>5. CASE CreditSuccess(o, s) \/ ThreadError(o, s)
        BY <4>5 DEF CreditSuccess, ThreadError
      <4>. QED BY <1>3, <4>1, <4>2, <4>3, <4>4, <4>5 DEF ThreadStep, ThreadProgress
    <3>. QED BY <3>1 DEF TypeOK
  <2>2. CASE r # s
    BY <1>0, <2>1, <2>2 DEF Attended, Recovered
  <2>3. CASE r = s
    <3>1. CASE ThreadStart(o, s) \/ ThreadExit(o, s) \/ ThreadCancel(o, s) \/ ThreadTimeout(o, s)
      <4>1. \E x \in {"running"} \cup Outcome : thread' = [thread EXCEPT ![o][s] = x]
        BY <3>1 DEF ThreadStart, ThreadExit, ThreadCancel, ThreadTimeout, ThreadKill, Outcome
      <4>2. thread'[o][s] # "idle"
        BY <4>1 DEF TypeOK, Outcome
      <4>. QED BY <2>3, <4>2 DEF Attended
    <3>2. CASE FinishRun(o, s)
      BY <2>3, <3>2 DEF FinishRun, TypeOK, Outcome, Live
    <3>3. CASE CreditSuccess(o, s)
      BY <2>3, <3>3 DEF CreditSuccess, Custody, ThreadsOwnRows, RowOf, Live
    <3>. QED BY <1>3, <3>1, <3>2, <3>3 DEF ThreadStep, ThreadProgress, ThreadError
  <2>. QED BY <2>2, <2>3
<1>4. ASSUME NEW q \in Pid, Start(q) PROVE Attended(r)'
  BY <1>4 DEF Start, Gone, Recovered, TypeOK
<1>5. ASSUME NEW q \in Pid, Crash(q) PROVE Attended(r)'
  <2>1. ~Gone(q) /\ pc' = [pc EXCEPT ![q] = "exited"]
    BY <1>5 DEF Crash
  <2>2. q # p /\ pc[p] = pc'[p]
    BY <2>1 DEF Recovered, TypeOK
  <2>. QED BY <2>1, <2>2 DEF Custody, OneDaemon, Gone, Recovered
<1>6. ~CrashCli
  <2>1. InFlight(Cli) = {}
    BY NameAssumption DEF InFlight, Custody, ThreadsOwnRows, Owner
  <2>. QED BY <2>1 DEF CrashCli
<1>7. CASE Environment
  BY <1>1, <1>4, <1>5, <1>6, <1>7, VisitorsFrame
     DEF Environment, Tick, EditConfig, StopCommand, CancelManual, ProcExit, ManualRun, Manual,
         RequestReload, Signal
<1>8. CASE UNCHANGED vars
  BY <1>1, <1>8 DEF vars
<1>. QED BY <1>2, <1>3, <1>7, <1>8 DEF Next

\* While statements succeed, every unfinished row of a recovered daemon has a
\* thread on its way with it, or is about to be closed.
THEOREM RowsAreAttended ==
    ASSUME Supervised, ManualId = {}, ~DbFaults
    PROVE  Spec => []NoUnattendedRow
<1>1. Init => NoUnattendedRow
  BY DEF Init, NoUnattendedRow
<1>2. TypeOK /\ Custody /\ NoUnattendedRow /\ [Next]_vars => NoUnattendedRow'
  BY AttendedStep
<1>. QED BY <1>1, <1>2, CustodyHolds, PTL DEF Spec

-----------------------------------------------------------------------------
\* The anchor of the missed-run scan never moves back

\* A success that has still to be credited is later than the last one credited.
Credits ==
    /\ \A j \in Job : lastSuccess[j] <= now
    /\ \A o \in Owner, r \in RunId : thread[o][r] = "credit" =>
         stamp[r] >= lastSuccess[JobOf(r)] /\ stamp[r] <= now

LEMMA Instants ==
    ASSUME TypeOK
    PROVE  /\ now \in Nat
           /\ \A j \in Job : lastSuccess[j] \in Int
           /\ \A r \in RunId : stamp[r] \in Nat /\ created[r] \in Nat /\ JobOf(r) \in Job
<1>1. /\ now \in Time
      /\ \A j \in Job : lastSuccess[j] \in Time \cup {-1}
      /\ \A r \in RunId : stamp[r] \in Time /\ created[r] \in Time
  BY DEF TypeOK
<1>2. Time \subseteq Nat /\ \A r \in RunId : JobOf(r) \in Job
  BY RunIdFacts
<1>3. ASSUME NEW j \in Job PROVE lastSuccess[j] \in Int
  <2>1. lastSuccess[j] \in Time \/ lastSuccess[j] = -1
    BY <1>1
  <2>2. CASE lastSuccess[j] \in Time
    <3>1. lastSuccess[j] \in Nat
      BY <1>2, <2>2
    <3>. QED BY <3>1
  <2>3. CASE lastSuccess[j] = -1
    BY <2>3
  <2>. QED BY <2>1, <2>2, <2>3
<1>. QED BY <1>1, <1>2, <1>3

LEMMA CreditFrame ==
    ASSUME TypeOK, Credits, lastSuccess' = lastSuccess, stamp' = stamp,
           now' = now \/ now' = now + 1,
           \A o \in Owner, r \in RunId : thread'[o][r] = "credit" => thread[o][r] = "credit"
    PROVE  Credits'
<1>1. /\ now \in Nat /\ now' >= now
      /\ \A j \in Job : lastSuccess[j] \in Int
      /\ \A r \in RunId : stamp[r] \in Nat /\ JobOf(r) \in Job
  BY Instants
<1>. QED BY <1>1 DEF Credits

\* A thread credits its success, or leaves the anchor alone.
LEMMA CreditThread ==
    ASSUME \A j \in Job : Policy[j] # "run_all",
           TypeOK, Custody, \A p \in Pid : Overlap(p), Credits,
           NEW o \in Owner, NEW r \in RunId, ThreadStep(o, r)
    PROVE  Credits' /\ \A j \in Job : lastSuccess'[j] >= lastSuccess[j]
<1>. USE DEF store, procs, plan, signals, env
<1>0. /\ now \in Nat /\ JobOf(r) \in Job
      /\ \A j \in Job : lastSuccess[j] \in Int
      /\ \A s \in RunId : stamp[s] \in Nat /\ JobOf(s) \in Job
  BY Instants
<1>1. CASE ThreadStart(o, r) \/ ThreadExit(o, r) \/ ThreadCancel(o, r) \/ ThreadTimeout(o, r)
  <2>1. /\ \E x \in {"running"} \cup Outcome : thread' = [thread EXCEPT ![o][r] = x]
        /\ UNCHANGED <<lastSuccess, stamp, now>>
    BY <1>1 DEF ThreadStart, ThreadExit, ThreadCancel, ThreadTimeout, ThreadKill, Outcome
  <2>2. \A q \in Owner, s \in RunId : thread'[q][s] = "credit" => thread[q][s] = "credit"
    BY <2>1 DEF TypeOK, Outcome
  <2>. QED BY <1>0, <2>1, <2>2, CreditFrame
<1>2. CASE FinishRun(o, r)
  <2>1. /\ UNCHANGED <<lastSuccess, now>>
        /\ \A s \in RunId : s # r => stamp'[s] = stamp[s]
        /\ \A q \in Owner, s \in RunId : thread'[q][s] = "credit" =>
             \/ thread[q][s] = "credit" /\ (s # r \/ q # o)
             \/ s = r /\ q = o /\ stamp'[r] = now
    <3>1. /\ UNCHANGED <<lastSuccess, now>>
          /\ thread' = [thread EXCEPT ![o][r] =
                          IF thread[o][r] = "success" THEN "credit" ELSE "idle"]
          /\ stamp' = [stamp EXCEPT ![r] =
                          IF thread[o][r] = "success" THEN now ELSE stamp[r]]
      BY <1>2 DEF FinishRun
    <3>. QED BY <3>1 DEF TypeOK
  <2>2. \A q \in Owner : q # o => thread[q][r] = "idle"
    <3>1. thread[o][r] # "idle"
      BY <1>2 DEF FinishRun, Outcome
    <3>. QED BY <3>1, OneThreadPerRun
  <2>. QED BY <1>0, <2>1, <2>2 DEF Credits
<1>3. CASE CreditSuccess(o, r)
  <2>1. /\ thread[o][r] = "credit" /\ UNCHANGED now
        /\ lastSuccess'[JobOf(r)] = stamp[r]
        /\ \A j \in Job : j # JobOf(r) => lastSuccess'[j] = lastSuccess[j]
        /\ \A s \in RunId : s # r => stamp'[s] = stamp[s]
        /\ \A q \in Owner, s \in RunId : thread'[q][s] = "credit" =>
             thread[q][s] = "credit" /\ (s # r \/ q # o)
    BY <1>0, <1>3 DEF CreditSuccess, TypeOK
  <2>2. \A j \in Job : lastSuccess'[j] >= lastSuccess[j] /\ lastSuccess'[j] <= now
    BY <1>0, <2>1 DEF Credits
  <2>3. \A q \in Owner, s \in RunId : thread'[q][s] = "credit" =>
          s # r /\ thread[q][s] = "credit" /\ JobOf(s) # JobOf(r)
    <3>. TAKE q \in Owner, s \in RunId
    <3>. HAVE thread'[q][s] = "credit"
    <3>1. thread[q][s] = "credit" /\ (s # r \/ q # o)
      BY <2>1
    <3>2. q = o /\ o \in Pid
      BY <2>1, <3>1 DEF Custody, ThreadsOwnRows, OneDaemon, Gone, Working
    <3>3. r \in InFlight(o) /\ s \in InFlight(o)
      BY <2>1, <3>1, <3>2 DEF InFlight
    <3>4. JobOf(s) # JobOf(r)
      BY <1>0, <3>1, <3>2, <3>3 DEF Overlap, Single
    <3>. QED BY <3>1, <3>2, <3>4
  <2>. QED BY <1>0, <2>1, <2>2, <2>3 DEF Credits
<1>4. CASE ThreadError(o, r)
  <2>1. /\ UNCHANGED <<lastSuccess, now>>
        /\ thread[o][r] # "idle"
        /\ \A s \in RunId : s # r => stamp'[s] = stamp[s]
        /\ \A q \in Owner, s \in RunId : thread'[q][s] = "credit" =>
             thread[q][s] = "credit" /\ (s # r \/ q # o)
    BY <1>4 DEF ThreadError, TypeOK
  <2>2. \A q \in Owner : q # o => thread[q][r] = "idle"
    BY <2>1, OneThreadPerRun
  <2>. QED BY <1>0, <2>1, <2>2 DEF Credits
<1>. QED BY <1>1, <1>2, <1>3, <1>4 DEF ThreadStep, ThreadProgress

\* Nothing else touches the anchor, and a crash takes the uncredited along.
LEMMA CreditOther ==
    ASSUME ManualId = {}, TypeOK, Custody, Credits,
           (\E p \in Pid : MainStep(p)) \/ Environment \/ UNCHANGED vars
    PROVE  Credits' /\ lastSuccess' = lastSuccess
<1>. USE DEF store, procs, plan, signals, env
<1>1. CASE \E p \in Pid : MainStep(p)
  <2>1. /\ UNCHANGED <<lastSuccess, stamp, now>>
        /\ UNCHANGED thread \/ \E p \in Pid, s \in Occ :
                                 thread' = [thread EXCEPT ![p][s] = "spawned"]
    BY <1>1
       DEF MainStep, LoadConfig, StartupFails, RecoverInterruptedRuns, RecordDaemonStarted,
           ScanMissed, MissedDone, Dispatch, SkipClaimed, ClaimAndSpawn, ClaimToClose,
           CreateRun, CloseUnexecuted, LoopTop, Sleep, WakeByTimeout, ReceiveControl,
           BeginStopping, GraceExpires, Drained, RecordStopped
  <2>2. \A o \in Owner, r \in RunId : thread'[o][r] \in {thread[o][r], "spawned"}
    <3>1. CASE UNCHANGED thread
      BY <3>1
    <3>2. ASSUME NEW p \in Pid, NEW s \in Occ, thread' = [thread EXCEPT ![p][s] = "spawned"]
          PROVE  \A o \in Owner, r \in RunId : thread'[o][r] \in {thread[o][r], "spawned"}
      <4>1. p \in Owner /\ s \in RunId
        BY RunIdFacts DEF Owner
      <4>2. \A o \in Owner, r \in RunId :
              thread'[o][r] = IF o = p /\ r = s THEN "spawned" ELSE thread[o][r]
        BY <3>2, <4>1 DEF TypeOK
      <4>. QED BY <4>2
    <3>. QED BY <2>1, <3>1, <3>2
  <2>3. \A o \in Owner, r \in RunId : thread'[o][r] = "credit" => thread[o][r] = "credit"
    BY <2>2
  <2>. QED BY <2>1, <2>3, CreditFrame
<1>2. ASSUME NEW p \in Pid, Crash(p) PROVE Credits' /\ lastSuccess' = lastSuccess
  <2>1. /\ ~Gone(p) /\ p \in Owner
        /\ thread' = [thread EXCEPT ![p] = [r \in RunId |-> "idle"]]
        /\ UNCHANGED <<lastSuccess, now>>
    BY <1>2 DEF Crash, Owner
  <2>2. \A o \in Owner, r \in RunId : o # p => thread[o][r] = "idle"
    BY <2>1 DEF Custody, ThreadsOwnRows, OneDaemon, Gone, Working
  <2>3. \A o \in Owner, r \in RunId :
          thread'[o][r] = IF o = p THEN "idle" ELSE thread[o][r]
    BY <2>1 DEF TypeOK
  <2>. QED BY <2>1, <2>2, <2>3 DEF Credits
<1>3. ~CrashCli
  <2>1. InFlight(Cli) = {}
    BY NameAssumption DEF InFlight, Custody, ThreadsOwnRows, Owner
  <2>. QED BY <2>1 DEF CrashCli
<1>4. CASE UNCHANGED <<lastSuccess, stamp, thread>> /\ (now' = now \/ now' = now + 1)
  BY <1>4, CreditFrame
<1>. QED
  BY <1>1, <1>2, <1>3, <1>4, VisitorsFrame
     DEF Environment, Tick, EditConfig, StopCommand, CancelManual, ProcExit, ManualRun, Manual,
         Start, RequestReload, Signal, vars

\* One daemon at a time, and no policy that replays every miss: a job's last
\* success only moves forward, though finalize stamps it in one statement and
\* writes it in another.
THEOREM AnchorAdvances ==
    ASSUME Supervised, ManualId = {}, \A j \in Job : Policy[j] # "run_all"
    PROVE  Spec => LastSuccessAdvances
<1>1. Init => Credits
  BY ConfigAssumption DEF Init, Credits
<1>2. TypeOK /\ Custody /\ (\A p \in Pid : Overlap(p)) /\ Credits /\ [Next]_vars
        => Credits' /\ \A j \in Job : lastSuccess'[j] >= lastSuccess[j]
  <2>. SUFFICES ASSUME TypeOK, Custody, \A p \in Pid : Overlap(p), Credits, [Next]_vars
                PROVE  Credits' /\ \A j \in Job : lastSuccess'[j] >= lastSuccess[j]
    OBVIOUS
  <2>1. \A j \in Job : lastSuccess[j] \in Int
    BY Instants
  <2>. QED BY <2>1, CreditThread, CreditOther DEF Next
<1>3. TypeOK /\ Custody /\ (\A p \in Pid : Overlap(p)) /\ Credits /\ [Next]_vars
        => [\A j \in Job : lastSuccess'[j] >= lastSuccess[j]]_vars
  BY <1>2
<1>. QED BY <1>1, <1>2, <1>3, CustodyHolds, NoOverlap, PTL DEF Spec, LastSuccessAdvances

-----------------------------------------------------------------------------
\* Every firing is answered

\* Nobody edits the config and no statement fails; and the whole history is
\* within reach of the missed-run scan.
Undisturbed ==
    /\ Supervised /\ ManualId = {} /\ ~DbFaults
    /\ MaxEdits = 0 /\ MaxReloads = 0
    /\ MaxTime <= Lookback /\ MaxTime <= MissedCap

Quiet == budget.edits = 0 /\ budget.reloads = 0 /\ ctl \in [Pid -> Seq({"wake"})]

\* A row is created when its occurrence has fallen due.
RowsFollow == \A o \in Occ : runs[o] # "none" => o[2] <= now /\ created[o] >= o[2]

\* From the table on.
Planned(p) == pc[p] \notin {"idle", "checked", "exited"}

\* A success at or after t, and none still to be credited that would put an
\* earlier one in its place.
Credited(p, j, t) ==
    /\ lastSuccess[j] >= t
    /\ \A r \in RunId : thread[p][r] = "credit" /\ JobOf(r) = j => stamp[r] >= t

\* What was due before the table's entry is answered.
Settled(p, j, t) ==
    \/ Credited(p, j, t)
    \/ \E u \in Sched[j] :
         \/ <<j, u>> \in todo[p] /\ (pc[p] = "missed" => u >= t)
         \/ runs[<<j, u>>] # "none" /\ created[<<j, u>>] >= t

\* The table says when a daemon will look at each job again; what is before has
\* been claimed, is about to be, or is left to the missed-run scan, and what is
\* after has no row yet.
Plan(p) ==
    /\ at[p] <= now
    /\ scan[p] \subseteq disk.enabled
    /\ pc[p] \in {"loaded", "recovered"} => scan[p] = disk.enabled
    /\ pc[p] \in {"loop", "due", "sleep"} => scan[p] = {}
    /\ \A o \in todo[p] : /\ o[2] <= at[p]
                          /\ table[p][o[1]] = NextOccurrence(o[1], at[p])
                          /\ pc[p] = "due" => runs[o] = "none"
    /\ pc[p] \in {"loaded", "recovered", "missed"} =>
         \A j \in disk.enabled : table[p][j] = NextOccurrence(j, at[p])
    /\ \A j \in Job : \A u \in Sched[j] : u >= table[p][j] => runs[<<j, u>>] = "none"
    /\ \A j \in disk.enabled : \A t \in Sched[j] : t < table[p][j] =>
         /\ t <= now
         /\ pc[p] \in {"missed", "loop", "due", "sleep"} /\ j \notin scan[p] => Settled(p, j, t)

Firings == Quiet /\ RowsFollow /\ \A p \in Pid : Planned(p) => Plan(p)

\* The first firing strictly after t has no other between it and t.
LEMMA NextOccurrenceBound ==
    ASSUME NEW j \in Job, NEW t \in Time
    PROVE  /\ NextOccurrence(j, t) \in Nat /\ NextOccurrence(j, t) > t
           /\ \A u \in Sched[j] : u < NextOccurrence(j, t) => u <= t
<1>. DEFINE later == {u \in Sched[j] : u > t}
<1>1. Sched[j] \subseteq Nat /\ t \in Nat /\ t < Never /\ Never \in Nat
  BY ConfigAssumption DEF Never, Time
<1>2. CASE later = {}
  BY <1>1, <1>2 DEF NextOccurrence
<1>3. CASE later # {}
  <2>1. Min(later) \in later /\ \A u \in later : Min(later) <= u
    BY <1>1, <1>3, MinIsLeast
  <2>2. NextOccurrence(j, t) = Min(later)
    BY <1>3 DEF NextOccurrence
  <2>. QED BY <1>1, <2>1, <2>2
<1>. QED BY <1>2, <1>3

\* Within the lookback and the cap the scan sees every firing since the last
\* success, and a policy that keeps one keeps the latest.
LEMMA MissedComplete ==
    ASSUME Undisturbed, TypeOK, NEW p \in Pid, NEW j \in Job, NEW last \in Time \cup {-1},
           NEW t \in Sched[j], last < t, t <= at[p]
    PROVE  t \in MissedOccurrences(p, j, last)
<1>. DEFINE anchor == Max({last, at[p] - Lookback})
            elapsed == {u \in Sched[j] : anchor < u /\ u <= at[p]}
            before == {u \in elapsed : u <= t}
<1>1. /\ MaxTime \in Nat /\ Lookback \in Nat /\ MissedCap \in Nat
      /\ MaxTime <= Lookback /\ MaxTime <= MissedCap
      /\ Sched[j] \subseteq 1..MaxTime /\ at[p] \in 0..MaxTime
  BY ConfigAssumption DEF Undisturbed, TypeOK, Time
<1>2. last \in Int
  <2>1. CASE last = -1
    BY <2>1
  <2>2. CASE last \in Time
    BY <2>2 DEF Time
  <2>. QED BY <2>1, <2>2
<1>3. anchor < t
  <2>. DEFINE low == at[p] - Lookback
  <2>1. low \in Int /\ low < t
    BY <1>1
  <2>. HIDE DEF low
  <2>2. \E m \in {last, low} : \A y \in {last, low} : m >= y
    BY <1>2, <2>1
  <2>3. Max({last, low}) \in {last, low}
    BY <2>2 DEF Max
  <2>. QED BY <2>1, <2>3 DEF low
<1>4. t \in elapsed
  BY <1>3
<1>5. Cardinality(before) <= MissedCap
  <2>1. before \subseteq 1..MaxTime
    BY <1>1
  <2>2. IsFiniteSet(1..MaxTime) /\ Cardinality(1..MaxTime) = MaxTime
    <3>1. 1 \in Int /\ MaxTime \in Int
      BY <1>1
    <3>2. /\ IsFiniteSet(1..MaxTime)
          /\ Cardinality(1..MaxTime) = IF 1 > MaxTime THEN 0 ELSE MaxTime - 1 + 1
      <4>. HIDE DEF anchor, elapsed, before
      <4>. QED BY <3>1, FS_Interval
    <3>. QED BY <1>1, <3>2
  <2>3. Cardinality(before) <= Cardinality(1..MaxTime) /\ Cardinality(before) \in Nat
    BY <2>1, <2>2, FS_Subset, FS_CardinalityType
  <2>. QED BY <1>1, <2>2, <2>3
<1>. HIDE DEF anchor, before
<1>6. t \in {u \in elapsed : Cardinality({v \in elapsed : v <= u}) <= MissedCap}
  BY <1>4, <1>5 DEF before
<1>. QED BY <1>6 DEF MissedOccurrences, anchor

\* What the plan compares.
LEMMA PlanTypes ==
    ASSUME TypeOK, NEW p \in Pid
    PROVE  /\ now \in Nat /\ at[p] \in Time /\ at[p] \in Nat
           /\ \A j \in Job : table[p][j] \in Nat /\ Sched[j] \subseteq Nat
           /\ todo[p] \subseteq Occ /\ scan[p] \subseteq Job /\ disk.enabled \subseteq Job
           /\ \A j \in Job : \A u \in Sched[j] : <<j, u>> \in Occ /\ <<j, u>> \in RunId
           /\ \A o \in Occ : /\ o[1] \in Job /\ o[2] \in Sched[o[1]] /\ o[2] \in Nat
                             /\ o = <<o[1], o[2]>>
<1>1. now \in Time /\ at[p] \in Time /\ Time \subseteq Nat
  BY RunIdFacts DEF TypeOK
<1>2. \A j \in Job : table[p][j] \in Nat /\ Sched[j] \subseteq Nat
  BY ConfigAssumption DEF TypeOK
<1>3. todo[p] \subseteq Occ /\ scan[p] \subseteq Job /\ disk.enabled \subseteq Job
  BY DEF TypeOK
<1>4. \A j \in Job : \A u \in Sched[j] : <<j, u>> \in Occ /\ <<j, u>> \in RunId
  BY RunIdFacts
<1>5. \A o \in Occ : o[1] \in Job /\ o[2] \in Sched[o[1]] /\ o = <<o[1], o[2]>>
  BY DEF Occ
<1>. QED BY <1>1, <1>2, <1>3, <1>4, <1>5

\* The file and the table of an undisturbed daemon are what they were.
LEMMA QuietNext ==
    ASSUME Undisturbed, TypeOK, Quiet, [Next]_vars
    PROVE  Quiet' /\ disk' = disk
<1>. USE DEF store, procs, plan, signals, env
<1>1. ASSUME NEW p \in Pid, MainStep(p) PROVE Quiet' /\ disk' = disk
  <2>1. UNCHANGED <<budget, disk>>
    BY <1>1
       DEF MainStep, LoadConfig, StartupFails, RecoverInterruptedRuns, RecordDaemonStarted,
           ScanMissed, MissedDone, Dispatch, SkipClaimed, ClaimAndSpawn, ClaimToClose,
           CloseUnexecuted, LoopTop, Sleep, WakeByTimeout, ReceiveControl, BeginStopping,
           GraceExpires, Drained, RecordStopped
  <2>2. \/ UNCHANGED ctl
        \/ ctl' = [ctl EXCEPT ![p] = <<>>]
        \/ ctl[p] # <<>> /\ ctl' = [ctl EXCEPT ![p] = Tail(ctl[p])]
    BY <1>1
       DEF MainStep, LoadConfig, StartupFails, RecoverInterruptedRuns, RecordDaemonStarted,
           ScanMissed, MissedDone, Dispatch, SkipClaimed, ClaimAndSpawn, ClaimToClose,
           CloseUnexecuted, LoopTop, Sleep, WakeByTimeout, ReceiveControl, BeginStopping,
           GraceExpires, Drained, RecordStopped, Forget
  <2>3. ctl \in [Pid -> Seq({"wake"})] /\ budget.edits = 0 /\ budget.reloads = 0
    BY DEF Quiet
  <2>4. ctl' \in [Pid -> Seq({"wake"})]
    <3>1. <<>> \in Seq({"wake"})
      OBVIOUS
    <3>2. ctl[p] # <<>> => Tail(ctl[p]) \in Seq({"wake"})
      BY <2>3
    <3>. QED BY <2>2, <2>3, <3>1, <3>2
  <2>. QED BY <2>1, <2>3, <2>4 DEF Quiet
<1>2. ASSUME NEW o \in Owner, NEW r \in RunId, ThreadStep(o, r) PROVE Quiet' /\ disk' = disk
  BY <1>2
     DEF ThreadStep, ThreadProgress, ThreadStart, ThreadExit, ThreadCancel, ThreadTimeout,
         ThreadKill, FinishRun, CreditSuccess, ThreadError, Quiet
<1>3. CASE Environment
  <2>1. ~EditConfig /\ \A p \in Pid : ~RequestReload(p)
    BY DEF EditConfig, RequestReload, Quiet
  <2>2. ASSUME NEW p \in Pid, Crash(p) PROVE Quiet' /\ disk' = disk
    <3>1. /\ disk' = disk /\ ctl' = [ctl EXCEPT ![p] = <<>>]
          /\ budget' = [budget EXCEPT !.crashes = budget.crashes - 1]
      BY <2>2 DEF Crash, Forget
    <3>2. budget'.edits = budget.edits /\ budget'.reloads = budget.reloads
      BY <3>1 DEF TypeOK
    <3>. QED BY <3>1, <3>2 DEF Quiet
  <2>3. ASSUME NEW p \in Pid, Signal(p) PROVE Quiet' /\ disk' = disk
    BY <2>3 DEF Signal, Quiet
  <2>4. CASE UNCHANGED <<ctl, budget, disk>>
    BY <2>4 DEF Quiet
  <2>. QED
    BY <1>3, <2>1, <2>2, <2>3, <2>4, VisitorsFrame
       DEF Environment, Tick, StopCommand, CancelManual, CrashCli, ProcExit, ManualRun, Start
<1>4. CASE UNCHANGED vars
  BY <1>4 DEF vars, Quiet
<1>. QED BY <1>1, <1>2, <1>3, <1>4 DEF Next

\* No row appears or goes.
SameRows == created' = created /\ \A o \in Occ : runs'[o] = "none" <=> runs[o] = "none"

LEMMA RowsKept ==
    ASSUME TypeOK, RowsFollow, SameRows, now' = now \/ now' = now + 1
    PROVE  RowsFollow'
<1>1. now \in Nat /\ \A o \in Occ : o[2] \in Nat
  <2>1. now \in Time /\ Time \subseteq Nat
    BY RunIdFacts DEF TypeOK
  <2>2. \A o \in Occ : o[2] \in Time
    BY DEF Occ
  <2>. QED BY <2>1, <2>2
<1>. QED BY <1>1 DEF RowsFollow, SameRows

\* A plan stands as long as the daemon does not move, the clock may tick, and a
\* success keeps counting.
LEMMA PlanFrame ==
    ASSUME TypeOK, NEW p \in Pid, Plan(p), disk' = disk, SameRows,
           at'[p] = at[p], scan'[p] = scan[p], todo'[p] = todo[p], table'[p] = table[p],
           pc'[p] = pc[p], now' = now \/ now' = now + 1,
           \A j \in Job : \A t \in Sched[j] :
               t <= now /\ Credited(p, j, t) => Credited(p, j, t)'
    PROVE  Plan(p)'
<1>1. /\ now \in Nat /\ at[p] \in Nat
      /\ \A j \in Job : Sched[j] \subseteq Nat
      /\ todo[p] \subseteq Occ /\ disk.enabled \subseteq Job
      /\ \A j \in Job : \A u \in Sched[j] : <<j, u>> \in Occ
  BY PlanTypes
<1>2. at[p] <= now' /\ \A j \in Job : \A t \in Sched[j] : t <= now => t <= now'
  BY <1>1 DEF Plan
<1>3. \A j \in Job : \A t \in Sched[j] : t <= now /\ Settled(p, j, t) => Settled(p, j, t)'
  BY <1>1 DEF Settled, SameRows
<1>. QED BY <1>1, <1>2, <1>3 DEF Plan, SameRows

\* With nothing left to claim the daemon moves on along its plan.
LEMMA PlanMove ==
    ASSUME TypeOK, NEW p \in Pid, Plan(p), disk' = disk, SameRows, now' = now,
           todo[p] = {}, todo'[p] = {}, scan'[p] = scan[p], table'[p] = table[p],
           UNCHANGED <<thread, lastSuccess, stamp>>,
           at'[p] = at[p] \/ (at'[p] = now /\ pc'[p] \notin {"loaded", "recovered", "missed"}),
           pc'[p] \in {"loaded", "recovered"} => pc[p] \in {"loaded", "recovered"},
           pc'[p] = "missed" => pc[p] \in {"recovered", "missed"},
           pc'[p] \in {"loop", "due", "sleep"} =>
               scan[p] = {} /\ pc[p] \in {"missed", "loop", "due", "sleep"}
    PROVE  Plan(p)'
<1>1. /\ now \in Nat /\ at[p] \in Nat /\ disk.enabled \subseteq Job
      /\ \A j \in Job : \A u \in Sched[j] : <<j, u>> \in Occ
  BY PlanTypes
<1>2. \A j \in Job : \A t \in Sched[j] : Settled(p, j, t) => Settled(p, j, t)'
  BY <1>1 DEF Settled, Credited, SameRows
<1>3. \A j \in disk.enabled : \A t \in Sched[j] :
        t < table[p][j] =>
          /\ t <= now
          /\ pc'[p] \in {"missed", "loop", "due", "sleep"} /\ j \notin scan[p]
                => Settled(p, j, t)
  BY DEF Plan
<1>. QED BY <1>1, <1>2, <1>3 DEF Plan, SameRows

\* While a daemon plans, every other one is gone.
LEMMA PlannedAlone ==
    ASSUME Custody, NEW p \in Pid, ~Gone(p), NEW q \in Pid, q # p
    PROVE  Gone(q) /\ ~Planned(q)
BY DEF Custody, OneDaemon, Gone, Planned

\* A run thread answers for its own occurrence only, and never takes back what a
\* success has answered.
LEMMA PlanThread ==
    ASSUME TypeOK, Custody, Firings, disk' = disk,
           NEW o \in Owner, NEW r \in RunId, ThreadStep(o, r)
    PROVE  RowsFollow' /\ \A p \in Pid : Planned(p)' => Plan(p)'
<1>. USE DEF store, procs, plan, signals, env
<1>1. UNCHANGED <<created, pc, at, scan, todo, table, now>> /\ thread[o][r] # "idle"
  BY DEF ThreadStep, ThreadProgress, ThreadStart, ThreadExit, ThreadCancel, ThreadTimeout,
         ThreadKill, FinishRun, CreditSuccess, ThreadError, Outcome
<1>2. o \in Pid /\ ~Gone(o)
  BY <1>1 DEF Custody, ThreadsOwnRows, Working, Gone
<1>3. \A x \in RunId : runs'[x] = "none" <=> runs[x] = "none"
  <2>1. CASE ThreadStart(o, r)
    <3>1. runs[r] = "pending" /\ runs' = [runs EXCEPT ![r] = "running"]
      BY <1>1, <2>1 DEF ThreadStart, Custody, ThreadsOwnRows, RowOf
    <3>. QED BY <3>1 DEF TypeOK
  <2>2. CASE FinishRun(o, r)
    <3>1. /\ runs[r] = "running" /\ runs' = [runs EXCEPT ![r] = thread[o][r]]
          /\ thread[o][r] # "none"
      BY <1>1, <2>2 DEF FinishRun, Custody, ThreadsOwnRows, RowOf, Outcome
    <3>. QED BY <3>1 DEF TypeOK
  <2>3. CASE UNCHANGED runs
    BY <2>3
  <2>. QED
    BY <2>1, <2>2, <2>3
       DEF ThreadStep, ThreadProgress, ThreadExit, ThreadCancel, ThreadTimeout, ThreadKill,
           CreditSuccess, ThreadError
<1>4. SameRows
  BY <1>1, <1>3, RunIdFacts DEF SameRows
<1>5. ASSUME NEW j \in Job, NEW t \in Sched[j], t <= now, Credited(o, j, t)
      PROVE  Credited(o, j, t)'
  <2>0. /\ \A k \in Job : lastSuccess[k] \in Int
        /\ JobOf(r) \in Job /\ o \in Owner
    BY Instants
  <2>1. CASE \/ ThreadStart(o, r) \/ ThreadExit(o, r) \/ ThreadCancel(o, r)
             \/ ThreadTimeout(o, r)
    <3>1. /\ \E x \in {"running"} \cup Outcome : thread' = [thread EXCEPT ![o][r] = x]
          /\ UNCHANGED <<lastSuccess, stamp>>
      BY <2>1 DEF ThreadStart, ThreadExit, ThreadCancel, ThreadTimeout, ThreadKill, Outcome
    <3>2. \A s \in RunId : thread'[o][s] = "credit" => thread[o][s] = "credit"
      BY <3>1 DEF TypeOK, Outcome
    <3>. QED BY <1>5, <3>1, <3>2 DEF Credited
  <2>2. CASE FinishRun(o, r)
    <3>1. /\ UNCHANGED lastSuccess
          /\ \A s \in RunId : s # r => stamp'[s] = stamp[s]
          /\ \A s \in RunId : thread'[o][s] = "credit" =>
               \/ s # r /\ thread[o][s] = "credit"
               \/ s = r /\ stamp'[r] = now
      <4>1. /\ UNCHANGED lastSuccess
            /\ thread' = [thread EXCEPT ![o][r] =
                            IF thread[o][r] = "success" THEN "credit" ELSE "idle"]
            /\ stamp' = [stamp EXCEPT ![r] =
                            IF thread[o][r] = "success" THEN now ELSE stamp[r]]
        BY <2>2 DEF FinishRun
      <4>. QED BY <4>1 DEF TypeOK
    <3>. QED BY <1>5, <3>1 DEF Credited
  <2>3. CASE CreditSuccess(o, r)
    <3>1. /\ thread[o][r] = "credit"
          /\ lastSuccess'[JobOf(r)] = stamp[r]
          /\ \A k \in Job : k # JobOf(r) => lastSuccess'[k] = lastSuccess[k]
          /\ \A s \in RunId : s # r => stamp'[s] = stamp[s]
          /\ \A s \in RunId : thread'[o][s] = "credit" => thread[o][s] = "credit" /\ s # r
      BY <2>0, <2>3 DEF CreditSuccess, TypeOK
    <3>. QED BY <1>5, <3>1 DEF Credited
  <2>4. CASE ThreadError(o, r)
    <3>1. /\ UNCHANGED lastSuccess
          /\ \A s \in RunId : s # r => stamp'[s] = stamp[s]
          /\ \A s \in RunId : thread'[o][s] = "credit" => thread[o][s] = "credit" /\ s # r
      BY <2>4 DEF ThreadError, TypeOK
    <3>. QED BY <1>5, <3>1 DEF Credited
  <2>. QED BY <2>1, <2>2, <2>3, <2>4 DEF ThreadStep, ThreadProgress
<1>6. ASSUME NEW p \in Pid, Planned(p)' PROVE Plan(p)'
  <2>1. Planned(p)
    BY <1>1, <1>6 DEF Planned
  <2>2. p = o
    BY <1>2, <2>1, PlannedAlone
  <2>3. Plan(o)
    BY <2>1, <2>2 DEF Firings
  <2>4. Plan(o)'
    BY <1>1, <1>2, <1>4, <1>5, <2>3, PlanFrame
  <2>. QED BY <2>2, <2>4
<1>7. RowsFollow'
  BY <1>1, <1>4, RowsKept DEF Firings
<1>. QED BY <1>6, <1>7

\* The clock, the signals and a crash.
LEMMA PlanEnvironment ==
    ASSUME Undisturbed, TypeOK, Custody, Firings, disk' = disk, Environment \/ UNCHANGED vars
    PROVE  RowsFollow' /\ \A p \in Pid : Planned(p)' => Plan(p)'
<1>. USE DEF store, procs, plan, signals, env
<1>1. CASE /\ UNCHANGED <<created, runs, pc, at, scan, todo, table>>
           /\ UNCHANGED <<lastSuccess, stamp, thread>>
           /\ now' = now \/ now' = now + 1
  <2>1. SameRows
    BY <1>1 DEF SameRows
  <2>2. ASSUME NEW p \in Pid, Planned(p)' PROVE Plan(p)'
    <3>1. Plan(p)
      BY <1>1, <2>2 DEF Planned, Firings
    <3>2. \A j \in Job : \A t \in Sched[j] : Credited(p, j, t) => Credited(p, j, t)'
      BY <1>1 DEF Credited
    <3>. QED BY <1>1, <2>1, <3>1, <3>2, PlanFrame
  <2>. QED BY <1>1, <2>1, <2>2, RowsKept DEF Firings
<1>2. ASSUME NEW p \in Pid, Crash(p) \/ Start(p)
      PROVE  RowsFollow' /\ \A q \in Pid : Planned(q)' => Plan(q)'
  <2>1. /\ UNCHANGED <<created, runs, now>>
        /\ pc' = [pc EXCEPT ![p] = "exited"] \/ pc' = [pc EXCEPT ![p] = "checked"]
        /\ \A q \in Pid : q # p => Gone(q)
    BY <1>2, PlannedAlone DEF Crash, Start, Undisturbed
  <2>2. \A q \in Pid : ~Planned(q)'
    BY <2>1 DEF Planned, Gone, TypeOK
  <2>. QED BY <2>1, <2>2 DEF RowsFollow, Firings
<1>3. ~CrashCli
  <2>1. InFlight(Cli) = {}
    BY NameAssumption DEF InFlight, Custody, ThreadsOwnRows, Owner
  <2>. QED BY <2>1 DEF CrashCli
<1>4. ~EditConfig /\ \A p \in Pid : ~RequestReload(p)
  BY DEF EditConfig, RequestReload, Firings, Quiet
<1>. QED
  BY <1>1, <1>2, <1>3, <1>4, VisitorsFrame
     DEF Environment, Tick, StopCommand, CancelManual, ProcExit, ManualRun, Manual, Signal,
         vars, Undisturbed

\* What the main thread is about to do.
LEMMA MainAlone ==
    ASSUME TypeOK, Custody, NEW p \in Pid, MainStep(p)
    PROVE  ~Gone(p) /\ \A q \in Pid : q # p => ~Planned(q)'
<1>. USE DEF store, procs, plan, signals, env
<1>1. ~Gone(p)
  BY DEF MainStep, LoadConfig, StartupFails, RecoverInterruptedRuns, RecordDaemonStarted,
         ScanMissed, MissedDone, Dispatch, SkipClaimed, ClaimAndSpawn, ClaimToClose,
         Claiming, CloseUnexecuted, LoopTop, Sleep, WakeByTimeout, ReceiveControl,
         BeginStopping, GraceExpires, Drained, RecordStopped, Gone, Custody,
         ClosingOwnsRows
<1>2. pc' = pc \/ \E x \in PcValue : pc' = [pc EXCEPT ![p] = x]
  BY DEF MainStep, LoadConfig, StartupFails, RecoverInterruptedRuns,
         RecordDaemonStarted, ScanMissed, MissedDone, Dispatch, SkipClaimed,
         ClaimAndSpawn, ClaimToClose, CloseUnexecuted, LoopTop, Sleep, WakeByTimeout,
         ReceiveControl, BeginStopping, GraceExpires, Drained, RecordStopped, PcValue
<1>3. \A q \in Pid : q # p => pc'[q] = pc[q]
  BY <1>2 DEF TypeOK
<1>. QED BY <1>1, <1>3, PlannedAlone DEF Planned

\* The table and the scan of a fresh daemon start from the same instant.
LEMMA PlanLoad ==
    ASSUME Undisturbed, TypeOK, RowsFollow, disk' = disk, NEW p \in Pid, Overlap(p),
           LoadConfig(p)
    PROVE  RowsFollow' /\ Plan(p)'
<1>. USE DEF store, procs, plan, signals, env
<1>1. /\ now \in Nat /\ now \in Time /\ disk.enabled \subseteq Job
      /\ \A j \in Job : Sched[j] \subseteq 1..MaxTime /\ Sched[j] \subseteq Nat
      /\ \A j \in Job : \A u \in Sched[j] : <<j, u>> \in Occ
      /\ MaxTime \in Nat
  BY PlanTypes, ConfigAssumption DEF TypeOK
<1>2. /\ pc'[p] = "loaded" /\ at'[p] = now /\ scan'[p] = disk.enabled
      /\ table'[p] = Build(disk.enabled, now) /\ todo'[p] = {}
      /\ UNCHANGED <<runs, created, now>>
  BY DEF LoadConfig, TypeOK, Overlap
<1>3. \A j \in Job : table'[p][j] = IF j \in disk.enabled THEN NextOccurrence(j, now) ELSE Never
  BY <1>2 DEF Build
<1>4. \A j \in Job : /\ NextOccurrence(j, now) \in Nat /\ NextOccurrence(j, now) > now
                     /\ \A u \in Sched[j] : u < NextOccurrence(j, now) => u <= now
  BY <1>1, NextOccurrenceBound
<1>5. \A j \in Job : \A u \in Sched[j] : u >= table'[p][j] => runs[<<j, u>>] = "none"
  <2>. TAKE j \in Job
  <2>. TAKE u \in Sched[j]
  <2>. HAVE u >= table'[p][j]
  <2>1. u \in Nat /\ u < Never
    BY <1>1 DEF Never
  <2>2. j \in disk.enabled
    BY <1>1, <1>3, <2>1 DEF Never
  <2>3. ~(u <= now)
    BY <1>1, <1>3, <1>4, <2>1, <2>2
  <2>4. <<j, u>> \in Occ /\ <<j, u>>[2] = u
    BY <1>1
  <2>. QED BY <2>3, <2>4 DEF RowsFollow
<1>6. \A j \in disk.enabled : \A t \in Sched[j] : t < table'[p][j] => t <= now
  BY <1>1, <1>3, <1>4
<1>7. Plan(p)'
  BY <1>1, <1>2, <1>3, <1>5, <1>6 DEF Plan
<1>. QED BY <1>2, <1>7 DEF RowsFollow

\* The steps between which the daemon has nothing left to claim.
LEMMA PlanAlong ==
    ASSUME Undisturbed, TypeOK, Quiet, disk' = disk, NEW p \in Pid, Plan(p), Overlap(p),
           \/ RecoverInterruptedRuns(p) \/ RecordDaemonStarted(p) \/ MissedDone(p)
           \/ Sleep(p) \/ WakeByTimeout(p) \/ ReceiveControl(p)
           \/ BeginStopping(p) \/ GraceExpires(p) \/ Drained(p)
    PROVE  SameRows /\ now' = now /\ Plan(p)'
<1>. USE DEF store, procs, plan, signals, env
<1>1. /\ todo[p] = {} /\ todo'[p] = {} /\ scan'[p] = scan[p] /\ table'[p] = table[p]
      /\ UNCHANGED <<thread, lastSuccess, stamp, created, now>>
  <2>1. CASE ReceiveControl(p)
    <3>1. Head(ctl[p]) = "wake" /\ ctl[p] # <<>>
      BY <2>1 DEF ReceiveControl, Quiet
    <3>. QED BY <2>1, <3>1 DEF ReceiveControl, Overlap, Undisturbed
  <2>. QED
    BY <2>1
       DEF RecoverInterruptedRuns, RecordDaemonStarted, MissedDone, Sleep, WakeByTimeout,
           BeginStopping, GraceExpires, Drained, Overlap
<1>2. \A r \in RunId : runs'[r] = "none" <=> runs[r] = "none"
  <2>1. CASE RecoverInterruptedRuns(p)
    BY <2>1 DEF RecoverInterruptedRuns, Interruptible, Live
  <2>2. CASE UNCHANGED runs
    BY <2>2
  <2>. QED
    BY <2>1, <2>2
       DEF RecordDaemonStarted, MissedDone, Sleep, WakeByTimeout, ReceiveControl,
           BeginStopping, GraceExpires, Drained
<1>3. SameRows
  BY <1>1, <1>2, RunIdFacts DEF SameRows
<1>4. /\ at'[p] = at[p] \/ (at'[p] = now /\ pc'[p] \notin {"loaded", "recovered", "missed"})
      /\ pc'[p] \in {"loaded", "recovered"} => pc[p] \in {"loaded", "recovered"}
      /\ pc'[p] = "missed" => pc[p] \in {"recovered", "missed"}
      /\ pc'[p] \in {"loop", "due", "sleep"} =>
           scan[p] = {} /\ pc[p] \in {"missed", "loop", "due", "sleep"}
  <2>1. pc[p] \in {"loop", "due", "sleep"} => scan[p] = {}
    BY DEF Plan
  <2>2. /\ p \in DOMAIN pc /\ p \in DOMAIN at
    BY DEF TypeOK
  <2>3. CASE RecoverInterruptedRuns(p) \/ RecordDaemonStarted(p) \/ MissedDone(p)
    <3>1. at' = at
      BY <2>3 DEF RecoverInterruptedRuns, RecordDaemonStarted, MissedDone
    <3>2. \/ pc[p] = "loaded" /\ pc'[p] = "recovered"
          \/ pc[p] = "recovered" /\ pc'[p] = "missed"
          \/ pc[p] = "missed" /\ pc'[p] = "loop" /\ scan[p] = {}
      BY <2>2, <2>3 DEF RecoverInterruptedRuns, RecordDaemonStarted, MissedDone
    <3>. QED BY <3>1, <3>2
  <2>4. CASE Sleep(p)
    BY <2>1, <2>2, <2>4 DEF Sleep
  <2>5. CASE WakeByTimeout(p) \/ ReceiveControl(p)
    <3>1. pc[p] = "sleep" /\ pc'[p] = "loop" /\ at' = at
      BY <2>2, <2>5 DEF WakeByTimeout, ReceiveControl
    <3>. QED BY <2>1, <3>1
  <2>6. CASE BeginStopping(p) \/ GraceExpires(p) \/ Drained(p)
    <3>1. pc'[p] \in {"drain", "join", "leaving"} /\ at' = at
      BY <2>2, <2>6 DEF BeginStopping, GraceExpires, Drained
    <3>. QED BY <3>1
  <2>. QED BY <2>3, <2>4, <2>5, <2>6
<1>5. Plan(p)'
  BY <1>1, <1>3, <1>4, PlanMove
<1>. QED BY <1>1, <1>3, <1>5

\* The main thread closes the row it has just made.
LEMMA PlanClose ==
    ASSUME TypeOK, Custody, disk' = disk, NEW p \in Pid, Plan(p), CloseUnexecuted(p)
    PROVE  SameRows /\ now' = now /\ Plan(p)'
<1>. USE DEF store, procs, plan, signals, env
<1>1. PICK o \in closing[p] : \/ runs' = runs
                              \/ \E s \in {"skipped", "skipped_overlap"} :
                                   runs' = [runs EXCEPT ![o] = s]
  BY DEF CloseUnexecuted
<1>2. runs[o] = "pending"
  BY DEF Custody, ClosingOwnsRows
<1>3. \A r \in RunId : runs'[r] = "none" <=> runs[r] = "none"
  BY <1>1, <1>2 DEF TypeOK
<1>4. SameRows
  BY <1>3, RunIdFacts DEF CloseUnexecuted, SameRows
<1>5. \A j \in Job : \A t \in Sched[j] : Credited(p, j, t) => Credited(p, j, t)'
  BY DEF CloseUnexecuted, Credited
<1>. QED BY <1>4, <1>5, PlanFrame DEF CloseUnexecuted

\* A job whose misses have been picked has every firing up to then answered.
LEMMA PlanScan ==
    ASSUME Undisturbed, TypeOK, disk' = disk, NEW p \in Pid, Plan(p), Overlap(p), ScanMissed(p)
    PROVE  SameRows /\ now' = now /\ Plan(p)'
<1>. USE DEF store, procs, plan, signals, env
<1>0. /\ now \in Nat /\ at[p] \in Time /\ at[p] \in Nat /\ disk.enabled \subseteq Job
      /\ \A j \in Job : table[p][j] \in Nat /\ Sched[j] \subseteq Nat
      /\ \A j \in Job : \A u \in Sched[j] : <<j, u>> \in Occ /\ <<j, u>> \in RunId
  BY PlanTypes
<1>1. PICK j \in scan[p] :
        LET missed == MissedOccurrences(p, j, lastSuccess[j])
            chosen == IF missed = {} \/ Policy[j] = "run_all" THEN missed ELSE {Max(missed)}
        IN /\ scan' = [scan EXCEPT ![p] = scan[p] \ {j}]
           /\ todo' = [todo EXCEPT ![p] = {j} \X chosen]
  BY DEF ScanMissed, Undisturbed
<1>. DEFINE missed == MissedOccurrences(p, j, lastSuccess[j])
            chosen == IF missed = {} \/ Policy[j] = "run_all" THEN missed ELSE {Max(missed)}
<1>2. /\ pc[p] = "missed" /\ pc'[p] = "missed" /\ todo[p] = {} /\ todo'[p] = {j} \X chosen
      /\ scan'[p] = scan[p] \ {j} /\ at'[p] = at[p] /\ table'[p] = table[p]
      /\ UNCHANGED <<runs, created, now, thread, lastSuccess, stamp>>
      /\ j \in disk.enabled /\ j \in Job
  BY <1>0, <1>1 DEF ScanMissed, TypeOK, Plan
<1>3. SameRows
  BY <1>2 DEF SameRows
<1>4. chosen \subseteq missed /\ missed \subseteq {u \in Sched[j] : u <= at[p]}
  <2>1. missed \subseteq {u \in Sched[j] : u <= at[p]}
    BY DEF MissedOccurrences
  <2>2. missed \subseteq 0..MaxTime /\ MaxTime \in Nat
    BY <1>2, <2>1, ConfigAssumption
  <2>3. missed # {} => Max(missed) \in missed
    <3>. HIDE DEF missed
    <3>. QED BY <2>2, MaxIsGreatest
  <2>. HIDE DEF missed
  <2>. QED BY <2>1, <2>3
<1>5. \A o \in todo'[p] : o[1] = j /\ o[2] <= at[p] /\ o[2] \in Sched[j]
  <2>. HIDE DEF chosen, missed
  <2>. QED BY <1>2, <1>4
<1>6. \A t \in Sched[j] : t <= at[p] => Settled(p, j, t)'
  <2>. TAKE t \in Sched[j]
  <2>. HAVE t <= at[p]
  <2>1. CASE lastSuccess[j] >= t
    <3>1. \A r \in RunId : thread[p][r] = "credit" => JobOf(r) # j
      BY <1>2, <1>1 DEF Overlap, InFlight
    <3>. QED BY <1>2, <2>1, <3>1 DEF Settled, Credited
  <2>2. CASE ~(lastSuccess[j] >= t)
    <3>1. lastSuccess[j] \in Time \cup {-1} /\ lastSuccess[j] \in Int /\ t \in Nat
      BY <1>0, <1>2, Instants DEF TypeOK
    <3>2. t \in missed
      BY <1>2, <2>2, <3>1, MissedComplete
    <3>3. \E u \in chosen : u >= t
      <4>1. missed \subseteq 0..MaxTime /\ MaxTime \in Nat
        BY <1>2, <1>4, ConfigAssumption
      <4>. HIDE DEF missed
      <4>2. Max(missed) >= t
        BY <3>2, <4>1, MaxIsGreatest
      <4>3. t >= t
        BY <3>1
      <4>. QED BY <3>2, <4>2, <4>3
    <3>. HIDE DEF chosen
    <3>4. PICK u \in chosen : u >= t
      BY <3>3
    <3>5. u \in Sched[j] /\ <<j, u>> \in todo'[p]
      BY <1>2, <1>4, <3>4
    <3>. QED BY <3>4, <3>5 DEF Settled
  <2>. QED BY <2>1, <2>2
<1>. HIDE DEF chosen, missed
<1>7. \A k \in disk.enabled : k # j =>
        \A t \in Sched[k] : Settled(p, k, t) => Settled(p, k, t)'
  BY <1>0, <1>2 DEF Settled, Credited
<1>8. \A k \in disk.enabled : table[p][k] = NextOccurrence(k, at[p])
  BY <1>2 DEF Plan
<1>9. \A t \in Sched[j] : t < table[p][j] => t <= at[p] /\ Settled(p, j, t)'
  BY <1>0, <1>2, <1>6, <1>8, NextOccurrenceBound
<1>. QED BY <1>0, <1>2, <1>3, <1>5, <1>7, <1>8, <1>9 DEF Plan

\* A claim answers for every firing of its job up to the captured instant; a row
\* that was there answers for the occurrence itself.
LEMMA PlanClaim ==
    ASSUME Undisturbed, TypeOK, RowsFollow, disk' = disk, NEW p \in Pid, Plan(p), Dispatch(p)
    PROVE  RowsFollow' /\ Plan(p)'
<1>. USE DEF store, procs, plan, signals, env
<1>0. /\ now \in Nat /\ at[p] \in Time /\ at[p] \in Nat /\ disk.enabled \subseteq Job
      /\ \A j \in Job : table[p][j] \in Nat /\ Sched[j] \subseteq Nat
      /\ todo[p] \subseteq Occ
      /\ \A j \in Job : \A u \in Sched[j] : <<j, u>> \in Occ /\ <<j, u>> \in RunId
      /\ \A x \in Occ : /\ x[1] \in Job /\ x[2] \in Sched[x[1]] /\ x[2] \in Nat
                        /\ x = <<x[1], x[2]>>
  BY PlanTypes
<1>1. PICK o \in Occ : SkipClaimed(p, o) \/ ClaimAndSpawn(p, o) \/ ClaimToClose(p, o)
  BY DEF Dispatch
<1>2. /\ o \in todo[p] /\ todo'[p] = todo[p] \ {o} /\ pc[p] \in {"missed", "due"}
      /\ pc' = pc /\ at' = at /\ scan' = scan /\ table' = table
      /\ UNCHANGED <<now, lastSuccess, stamp>>
  BY <1>1 DEF SkipClaimed, ClaimAndSpawn, ClaimToClose, Claiming, IsNext, TypeOK
<1>3. /\ o[2] <= at[p] /\ table[p][o[1]] = NextOccurrence(o[1], at[p])
      /\ pc[p] = "due" => runs[o] = "none"
  BY <1>2 DEF Plan
<1>4. CASE SkipClaimed(p, o)
  <2>1. /\ runs[o] # "none" /\ pc[p] = "missed" /\ UNCHANGED <<runs, created, thread>>
    BY <1>2, <1>3, <1>4 DEF SkipClaimed, AlreadyClaimed, Undisturbed
  <2>2. created[o] >= o[2] /\ created[o] \in Nat
    BY <1>0, <2>1, Instants, RunIdFacts DEF RowsFollow
  <2>3. \A j \in Job : \A t \in Sched[j] : Settled(p, j, t) => Settled(p, j, t)'
    <3>. SUFFICES ASSUME NEW j \in Job, NEW t \in Sched[j], Settled(p, j, t)
                  PROVE  Settled(p, j, t)'
      OBVIOUS
    <3>1. CASE <<j, o[2]>> = o /\ o[2] >= t
      <4>1. created[o] >= t
        BY <1>0, <2>2, <3>1
      <4>. QED BY <1>0, <1>2, <2>1, <3>1, <4>1 DEF Settled
    <3>2. CASE ~(<<j, o[2]>> = o /\ o[2] >= t)
      <4>1. CASE Credited(p, j, t)
        BY <1>2, <2>1, <4>1 DEF Settled, Credited
      <4>2. ASSUME NEW u \in Sched[j], <<j, u>> \in todo[p], u >= t PROVE Settled(p, j, t)'
        <5>1. <<j, u>> # o
          BY <3>2, <4>2
        <5>. QED BY <1>2, <4>2, <5>1 DEF Settled
      <4>3. ASSUME NEW u \in Sched[j], runs[<<j, u>>] # "none", created[<<j, u>>] >= t
            PROVE  Settled(p, j, t)'
        BY <2>1, <4>3 DEF Settled
      <4>. QED BY <2>1, <4>1, <4>2, <4>3 DEF Settled
    <3>. QED BY <3>1, <3>2
  <2>4. \A x \in todo'[p] : x \in todo[p]
    BY <1>2
  <2>5. Plan(p)'
    BY <1>0, <1>2, <2>1, <2>3, <2>4 DEF Plan
  <2>. QED BY <1>2, <2>1, <2>5 DEF RowsFollow
<1>5. CASE ClaimAndSpawn(p, o) \/ ClaimToClose(p, o)
  <2>1. /\ runs[o] = "none"
        /\ runs' = [runs EXCEPT ![o] = "pending"] /\ created' = [created EXCEPT ![o] = at[p]]
        /\ UNCHANGED thread \/ thread' = [thread EXCEPT ![p][o] = "spawned"]
    BY <1>5 DEF ClaimAndSpawn, ClaimToClose, CreateRun, AlreadyClaimed
  <2>2. /\ o \in RunId /\ runs'[o] = "pending" /\ created'[o] = at[p]
        /\ \A x \in RunId : x # o => runs'[x] = runs[x] /\ created'[x] = created[x]
    BY <2>1, RunIdFacts DEF TypeOK
  <2>3. \A r \in RunId : thread'[p][r] = "credit" => thread[p][r] = "credit"
    BY <2>1 DEF TypeOK, Owner
  <2>4. \A j \in Job : \A t \in Sched[j] : Credited(p, j, t) => Credited(p, j, t)'
    BY <1>2, <2>3 DEF Credited
  <2>5. \A t \in Sched[o[1]] : t < table[p][o[1]] => Settled(p, o[1], t)'
    <3>1. o[1] \in Job /\ o[2] \in Sched[o[1]] /\ o = <<o[1], o[2]>>
      BY <1>0
    <3>2. \A t \in Sched[o[1]] : t < table[p][o[1]] => t <= at[p]
      BY <1>0, <1>3, <3>1, NextOccurrenceBound
    <3>3. \A t \in Sched[o[1]] : t <= at[p] => created'[o] >= t
      BY <1>0, <2>2, <3>1
    <3>. QED BY <2>2, <3>1, <3>2, <3>3 DEF Settled
  <2>6. \A j \in Job : j # o[1] =>
          \A t \in Sched[j] : Settled(p, j, t) => Settled(p, j, t)'
    <3>. SUFFICES ASSUME NEW j \in Job, j # o[1], NEW t \in Sched[j], Settled(p, j, t)
                  PROVE  Settled(p, j, t)'
      OBVIOUS
    <3>1. \A u \in Sched[j] : <<j, u>> # o /\ <<j, u>> \in RunId
      BY <1>0
    <3>. QED BY <1>2, <2>2, <2>4, <3>1 DEF Settled
  <2>7. \A j \in Job : \A u \in Sched[j] : u >= table[p][j] => runs'[<<j, u>>] = "none"
    <3>. SUFFICES ASSUME NEW j \in Job, NEW u \in Sched[j], u >= table[p][j]
                  PROVE  runs'[<<j, u>>] = "none"
      OBVIOUS
    <3>1. runs[<<j, u>>] = "none" /\ <<j, u>> \in RunId
      BY <1>0 DEF Plan
    <3>2. <<j, u>> # o
      <4>1. SUFFICES ASSUME <<j, u>> = o PROVE FALSE
        OBVIOUS
      <4>2. o[1] = j /\ o[2] = u
        BY <4>1
      <4>3. table[p][j] > at[p]
        BY <1>0, <1>3, <4>2, NextOccurrenceBound
      <4>. QED BY <1>0, <1>3, <4>2, <4>3
    <3>. QED BY <2>2, <3>1, <3>2
  <2>8. \A x \in todo'[p] : /\ x \in todo[p] /\ x \in RunId
                            /\ runs'[x] = runs[x]
    BY <1>0, <1>2, <2>2, RunIdFacts
  <2>9. \A j \in disk.enabled : \A t \in Sched[j] : t < table[p][j] =>
          t <= now /\ (j \notin scan[p] => Settled(p, j, t)')
    <3>1. \A j \in disk.enabled : \A t \in Sched[j] : t < table[p][j] =>
            t <= now /\ (j \notin scan[p] => Settled(p, j, t))
      BY <1>2 DEF Plan
    <3>. QED BY <1>0, <2>5, <2>6, <3>1
  <2>10. Plan(p)'
    <3>1. /\ at'[p] <= now' /\ scan'[p] \subseteq disk'.enabled
          /\ pc'[p] \notin {"loaded", "recovered", "loop", "sleep"}
          /\ pc'[p] = "due" => scan'[p] = {}
      BY <1>2 DEF Plan
    <3>2. \A x \in todo'[p] : /\ x[2] <= at'[p]
                              /\ table'[p][x[1]] = NextOccurrence(x[1], at'[p])
                              /\ pc'[p] = "due" => runs'[x] = "none"
      BY <1>2, <2>8 DEF Plan
    <3>3. pc'[p] = "missed" =>
            \A j \in disk'.enabled : table'[p][j] = NextOccurrence(j, at'[p])
      BY <1>2 DEF Plan
    <3>. QED BY <1>2, <2>7, <2>9, <3>1, <3>2, <3>3 DEF Plan
  <2>11. RowsFollow'
    <3>1. at[p] <= now
      BY DEF Plan
    <3>. QED BY <1>0, <1>2, <1>3, <2>2, <3>1, RunIdFacts DEF RowsFollow
  <2>. QED BY <2>10, <2>11
<1>. QED BY <1>1, <1>4, <1>5

\* pop_due: each due job's entry is claimed once, and the entry that takes its
\* place is the first firing after everything that has elapsed.
LEMMA PlanPop ==
    ASSUME TypeOK, disk' = disk, NEW p \in Pid, Plan(p), Overlap(p), LoopTop(p)
    PROVE  SameRows /\ now' = now /\ Plan(p)'
<1>. USE DEF store, procs, plan, signals, env
<1>0. /\ now \in Nat /\ now \in Time /\ disk.enabled \subseteq Job
      /\ \A j \in Job : table[p][j] \in Nat /\ Sched[j] \subseteq Nat
      /\ \A j \in Job : \A u \in Sched[j] : <<j, u>> \in Occ /\ <<j, u>> \in RunId
  BY PlanTypes DEF TypeOK
<1>1. /\ pc[p] = "loop" /\ pc'[p] = "due" /\ at'[p] = now /\ scan'[p] = scan[p]
      /\ todo[p] = {} /\ todo'[p] = {<<j, table[p][j]>> : j \in DueJobs(p)}
      /\ \A j \in Job : table'[p][j] = IF table[p][j] <= now THEN NextOccurrence(j, now)
                                       ELSE table[p][j]
      /\ UNCHANGED <<runs, created, now, thread, lastSuccess, stamp>>
  BY DEF LoopTop, TypeOK, Overlap, DueJobs
<1>2. SameRows
  BY <1>1 DEF SameRows
<1>3. scan[p] = {}
  BY <1>1 DEF Plan
<1>4. \A j \in Job : \A u \in Sched[j] : u >= table[p][j] => runs[<<j, u>>] = "none"
  BY DEF Plan
<1>5. \A j \in DueJobs(p) : /\ j \in Job /\ table[p][j] <= now /\ table[p][j] \in Sched[j]
                            /\ table'[p][j] = NextOccurrence(j, now)
  <2>1. MaxTime \in Nat /\ now <= MaxTime
    BY <1>0, ConfigAssumption DEF Time
  <2>2. \A j \in Job : table[p][j] \in Sched[j] \cup {Never}
    BY DEF TypeOK
  <2>. QED BY <1>0, <1>1, <2>1, <2>2 DEF DueJobs, Never
<1>6. \A j \in Job : /\ NextOccurrence(j, now) \in Nat /\ NextOccurrence(j, now) > now
                     /\ \A u \in Sched[j] : u < NextOccurrence(j, now) => u <= now
  BY <1>0, NextOccurrenceBound
<1>7. \A x \in todo'[p] : /\ x[2] <= now /\ runs[x] = "none"
                          /\ table'[p][x[1]] = NextOccurrence(x[1], now)
  <2>. SUFFICES ASSUME NEW j \in DueJobs(p)
                PROVE  /\ table[p][j] <= now /\ runs[<<j, table[p][j]>>] = "none"
                       /\ table'[p][j] = NextOccurrence(j, now)
    BY <1>1
  <2>1. table[p][j] >= table[p][j]
    BY <1>0, <1>5
  <2>. QED BY <1>4, <1>5, <2>1
<1>8. \A j \in Job : \A u \in Sched[j] : u >= table'[p][j] => runs[<<j, u>>] = "none"
  <2>1. \A j \in Job : table'[p][j] >= table[p][j] /\ table'[p][j] \in Nat
    BY <1>0, <1>1, <1>6
  <2>. QED BY <1>0, <1>4, <2>1
<1>9. \A j \in disk.enabled : \A t \in Sched[j] : t < table'[p][j] =>
        t <= now /\ Settled(p, j, t)'
  <2>. SUFFICES ASSUME NEW j \in disk.enabled, NEW t \in Sched[j], t < table'[p][j]
                PROVE  t <= now /\ Settled(p, j, t)'
    OBVIOUS
  <2>1. CASE t < table[p][j]
    <3>1. t <= now /\ Settled(p, j, t)
      BY <1>1, <1>3, <2>1 DEF Plan
    <3>. QED BY <1>0, <1>1, <3>1 DEF Settled, Credited
  <2>2. CASE ~(t < table[p][j])
    <3>1. j \in DueJobs(p)
      BY <1>0, <1>1, <2>2 DEF DueJobs
    <3>2. t <= now
      BY <1>0, <1>5, <1>6, <3>1
    <3>3. <<j, table[p][j]>> \in todo'[p] /\ table[p][j] \in Sched[j]
      BY <1>1, <1>5, <3>1
    <3>. QED BY <1>1, <3>2, <3>3 DEF Settled
  <2>. QED BY <2>1, <2>2
<1>10. now <= now
  BY <1>0
<1>. QED BY <1>1, <1>2, <1>3, <1>7, <1>8, <1>9, <1>10 DEF Plan

\* The main thread keeps to the plan, whatever it does next.
LEMMA PlanMain ==
    ASSUME Undisturbed, TypeOK, Custody, \A p \in Pid : Overlap(p), Firings, disk' = disk,
           NEW p \in Pid, MainStep(p)
    PROVE  RowsFollow' /\ \A q \in Pid : Planned(q)' => Plan(q)'
<1>1. RowsFollow /\ Quiet /\ (Planned(p) => Plan(p)) /\ Overlap(p)
  BY DEF Firings
<1>2. CASE LoadConfig(p)
  BY <1>1, <1>2, PlanLoad, MainAlone
<1>3. CASE StartupFails(p) \/ RecordStopped(p)
  <2>1. pc'[p] = "exited" /\ UNCHANGED <<runs, created, now>>
    BY <1>3 DEF StartupFails, RecordStopped, TypeOK, store, env
  <2>2. ~Planned(p)'
    BY <2>1 DEF Planned
  <2>. QED BY <1>1, <2>1, <2>2, MainAlone DEF RowsFollow
<1>4. ASSUME Planned(p), SameRows /\ now' = now /\ Plan(p)'
      PROVE  RowsFollow' /\ \A q \in Pid : Planned(q)' => Plan(q)'
  BY <1>1, <1>4, RowsKept, MainAlone
<1>5. CASE \/ RecoverInterruptedRuns(p) \/ RecordDaemonStarted(p) \/ MissedDone(p)
           \/ Sleep(p) \/ WakeByTimeout(p) \/ ReceiveControl(p)
           \/ BeginStopping(p) \/ GraceExpires(p) \/ Drained(p)
  <2>1. Planned(p)
    BY <1>5
       DEF RecoverInterruptedRuns, RecordDaemonStarted, MissedDone, Sleep, WakeByTimeout,
           ReceiveControl, BeginStopping, GraceExpires, Drained, Planned
  <2>. QED BY <1>1, <1>4, <1>5, <2>1, PlanAlong
<1>6. CASE CloseUnexecuted(p)
  <2>1. Planned(p)
    BY <1>6 DEF CloseUnexecuted, Custody, ClosingOwnsRows, Planned
  <2>. QED BY <1>1, <1>4, <1>6, <2>1, PlanClose
<1>7. CASE ScanMissed(p)
  <2>1. Planned(p)
    BY <1>7 DEF ScanMissed, Planned
  <2>. QED BY <1>1, <1>4, <1>7, <2>1, PlanScan
<1>8. CASE Dispatch(p)
  <2>1. Planned(p)
    BY <1>8 DEF Dispatch, SkipClaimed, ClaimAndSpawn, ClaimToClose, Claiming, Planned
  <2>. QED BY <1>1, <1>8, <2>1, PlanClaim, MainAlone
<1>9. CASE LoopTop(p)
  <2>1. Planned(p)
    BY <1>9 DEF LoopTop, Planned
  <2>. QED BY <1>1, <1>4, <1>9, <2>1, PlanPop
<1>. QED BY <1>2, <1>3, <1>5, <1>6, <1>7, <1>8, <1>9 DEF MainStep

\* With the scan in reach of the whole history and nothing edited or failing,
\* every firing the table has moved past was answered: no occurrence slips between
\* a crash, the misses replayed at start-up, the table built from the same instant
\* and pop_due.
THEOREM FiringsAnswered == ASSUME Undisturbed PROVE Spec => []EveryFiringAnswered
<1>1. Init => Firings
  <2>. SUFFICES ASSUME Init PROVE Firings
    OBVIOUS
  <2>1. Quiet
    BY DEF Init, Quiet, Undisturbed
  <2>2. RowsFollow
    BY RunIdFacts DEF Init, RowsFollow
  <2>3. \A p \in Pid : ~Planned(p)
    BY DEF Init, Planned
  <2>. QED BY <2>1, <2>2, <2>3 DEF Firings
<1>2. TypeOK /\ Custody /\ (\A p \in Pid : Overlap(p)) /\ Firings /\ [Next]_vars => Firings'
  <2>. SUFFICES ASSUME TypeOK, Custody, \A p \in Pid : Overlap(p), Firings, [Next]_vars
                PROVE  Firings'
    OBVIOUS
  <2>1. Quiet' /\ disk' = disk
    BY QuietNext DEF Firings
  <2>2. RowsFollow' /\ \A p \in Pid : Planned(p)' => Plan(p)'
    BY <2>1, PlanMain, PlanThread, PlanEnvironment DEF Next
  <2>. QED BY <2>1, <2>2 DEF Firings
<1>3. Firings => EveryFiringAnswered
  <2>. SUFFICES ASSUME Firings, NEW p \in Pid, pc[p] \in {"loop", "due", "sleep"},
                       NEW j \in disk.enabled, NEW t \in Sched[j], t < table[p][j]
                PROVE  Answered(p, j, t)
    BY DEF EveryFiringAnswered
  <2>1. Settled(p, j, t)
    BY DEF Firings, Planned, Plan
  <2>. QED BY <2>1 DEF Settled, Credited, Answered
<1>4. ManualId = {} /\ Supervised
  BY DEF Undisturbed
<1>. QED BY <1>1, <1>2, <1>3, <1>4, TypeCorrect, CustodyHolds, NoOverlap, PTL DEF Spec

===============================================================================
