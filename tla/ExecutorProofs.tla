--------------------------- MODULE ExecutorProofs ---------------------------
(***************************************************************************)
(* What the executor keeps for every number of retries, with statements    *)
(* that may fail at any point.  The history invariant says what the rows   *)
(* hold at each place of the run thread; two more say which processes may  *)
(* be alive there, and what a reader that has ended has read.              *)
(***************************************************************************)
EXTENDS Executor, TLAPS

\* Where the run thread has a row for the attempt that is not finished, and where
\* it has decided how the attempt ended.
Working == {"spawn", "pid", "wait", "check", "grace", "join", "record"}
Decided == {"grace", "join", "record", "decide", "credit", "done"}

\* Rows of earlier attempts say "failed", there are none of later ones, and the
\* current one's follows the thread; the run's row closes last, in its words.
History ==
    /\ \A a \in Attempt : a < attempt => attempts[a] = "failed"
    /\ \A a \in Attempt : a > attempt => attempts[a] = "none"
    /\ pc \in {"mark", "attempt"} => attempts[attempt] = "none"
    /\ pc \in Working => attempts[attempt] = "running"
    /\ pc \in Decided => result \in Outcome
    /\ pc \in {"decide", "credit", "done"} => attempts[attempt] = result
    /\ pc \in {"credit", "done"} => row = result
    /\ row \in Outcome =>
         /\ pc \in {"credit", "done", "errored"}
         /\ attempts[attempt] = row
         /\ row = "failed" => attempt = job.retries + 1

\* An attempt's command is alive only while somebody waits for it, or when a failed
\* statement left it to itself; nothing runs for an attempt not yet spawned.
Processes ==
    /\ \A x \in alive : x[2] <= attempt
    /\ pc \in {"mark", "attempt", "spawn"} => \A x \in alive : x[2] < attempt
    /\ \A a \in Attempt : Leader(a) \in alive =>
         /\ a = attempt
         /\ \/ pc \in {"pid", "wait", "check", "grace"}
            \/ pc = "errored" /\ row \notin Outcome

\* A reader that came to the end has passed on all there was, and there is nobody
\* left to write more or to fork who could; when an attempt is recorded both have
\* ended.
Readers ==
    /\ \A s \in Stream : reader[s] = "eof" =>
         HoldsPipes(attempt) = {} /\ logged[s] = Len(printed[s])
    /\ pc \in {"record", "decide", "credit", "done"} =>
         \A s \in Stream : reader[s] \in {"eof", "cut"}

\* Types hold initially and after every step.
LEMMA TypeInductive ==
    ASSUME TypeOK, History, [Next]_vars
    PROVE  TypeOK'
<1>. USE ExecutorAssumption DEF TypeOK, Attempt, Outcome, PcValue, Goto, rows, sys
<1>. USE DEF output, ReaderPlace, Line
<1>1. CASE MarkRunning \/ SeeExit \/ PollTimesOut \/ CheckPasses \/ Terminate \/ GraceSuffices
  BY <1>1 DEF MarkRunning, SeeExit, PollTimesOut, CheckPasses, Terminate, GraceSuffices
<1>2. CASE StartAttempt \/ JoinReaders \/ UpdateOutcome
  BY <1>2 DEF StartAttempt, JoinReaders, UpdateOutcome
<1>0. ASSUME NEW place \in ReaderPlace, NewPipes(place)
      PROVE  /\ printed' \in [Stream -> Seq(Line)]
             /\ logged' \in [Stream -> Nat]
             /\ reader' \in [Stream -> ReaderPlace]
  BY <1>0 DEF NewPipes
<1>3. CASE Spawn
  <2>1. Leader(attempt) \in Process
    BY DEF Leader, Process, Kind
  <2>. QED BY <1>0, <1>3, <2>1 DEF Spawn
<1>13. CASE SpawnFails
  BY <1>0, <1>13 DEF SpawnFails
<1>14. CASE RecordPid
  BY <1>14 DEF RecordPid
<1>15. ASSUME NEW s \in Stream, ReaderStep(s) PROVE TypeOK'
  <2>1. logged' \in [Stream -> Nat] /\ reader' \in [Stream -> ReaderPlace]
    <3>1. /\ UNCHANGED logged \/ logged' = [logged EXCEPT ![s] = logged[s] + 1]
          /\ UNCHANGED reader \/ \E x \in ReaderPlace : reader' = [reader EXCEPT ![s] = x]
      BY <1>15 DEF ReaderStep, ReadLine, ReadEnd
    <3>2. logged[s] + 1 \in Nat
      OBVIOUS
    <3>3. logged' \in [Stream -> Nat]
      BY <3>1, <3>2
    <3>4. reader' \in [Stream -> ReaderPlace]
      <4>. HIDE DEF ReaderPlace, Stream
      <4>. QED BY <3>1
    <3>. QED BY <3>3, <3>4
  <2>2. UNCHANGED <<job, pc, attempt, result, rows, alive, printed, overdue, cancel>>
    BY <1>15 DEF ReaderStep, ReadLine, ReadEnd
  <2>. QED BY <2>1, <2>2
<1>4. CASE ForceKill
  BY <1>4 DEF ForceKill
<1>5. CASE RecordAttempt
  BY <1>5 DEF RecordAttempt, History, Decided
<1>6. CASE Retry
  BY <1>6 DEF Retry, Retrying
<1>7. CASE FinishRun
  BY <1>7 DEF FinishRun, History, Decided
<1>8. CASE StatementFails \/ DeadlinePasses \/ Cancel
  BY <1>8 DEF StatementFails, DeadlinePasses, Cancel
<1>9. CASE \E a \in Attempt : Fork(a)
  BY <1>9 DEF Fork, Process, Kind
<1>10. CASE \E x \in Process : Exit(x)
  BY <1>10 DEF Exit
<1>11. ASSUME NEW s \in Stream, PrintLine(s) PROVE TypeOK'
  <2>1. PICK l \in Line : printed' = [printed EXCEPT ![s] = Append(@, l)]
    BY <1>11 DEF PrintLine
  <2>2. Append(printed[s], l) \in Seq(Line)
    OBVIOUS
  <2>. QED BY <1>11, <2>1, <2>2 DEF PrintLine
<1>12. CASE UNCHANGED vars
  BY <1>12 DEF vars
<1>. QED BY <1>1, <1>2, <1>3, <1>4, <1>5, <1>6, <1>7, <1>8, <1>9, <1>10, <1>11, <1>12, <1>13,
            <1>14, <1>15
         DEF Next, ThreadStep, Environment

\* The rows follow the run thread.
LEMMA HistoryInductive ==
    ASSUME TypeOK, History, [Next]_vars
    PROVE  History'
<1>. USE ExecutorAssumption DEF History, Working, Decided, Outcome, Attempt, Goto, rows, sys
<1>1. CASE MarkRunning
  BY <1>1 DEF MarkRunning, TypeOK
<1>2. CASE StartAttempt
  BY <1>2 DEF StartAttempt, TypeOK
<1>3. CASE Spawn \/ SpawnFails \/ RecordPid
  BY <1>3 DEF Spawn, SpawnFails, RecordPid
<1>4. CASE SeeExit \/ PollTimesOut \/ CheckPasses \/ Terminate
  BY <1>4 DEF SeeExit, PollTimesOut, CheckPasses, Terminate
<1>5. CASE GraceSuffices \/ ForceKill \/ JoinReaders
  BY <1>5 DEF GraceSuffices, ForceKill, JoinReaders
<1>6. CASE RecordAttempt
  BY <1>6 DEF RecordAttempt, TypeOK
<1>7. CASE Retry
  BY <1>7 DEF Retry, Retrying, TypeOK
<1>8. CASE FinishRun
  BY <1>8 DEF FinishRun, Retrying, TypeOK
<1>9. CASE UpdateOutcome \/ StatementFails
  BY <1>9 DEF UpdateOutcome, StatementFails
<1>10. CASE Environment
  BY <1>10 DEF Environment, Fork, Exit, PrintLine, DeadlinePasses, Cancel
<1>11. CASE UNCHANGED vars
  BY <1>11 DEF vars
<1>12. CASE \E s \in Stream : ReaderStep(s)
  BY <1>12 DEF ReaderStep, ReadLine, ReadEnd
<1>. QED BY <1>1, <1>2, <1>3, <1>4, <1>5, <1>6, <1>7, <1>8, <1>9, <1>10, <1>11, <1>12
         DEF Next, ThreadStep

\* A step that changes no process and no attempt only has to go where the processes
\* allow.
LEMMA ProcessesInductive ==
    ASSUME TypeOK, History, Processes, [Next]_vars
    PROVE  Processes'
<1>. USE DEF Goto, rows, sys
<1>1. CASE MarkRunning \/ StartAttempt \/ RecordPid \/ PollTimesOut \/ CheckPasses \/ Terminate
  BY <1>1 DEF MarkRunning, StartAttempt, RecordPid, PollTimesOut, CheckPasses, Terminate,
     Processes, Outcome, Leader, TypeOK
<1>2. CASE Spawn
  <2>1. alive' = alive \cup {Leader(attempt)} /\ pc' = "pid" /\ UNCHANGED <<attempt, row>>
    BY <1>2 DEF Spawn
  <2>2. attempt \in Int /\ Leader(attempt)[2] = attempt
    BY ExecutorAssumption DEF TypeOK, Leader
  <2>3. \A a \in Attempt : Leader(a) \in alive => FALSE
    BY <1>2 DEF Spawn, Processes
  <2>4. \A a \in Attempt : Leader(a) = Leader(attempt) => a = attempt
    BY DEF Leader
  <2>. QED BY <2>1, <2>2, <2>3, <2>4 DEF Processes
<1>3. CASE SpawnFails
  BY <1>3 DEF SpawnFails, Processes, Leader
<1>4. CASE SeeExit \/ GraceSuffices \/ JoinReaders
  BY <1>4 DEF SeeExit, GraceSuffices, JoinReaders, Processes, Leader
<1>5. CASE ForceKill
  <2>1. alive' = alive \ Group(attempt) /\ pc' = "join" /\ UNCHANGED <<attempt, row>>
    BY <1>5 DEF ForceKill
  <2>2. Leader(attempt) \in Group(attempt)
    BY DEF Leader, Group
  <2>. QED BY <2>1, <2>2 DEF Processes
<1>6. CASE RecordAttempt \/ FinishRun \/ UpdateOutcome
  BY <1>6 DEF RecordAttempt, FinishRun, UpdateOutcome, Processes, Leader
<1>7. CASE Retry
  <2>1. attempt' = attempt + 1 /\ pc' = "attempt" /\ UNCHANGED <<alive, row>> /\ pc = "decide"
    BY <1>7 DEF Retry
  <2>2. attempt \in Int
    BY ExecutorAssumption DEF TypeOK
  <2>3. \A x \in alive : x[2] \in Int
    BY ExecutorAssumption DEF TypeOK, Process, Attempt
  <2>4. \A x \in alive : x[2] < attempt'
    BY <2>1, <2>2, <2>3 DEF Processes
  <2>5. \A a \in Attempt : Leader(a) \notin alive
    BY <2>1 DEF Processes
  <2>. QED BY <2>1, <2>2, <2>3, <2>4, <2>5 DEF Processes
<1>8. CASE StatementFails
  <2>1. pc' = "errored" /\ UNCHANGED <<alive, attempt, row>> /\ pc \notin {"done", "errored"}
    BY <1>8 DEF StatementFails
  <2>2. \A a \in Attempt : Leader(a) \in alive => row \notin Outcome
    BY <2>1 DEF Processes, History
  <2>. QED BY <2>1, <2>2 DEF Processes
<1>9. ASSUME NEW b \in Attempt, Fork(b) PROVE Processes'
  <2>1. PICK k \in Kind \ {"leader"} : alive' = alive \cup {<<k, b>>}
    BY <1>9 DEF Fork
  <2>2. UNCHANGED <<pc, attempt, row>>
    BY <1>9 DEF Fork
  <2>3. \E x \in alive : x[2] = b
    BY <1>9 DEF Fork, Leader
  <2>4. \A a \in Attempt : Leader(a) \in alive' <=> Leader(a) \in alive
    BY <2>1 DEF Leader
  <2>5. <<k, b>>[2] = b
    OBVIOUS
  <2>. QED BY <2>1, <2>2, <2>3, <2>4, <2>5 DEF Processes
<1>10. CASE \E x \in Process : Exit(x)
  <2>1. alive' \subseteq alive /\ UNCHANGED <<pc, attempt, row>>
    BY <1>10 DEF Exit
  <2>. QED BY <2>1 DEF Processes
<1>11. CASE \E s \in Stream : PrintLine(s) \/ ReaderStep(s)
  BY <1>11 DEF PrintLine, ReaderStep, ReadLine, ReadEnd, Processes, Leader
<1>12. CASE DeadlinePasses \/ Cancel \/ UNCHANGED vars
  BY <1>12 DEF DeadlinePasses, Cancel, vars, Processes, Leader
<1>. QED BY <1>1, <1>2, <1>3, <1>4, <1>5, <1>6, <1>7, <1>8, <1>9, <1>10, <1>11, <1>12
         DEF Next, ThreadStep, Environment

\* A reader at the end of its stream stays right: who could print is gone, and a
\* process that forks a holder of the pipes holds them itself.
LEMMA ReadersInductive ==
    ASSUME TypeOK, Processes, Readers, [Next]_vars
    PROVE  Readers'
<1>. USE DEF Goto, rows, sys, output
<1>. DEFINE Recorded == {"record", "decide", "credit", "done"}
<1>1. CASE /\ UNCHANGED <<attempt, output>> /\ alive' \subseteq alive
           /\ pc' \in Recorded => pc \in Recorded
  <2>1. HoldsPipes(attempt)' \subseteq HoldsPipes(attempt)
    BY <1>1 DEF HoldsPipes
  <2>. QED BY <1>1, <2>1 DEF Readers
<1>2. CASE Spawn \/ RecordPid
  BY <1>2 DEF Spawn, RecordPid, NewPipes, Readers
<1>3. CASE SpawnFails
  <2>1. HoldsPipes(attempt) = {}
    BY <1>3 DEF SpawnFails, Processes, HoldsPipes, TypeOK
  <2>. QED BY <1>3, <2>1 DEF SpawnFails, NewPipes, Readers, HoldsPipes
<1>4. CASE JoinReaders
  BY <1>4 DEF JoinReaders, Readers, HoldsPipes
<1>5. CASE Retry
  <2>1. attempt' = attempt + 1 /\ UNCHANGED <<alive, output>> /\ pc' = "attempt"
    BY <1>5 DEF Retry
  <2>2. attempt \in Int /\ \A x \in alive : x[2] \in Int /\ x[2] <= attempt
    BY ExecutorAssumption DEF TypeOK, Processes, Process, Attempt
  <2>3. \A x \in alive : x[2] # attempt'
    BY <2>1, <2>2
  <2>4. HoldsPipes(attempt)' = {}
    BY <2>1, <2>3 DEF HoldsPipes
  <2>. QED BY <2>1, <2>4 DEF Readers
<1>6. ASSUME NEW b \in Attempt, Fork(b) PROVE Readers'
  <2>1. PICK k \in Kind \ {"leader"} : alive' = alive \cup {<<k, b>>}
    BY <1>6 DEF Fork
  <2>2. UNCHANGED <<pc, attempt, output>>
    BY <1>6 DEF Fork
  <2>3. b = attempt => HoldsPipes(attempt) # {}
    BY <1>6 DEF Fork, HoldsPipes, Leader
  <2>4. b # attempt => HoldsPipes(attempt)' = HoldsPipes(attempt)
    BY <2>1, <2>2 DEF HoldsPipes
  <2>. QED BY <2>2, <2>3, <2>4 DEF Readers
<1>7. ASSUME NEW s \in Stream, PrintLine(s) PROVE Readers'
  <2>1. HoldsPipes(attempt)' = HoldsPipes(attempt) /\ HoldsPipes(attempt) # {}
    BY <1>7 DEF PrintLine, HoldsPipes
  <2>. QED BY <1>7, <2>1 DEF PrintLine, Readers
<1>8. ASSUME NEW s \in Stream, ReadLine(s) PROVE Readers'
  <2>1. HoldsPipes(attempt)' = HoldsPipes(attempt)
    BY <1>8 DEF ReadLine, HoldsPipes
  <2>. QED BY <1>8, <2>1 DEF ReadLine, Readers, TypeOK
<1>9. ASSUME NEW s \in Stream, ReadEnd(s) PROVE Readers'
  <2>1. HoldsPipes(attempt)' = {}
    BY <1>9 DEF ReadEnd, HoldsPipes
  <2>. QED BY <1>9, <2>1 DEF ReadEnd, Readers, TypeOK
<1>10. CASE \/ MarkRunning \/ StartAttempt \/ SeeExit \/ PollTimesOut \/ CheckPasses
           \/ Terminate \/ GraceSuffices \/ ForceKill
  BY <1>1, <1>10
     DEF MarkRunning, StartAttempt, SeeExit, PollTimesOut, CheckPasses, Terminate,
         GraceSuffices, ForceKill
<1>11. CASE RecordAttempt \/ FinishRun \/ UpdateOutcome \/ StatementFails
  BY <1>1, <1>11 DEF RecordAttempt, FinishRun, UpdateOutcome, StatementFails
<1>12. CASE (\E x \in Process : Exit(x)) \/ DeadlinePasses \/ Cancel \/ UNCHANGED vars
  BY <1>1, <1>12 DEF Exit, DeadlinePasses, Cancel, vars
<1>. QED BY <1>2, <1>3, <1>4, <1>5, <1>6, <1>7, <1>8, <1>9, <1>10, <1>11, <1>12
         DEF Next, ThreadStep, ReaderStep, Environment

\* The four hold together: the executor's inductive invariant.
Inv == TypeOK /\ History /\ Processes /\ Readers

\* The inductive invariant holds of every behaviour.
THEOREM ExecutorInvariant == Spec => []Inv
<1>1. Init => Inv
  <2>. SUFFICES ASSUME Init PROVE Inv
    OBVIOUS
  <2>1. TypeOK
    <3>1. job.retries \in Nat /\ attempt \in 1..(job.retries + 1)
      BY ExecutorAssumption DEF Init
    <3>2. attempts \in [Attempt -> {"none", "running"} \cup Outcome]
      BY DEF Init
    <3>3. /\ printed \in [Stream -> Seq(Line)]
          /\ logged \in [Stream -> Nat]
          /\ reader \in [Stream -> ReaderPlace]
      BY DEF Init, ReaderPlace
    <3>. QED BY <3>1, <3>2, <3>3 DEF Init, TypeOK, PcValue
  <2>2. History
    BY ExecutorAssumption DEF Init, History, Attempt, Working, Decided, Outcome
  <2>3. Processes
    BY DEF Init, Processes
  <2>4. Readers
    BY DEF Init, Readers
  <2>. QED BY <2>1, <2>2, <2>3, <2>4 DEF Inv
<1>2. Inv /\ [Next]_vars => Inv'
  BY TypeInductive, HistoryInductive, ProcessesInductive, ReadersInductive DEF Inv
<1>. QED BY <1>1, <1>2, PTL DEF Spec

\* Every variable keeps its type; the attempt number stays within the retries the
\* job allows.
THEOREM ExecutorTypes == Spec => []TypeOK
<1>1. Inv => TypeOK
  BY DEF Inv
<1>. QED BY <1>1, ExecutorInvariant, PTL

\* A run's outcome is its last attempt's, after failed ones only (executor.rs, the
\* loop of execute_run).
THEOREM LastAttemptDecides == Spec => []OutcomeIsTheLastAttempts
<1>1. Inv => OutcomeIsTheLastAttempts
  BY DEF Inv, History, OutcomeIsTheLastAttempts
<1>. QED BY <1>1, ExecutorInvariant, PTL

\* A failed run has used up its retries (executor.rs, the loop of execute_run).
THEOREM NoRetryLeft == Spec => []RetriesAreUsed
<1>1. Inv => RetriesAreUsed
  BY DEF Inv, History, RetriesAreUsed, Outcome
<1>. QED BY <1>1, ExecutorInvariant, PTL

\* Attempts do not overlap and none outlives the recorded outcome (executor.rs,
\* wait_loop and drain_after_kill).
THEOREM CommandsAreReaped == Spec => []OneCommandAtATime
<1>1. Inv => OneCommandAtATime
  BY DEF Inv, Processes, History, OneCommandAtATime, Outcome
<1>. QED BY <1>1, ExecutorInvariant, PTL

\* When an attempt is recorded every line printed to a stream has been read, whatever
\* descendants printed it, unless a garbled line cut its reader off (executor.rs,
\* spawn_reader and the joins of run_attempt).
THEOREM OutputComesFirst == Spec => []OutputIsWhole
<1>1. Inv => OutputIsWhole
  BY DEF Inv, Readers, OutputIsWhole
<1>. QED BY <1>1, ExecutorInvariant, PTL
=============================================================================
