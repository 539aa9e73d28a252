---------------------------- MODULE StoreProofs ----------------------------
(***************************************************************************)
(* The store's invariants for any number of processes, jobs and            *)
(* migrations, at any depth of interleaving.                               *)
(***************************************************************************)
EXTENDS Store, TLAPS

Complete(s) == Statements(s) \subseteq done

\* A process in the middle of a migration has everything behind it.
Migrating(p) ==
    /\ script[p] \in Script
    /\ stmt[p] \in 1 .. ScriptLen[script[p]] + 1
    /\ \A s \in Script : s < script[p] => Complete(s)
    /\ \A k \in 1 .. stmt[p] - 1 : <<script[p], k>> \in done

\* A process that is projecting has given a row to each job it is done with.
Projecting(p) ==
    /\ todo[p] \subseteq Listed(cfg[p])
    /\ \A j \in Listed(cfg[p]) \ todo[p] : rowState[j] # "none"

\* Once it has projected, each job of its config has a row.
Projected(p) == \A j \in Listed(cfg[p]) : rowState[j] # "none"

\* A run by hand is of a job that the command has found in its config.
Known(p) == Kind[p] = "run" => Target[p] \in Listed(cfg[p])

\* A command has read the config it is to project before it opens the database.
Opening(p) == Kind[p] # "daemon" => todo[p] = Listed(cfg[p])

Schema == /\ \A s \in Script : s <= version => Complete(s)
          /\ \A p \in Proc : pc[p] = "migrate" => Migrating(p)
Rows == \A p \in Proc :
          /\ pc[p] \in {"open", "migrate", "reconcile", "act"} => Known(p)
          /\ pc[p] \in {"open", "migrate"} => Opening(p)
          /\ pc[p] = "load" => Kind[p] = "daemon"
          /\ pc[p] = "reconcile" => Projecting(p)
          /\ pc[p] = "act" => Projected(p)
          /\ running[p] => rowState[Target[p]] # "none"
          /\ pc[p] = "noSuchJob" => cfg[p][Target[p]] = "absent"

StoreInv == TypeOK /\ Schema /\ Rows

-----------------------------------------------------------------------------
LEMMA InitStore == Init => StoreInv
<1> SUFFICES ASSUME Init PROVE StoreInv OBVIOUS
<1> USE StoreAssumption DEF Init
<1>1. TypeOK
  <2>1. 1 .. FirstVersion \subseteq Script BY DEF Script
  <2>2. done \subseteq UNION {Statements(s) : s \in Script} BY <2>1
  <2>3. cfg \in [Proc -> Config] BY DEF Config
  <2> QED BY <2>2, <2>3 DEF TypeOK
<1>2. Schema BY DEF Schema, Complete, Script
<1>3. Rows BY DEF Rows
<1> QED BY <1>1, <1>2, <1>3 DEF StoreInv

-----------------------------------------------------------------------------
\* Where a process goes on after a version it has read or set.
LEMMA ProceedTypes ==
  ASSUME TypeOK, NEW p \in Proc, NEW s \in 0 .. Latest, Proceed(p, s)
  PROVE  /\ pc' \in [Proc -> {"idle", "open", "migrate", "load", "reconcile", "act",
                              "known", "noSuchJob", "done", "refused", "failed", "dead"}]
         /\ script' \in [Proc -> 0 .. Latest] /\ stmt' \in [Proc -> Nat]
<1> USE StoreAssumption DEF TypeOK, Proceed, Goto
<1>1. CASE s < Latest
  <2>1. s + 1 \in 0 .. Latest BY <1>1
  <2> QED BY <1>1, <2>1
<1>2. CASE ~(s < Latest) BY <1>2
<1> QED BY <1>1, <1>2

LEMMA NextTypes == StoreInv /\ [Next]_vars => TypeOK'
<1> SUFFICES ASSUME TypeOK, Schema, Rows, [Next]_vars PROVE TypeOK' BY DEF StoreInv
<1> USE StoreAssumption DEF TypeOK, dbVars, procVars, vars, Goto
<1>1. CASE UNCHANGED vars BY <1>1
<1>2. CASE Edit BY <1>2 DEF Edit
<1>3. ASSUME NEW p \in Proc, LoadConfig(p) PROVE TypeOK' BY <1>3 DEF LoadConfig, Listed
<1>4. ASSUME NEW p \in Proc, ReadVersion(p) PROVE TypeOK'
  BY <1>4, ProceedTypes DEF ReadVersion
<1>5. ASSUME NEW p \in Proc, ExecuteStatement(p) PROVE TypeOK'
  <2>1. done' \subseteq UNION {Statements(s) : s \in Script}
    <3>1. CASE done' = done BY <3>1
    <3>2. CASE done' = done \cup {<<script[p], stmt[p]>>}
      <4>1. script[p] \in Script /\ stmt[p] \in 1 .. ScriptLen[script[p]]
        BY <1>5 DEF Schema, Migrating, ExecuteStatement
      <4>2. <<script[p], stmt[p]>> \in Statements(script[p]) BY <4>1 DEF Statements
      <4> QED BY <3>2, <4>1, <4>2
    <3> QED BY <1>5, <3>1, <3>2 DEF ExecuteStatement
  <2> QED BY <1>5, <2>1 DEF ExecuteStatement
<1>6. ASSUME NEW p \in Proc, SetVersion(p) PROVE TypeOK'
  <2>1. script[p] \in 0 .. Latest OBVIOUS
  <2> QED BY <1>6, <2>1, ProceedTypes DEF SetVersion
<1>7. ASSUME NEW p \in Proc, Upsert(p) PROVE TypeOK'
  <2>1. PICK j \in todo[p] : /\ rowState' = [rowState EXCEPT ![j] = cfg[p][j]]
                             /\ todo' = [todo EXCEPT ![p] = @ \ {j}]
    BY <1>7 DEF Upsert
  <2>2. j \in Listed(cfg[p]) BY <1>7, <2>1 DEF Upsert, Rows, Projecting
  <2>3. cfg[p][j] \in {"active", "disabled"} BY <2>2 DEF Listed, Config
  <2> QED BY <1>7, <2>1, <2>3 DEF Upsert
<1>8. ASSUME NEW p \in Proc, Reconciled(p) PROVE TypeOK' BY <1>8 DEF Reconciled
<1>9. ASSUME NEW p \in Proc, Read(p) PROVE TypeOK' BY <1>9 DEF Read
<1>10. ASSUME NEW p \in Proc, UpdateOutcome(p) PROVE TypeOK' BY <1>10 DEF UpdateOutcome
<1>11. ASSUME NEW p \in Proc, Fault(p) PROVE TypeOK' BY <1>11 DEF Fault
<1>12. ASSUME NEW p \in Proc, StartDaemon(p) PROVE TypeOK' BY <1>12 DEF StartDaemon
<1>13. ASSUME NEW p \in Proc, LoadValidated(p) PROVE TypeOK'
  BY <1>13 DEF LoadValidated, Listed
<1>14. ASSUME NEW p \in Proc, Reload(p) PROVE TypeOK' BY <1>14 DEF Reload
<1>15. ASSUME NEW p \in Proc, BeginRun(p) PROVE TypeOK' BY <1>15 DEF BeginRun
<1> QED BY <1>1, <1>2, <1>3, <1>4, <1>5, <1>6, <1>7, <1>8, <1>9, <1>10, <1>11, <1>12,
           <1>13, <1>14, <1>15
        DEF Next, Step

-----------------------------------------------------------------------------
\* Statements are never undone, so what a process has behind it stays.
LEMMA MigratingKept ==
  ASSUME NEW p \in Proc, Migrating(p), done \subseteq done',
         script'[p] = script[p], stmt'[p] = stmt[p]
  PROVE  Migrating(p)'
BY DEF Migrating, Complete

LEMMA DoneGrows == ASSUME [Next]_vars PROVE done \subseteq done'
BY DEF Next, Step, Edit, LoadConfig, ReadVersion, ExecuteStatement, SetVersion, Upsert,
       Reconciled, Read, UpdateOutcome, Fault, StartDaemon, LoadValidated, Reload,
       BeginRun, Proceed, vars, dbVars, procVars

\* Going on to the next migration, with all up to s in force.
LEMMA ProceedSchema ==
  ASSUME TypeOK, Schema, NEW p \in Proc, NEW s \in 0 .. Latest, Proceed(p, s),
         done' = done, \A t \in Script : t <= s => Complete(t)
  PROVE  \A q \in Proc : pc'[q] = "migrate" => Migrating(q)'
<1> SUFFICES ASSUME NEW q \in Proc, pc'[q] = "migrate" PROVE Migrating(q)' OBVIOUS
<1> USE StoreAssumption
<1>1. CASE q = p
  <2>1. s < Latest BY <1>1 DEF Proceed, Goto, TypeOK
  <2>2. script'[p] = s + 1 /\ stmt'[p] = 1 BY <2>1 DEF Proceed, TypeOK
  <2>3. s + 1 \in Script BY <2>1 DEF Script
  <2>4. ScriptLen[s + 1] \in Nat \ {0} BY <2>3
  <2>5. \A t \in Script : t < s + 1 => Complete(t)' BY DEF Complete, Script
  <2> QED BY <1>1, <2>2, <2>3, <2>4, <2>5 DEF Migrating
<1>2. CASE q # p
  <2>1. pc[q] = "migrate" /\ script'[q] = script[q] /\ stmt'[q] = stmt[q]
    BY <1>2 DEF Proceed, Goto, TypeOK
  <2> QED BY <2>1, MigratingKept DEF Schema
<1> QED BY <1>1, <1>2

LEMMA NextSchema == StoreInv /\ [Next]_vars => Schema'
<1> SUFFICES ASSUME TypeOK, Schema, [Next]_vars PROVE Schema' BY DEF StoreInv
<1>a. done \subseteq done' BY DoneGrows
\* Steps that leave the version and every migrating process where they are.
<1>b. ASSUME version' = version, script' = script, stmt' = stmt,
             \A q \in Proc : pc'[q] = "migrate" => pc[q] = "migrate"
      PROVE Schema'
  <2>1. \A s \in Script : s <= version => Complete(s)' BY <1>a DEF Schema, Complete
  <2>2. \A q \in Proc : pc'[q] = "migrate" => Migrating(q)'
    BY <1>a, <1>b, MigratingKept DEF Schema
  <2> QED BY <1>b, <2>1, <2>2 DEF Schema
<1>1. CASE UNCHANGED vars BY <1>1, <1>b DEF vars, dbVars, procVars
<1>2. CASE Edit BY <1>2, <1>b DEF Edit, dbVars, procVars
<1>3. ASSUME NEW p \in Proc, LoadConfig(p) PROVE Schema'
  BY <1>3, <1>b DEF LoadConfig, Goto, dbVars, TypeOK
<1>4. ASSUME NEW p \in Proc, ReadVersion(p) PROVE Schema'
  <2>1. \A t \in Script : t <= version => Complete(t) BY DEF Schema
  <2>2. \A q \in Proc : pc'[q] = "migrate" => Migrating(q)'
    BY <1>4, <2>1, ProceedSchema DEF ReadVersion, dbVars, TypeOK
  <2> QED BY <1>4, <2>1, <2>2 DEF ReadVersion, dbVars, Schema, Complete
<1>5. ASSUME NEW p \in Proc, ExecuteStatement(p) PROVE Schema'
  <2>1. CASE pc' # pc BY <1>5, <2>1, <1>b DEF ExecuteStatement, Goto, TypeOK
  <2>2. CASE pc' = pc
    <3>1. \A s \in Script : s <= version' => Complete(s)'
      BY <1>5, <1>a DEF ExecuteStatement, Schema, Complete
    <3>2. ASSUME NEW q \in Proc, pc'[q] = "migrate" PROVE Migrating(q)'
      <4>1. Migrating(q) BY <2>2, <3>2 DEF Schema
      <4>2. CASE stmt'[q] = stmt[q]
        BY <1>5, <1>a, <4>1, <4>2, MigratingKept DEF ExecuteStatement
      <4>3. CASE stmt'[q] # stmt[q]
        <5>1. q = p /\ stmt'[q] = stmt[q] + 1 /\ done' = done \cup {<<script[q], stmt[q]>>}
          BY <1>5, <4>3 DEF ExecuteStatement, TypeOK
        <5>2. stmt[q] \in Nat /\ stmt[q] <= ScriptLen[script[q]]
          BY <1>5, <5>1 DEF ExecuteStatement, TypeOK
        <5>3. ScriptLen[script[q]] \in Nat BY <4>1, StoreAssumption DEF Migrating
        <5>4. \A k \in 1 .. stmt[q] : <<script[q], k>> \in done'
          BY <4>1, <5>1, <5>2 DEF Migrating
        <5>5. \A s \in Script : s < script[q] => Complete(s)'
          BY <1>a, <4>1 DEF Migrating, Complete
        <5>6. stmt'[q] \in 1 .. ScriptLen[script[q]] + 1 BY <5>1, <5>2, <5>3, <4>1 DEF Migrating
        <5>7. script'[q] = script[q] BY <1>5 DEF ExecuteStatement
        <5>8. stmt'[q] - 1 = stmt[q] BY <5>1, <5>2
        <5> QED BY <4>1, <5>4, <5>5, <5>6, <5>7, <5>8 DEF Migrating
      <4> QED BY <4>2, <4>3
    <3> QED BY <3>1, <3>2 DEF Schema
  <2> QED BY <2>1, <2>2
<1>6. ASSUME NEW p \in Proc, SetVersion(p) PROVE Schema'
  <2>1. Migrating(p) BY <1>6 DEF SetVersion, Schema
  <2>2. script[p] \in Script /\ ScriptLen[script[p]] \in Nat
    BY <2>1, StoreAssumption DEF Migrating
  <2>3. stmt[p] - 1 = ScriptLen[script[p]]
    BY <1>6, <2>1, <2>2 DEF SetVersion, Migrating, TypeOK
  <2>4. Complete(script[p]) BY <2>1, <2>3 DEF Migrating, Complete, Statements
  <2>5. \A t \in Script : t <= script[p] => Complete(t)
    BY <2>1, <2>2, <2>4 DEF Migrating, Script
  <2>6. done' = done /\ version' = script[p] BY <1>6 DEF SetVersion
  <2>7. \A q \in Proc : pc'[q] = "migrate" => Migrating(q)'
    BY <1>6, <2>2, <2>5, <2>6, ProceedSchema DEF SetVersion, Script, TypeOK
  <2> QED BY <2>5, <2>6, <2>7 DEF Schema, Complete
<1>7. ASSUME NEW p \in Proc, Upsert(p) PROVE Schema' BY <1>7, <1>b DEF Upsert
<1>8. ASSUME NEW p \in Proc, Reconciled(p) PROVE Schema'
  BY <1>8, <1>b DEF Reconciled, Goto, dbVars, TypeOK
<1>9. ASSUME NEW p \in Proc, Read(p) PROVE Schema'
  BY <1>9, <1>b DEF Read, Goto, dbVars, TypeOK
<1>10. ASSUME NEW p \in Proc, UpdateOutcome(p) PROVE Schema'
  BY <1>10, <1>b DEF UpdateOutcome, Goto, TypeOK
<1>11. ASSUME NEW p \in Proc, Fault(p) PROVE Schema'
  BY <1>11, <1>b DEF Fault, Goto, dbVars, TypeOK
<1>12. ASSUME NEW p \in Proc, StartDaemon(p) PROVE Schema'
  BY <1>12, <1>b DEF StartDaemon, Goto, dbVars, TypeOK
<1>13. ASSUME NEW p \in Proc, LoadValidated(p) PROVE Schema'
  BY <1>13, <1>b DEF LoadValidated, Goto, dbVars, TypeOK
<1>14. ASSUME NEW p \in Proc, Reload(p) PROVE Schema'
  BY <1>14, <1>b DEF Reload, Goto, dbVars, TypeOK
<1>15. ASSUME NEW p \in Proc, BeginRun(p) PROVE Schema'
  BY <1>15, <1>b DEF BeginRun, dbVars
<1> QED BY <1>1, <1>2, <1>3, <1>4, <1>5, <1>6, <1>7, <1>8, <1>9, <1>10, <1>11, <1>12,
           <1>13, <1>14, <1>15
        DEF Next, Step

-----------------------------------------------------------------------------
\* Nobody takes a row away.
LEMMA RowsStay ==
  ASSUME TypeOK, Rows, [Next]_vars, NEW j \in Job, rowState[j] # "none"
  PROVE  rowState'[j] # "none"
<1>1. CASE rowState' = rowState BY <1>1
<1>2. ASSUME NEW p \in Proc, Upsert(p) PROVE rowState'[j] # "none"
  <2>1. PICK i \in todo[p] : rowState' = [rowState EXCEPT ![i] = cfg[p][i]]
    BY <1>2 DEF Upsert
  <2>2. i \in Listed(cfg[p]) BY <1>2, <2>1 DEF Upsert, Rows, Projecting
  <2>3. cfg[p][i] # "none" BY <2>2 DEF Listed, TypeOK, Config
  <2> QED BY <2>1, <2>3 DEF TypeOK
<1> QED BY <1>1, <1>2
        DEF Next, Step, Edit, LoadConfig, ReadVersion, ExecuteStatement, SetVersion,
            Reconciled, Read, UpdateOutcome, Fault, StartDaemon, LoadValidated, Reload,
            BeginRun, vars, dbVars

\* What holds of a process's rows, by where it is.
RowsOf(p) ==
  /\ pc[p] \in {"open", "migrate", "reconcile", "act"} => Known(p)
  /\ pc[p] \in {"open", "migrate"} => Opening(p)
  /\ pc[p] = "load" => Kind[p] = "daemon"
  /\ pc[p] = "reconcile" => Projecting(p)
  /\ pc[p] = "act" => Projected(p)
  /\ running[p] => rowState[Target[p]] # "none"
  /\ pc[p] = "noSuchJob" => cfg[p][Target[p]] = "absent"

\* A process that does not move keeps it, whatever the others do.
LEMMA RowsOfKept ==
  ASSUME TypeOK, Rows, [Next]_vars, NEW q \in Proc,
         pc'[q] = pc[q], cfg'[q] = cfg[q], todo'[q] = todo[q], running'[q] => running[q]
  PROVE  RowsOf(q)'
<1>1. RowsOf(q) BY DEF Rows, RowsOf
<1>2. Listed(cfg[q]) \subseteq Job BY DEF Listed
<1>3. \A j \in Listed(cfg[q]) : rowState[j] # "none" => rowState'[j] # "none"
  BY <1>2, RowsStay
<1>4. Target[q] \in Job BY StoreAssumption
<1>5. running[q] => rowState'[Target[q]] # "none" BY <1>1, <1>4, RowsStay DEF RowsOf
<1> QED BY <1>1, <1>3, <1>5 DEF RowsOf, Known, Opening, Projecting, Projected

LEMMA ProceedRows ==
  ASSUME TypeOK, NEW p \in Proc, NEW s \in 0 .. Latest, Proceed(p, s), RowsOf(p),
         pc[p] \in {"open", "migrate"},
         cfg' = cfg, todo' = todo, running' = running, rowState' = rowState
  PROVE  RowsOf(p)'
<1>1. Known(p) /\ Opening(p) BY DEF RowsOf
<1>2. /\ pc'[p] \in {"migrate", "load", "reconcile"}
      /\ pc'[p] = "load" => Kind[p] = "daemon"
  BY DEF Proceed, Goto, TypeOK
<1>3. pc'[p] = "reconcile" => todo[p] = Listed(cfg[p])
  BY <1>1 DEF Proceed, Goto, TypeOK, Opening
<1>4. (running[p] => rowState[Target[p]] # "none")' BY DEF RowsOf
<1> QED BY <1>1, <1>2, <1>3, <1>4 DEF RowsOf, Known, Opening, Projecting

LEMMA NextRows == StoreInv /\ [Next]_vars => Rows'
<1> SUFFICES ASSUME TypeOK, Schema, Rows, [Next]_vars, NEW q \in Proc PROVE RowsOf(q)'
  BY DEF StoreInv, Rows, RowsOf
<1>a. RowsOf(q) BY DEF Rows, RowsOf
<1>1. CASE UNCHANGED vars BY <1>1, RowsOfKept DEF vars, procVars
<1>2. CASE Edit BY <1>2, RowsOfKept DEF Edit, procVars
\* A step of another process.
<1>3. ASSUME NEW p \in Proc, Step(p) \/ Reload(p) \/ Fault(p), p # q PROVE RowsOf(q)'
  <2>1. /\ pc'[q] = pc[q] /\ cfg'[q] = cfg[q] /\ todo'[q] = todo[q]
        /\ running'[q] = running[q]
    BY <1>3 DEF Step, LoadConfig, ReadVersion, ExecuteStatement, SetVersion, Upsert,
                Reconciled, Read, UpdateOutcome, Fault, StartDaemon, LoadValidated,
                Reload, BeginRun, Proceed, Goto, dbVars, TypeOK
  <2> QED BY <2>1, RowsOfKept
\* Its own steps; a run that goes on has its row.
<1>b. ASSUME running'[q] => running[q] PROVE running'[q] => rowState'[Target[q]] # "none"
  <2>1. Target[q] \in Job BY StoreAssumption
  <2> QED BY <1>a, <1>b, <2>1, RowsStay DEF RowsOf
<1>4. CASE LoadConfig(q)
  <2>1. Target[q] \in Job BY StoreAssumption
  <2>2. cfg'[q] = config /\ todo'[q] = Listed(config) /\ pc'[q] \in {"refused", "open"}
        /\ running' = running
    BY <1>4 DEF LoadConfig, Goto, TypeOK
  <2>3. pc'[q] = "open" => Known(q)'
    BY <1>4, <2>1, <2>2 DEF LoadConfig, Goto, TypeOK, Known, Listed
  <2>4. Opening(q)' BY <2>2 DEF Opening, Listed
  <2> QED BY <1>b, <2>2, <2>3, <2>4 DEF RowsOf
<1>5. CASE ReadVersion(q)
  BY <1>5, <1>a, ProceedRows DEF ReadVersion, dbVars, TypeOK
<1>6. CASE ExecuteStatement(q)
  <2>1. /\ cfg' = cfg /\ todo' = todo /\ running' = running
        /\ pc'[q] \in {"migrate", "failed"} /\ pc[q] = "migrate"
    BY <1>6 DEF ExecuteStatement, Goto, TypeOK
  <2> QED BY <2>1, <1>a, <1>b DEF RowsOf, Known, Opening
<1>7. CASE SetVersion(q)
  BY <1>7, <1>a, ProceedRows DEF SetVersion, TypeOK
<1>8. CASE Upsert(q)
  <2>1. PICK j \in todo[q] : /\ rowState' = [rowState EXCEPT ![j] = cfg[q][j]]
                             /\ todo' = [todo EXCEPT ![q] = @ \ {j}]
    BY <1>8 DEF Upsert
  <2>2. pc[q] = "reconcile" /\ pc' = pc /\ cfg' = cfg /\ running' = running
    BY <1>8 DEF Upsert
  <2>3. Projecting(q) /\ Known(q) BY <1>a, <2>2 DEF RowsOf
  <2>4. j \in Listed(cfg[q]) /\ Listed(cfg[q]) \subseteq Job
    BY <2>1, <2>3 DEF Projecting, Listed
  <2>5. todo'[q] = todo[q] \ {j} BY <2>1 DEF TypeOK
  <2>6. rowState'[j] = cfg[q][j] /\ cfg[q][j] # "none"
    BY <2>1, <2>4 DEF TypeOK, Config
  <2>7. \A i \in Listed(cfg[q]) \ todo[q] : rowState'[i] # "none"
    BY <2>3, <2>4, RowsStay DEF Projecting
  <2>8. Projecting(q)'
    BY <2>2, <2>3, <2>5, <2>6, <2>7 DEF Projecting
  <2> QED BY <1>b, <2>2, <2>3, <2>8 DEF RowsOf, Known
<1>9. CASE Reconciled(q)
  <2>1. pc[q] = "reconcile" /\ todo[q] = {} /\ pc'[q] = "act" /\ cfg' = cfg
        /\ rowState' = rowState /\ running' = running
    BY <1>9 DEF Reconciled, Goto, dbVars, TypeOK
  <2> QED BY <1>a, <1>b, <2>1 DEF RowsOf, Known, Projecting, Projected
<1>10. CASE Read(q)
  <2>1. /\ pc[q] = "act" /\ cfg' = cfg /\ running' = running
        /\ pc'[q] \in {"noSuchJob", "known"}
    BY <1>10 DEF Read, Goto, TypeOK
  <2>2. pc'[q] = "noSuchJob" => rowState[Target[q]] = "none"
    BY <1>10 DEF Read, Goto, TypeOK
  <2>3. Target[q] \in Job BY StoreAssumption
  <2>4. pc'[q] = "noSuchJob" => cfg[q][Target[q]] = "absent"
    BY <1>a, <2>1, <2>2, <2>3 DEF RowsOf, Projected, Listed
  <2> QED BY <1>b, <2>1, <2>4 DEF RowsOf
<1>11. CASE UpdateOutcome(q)
  <2>1. ~running'[q] /\ cfg' = cfg /\ todo' = todo
    BY <1>11 DEF UpdateOutcome, TypeOK
  <2>2. CASE Kind[q] = "run"
    BY <1>11, <2>1, <2>2 DEF UpdateOutcome, Goto, TypeOK, RowsOf
  <2>3. CASE Kind[q] # "run"
    <3>1. pc'[q] = pc[q] BY <1>11, <2>3 DEF UpdateOutcome, Goto, TypeOK
    <3> QED BY <2>1, <3>1, RowsOfKept
  <2> QED BY <2>2, <2>3
<1>12. CASE Fault(q)
  BY <1>12 DEF Fault, Goto, TypeOK, RowsOf
<1>13. CASE StartDaemon(q)
  <2>1. pc'[q] = "open" /\ Kind[q] = "daemon" /\ running' = running
    BY <1>13 DEF StartDaemon, Goto, TypeOK
  <2> QED BY <1>b, <2>1 DEF RowsOf, Known, Opening
<1>14. CASE LoadValidated(q)
  <2>1. /\ pc'[q] = "reconcile" /\ cfg'[q] = config /\ todo'[q] = Listed(config)
        /\ pc[q] = "load" /\ running' = running
    BY <1>14 DEF LoadValidated, Goto, TypeOK
  <2>2. Kind[q] = "daemon" BY <1>a, <2>1 DEF RowsOf
  <2>3. Projecting(q)' BY <2>1 DEF Projecting, Listed
  <2> QED BY <1>b, <2>1, <2>2, <2>3 DEF RowsOf, Known
<1>15. CASE Reload(q)
  <2>1. pc'[q] = "load" /\ Kind[q] = "daemon" /\ running' = running
    BY <1>15 DEF Reload, Goto, TypeOK
  <2> QED BY <1>b, <2>1 DEF RowsOf
<1>16. CASE BeginRun(q)
  <2>1. pc[q] = "act" /\ pc' = pc /\ cfg' = cfg /\ todo' = todo /\ rowState' = rowState
    BY <1>16 DEF BeginRun, dbVars
  <2>2. Target[q] \in Listed(cfg[q])
    BY <1>16, <1>a, <2>1, StoreAssumption DEF BeginRun, RowsOf, Known, Listed
  <2> QED BY <1>a, <2>1, <2>2 DEF RowsOf, Known, Projected
<1> QED BY <1>1, <1>2, <1>3, <1>4, <1>5, <1>6, <1>7, <1>8, <1>9, <1>10, <1>11, <1>12,
           <1>13, <1>14, <1>15, <1>16
        DEF Next, Step

-----------------------------------------------------------------------------
\* The inductive invariant: a migrating process has every earlier migration and the
\* statements before its own behind it, and a projecting one a row for each job it is
\* done with, which no other process takes away.
THEOREM StoreInvariant == Spec => []StoreInv
<1>1. StoreInv /\ [Next]_vars => StoreInv' BY NextTypes, NextSchema, NextRows DEF StoreInv
<1> QED BY InitStore, <1>1, PTL DEF Spec

\* Whoever migrates beside whom and dies where, the version read by `current` in
\* migrate never claims more than is in force.
THEOREM SchemaIsComplete == Spec => []VersionMatchesSchema
<1>1. StoreInv => VersionMatchesSchema
  BY DEF StoreInv, Schema, VersionMatchesSchema, Complete
<1> QED BY <1>1, StoreInvariant, PTL

\* update_job_outcome finds the row that a reconcile gave the job before the run was
\* begun, though the config has been edited and reloaded since.
THEOREM OutcomesLand == Spec => []OutcomeFindsItsRow
<1>1. StoreInv => OutcomeFindsItsRow BY DEF StoreInv, Rows, OutcomeFindsItsRow
<1> QED BY <1>1, StoreInvariant, PTL

\* The reads of main.rs refuse no job that their config has.
THEOREM NoSuchJobIsRight == Spec => []NoSuchJobIsTrue
<1>1. StoreInv => NoSuchJobIsTrue BY DEF StoreInv, Rows, NoSuchJobIsTrue
<1> QED BY <1>1, StoreInvariant, PTL
=============================================================================
