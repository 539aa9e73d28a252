-------------------------- MODULE SupervisionProofs --------------------------
(***************************************************************************)
(* The daemon under a service manager, for any number of process ids,      *)
(* staleness bound, heartbeat interval and start limit: what the row of    *)
(* daemon_state says of the service, what `daemon stop` may conclude from  *)
(* reading it key by key, and when systemd gives up.                       *)
(***************************************************************************)
EXTENDS Supervision, TLAPS

PhaseValue == Daemon \cup {"free", "other"}
CmdValue == {"idle", "readState", "readHeartbeat", "kill", "signalled", "notRunning",
             "stray", "error"}
StateValue == {Missing, "running", "stopping", "stopped"}
RowValue == [pid : Pid \cup {Missing}, state : StateValue, hb : Age \cup {Missing}]

Budget == [crashes : 0 .. MaxCrashes, reuses : 0 .. MaxReuses, edits : 0 .. MaxEdits]

Types ==
    /\ manager \in {"systemd", "launchd"} /\ due \in BOOLEAN
    /\ starts \in Nat /\ failed \in BOOLEAN
    /\ pid \in Pid \cup {Missing} /\ state \in StateValue /\ hb \in Age \cup {Missing}
    /\ phase \in [Pid -> PhaseValue] /\ got \in [Pid -> RowValue]
    /\ sleep \in [Pid -> Nat] /\ term \in SUBSET Pid
    /\ cmd \in CmdValue /\ read \in RowValue
    /\ whole \in BOOLEAN /\ downSeen \in BOOLEAN
    /\ broken \in BOOLEAN /\ loadFailed \in BOOLEAN /\ budget \in Budget

\* The manager runs one daemon at a time, and none while a start is due.
OneService ==
    /\ \A p, q \in Pid : phase[p] \in Daemon /\ phase[q] \in Daemon => p = q
    /\ due => \A p \in Pid : phase[p] \notin Daemon

\* What a daemon has read is still so, and what it has recorded is its own; while
\* it is up its heartbeat, with the time it will yet sleep, is within the interval.
RowFollows ==
    \A p \in Pid :
        /\ phase[p] \in {"readState", "readHeartbeat"} => got[p].pid = pid /\ pid # Missing
        /\ phase[p] = "readHeartbeat" => got[p].state = state
        /\ phase[p] \in {"recordState", "recordHeartbeat", "loop", "asleep"} => pid = p
        /\ phase[p] \in {"recordHeartbeat", "loop", "asleep"} => state = "running"
        /\ phase[p] \in {"loop", "asleep"} => hb # Missing /\ hb <= Interval
        /\ phase[p] = "asleep" => hb + sleep[p] <= Interval

\* Stop is about to signal the daemon that is up, or there was none meanwhile.
Conclusions ==
    /\ whole => hb # Missing
    /\ cmd \in {"readState", "readHeartbeat", "kill"} =>
         /\ read.pid \in Pid
         /\ downSeen \/ phase[read.pid] \in {"loop", "asleep"}
    /\ cmd = "readHeartbeat" => downSeen \/ read.state = "running"
    /\ cmd = "notRunning" => downSeen
    /\ cmd = "error" => ~whole

\* A start will be refused: the row cannot be read, or says that a daemon lives.
Blocked == pid # Missing /\ (hb = Missing \/ (state = "running" /\ hb <= StaleAfter))

\* Under systemd every start since the last tick but the current one has crashed,
\* found the configuration broken or been refused; after a refusal the row stands
\* until the next tick.
Spent == MaxCrashes - budget.crashes
Attempts ==
    manager = "systemd" =>
        /\ due => starts <= Spent \/ Blocked \/ loadFailed
        /\ \A p \in Pid : phase[p] \in Reading => starts <= Spent + 1 \/ Blocked \/ loadFailed
        /\ \A p \in Pid : phase[p] \in Daemon \ Reading => starts <= Spent + 1 \/ loadFailed

Inv == Types /\ OneService /\ RowFollows /\ Conclusions /\ Attempts

-----------------------------------------------------------------------------
\* kill(pid) meets a daemon that is up, one on its way, another program or nobody.
LEMMA KillCases ==
    ASSUME Types, Conclusions, StopKills
    PROVE  /\ cmd = "kill" /\ read.pid \in Pid /\ UNCHANGED <<row, read, env>>
           /\ \/ /\ cmd' = "signalled" /\ term' = term \cup {read.pid}
                 /\ UNCHANGED <<managerVars, phase, got, sleep>>
              \/ /\ phase[read.pid] \in Starting
                 /\ cmd' = "signalled" /\ Ended(read.pid, FALSE)
              \/ /\ phase[read.pid] \in {"free", "other"}
                 /\ cmd' = (IF phase[read.pid] = "free" THEN "notRunning" ELSE "stray")
                 /\ UNCHANGED <<managerVars, procVars>>
<1>1. cmd = "kill" /\ read.pid \in Pid /\ UNCHANGED <<row, read, env>>
  BY DEF StopKills, Conclusions
<1>2. phase[read.pid] \in PhaseValue
  BY <1>1 DEF Types
<1>3. CASE phase[read.pid] \in {"loop", "asleep", "draining"}
  BY <1>1, <1>3 DEF StopKills, Starting, Reading, Recording
<1>4. CASE phase[read.pid] \in Starting
  <2>1. phase[read.pid] \notin {"loop", "asleep", "draining"}
    BY <1>4 DEF Starting, Reading, Recording
  <2>. QED BY <1>1, <1>4, <2>1 DEF StopKills, Starting, Reading, Recording
<1>5. CASE phase[read.pid] \in {"free", "other"}
  BY <1>1, <1>5 DEF StopKills, Starting, Reading, Recording
<1>. QED BY <1>1, <1>2, <1>3, <1>4, <1>5 DEF PhaseValue, Daemon

\* A process that ends leaves the typed state typed.
LEMMA EndedTypes ==
    ASSUME Types, NEW p \in Pid, NEW failure \in BOOLEAN, Ended(p, failure)
    PROVE  /\ phase' \in [Pid -> PhaseValue] /\ got' \in [Pid -> RowValue]
           /\ sleep' \in [Pid -> Nat] /\ term' \in SUBSET Pid /\ due' \in BOOLEAN
           /\ UNCHANGED <<manager, starts, failed>>
<1>1. "free" \in PhaseValue /\ Blank \in RowValue
  BY DEF PhaseValue, Blank, RowValue, StateValue
<1>2. due' \in BOOLEAN
  <2>1. due' = (manager = "launchd" \/ failure)
    BY DEF Ended
  <2>. QED BY <2>1, Zenon
<1>3. /\ phase' \in [Pid -> PhaseValue] /\ got' \in [Pid -> RowValue]
      /\ sleep' \in [Pid -> Nat] /\ term' \in SUBSET Pid
  BY <1>1 DEF Ended, Types
<1>. QED BY <1>2, <1>3 DEF Ended

LEMMA TypesStep ==
    ASSUME Types, Conclusions, Next
    PROVE  Types'
<1>. USE SupervisionAssumption DEF managerVars, row, procVars, cmdVars, env
<1>1. {StaleAfter, Interval, MaxWake, MaxCrashes, MaxReuses, MaxEdits} \subseteq Nat
  OBVIOUS
<1>2. whole' \in BOOLEAN /\ downSeen' \in BOOLEAN /\ loadFailed' \in BOOLEAN
  <2>1. loadFailed' = (starts' # 0 /\ (loadFailed \/ \E p \in Pid : LoadFails(p)))
    BY DEF Next, Witness
  <2>2. loadFailed' \in BOOLEAN
    BY <2>1, Zenon
  <2>. QED BY <2>2 DEF Next, Witness, Types
<1>3. ASSUME NEW p \in Pid, StartService(p) PROVE Types'
  <2>1. "readPid" \in PhaseValue
    BY DEF PhaseValue, Daemon, Starting, Reading
  <2>2. /\ phase' = [phase EXCEPT ![p] = "readPid"] /\ starts' = starts + 1 /\ due' = FALSE
        /\ UNCHANGED <<manager, failed, row, got, sleep, term, cmdVars, env>>
    BY <1>3 DEF StartService
  <2>3. phase' \in [Pid -> PhaseValue]
    BY <2>1, <2>2 DEF Types
  <2>4. starts' \in Nat
    BY <2>2 DEF Types
  <2>5. due' \in BOOLEAN
    BY <2>2
  <2>. QED BY <1>2, <2>2, <2>3, <2>4, <2>5 DEF Types
<1>4. CASE GiveUp
  BY <1>2, <1>4 DEF GiveUp, Types
<1>5. ASSUME NEW p \in Pid, ReadPid(p) \/ ReadState(p) PROVE Types'
  <2>1. got' \in [Pid -> RowValue]
    BY <1>5 DEF ReadPid, ReadState, Types, RowValue
  <2>2. phase' \in [Pid -> PhaseValue]
    BY <1>5
       DEF ReadPid, ReadState, Types, PhaseValue, Daemon, Starting, Reading, Recording
  <2>. QED BY <1>2, <1>5, <2>1, <2>2 DEF ReadPid, ReadState, Types
<1>6. ASSUME NEW p \in Pid, ReadHeartbeat(p) PROVE Types'
  <2>1. CASE Ended(p, TRUE)
    BY <1>2, <1>6, <2>1, EndedTypes DEF ReadHeartbeat, Types
  <2>2. CASE /\ phase' = [phase EXCEPT ![p] = "load"] /\ got' = [got EXCEPT ![p] = Blank]
             /\ UNCHANGED <<managerVars, sleep, term>>
    <3>1. "load" \in PhaseValue /\ Blank \in RowValue
      BY DEF PhaseValue, Daemon, Starting, Blank, RowValue, StateValue
    <3>. QED BY <1>2, <1>6, <2>2, <3>1 DEF ReadHeartbeat, Types
  <2>. QED BY <1>6, <2>1, <2>2 DEF ReadHeartbeat
<1>15. ASSUME NEW p \in Pid, Load(p) PROVE Types'
  <2>1. phase' \in [Pid -> PhaseValue]
    BY <1>15 DEF Load, Types, PhaseValue, Daemon, Starting, Recording
  <2>. QED BY <1>2, <1>15, <2>1 DEF Load, Types
<1>16. ASSUME NEW p \in Pid, LoadFails(p) PROVE Types'
  BY <1>2, <1>16, EndedTypes DEF LoadFails, Types
<1>17. CASE EditConfig
  <2>1. budget' \in Budget
    <3>1. MaxEdits \in Nat /\ budget.edits \in 0 .. MaxEdits
      BY <1>1 DEF Types, Budget
    <3>2. budget.edits > 0 => budget.edits - 1 \in 0 .. MaxEdits
      BY <3>1
    <3>. QED BY <1>17, <3>2 DEF EditConfig, Types, Budget
  <2>2. broken' \in BOOLEAN
    <3>1. broken' = ~broken
      BY <1>17 DEF EditConfig
    <3>. QED BY <3>1, Zenon
  <2>. QED BY <1>2, <1>17, <2>1, <2>2 DEF EditConfig, Types
<1>7. ASSUME NEW p \in Pid, RecordPid(p) \/ RecordState(p) \/ RecordHeartbeat(p) PROVE Types'
  <2>1. phase' \in [Pid -> PhaseValue]
    BY <1>7
       DEF RecordPid, RecordState, RecordHeartbeat, Types, PhaseValue, Daemon, Starting,
           Recording
  <2>2. pid' \in Pid \cup {Missing} /\ state' \in StateValue /\ hb' \in Age \cup {Missing}
    <3>1. "running" \in StateValue /\ 0 \in Age
      BY <1>1 DEF StateValue, Age
    <3>. QED BY <1>7, <3>1 DEF RecordPid, RecordState, RecordHeartbeat, Types
  <2>. QED BY <1>2, <1>7, <2>1, <2>2 DEF RecordPid, RecordState, RecordHeartbeat, Types
<1>8. ASSUME NEW p \in Pid, Beat(p) PROVE Types'
  <2>1. PICK wake \in 1 .. MaxWake : sleep' = [sleep EXCEPT ![p] = SleepUntil(wake)]
    BY <1>8 DEF Beat
  <2>2. SleepUntil(wake) \in Nat /\ 0 \in Age
    BY <1>1 DEF SleepUntil, Age
  <2>. QED BY <1>2, <1>8, <2>1, <2>2 DEF Beat, Types, PhaseValue, Daemon
<1>9. ASSUME NEW p \in Pid, Wake(p) \/ LeaveLoop(p) \/ Reuse(p) \/ Vanish(p) PROVE Types'
  <2>1. phase' \in [Pid -> PhaseValue] /\ sleep' \in [Pid -> Nat]
    BY <1>9 DEF Wake, LeaveLoop, Reuse, Vanish, Types, PhaseValue, Daemon
  <2>2. state' \in StateValue /\ budget' \in Budget
    <3>1. MaxReuses \in Nat /\ budget.reuses \in 0 .. MaxReuses
      BY <1>1 DEF Types, Budget
    <3>2. budget.reuses > 0 => budget.reuses - 1 \in 0 .. MaxReuses
      BY <3>1
    <3>. QED BY <1>9, <3>2 DEF Wake, LeaveLoop, Reuse, Vanish, Types, StateValue, Budget
  <2>. QED BY <1>2, <1>9, <2>1, <2>2 DEF Wake, LeaveLoop, Reuse, Vanish, Types
<1>10. ASSUME NEW p \in Pid, Exit(p) \/ Crash(p) PROVE Types'
  <2>1. \E failure \in BOOLEAN : Ended(p, failure)
    BY <1>10 DEF Exit, Crash
  <2>2. state' \in StateValue /\ budget' \in Budget
    <3>1. "stopped" \in StateValue /\ MaxCrashes \in Nat /\ budget.crashes \in 0 .. MaxCrashes
      BY <1>1 DEF StateValue, Types, Budget
    <3>2. budget.crashes > 0 => budget.crashes - 1 \in 0 .. MaxCrashes
      BY <3>1
    <3>. QED BY <1>10, <3>1, <3>2 DEF Exit, Crash, Types, Budget
  <2>. QED BY <1>2, <1>10, <2>1, <2>2, EndedTypes DEF Exit, Crash, Types
<1>11. CASE StopReadsPid \/ StopReadsState
  <2>1. read' \in RowValue
    BY <1>11 DEF StopReadsPid, StopReadsState, Types, RowValue, Blank, StateValue
  <2>. QED BY <1>2, <1>11, <2>1 DEF StopReadsPid, StopReadsState, Types, CmdValue
<1>12. CASE StopReadsHeartbeat
  <2>1. read' \in RowValue
    BY <1>12 DEF StopReadsHeartbeat, Types, RowValue
  <2>2. cmd' \in {"error", "kill", "notRunning"}
    BY <1>12 DEF StopReadsHeartbeat
  <2>. QED BY <1>2, <1>12, <2>1, <2>2 DEF StopReadsHeartbeat, Types, CmdValue
<1>13. CASE StopKills
  <2>1. cmd' \in CmdValue
    BY <1>13, KillCases DEF CmdValue
  <2>2. CASE Ended(read.pid, FALSE)
    BY <1>2, <1>13, <2>1, <2>2, KillCases, EndedTypes DEF Types
  <2>3. CASE /\ term' \in {term, term \cup {read.pid}}
             /\ UNCHANGED <<managerVars, phase, got, sleep>>
    BY <1>2, <1>13, <2>1, <2>3, KillCases DEF Types
  <2>. QED BY <1>13, <2>2, <2>3, KillCases
<1>14. CASE Tick
  <2>1. hb' \in Age \cup {Missing} /\ sleep' \in [Pid -> Nat]
    <3>1. \A p \in Pid : (IF sleep[p] > 0 THEN sleep[p] - 1 ELSE 0) \in Nat
      BY DEF Types
    <3>2. hb' \in Age \cup {Missing}
      BY <1>1, <1>14 DEF Tick, Types, Age
    <3>. QED BY <1>14, <3>1, <3>2 DEF Tick
  <2>2. read' \in RowValue
    BY <1>14 DEF Tick, Blank, RowValue, StateValue
  <2>. QED BY <1>2, <1>14, <2>1, <2>2 DEF Tick, Types, CmdValue
<1>. QED
  BY <1>3, <1>4, <1>5, <1>6, <1>7, <1>8, <1>9, <1>10, <1>11, <1>12, <1>13, <1>14, <1>15,
     <1>16, <1>17
     DEF Next, Step, Process, Command

-----------------------------------------------------------------------------
\* One service at a time

\* A process that moves, starts where there is no service, or ends.
LEMMA ServiceMove ==
    ASSUME Types, OneService, NEW p \in Pid, NEW x, phase' = [phase EXCEPT ![p] = x],
           \/ phase[p] \in Daemon /\ (x \in Daemon => due' = due)
           \/ Service = {} /\ due' = FALSE
           \/ x \notin Daemon /\ due' = due
    PROVE  OneService'
<1>1. \A q \in Pid : phase'[q] = IF q = p THEN x ELSE phase[q]
  BY DEF Types
<1>2. Service = {} => \A q \in Pid : phase[q] \notin Daemon
  BY DEF Service
<1>. QED BY <1>1, <1>2 DEF OneService

\* While there is a service, no other process becomes one; and once it is up, none
\* other is.
LEMMA ServiceAlone ==
    ASSUME Types, OneService, Conclusions, Step, NEW p \in Pid, phase[p] \in Daemon
    PROVE  \A q \in Pid : q # p => phase'[q] \notin Daemon
<1>1. \A q \in Pid : q # p => phase[q] \notin Daemon
  BY DEF OneService
<1>2. ASSUME NEW q \in Pid, Process(q) \/ Crash(q) PROVE q = p /\ \E x : phase' = [phase EXCEPT ![p] = x]
  <2>1. phase[q] \in Daemon /\ \E x : phase' = [phase EXCEPT ![q] = x]
    BY <1>2
       DEF Process, ReadPid, ReadState, ReadHeartbeat, Load, LoadFails, RecordPid,
           RecordState, RecordHeartbeat, Beat, Wake, LeaveLoop, Exit, Crash, Ended, Daemon, Starting,
           Reading, Recording
  <2>2. q = p
    BY <1>1, <2>1
  <2>. QED BY <2>1, <2>2
<1>3. \A q \in Pid : ~StartService(q)
  BY DEF StartService, Service
<1>4. ASSUME NEW q \in Pid, Reuse(q) \/ Vanish(q)
      PROVE  \E x : x \notin Daemon /\ phase' = [phase EXCEPT ![q] = x]
  BY <1>4 DEF Reuse, Vanish, Daemon, Starting, Reading, Recording
<1>5. CASE Command
  <2>1. CASE StopReadsPid \/ StopReadsState \/ StopReadsHeartbeat
    BY <1>1, <2>1 DEF StopReadsPid, StopReadsState, StopReadsHeartbeat, procVars
  <2>2. CASE StopKills
    <3>1. phase' = phase \/ phase' = [phase EXCEPT ![read.pid] = "free"]
      BY <2>2, KillCases DEF Ended, procVars
    <3>2. "free" \notin Daemon
      BY DEF Daemon, Starting, Reading, Recording
    <3>. QED BY <1>1, <3>1, <3>2 DEF Types
  <2>. QED BY <1>5, <2>1, <2>2 DEF Command
<1>6. CASE GiveUp \/ Tick \/ EditConfig
  BY <1>1, <1>6 DEF GiveUp, Tick, EditConfig, procVars
<1>7. ASSUME NEW q \in Pid, Process(q) \/ Crash(q) PROVE \A r \in Pid : r # p => phase'[r] = phase[r]
  BY <1>2, <1>7 DEF Types
<1>8. ASSUME NEW q \in Pid, Reuse(q) \/ Vanish(q)
      PROVE  \A r \in Pid : r # p => phase'[r] \notin Daemon
  <2>1. PICK x : x \notin Daemon /\ phase' = [phase EXCEPT ![q] = x]
    BY <1>4, <1>8
  <2>. QED BY <1>1, <2>1 DEF Types
<1>. QED BY <1>1, <1>3, <1>5, <1>6, <1>7, <1>8 DEF Step

LEMMA OneServiceStep ==
    ASSUME Types, OneService, Conclusions, Step
    PROVE  OneService'
<1>. USE DEF managerVars, procVars, env
<1>0. "free" \notin Daemon /\ "other" \notin Daemon
  BY DEF Daemon, Starting, Reading, Recording
<1>1. ASSUME NEW p \in Pid, Process(p) \/ Crash(p) PROVE OneService'
  <2>1. /\ phase[p] \in Daemon
        /\ \E x : phase' = [phase EXCEPT ![p] = x] /\ (x \in Daemon => due' = due)
    BY <1>0, <1>1
       DEF Process, ReadPid, ReadState, ReadHeartbeat, Load, LoadFails, RecordPid,
           RecordState, RecordHeartbeat, Beat, Wake, LeaveLoop, Exit, Crash, Ended, Daemon, Starting,
           Reading, Recording
  <2>. QED BY <2>1, ServiceMove
<1>2. ASSUME NEW p \in Pid, StartService(p) PROVE OneService'
  BY <1>2, ServiceMove DEF StartService
<1>3. ASSUME NEW p \in Pid, Reuse(p) \/ Vanish(p) PROVE OneService'
  BY <1>0, <1>3, ServiceMove DEF Reuse, Vanish
<1>4. CASE StopKills
  <2>1. read.pid \in Pid
    BY <1>4, KillCases
  <2>2. CASE phase[read.pid] \in Starting /\ Ended(read.pid, FALSE)
    BY <1>0, <2>1, <2>2, ServiceMove DEF Ended, Daemon
  <2>3. CASE UNCHANGED <<managerVars, phase>>
    BY <2>3 DEF OneService
  <2>. QED BY <1>4, <2>2, <2>3, KillCases
<1>5. CASE GiveUp \/ EditConfig
  BY <1>5 DEF GiveUp, EditConfig, OneService
<1>6. CASE StopReadsPid \/ StopReadsState \/ StopReadsHeartbeat \/ Tick
  BY <1>6 DEF StopReadsPid, StopReadsState, StopReadsHeartbeat, Tick, OneService
<1>. QED BY <1>1, <1>2, <1>3, <1>4, <1>5, <1>6 DEF Step, Command

-----------------------------------------------------------------------------
\* The row follows the service

\* The four comparisons a proof makes with the row and the clock.
LEMMA RowTypes ==
    ASSUME Types
    PROVE  /\ StaleAfter \in Nat /\ Interval \in Nat /\ Interval < StaleAfter
           /\ hb # Missing => hb \in Nat /\ hb <= StaleAfter + 1
           /\ Missing \notin Nat /\ Missing \notin Pid
           /\ \A p \in Pid : sleep[p] \in Nat
BY SupervisionAssumption DEF Types, Age

\* Only the service's own clause is in play.
LEMMA RowOfService ==
    ASSUME Types, OneService, Conclusions, RowFollows, Step, NEW p \in Pid, phase[p] \in Daemon,
           /\ phase'[p] \in {"readState", "readHeartbeat"} => got'[p].pid = pid' /\ pid' # Missing
           /\ phase'[p] = "readHeartbeat" => got'[p].state = state'
           /\ phase'[p] \in {"recordState", "recordHeartbeat", "loop", "asleep"} => pid' = p
           /\ phase'[p] \in {"recordHeartbeat", "loop", "asleep"} => state' = "running"
           /\ phase'[p] \in {"loop", "asleep"} => hb' # Missing /\ hb' <= Interval
           /\ phase'[p] = "asleep" => hb' + sleep'[p] <= Interval
    PROVE  RowFollows'
<1>1. \A q \in Pid : q # p => phase'[q] \notin Daemon
  BY ServiceAlone
<1>. QED BY <1>1 DEF RowFollows, Daemon, Starting, Reading, Recording

LEMMA RowFollowsStep ==
    ASSUME Types, OneService, Conclusions, RowFollows, Step
    PROVE  RowFollows'
<1>. USE DEF managerVars, row, procVars, cmdVars, env
<1>0. /\ StaleAfter \in Nat /\ Interval \in Nat /\ Interval < StaleAfter
      /\ hb # Missing => hb \in Nat /\ hb <= StaleAfter + 1
      /\ Missing \notin Nat /\ Missing \notin Pid
      /\ \A p \in Pid : sleep[p] \in Nat
  BY RowTypes
<1>1. ASSUME NEW p \in Pid, Process(p) PROVE RowFollows'
  <2>1. phase[p] \in Daemon /\ p \in DOMAIN phase /\ p \in DOMAIN got /\ p \in DOMAIN sleep
    BY <1>1
       DEF Process, ReadPid, ReadState, ReadHeartbeat, Load, LoadFails, RecordPid,
           RecordState, RecordHeartbeat, Beat, Wake, LeaveLoop, Exit, Daemon, Starting, Reading, Recording,
           Types
  <2>2. CASE ReadPid(p)
    <3>1. /\ phase'[p] = IF pid = Missing THEN "load" ELSE "readState"
          /\ got'[p].pid = pid /\ UNCHANGED row
      BY <2>1, <2>2 DEF ReadPid, Types, RowValue
    <3>2. phase'[p] = "readState" => pid # Missing
      BY <3>1
    <3>3. phase'[p] \in {"load", "readState"}
      BY <3>1
    <3>. QED BY <2>1, <3>1, <3>2, <3>3, RowOfService
  <2>3. CASE ReadState(p)
    <3>1. /\ phase'[p] = "readHeartbeat" /\ got'[p].pid = got[p].pid /\ got'[p].state = state
          /\ UNCHANGED row /\ phase[p] = "readState"
      BY <2>1, <2>3 DEF ReadState, Types, RowValue
    <3>2. got[p].pid = pid /\ pid # Missing
      BY <3>1 DEF RowFollows
    <3>. QED BY <2>1, <3>1, <3>2, RowOfService
  <2>4. CASE ReadHeartbeat(p) \/ Load(p) \/ LoadFails(p) \/ Exit(p)
    <3>1. phase'[p] \in {"free", "load", "recordPid"}
      BY <2>1, <2>4 DEF ReadHeartbeat, Load, LoadFails, Exit, Ended
    <3>. QED BY <2>1, <3>1, RowOfService
  <2>5. CASE RecordPid(p)
    <3>1. phase'[p] = "recordState" /\ pid' = p
      BY <2>1, <2>5 DEF RecordPid
    <3>. QED BY <2>1, <3>1, RowOfService
  <2>6. CASE RecordState(p)
    <3>1. phase'[p] = "recordHeartbeat" /\ pid' = pid /\ pid = p /\ state' = "running"
      BY <2>1, <2>6 DEF RecordState, RowFollows
    <3>. QED BY <2>1, <3>1, RowOfService
  <2>7. CASE RecordHeartbeat(p)
    <3>1. /\ phase'[p] = "loop" /\ phase[p] = "recordHeartbeat" /\ hb' = 0
          /\ UNCHANGED <<pid, state, sleep>>
      BY <2>1, <2>7 DEF RecordHeartbeat
    <3>2. pid = p /\ state = "running"
      BY <3>1 DEF RowFollows
    <3>. QED BY <1>0, <2>1, <3>1, <3>2, RowOfService
  <2>8. CASE Beat(p)
    <3>1. PICK wake \in 1 .. MaxWake : sleep' = [sleep EXCEPT ![p] = SleepUntil(wake)]
      BY <2>8 DEF Beat
    <3>2. SleepUntil(wake) \in Nat /\ SleepUntil(wake) <= Interval
      BY <1>0, SupervisionAssumption DEF SleepUntil
    <3>3. /\ phase'[p] = "asleep" /\ phase[p] = "loop" /\ hb' = 0 /\ UNCHANGED <<pid, state>>
          /\ sleep'[p] = SleepUntil(wake)
      BY <2>1, <2>8, <3>1 DEF Beat
    <3>4. hb' # Missing /\ hb' <= Interval /\ hb' + sleep'[p] <= Interval
      BY <1>0, <3>2, <3>3
    <3>5. pid = p /\ state = "running"
      BY <3>3 DEF RowFollows
    <3>. QED BY <2>1, <3>3, <3>4, <3>5, RowOfService
  <2>9. CASE Wake(p)
    <3>1. /\ phase'[p] = "loop" /\ phase[p] = "asleep" /\ UNCHANGED row /\ sleep'[p] = 0
      BY <2>1, <2>9 DEF Wake
    <3>2. pid = p /\ state = "running" /\ hb # Missing /\ hb <= Interval
      BY <3>1 DEF RowFollows
    <3>. QED BY <2>1, <3>1, <3>2, RowOfService
  <2>10. CASE LeaveLoop(p)
    <3>1. phase'[p] = "draining"
      BY <2>1, <2>10 DEF LeaveLoop
    <3>. QED BY <2>1, <3>1, RowOfService
  <2>. QED BY <1>1, <2>2, <2>3, <2>4, <2>5, <2>6, <2>7, <2>8, <2>9, <2>10 DEF Process
<1>2. ASSUME NEW p \in Pid, Crash(p) PROVE RowFollows'
  <2>1. phase[p] \in Daemon /\ phase'[p] = "free"
    BY <1>2 DEF Crash, Ended, Types
  <2>. QED BY <2>1, RowOfService
<1>3. ASSUME NEW p \in Pid, StartService(p) PROVE RowFollows'
  <2>1. \A q \in Pid : phase'[q] \notin Daemon \/ phase'[q] = "readPid"
    BY <1>3 DEF StartService, Service, Types
  <2>. QED BY <2>1 DEF RowFollows, Daemon, Starting, Reading, Recording
<1>4. ASSUME NEW p \in Pid, Reuse(p) \/ Vanish(p) PROVE RowFollows'
  <2>1. /\ UNCHANGED <<row, got, sleep>>
        /\ \A q \in Pid : phase'[q] = phase[q] \/ phase'[q] \in {"other", "free"}
    BY <1>4 DEF Reuse, Vanish, Types
  <2>. QED BY <2>1 DEF RowFollows
<1>5. CASE StopKills
  <2>1. read.pid \in Pid /\ UNCHANGED row
    BY <1>5, KillCases
  <2>2. CASE phase[read.pid] \in Starting /\ Ended(read.pid, FALSE)
    <3>1. phase[read.pid] \in Daemon /\ phase'[read.pid] = "free"
      BY <2>1, <2>2 DEF Ended, Daemon, Types
    <3>. QED BY <2>1, <3>1, RowOfService
  <2>3. CASE UNCHANGED <<phase, got, sleep>>
    BY <2>1, <2>3 DEF RowFollows
  <2>. QED BY <1>5, <2>2, <2>3, KillCases
<1>6. CASE GiveUp \/ EditConfig \/ StopReadsPid \/ StopReadsState \/ StopReadsHeartbeat
  BY <1>6 DEF GiveUp, EditConfig, StopReadsPid, StopReadsState, StopReadsHeartbeat, RowFollows
<1>7. CASE Tick
  <2>1. /\ UNCHANGED <<pid, state, phase, got>>
        /\ hb' = IF hb = Missing \/ hb = StaleAfter + 1 THEN hb ELSE hb + 1
        /\ \A p \in Pid : sleep'[p] = IF sleep[p] > 0 THEN sleep[p] - 1 ELSE 0
    BY <1>7 DEF Tick
  <2>2. ASSUME NEW p \in Pid, phase[p] \in {"loop", "asleep"}
        PROVE  hb' # Missing /\ hb' <= Interval /\ hb' + sleep'[p] <= Interval
    <3>1. phase[p] = "asleep" /\ sleep[p] > 0
      BY <1>7, <2>2 DEF Tick, Quiet
    <3>2. hb # Missing /\ hb <= Interval /\ hb + sleep[p] <= Interval
      BY <3>1 DEF RowFollows
    <3>3. hb \in Nat /\ sleep[p] \in Nat /\ hb # StaleAfter + 1
      BY <1>0, <3>2
    <3>4. hb' = hb + 1 /\ sleep'[p] = sleep[p] - 1
      BY <2>1, <3>1, <3>2, <3>3
    <3>. QED BY <1>0, <3>1, <3>2, <3>3, <3>4
  <2>. QED BY <2>1, <2>2 DEF RowFollows
<1>. QED BY <1>1, <1>2, <1>3, <1>4, <1>5, <1>6, <1>7 DEF Step, Command

-----------------------------------------------------------------------------
\* What stop concludes

\* The row of a daemon that is up is whole and fresh.
LEMMA UpIsRecorded ==
    ASSUME Types, RowFollows, Up
    PROVE  /\ pid \in Pid /\ phase[pid] \in {"loop", "asleep"}
           /\ state = "running" /\ hb # Missing /\ hb <= Interval
BY DEF Up, RowFollows

\* A key once written never goes, and the service that is up stays up, unless none is.
LEMMA UpStays ==
    ASSUME Types, OneService, RowFollows, Conclusions, Step
    PROVE  /\ hb # Missing => hb' # Missing
           /\ \A p \in Pid : phase[p] \in {"loop", "asleep"} =>
                phase'[p] \in {"loop", "asleep"} \/ ~Up'
<1>. USE DEF managerVars, row, procVars, cmdVars, env
<1>1. hb' = hb \/ hb' = 0 \/ hb' = hb + 1
  BY KillCases
     DEF Step, GiveUp, EditConfig, Command, StopReadsPid, StopReadsState, StopReadsHeartbeat, Tick,
         StartService, Process, ReadPid, ReadState, ReadHeartbeat, Load, LoadFails, RecordPid,
         RecordState, RecordHeartbeat, Beat, Wake, LeaveLoop, Exit, Crash, Reuse, Vanish
<1>2. ASSUME NEW p \in Pid, phase[p] \in {"loop", "asleep"}
      PROVE  phase'[p] \in {"loop", "asleep"} \/ ~Up'
  <2>1. \A q \in Pid : q # p => phase'[q] \notin Daemon
    BY <1>2, ServiceAlone DEF Daemon
  <2>. QED BY <2>1 DEF Up, Daemon
<1>. QED BY <1>1, <1>2, RowTypes

LEMMA ConclusionsStep ==
    ASSUME Types, OneService, RowFollows, Conclusions, Next
    PROVE  Conclusions'
<1>. USE DEF managerVars, row, procVars, cmdVars, env
<1>0. Step /\ Witness
  BY DEF Next
<1>1. whole' => hb' # Missing
  BY <1>0, UpStays DEF Witness, Conclusions
<1>2. cmd # "idle" => whole' = whole /\ (downSeen \/ ~Up' => downSeen')
  BY <1>0 DEF Witness
<1>3. cmd = "idle" => (~Up \/ ~Up' => downSeen')
  BY <1>0 DEF Witness
<1>4. CASE UNCHANGED <<cmd, read>>
  <2>1. cmd' \in {"readState", "readHeartbeat", "kill"} =>
          read'.pid \in Pid /\ (downSeen' \/ phase'[read'.pid] \in {"loop", "asleep"})
    BY <1>0, <1>2, <1>4, UpStays DEF Conclusions
  <2>. QED BY <1>1, <1>2, <1>4, <2>1 DEF Conclusions
<1>5. CASE StopReadsPid
  <2>1. /\ cmd = "idle" /\ read'.pid = pid /\ UNCHANGED phase
        /\ cmd' = IF pid = Missing THEN "notRunning" ELSE "readState"
    BY <1>5 DEF StopReadsPid, Blank
  <2>2. CASE pid = Missing
    <3>1. ~Up
      BY <2>2, UpIsRecorded, RowTypes
    <3>. QED BY <1>1, <1>3, <2>1, <2>2, <3>1 DEF Conclusions
  <2>3. CASE pid # Missing
    <3>1. pid \in Pid
      BY <2>3 DEF Types
    <3>2. downSeen' \/ phase[pid] \in {"loop", "asleep"}
      BY <1>3, <2>1, UpIsRecorded
    <3>. QED BY <1>1, <2>1, <2>3, <3>1, <3>2 DEF Conclusions
  <2>. QED BY <2>2, <2>3
<1>6. CASE StopReadsState
  <2>1. /\ cmd = "readState" /\ cmd' = "readHeartbeat" /\ UNCHANGED phase
        /\ read' = [read EXCEPT !.state = state]
    BY <1>6 DEF StopReadsState
  <2>2. read'.pid = read.pid /\ read'.state = state
    BY <2>1 DEF Types, RowValue
  <2>3. Up' <=> Up
    BY <2>1 DEF Up
  <2>4. downSeen' \/ state = "running"
    BY <1>2, <2>1, <2>3, UpIsRecorded
  <2>5. read.pid \in Pid /\ (downSeen' \/ phase[read.pid] \in {"loop", "asleep"})
    BY <1>2, <2>1 DEF Conclusions
  <2>. QED BY <1>1, <2>1, <2>2, <2>4, <2>5 DEF Conclusions
<1>7. CASE StopReadsHeartbeat
  <2>1. /\ cmd = "readHeartbeat" /\ UNCHANGED <<phase, hb>>
        /\ read' = [read EXCEPT !.hb = hb]
        /\ cmd' = CASE Unparsable(read') -> "error"
                    [] Live(read') -> "kill"
                    [] OTHER -> "notRunning"
    BY <1>7 DEF StopReadsHeartbeat
  <2>2. read'.pid = read.pid /\ read'.state = read.state /\ read'.hb = hb /\ read.pid \in Pid
    BY <2>1 DEF Types, RowValue, Conclusions
  <2>3. read.pid # Missing
    BY <2>2, RowTypes
  <2>4. Up' <=> Up
    BY <2>1 DEF Up
  <2>5. CASE hb = Missing
    <3>1. cmd' = "error"
      BY <2>1, <2>2, <2>3, <2>5 DEF Unparsable, Live
    <3>2. ~whole'
      BY <1>1, <2>1, <2>5
    <3>. QED BY <1>1, <3>1, <3>2 DEF Conclusions
  <2>6. CASE hb # Missing /\ Live(read')
    <3>1. cmd' = "kill"
      BY <2>1, <2>2, <2>6 DEF Unparsable
    <3>2. downSeen' \/ phase[read.pid] \in {"loop", "asleep"}
      BY <1>2, <2>1 DEF Conclusions
    <3>. QED BY <1>1, <2>1, <2>2, <3>1, <3>2 DEF Conclusions
  <2>7. CASE hb # Missing /\ ~Live(read')
    <3>1. cmd' = "notRunning"
      BY <2>1, <2>2, <2>7 DEF Unparsable
    <3>2. read.state # "running" \/ hb > StaleAfter
      BY <2>2, <2>3, <2>7 DEF Live, Stale
    <3>3. downSeen'
      <4>1. CASE read.state # "running"
        BY <1>2, <2>1, <4>1 DEF Conclusions
      <4>2. CASE hb > StaleAfter
        <5>1. ~(hb <= Interval)
          BY <2>7, <4>2, RowTypes
        <5>2. ~Up
          BY <5>1, UpIsRecorded
        <5>. QED BY <1>2, <2>1, <2>4, <5>2
      <4>. QED BY <3>2, <4>1, <4>2
    <3>. QED BY <1>1, <3>1, <3>3 DEF Conclusions
  <2>. QED BY <2>5, <2>6, <2>7
<1>8. CASE StopKills
  <2>1. /\ cmd = "kill" /\ cmd' \in {"signalled", "notRunning", "stray"}
        /\ cmd' = "notRunning" => phase[read.pid] \in {"free", "other"}
    BY <1>8, KillCases
  <2>2. downSeen \/ phase[read.pid] \in {"loop", "asleep"}
    BY <2>1 DEF Conclusions
  <2>. QED BY <1>1, <1>2, <2>1, <2>2 DEF Conclusions
<1>9. CASE Tick
  <2>1. cmd' = "idle"
    BY <1>9 DEF Tick
  <2>. QED BY <1>1, <2>1 DEF Conclusions
<1>. QED
  BY <1>0, <1>4, <1>5, <1>6, <1>7, <1>8, <1>9
     DEF Step, GiveUp, EditConfig, Command, StartService, Process, ReadPid, ReadState,
         ReadHeartbeat, Load, LoadFails,
         RecordPid, RecordState, RecordHeartbeat, Beat, Wake, LeaveLoop, Exit, Crash, Reuse,
         Vanish

-----------------------------------------------------------------------------
\* When systemd gives up

\* What was found broken is remembered until the next tick.
LEMMA LoadRemembered ==
    ASSUME Types, Next
    PROVE  /\ loadFailed => loadFailed' \/ starts' = 0
           /\ \A p \in Pid : LoadFails(p) => loadFailed' \/ starts' = 0
           /\ Spent \in Int /\ 0 <= Spent
<1>1. Spent \in Int /\ 0 <= Spent
  <2>1. budget.crashes \in 0 .. MaxCrashes /\ MaxCrashes \in Nat
    BY SupervisionAssumption DEF Types, Budget
  <2>. QED BY <2>1 DEF Spent
<1>. QED BY <1>1 DEF Next, Witness

\* The row and the starts stand, and the services there are are where they were.
LEMMA AttemptsFrame ==
    ASSUME Types, Attempts, Next, UNCHANGED <<manager, row, budget>>, starts' <= starts,
           starts' \in Nat, due' => due,
           \A p \in Pid : /\ phase'[p] \in Reading => phase[p] \in Reading
                          /\ phase'[p] \in Daemon \ Reading => phase[p] \in Daemon \ Reading
    PROVE  Attempts'
<1>1. starts \in Nat /\ Spent \in Int /\ 0 <= Spent /\ Spent' = Spent
  BY LoadRemembered DEF Types, Spent
<1>2. Blocked' <=> Blocked
  BY DEF Blocked, row
<1>3. loadFailed => loadFailed' \/ starts' = 0
  BY LoadRemembered
<1>. QED BY <1>1, <1>2, <1>3 DEF Attempts

\* No start since the tick.
LEMMA AttemptsNone ==
    ASSUME Types, starts' = 0, budget' = budget
    PROVE  Attempts'
<1>1. budget'.crashes \in 0 .. MaxCrashes /\ MaxCrashes \in Nat
  BY SupervisionAssumption DEF Types, Budget
<1>2. starts' <= Spent' /\ starts' <= Spent' + 1
  BY <1>1 DEF Spent
<1>. QED BY <1>2 DEF Attempts

\* Only the service counts.
LEMMA AttemptsOfService ==
    ASSUME Types, OneService, Conclusions, Step, NEW p \in Pid, phase[p] \in Daemon,
           phase'[p] \in Daemon, ~due',
           manager' = "systemd" =>
             /\ phase'[p] \in Reading => starts' <= Spent' + 1 \/ Blocked' \/ loadFailed'
             /\ phase'[p] \notin Reading => starts' <= Spent' + 1 \/ loadFailed'
    PROVE  Attempts'
<1>1. \A q \in Pid : q # p => phase'[q] \notin Daemon
  BY ServiceAlone
<1>. QED BY <1>1 DEF Attempts, Daemon, Starting

\* The service has ended: a start that is now due has been counted, or will be
\* refused.
LEMMA AttemptsEnded ==
    ASSUME Types, OneService, Conclusions, Step, NEW p \in Pid, phase[p] \in Daemon,
           NEW failure \in BOOLEAN, Ended(p, failure),
           manager = "systemd" /\ failure => starts <= Spent' \/ Blocked' \/ loadFailed'
    PROVE  Attempts'
<1>1. \A q \in Pid : phase'[q] \notin Daemon
  <2>1. phase'[p] = "free"
    BY DEF Ended, Types
  <2>. QED BY <2>1, ServiceAlone DEF Daemon, Starting, Reading, Recording
<1>2. /\ UNCHANGED <<manager, starts>>
      /\ manager = "systemd" => (due' => failure)
  BY DEF Ended
<1>. QED BY <1>1, <1>2 DEF Attempts, Daemon, Starting

LEMMA AttemptsStep ==
    ASSUME Types, OneService, RowFollows, Conclusions, Attempts, Next
    PROVE  Attempts'
<1>. USE DEF managerVars, row, procVars, cmdVars, env
<1>0. /\ starts \in Nat /\ Spent \in Int /\ 0 <= Spent
      /\ (budget' = budget => Spent' = Spent) /\ Step
      /\ loadFailed => loadFailed' \/ starts' = 0
      /\ Reading \subseteq Daemon /\ Recording \subseteq Daemon \ Reading
      /\ {"load", "loop", "asleep", "draining"} \subseteq Daemon \ Reading
  BY LoadRemembered DEF Next, Types, Spent, Daemon, Starting, Reading, Recording
<1>1. \A p \in Pid : phase[p] \in Daemon => ~due
  BY DEF OneService
<1>2. ASSUME NEW p \in Pid, ReadPid(p) \/ ReadState(p) PROVE Attempts'
  <2>1. /\ phase[p] \in Reading /\ UNCHANGED <<managerVars, row, budget>>
        /\ \/ phase'[p] \in Reading
           \/ phase'[p] = "load" /\ pid = Missing
    BY <1>2 DEF ReadPid, ReadState, Reading, Types
  <2>2. manager = "systemd" => starts <= Spent + 1 \/ Blocked \/ loadFailed
    BY <2>1 DEF Attempts
  <2>3. pid = Missing => ~Blocked
    BY DEF Blocked
  <2>4. Blocked' <=> Blocked
    BY <2>1 DEF Blocked
  <2>5. phase'[p] \in Daemon
    BY <1>0, <2>1 DEF Recording
  <2>. QED BY <1>0, <1>1, <2>1, <2>2, <2>3, <2>4, <2>5, AttemptsOfService
<1>3. ASSUME NEW p \in Pid, ReadHeartbeat(p) PROVE Attempts'
  <2>. DEFINE r == [got[p] EXCEPT !.hb = hb]
  <2>1. /\ phase[p] = "readHeartbeat" /\ UNCHANGED <<row, budget>>
        /\ got[p].pid = pid /\ got[p].state = state /\ pid # Missing
    BY <1>3 DEF ReadHeartbeat, RowFollows
  <2>2. r.pid = pid /\ r.state = state /\ r.hb = hb
    BY <2>1 DEF Types, RowValue
  <2>3. Unparsable(r) \/ Live(r) <=> Blocked
    <3>1. hb # Missing => hb \in Nat /\ StaleAfter \in Nat
      BY RowTypes
    <3>. HIDE DEF r
    <3>. QED BY <2>1, <2>2, <3>1 DEF Unparsable, Live, Stale, Blocked
  <2>4. Blocked' <=> Blocked
    BY <2>1 DEF Blocked
  <2>5. phase[p] \in Reading /\ phase[p] \in Daemon
    BY <2>1 DEF Reading, Daemon, Starting
  <2>6. CASE Blocked
    <3>1. Ended(p, TRUE)
      BY <1>3, <2>3, <2>6 DEF ReadHeartbeat
    <3>. QED BY <1>0, <2>4, <2>5, <2>6, <3>1, AttemptsEnded
  <2>7. CASE ~Blocked
    <3>1. phase'[p] = "load" /\ UNCHANGED managerVars
      BY <1>3, <2>3, <2>7 DEF ReadHeartbeat, Types
    <3>2. manager = "systemd" => starts <= Spent + 1 \/ loadFailed
      BY <2>5, <2>7 DEF Attempts
    <3>. QED BY <1>0, <1>1, <2>1, <2>5, <3>1, <3>2, AttemptsOfService DEF Reading
  <2>. QED BY <2>6, <2>7
<1>4. ASSUME NEW p \in Pid,
             \/ Load(p) \/ RecordPid(p) \/ RecordState(p) \/ RecordHeartbeat(p)
             \/ Beat(p) \/ Wake(p) \/ LeaveLoop(p)
      PROVE  Attempts'
  <2>1. /\ UNCHANGED <<managerVars, budget>>
        /\ phase[p] \in Daemon \ Reading /\ phase'[p] \in Daemon \ Reading
    BY <1>4
       DEF Load, RecordPid, RecordState, RecordHeartbeat, Beat, Wake, LeaveLoop, Types,
           Daemon, Starting, Reading, Recording
  <2>2. manager = "systemd" => starts <= Spent + 1 \/ loadFailed
    BY <2>1 DEF Attempts
  <2>. QED BY <1>0, <1>1, <2>1, <2>2, AttemptsOfService
<1>12. ASSUME NEW p \in Pid, LoadFails(p) PROVE Attempts'
  <2>1. phase[p] \in Daemon /\ Ended(p, TRUE) /\ UNCHANGED <<row, budget, starts>>
    BY <1>12 DEF LoadFails, Ended, Daemon, Starting
  <2>2. loadFailed' \/ starts' = 0
    BY <1>12, LoadRemembered
  <2>3. starts <= Spent' \/ loadFailed'
    BY <1>0, <2>1, <2>2
  <2>. QED BY <1>0, <2>1, <2>3, AttemptsEnded
<1>5. ASSUME NEW p \in Pid, Exit(p) PROVE Attempts'
  <2>1. phase[p] \in Daemon /\ Ended(p, FALSE)
    BY <1>5 DEF Exit, Daemon
  <2>. QED BY <1>0, <2>1, AttemptsEnded
<1>6. ASSUME NEW p \in Pid, Crash(p) PROVE Attempts'
  <2>1. phase[p] \in Daemon /\ Ended(p, TRUE) /\ UNCHANGED row
    BY <1>6 DEF Crash
  <2>2. Spent' = Spent + 1
    <3>1. budget'.crashes = budget.crashes - 1 /\ budget.crashes \in Int /\ MaxCrashes \in Int
      BY <1>6, SupervisionAssumption DEF Crash, Types, Budget
    <3>. QED BY <3>1 DEF Spent
  <2>3. manager = "systemd" => starts <= Spent + 1 \/ Blocked \/ loadFailed
    BY <2>1 DEF Attempts
  <2>4. Blocked' <=> Blocked
    BY <2>1 DEF Blocked
  <2>5. manager = "systemd" => starts <= Spent' \/ Blocked' \/ loadFailed'
    <3>1. starts' = starts
      BY <2>1 DEF Ended
    <3>. QED BY <1>0, <2>2, <2>3, <2>4, <3>1
  <2>. QED BY <1>0, <2>1, <2>5, AttemptsEnded
<1>7. ASSUME NEW p \in Pid, StartService(p) PROVE Attempts'
  <2>1. /\ due /\ ~due' /\ starts' = starts + 1 /\ UNCHANGED <<manager, row, budget>>
        /\ \A q \in Pid : phase[q] \notin Daemon
        /\ \A q \in Pid : phase'[q] = phase[q] \/ phase'[q] = "readPid"
    BY <1>7 DEF StartService, Service, Types
  <2>2. manager = "systemd" => starts <= Spent \/ Blocked \/ loadFailed
    BY <2>1 DEF Attempts
  <2>3. Blocked' <=> Blocked
    BY <2>1 DEF Blocked
  <2>4. "readPid" \in Reading
    BY DEF Reading
  <2>. QED BY <1>0, <2>1, <2>2, <2>3, <2>4 DEF Attempts
<1>8. ASSUME NEW p \in Pid, Reuse(p) \/ Vanish(p) PROVE Attempts'
  <2>1. /\ UNCHANGED <<managerVars, row>> /\ budget'.crashes = budget.crashes
        /\ \A q \in Pid : phase'[q] = phase[q] \/ phase'[q] \in {"free", "other"}
    BY <1>8 DEF Reuse, Vanish, Types, Budget
  <2>2. Spent' = Spent /\ (Blocked' <=> Blocked)
    BY <2>1 DEF Spent, Blocked
  <2>3. "free" \notin Daemon /\ "other" \notin Daemon
    BY DEF Daemon, Starting, Reading, Recording
  <2>. QED BY <1>0, <2>1, <2>2, <2>3 DEF Attempts
<1>13. CASE EditConfig
  <2>1. /\ UNCHANGED <<manager, row, starts, phase, due>> /\ budget'.crashes = budget.crashes
    BY <1>13 DEF EditConfig, Types, Budget
  <2>2. Spent' = Spent /\ (Blocked' <=> Blocked)
    BY <2>1 DEF Spent, Blocked
  <2>. QED BY <1>0, <2>1, <2>2 DEF Attempts
<1>9. CASE GiveUp \/ StopReadsPid \/ StopReadsState \/ StopReadsHeartbeat
  <2>1. /\ UNCHANGED <<manager, row, budget, starts, phase>> /\ (due' => due)
    BY <1>9 DEF GiveUp, StopReadsPid, StopReadsState, StopReadsHeartbeat
  <2>2. starts <= starts
    BY <1>0
  <2>. QED BY <1>0, <2>1, <2>2, AttemptsFrame
<1>10. CASE StopKills
  <2>1. read.pid \in Pid /\ UNCHANGED <<row, budget>>
    BY <1>10, KillCases
  <2>2. CASE phase[read.pid] \in Starting /\ Ended(read.pid, FALSE)
    BY <1>0, <2>1, <2>2, AttemptsEnded DEF Daemon
  <2>3. CASE UNCHANGED <<managerVars, phase>>
    <3>1. starts <= starts
      BY <1>0
    <3>. QED BY <1>0, <2>1, <2>3, <3>1, AttemptsFrame
  <2>. QED BY <1>10, <2>2, <2>3, KillCases
<1>11. CASE Tick
  BY <1>11, AttemptsNone DEF Tick
<1>. QED
  BY <1>2, <1>3, <1>4, <1>5, <1>6, <1>7, <1>8, <1>9, <1>10, <1>11, <1>12, <1>13
     DEF Next, Step, Process, Command

-----------------------------------------------------------------------------
\* The inductive invariant holds of every behaviour, and so do its types.
THEOREM SupervisionInvariant == Spec => []Inv
<1>1. Init => Inv
  <2>. SUFFICES ASSUME Init PROVE Inv
    OBVIOUS
  <2>1. Types
    <3>1. Blank \in RowValue /\ MaxCrashes \in Nat /\ MaxReuses \in Nat /\ MaxEdits \in Nat
      BY SupervisionAssumption DEF Blank, RowValue, StateValue
    <3>2. budget \in Budget
      BY <3>1 DEF Init, Budget
    <3>3. "free" \in PhaseValue /\ Missing \in StateValue /\ "idle" \in CmdValue
      BY DEF PhaseValue, StateValue, CmdValue
    <3>4. /\ due \in BOOLEAN /\ failed \in BOOLEAN /\ whole \in BOOLEAN /\ downSeen \in BOOLEAN
          /\ broken \in BOOLEAN /\ loadFailed \in BOOLEAN
      BY DEF Init
    <3>. QED BY <3>1, <3>2, <3>3, <3>4 DEF Init, Types
  <2>2. \A p \in Pid : phase[p] = "free"
    BY DEF Init
  <2>3. OneService /\ RowFollows /\ Conclusions
    BY <2>2
       DEF Init, OneService, RowFollows, Conclusions, Daemon, Starting, Reading, Recording
  <2>4. Attempts
    <3>1. starts = 0 /\ Spent = 0
      BY SupervisionAssumption DEF Init, Spent
    <3>. QED BY <2>2, <3>1 DEF Attempts, Daemon, Starting, Reading, Recording
  <2>. QED BY <2>1, <2>3, <2>4 DEF Inv
<1>2. Inv /\ [Next]_vars => Inv'
  <2>. SUFFICES ASSUME Inv, [Next]_vars PROVE Inv'
    OBVIOUS
  <2>1. CASE Next
    BY <2>1, TypesStep, OneServiceStep, RowFollowsStep, ConclusionsStep, AttemptsStep
       DEF Inv, Next
  <2>2. CASE UNCHANGED vars
    <3>1. Types' /\ OneService' /\ RowFollows' /\ Conclusions'
      BY <2>2
         DEF Inv, vars, managerVars, row, procVars, cmdVars, env, Types, OneService, RowFollows,
             Conclusions
    <3>2. Attempts'
      BY <2>2
         DEF Inv, vars, managerVars, row, procVars, cmdVars, env, Attempts, Spent, Blocked
    <3>. QED BY <3>1, <3>2 DEF Inv
  <2>. QED BY <2>1, <2>2
<1>. QED BY <1>1, <1>2, PTL DEF Spec

\* When stop says that no daemon is running there was none up at some time while it
\* was reading, though it reads key by key and the pid may have been used again
\* (daemon.rs, read_daemon_status and stop).
THEOREM NotRunningHolds == Spec => []NotRunningIsTrue
<1>1. Inv => NotRunningIsTrue
  BY DEF Inv, Conclusions, NotRunningIsTrue
<1>. QED BY <1>1, SupervisionInvariant, PTL

\* A reader fails only on a row that had never been whole (daemon.rs,
\* record_daemon_started and read_daemon_status).
THEOREM ReadsFailOnlyBeforeFirst == Spec => []ReadsFailBeforeFirst
<1>1. Inv => ReadsFailBeforeFirst
  BY DEF Inv, Conclusions, ReadsFailBeforeFirst
<1>. QED BY <1>1, SupervisionInvariant, PTL

\* With fewer crashes than starts allowed in a tick, systemd gives up only on a row
\* that cannot be read or whose heartbeat is fresh, or when a start it counts has
\* failed while it loaded (daemon.rs, start and run_foreground; the unit of
\* service.rs).  As many crashes on the way up as it makes starts are a loop of
\* their own, whatever the row says.
THEOREM GivesUpHolds ==
    ASSUME MaxCrashes < StartLimit
    PROVE  Spec => GivesUpOnFresh
<1>1. Inv /\ [Next]_vars =>
        [failed' /\ ~failed => Bricked \/ (state = "running" /\ hb <= StaleAfter) \/ loadFailed]_vars
  <2>. SUFFICES ASSUME Inv, Next, failed', ~failed
                PROVE  Bricked \/ (state = "running" /\ hb <= StaleAfter) \/ loadFailed
    OBVIOUS
  <2>1. GiveUp
    BY KillCases
       DEF Inv, Next, Step, Command, StopReadsPid, StopReadsState, StopReadsHeartbeat, Tick,
           EditConfig, StartService, Process, ReadPid, ReadState, ReadHeartbeat, Load,
           LoadFails, RecordPid, RecordState, RecordHeartbeat, Beat, Wake, LeaveLoop, Exit, Crash, Reuse, Vanish, Ended,
           managerVars
  <2>2. manager = "systemd" /\ due /\ ~(starts < StartLimit)
    BY <2>1 DEF GiveUp, MayStart
  <2>3. Spent \in Int /\ Spent <= MaxCrashes /\ starts \in Nat /\ StartLimit \in Nat /\ MaxCrashes \in Nat
    BY SupervisionAssumption DEF Inv, Types, Budget, Spent
  <2>4. Blocked \/ loadFailed
    BY <2>2, <2>3 DEF Inv, Attempts
  <2>5. Service = {}
    BY <2>2 DEF Inv, OneService, Service
  <2>. QED BY <2>4, <2>5 DEF Blocked, Bricked
<1>. QED BY <1>1, SupervisionInvariant, PTL DEF Spec, GivesUpOnFresh

=============================================================================
