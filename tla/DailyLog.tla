------------------------------ MODULE DailyLog ------------------------------
(***************************************************************************)
(* How the output of runs gets into the files of the day and back: two     *)
(* drain threads of an attempt share the run's writer behind a mutex, the  *)
(* runs have a writer each, and all append to the same file.  A record and *)
(* its line end are two writes.                                            *)
(***************************************************************************)
EXTENDS Integers, Sequences, SequencesExt

CONSTANTS
    Run, Stream,
    Lines,          \* bound: how many lines a run's child prints on a stream
    MaxDay          \* bound: the days the clock reaches, from 1

ASSUME LogAssumption ==
    /\ Lines \in [Run -> [Stream -> Nat]] /\ MaxDay \in Nat \ {0}
    /\ "none" \notin Run /\ "nobody" \notin Stream

VARIABLES
    day,            \* the date of Utc::now()
    files,          \* a day's file: the writes appended to it, in order
    printed,        \* how many lines a child has printed on a stream
    held,           \* the record a drain thread has stamped: its number and date
    lock, current   \* a run's writer: who has it, and the date of its open file

vars == <<day, files, printed, held, lock, current>>

Day == 1 .. MaxDay
LineEnd == [run |-> "none", stream |-> "none", n |-> 0]
Nothing == [n |-> 0, date |-> 0]
Nobody == "nobody"

Init ==
    /\ day = 1
    /\ files = [d \in Day |-> <<>>]
    /\ printed = [r \in Run |-> [s \in Stream |-> 0]]
    /\ held = [r \in Run |-> [s \in Stream |-> Nothing]]
    /\ lock = [r \in Run |-> Nobody] /\ current = [r \in Run |-> 0]

Midnight == /\ day < MaxDay /\ day' = day + 1
            /\ UNCHANGED <<files, printed, held, lock, current>>

\* The drain thread reads a line and stamps it, before it has the writer.  It may
\* stop at any line: at end of file, or at a line that is not UTF-8.
Stamp(r, s) ==
    /\ held[r][s] = Nothing /\ printed[r][s] < Lines[r][s]
    /\ printed' = [printed EXCEPT ![r][s] = @ + 1]
    /\ held' = [held EXCEPT ![r][s] = [n |-> printed[r][s] + 1, date |-> day]]
    /\ UNCHANGED <<day, files, lock, current>>

\* Mutant: each thread has a writer of its own.
AppendUnlocked(r, s) ==
    /\ held[r][s] # Nothing /\ lock[r] # s
    /\ lock' = [lock EXCEPT ![r] = s]
    /\ current' = [current EXCEPT ![r] = held[r][s].date]
    /\ files' = [files EXCEPT ![held[r][s].date] =
                     Append(@, [run |-> r, stream |-> s, n |-> held[r][s].n])]
    /\ UNCHANGED <<day, printed, held>>

\* append, in the lock: the file of the record's own date, then the record ...
AppendRecord(r, s) ==
    /\ held[r][s] # Nothing /\ lock[r] = Nobody
    /\ lock' = [lock EXCEPT ![r] = s]
    /\ current' = [current EXCEPT ![r] = held[r][s].date]
    /\ files' = [files EXCEPT ![held[r][s].date] =
                     Append(@, [run |-> r, stream |-> s, n |-> held[r][s].n])]
    /\ UNCHANGED <<day, printed, held>>

\* ... then its line end.
AppendLineEnd(r, s) ==
    /\ lock[r] = s
    /\ files' = [files EXCEPT ![current[r]] = Append(@, LineEnd)]
    /\ held' = [held EXCEPT ![r][s] = Nothing]
    /\ lock' = [lock EXCEPT ![r] = Nobody]
    /\ UNCHANGED <<day, printed, current>>

Next ==
    \/ Midnight
    \/ \E r \in Run, s \in Stream :
         Stamp(r, s) \/ AppendRecord(r, s) \/ AppendLineEnd(r, s)

Spec == Init /\ [][Next]_vars

-----------------------------------------------------------------------------
(* read_logs: files by date, lines in order; a line that is not one record   *)
(* is skipped.                                                               *)

Parses(f, i) == /\ f[i] # LineEnd
                /\ i = 1 \/ f[i - 1] = LineEnd
                /\ i = Len(f) \/ f[i + 1] = LineEnd

ReadFile(f, r, s) ==
    FlattenSeq([i \in DOMAIN f |->
        IF f[i].run = r /\ f[i].stream = s /\ Parses(f, i) THEN <<f[i].n>> ELSE <<>>])

ReadLogs(r, s) == FlattenSeq([d \in Day |-> ReadFile(files[d], r, s)])

\* Nobody else has written where r has.
Alone(r) == \A d \in Day : \A i, k \in DOMAIN files[d] :
    files[d][i].run = r => files[d][k].run \in {r, "none"}

\* The lines of a stream are read back in the order the child printed them, over
\* midnight too; and all of them, when no other run wrote to the same files (the
\* stamp before the lock, the file by the record's own date, two writes a line).
OutputReadsBack == \A r \in Run, s \in Stream :
    LET read == ReadLogs(r, s) IN
    /\ \A i, k \in DOMAIN read : i < k => read[i] < read[k]
    /\ Alone(r) /\ lock[r] = Nobody =>
         Len(read) = printed[r][s] - (IF held[r][s] = Nothing THEN 0 ELSE 1)
=============================================================================
