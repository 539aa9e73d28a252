------------------------------ MODULE RunLedger ------------------------------
(***************************************************************************)
(* What periodic promises of the run history, whatever carries it out: a   *)
(* run is claimed once, is executed at most once, and once it is closed    *)
(* its row is final.  Daemon.tla is shown to implement this ledger.        *)
(***************************************************************************)
CONSTANT Run        \* scheduled occurrences and manual triggers

VARIABLE ledger     \* the stage each run has reached

Stage == {"free", "claimed", "executing", "closed"}

TypeOK == ledger \in [Run -> Stage]

Init == ledger = [r \in Run |-> "free"]

\* A trigger takes the run; nobody can take it again.
Claim(r) ==
    /\ ledger[r] = "free"
    /\ ledger' = [ledger EXCEPT ![r] = "claimed"]

\* The one execution of a claimed run begins.
Execute(r) ==
    /\ ledger[r] = "claimed"
    /\ ledger' = [ledger EXCEPT ![r] = "executing"]

\* Claimed runs that will not finish (skipped, interrupted) or have finished
\* are closed; recovery closes every unfinished run of a crash in one step.
Close(S) ==
    /\ S # {}
    /\ \A r \in S : ledger[r] \in {"claimed", "executing"}
    /\ ledger' = [r \in Run |-> IF r \in S THEN "closed" ELSE ledger[r]]

Next ==
    \/ \E r \in Run : Claim(r) \/ Execute(r)
    \/ \E S \in SUBSET Run : Close(S)

Spec == Init /\ [][Next]_ledger
=============================================================================
