------------------------------ MODULE MCDaemon ------------------------------
(* Small instances of the daemon for TLC. *)
EXTENDS Daemon, TLC

CONSTANTS j1, j2, p1, p2

\* One firing of one job; two firings of it; a second job that fires together
\* with the later one.
OneShot == (j1 :> {1})
OneJob  == (j1 :> {1, 2})
TwoJobs == (j1 :> {1, 2}) @@ (j2 :> {2})

RunOnce == [j \in Job |-> "run_once"]
RunAll  == [j \in Job |-> "run_all"]
Mixed   == (j1 :> "run_once") @@ (j2 :> "skip")

PidSymmetry == Permutations(Pid)
=============================================================================
