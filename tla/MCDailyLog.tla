----------------------------- MODULE MCDailyLog -----------------------------
(* A small instance of the daily log for TLC: one run with two busy streams   *)
(* and one that prints into the same days, or does not.                        *)
EXTENDS DailyLog, TLC

CONSTANTS r1, r2

Prints == (r1 :> [stdout |-> 2, stderr |-> 2]) @@ (r2 :> [stdout |-> 2, stderr |-> 1])
=============================================================================
