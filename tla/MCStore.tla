------------------------------ MODULE MCStore ------------------------------
(* A small instance of the store for TLC. *)
EXTENDS Store, TLC

CONSTANTS j1, j2, p1, p2, p3

\* Three statements, then two, as a short stand-in for migrations 0001 and 0002.
Lengths == <<3, 2>>
OneActive == (j1 :> "active") @@ (j2 :> "absent")
\* `jobs run j1`, `jobs status j2`, and a daemon that runs j1.
Kinds == (p1 :> "run") @@ (p2 :> "read") @@ (p3 :> "daemon")
Targets == (p1 :> j1) @@ (p2 :> j2) @@ (p3 :> j1)
=============================================================================
