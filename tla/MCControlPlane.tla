--------------------------- MODULE MCControlPlane ---------------------------
(* Small instances of the control plane for TLC. *)
EXTENDS ControlPlane, TLC

CONSTANTS j1, j2, c1, c2, p1, p2

BothOn == (j1 :> "on") @@ (j2 :> "on")

On(op, j) == [op |-> op, job |-> j]
Pairs == {(c1 :> On("remove", j2)) @@ (c2 :> On("add", j2)),
          (c1 :> On("edit", j1))   @@ (c2 :> On("pause", j2)),
          (c1 :> On("resume", j1)) @@ (c2 :> [op |-> "reload"])}
=============================================================================
