---------------------------- MODULE MCLifecycle ----------------------------
EXTENDS Lifecycle, TLC

CONSTANTS op, op2, poller

(* One caller that starts and stops and may die; one that only lists. *)
OperatorAndPoller == (op :> {"start", "stop", "crash"}) @@ (poller :> {"reconcile"})

(* One caller that starts and stops, alone. *)
OperatorAlone == op :> {"start", "stop"}

(* One caller that stops while another starts. *)
StopperAndStarter == (op :> {"stop"}) @@ (op2 :> {"start"})

Symmetry == Permutations(Pids)
=============================================================================
