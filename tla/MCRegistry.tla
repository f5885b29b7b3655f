----------------------------- MODULE MCRegistry -----------------------------
EXTENDS Registry, TLC

CONSTANTS i1, i2, poller

(* Two managers that make, remove and prune worktrees side by side. *)
TwoManagers == [i \in {i1, i2} |-> {"create", "remove", "prune", "crash"}]

(* Two managers that import the user's worktrees and remove them; one of the
   two also starts them, lists, and may die. *)
Importers == (i1 :> {"adopt", "remove", "remove_path", "reconcile", "start", "crash"})
             @@ (i2 :> {"adopt", "remove", "prune"})

(* One manager at work, one that only lists, hence reconciles. *)
WorkerAndPoller == (i1 :> {"create", "remove", "start", "crash"}) @@ (poller :> {"reconcile"})

(* The pairs of operations the violation runs look at. *)
CreatorAndPoller == (i1 :> {"create"}) @@ (poller :> {"reconcile"})
TwoStarters == (i1 :> {"adopt", "start"}) @@ (i2 :> {"adopt", "start"})

Symmetry == Permutations(Ids) \cup Permutations(Ports)
AdoptSymmetry == Symmetry \cup Permutations(UserPaths) \cup Permutations(Branches)
TwinSymmetry == Symmetry \cup Permutations({i1, i2})
=============================================================================
