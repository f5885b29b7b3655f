------------------------------ MODULE Registry ------------------------------
(***************************************************************************)
(* core/manager.py over core/yaml_store.py, core/port_allocator.py and     *)
(* git: the operations of several WorktreeManager instances on what they   *)
(* share.  Each operation is a chain of steps, one per critical section of *)
(* state.yaml or ports.yaml and one per git command; between two steps any *)
(* other instance, the user or a crash may come in.  A step on a store is  *)
(* atomic because PortAllocator and StateFile show it to be.               *)
(*                                                                         *)
(* One repository, whose linked worktrees are modelled; its primary        *)
(* checkout, the processes of an environment and the phases of teardown    *)
(* before the deletion belong to other modules.                            *)
(***************************************************************************)
EXTENDS FiniteSets, Naturals

CONSTANTS Instances,   \* WorktreeManager instances
          Ids,         \* worktree ids: a bound on creates and imports
          UserPaths,   \* places where the user adds worktrees: a bound on that
          Branches,
          Slots,       \* the slots the contract declares
          Ports,
          Absent, NoPort, NoBranch, Nowhere, NoId,
          Does,        \* the operations each instance is used for
          UserDoes     \* what the user does with git and the file system

VARIABLES records,     \* state.yaml
          table,       \* ports.yaml
          git,         \* .git/worktrees: the branch registered at a path
          disk,        \* paths that exist
          branches,    \* refs/heads
          ours,        \* branches made by `git worktree add -b` of a create()
          used,        \* ids given out, and places where the user has added a worktree
          job          \* the operation each instance is in

vars == <<records, table, git, disk, branches, ours, used, job>>

(* create() checks out at <store_root>/<repo>/<worktree id>: the id stands
   for the path.                                                           *)
Paths == Ids \cup UserPaths

NoPorts == [s \in Slots |-> NoPort]

Recs == [path: Paths \cup {Nowhere}, branch: Branches, owned: BOOLEAN,
         status: {"created", "adopted", "ready", "setup_failed", "orphaned"},
         ports: [Slots -> Ports \cup {NoPort}]]

ASSUME RegistryAssumption ==
  /\ NoId \notin Ids /\ NoPort \notin Ports /\ NoBranch \notin Branches
  /\ Nowhere \notin Paths /\ Absent \notin Recs

Table == INSTANCE PortTable WITH Owners <- Ids
Store == INSTANCE RecordTable WITH file <- records

Idle == [at |-> "idle", id |-> NoId, rec |-> Absent, force |-> FALSE,
         clean |-> TRUE, found |-> {}, seen |-> {}]

Jobs == [at: {"idle", "checked", "probed", "added", "allocated", "rollback_git",
              "rollback_ports", "rollback_branch", "rolled_back", "setup", "scanned", "teardown",
              "deleted", "pruned", "released", "dropped", "marked", "listing",
              "listed", "started", "leased"},
         id: Ids \cup {NoId}, rec: Recs \cup {Absent}, force: BOOLEAN,
         clean: BOOLEAN, found: SUBSET (Paths \X Branches), seen: SUBSET Ids]

TypeOK ==
  /\ records \in [Ids -> Recs \cup {Absent}]
  /\ table \in [Ids \X Slots -> Ports \cup {NoPort}]
  /\ git \in [Paths -> Branches \cup {NoBranch}]
  /\ disk \in SUBSET Paths
  /\ branches \in SUBSET Branches
  /\ ours \in SUBSET branches
  /\ used \in SUBSET Paths
  /\ job \in [Instances -> Jobs]

Init ==
  /\ Store!RInit
  /\ Table!TInit
  /\ git = [p \in Paths |-> NoBranch]
  /\ disk = {}
  /\ branches \in SUBSET Branches
  /\ ours = {}
  /\ used = {}
  /\ job = [i \in Instances |-> Idle]

-----------------------------------------------------------------------------
(* Helpers.                                                                *)

stores == <<records, table>>
repo == <<git, disk, branches, ours>>

Tracked == {id \in Ids : records[id] # Absent}
Registered(b) == \E p \in Paths : git[p] = b
At(i, stage) == job[i].at = stage
Begin(i, op, j) == op \in Does[i] /\ At(i, "idle") /\ job' = [job EXCEPT ![i] = j]
Goto(i, stage) == job' = [job EXCEPT ![i].at = stage]
End(i) == job' = [job EXCEPT ![i] = Idle]

(* git worktree prune --expire=now drops every registration whose directory
   is gone.                                                                *)
GitPrune == git' = [p \in Paths |-> IF p \in disk THEN git[p] ELSE NoBranch]

(* git branch -D/-d: refuses a branch that some worktree has checked out.  *)
GitDeleteBranch(b) ==
  /\ b \in branches
  /\ ~Registered(b)
  /\ branches' = branches \ {b}
  /\ ours' = ours \ {b}

(* state.update writes the whole record and raises when the id is gone.    *)
Update(i, id, next) ==
  \/ /\ \E r \in {job[i].rec} : Store!Update(id, r)
     /\ Goto(i, next)
  \/ /\ records[id] = Absent
     /\ End(i)
     /\ UNCHANGED records

-----------------------------------------------------------------------------
(* create().                                                               *)

(* find_by_branch: no tracked record has the branch.                       *)
CheckDuplicate(i, b) ==
  /\ \A id \in Tracked : records[id].branch # b
  /\ Begin(i, "create",
       [Idle EXCEPT !.at = "checked",
          !.rec = [path |-> Nowhere, branch |-> b, owned |-> FALSE,
                   status |-> "created", ports |-> NoPorts]])
  /\ UNCHANGED <<stores, repo, used>>

(* _branch_exists decides, once, whether create() makes the branch.        *)
ProbeBranch(i) ==
  /\ At(i, "checked")
  /\ job' = [job EXCEPT ![i].at = "probed",
                        ![i].rec.owned = job[i].rec.branch \notin branches]
  /\ UNCHANGED <<stores, repo, used>>

(* git worktree add, with -b for a new branch.  git refuses -b for a branch
   that exists by now, a branch that is gone by now, and a branch that is
   checked out elsewhere.  _run_git kills a git that takes too long: what it
   did stays, and create() raises before its rollback is in force.         *)
GitWouldAdd(i) ==
  LET b == job[i].rec.branch
  IN IF job[i].rec.owned THEN b \notin branches ELSE b \in branches /\ ~Registered(b)

GitAdd(i, id, timeout) ==
  LET b == job[i].rec.branch
  IN /\ At(i, "probed")
     /\ GitWouldAdd(i)
     /\ id \notin used
     /\ used' = used \cup {id}
     /\ git' = [git EXCEPT ![id] = b]
     /\ disk' = disk \cup {id}
     /\ branches' = branches \cup {b}
     /\ ours' = ours \cup (IF job[i].rec.owned THEN {b} ELSE {})
     /\ \/ timeout /\ End(i)
        \/ ~timeout /\ job' = [job EXCEPT ![i].at = "added", ![i].id = id,
                                          ![i].rec.path = id]
     /\ UNCHANGED stores

(* git refuses, or fails for reasons of its own; a branch it made first is
   left behind, and the next create() takes it for the user's.             *)
GitAddFails(i) ==
  /\ At(i, "probed")
  /\ \/ UNCHANGED <<branches, ours>>
     \/ /\ job[i].rec.owned /\ job[i].rec.branch \notin branches
        /\ branches' = branches \cup {job[i].rec.branch}
        /\ ours' = ours \cup {job[i].rec.branch}
  /\ End(i)
  /\ UNCHANGED <<stores, git, disk, used>>

(* The `try` of create(): contract, ports, record.  Whatever fails in it
   leads to the rollback.                                                  *)
AllocatePorts(i) ==
  /\ At(i, "added")
  /\ Table!Claim(job[i].id, Slots)
  /\ job' = [job EXCEPT ![i].at = "allocated",
                        ![i].rec.ports = [s \in Slots |-> table'[<<job[i].id, s>>]]]
  /\ UNCHANGED <<records, repo, used>>

AddRecord(i) ==
  /\ At(i, "allocated")
  /\ Store!Add(job[i].id, job[i].rec)
  /\ Goto(i, "setup")
  /\ UNCHANGED <<table, repo, used>>

CreateFails(i) ==
  /\ job[i].at \in {"added", "allocated"}
  /\ Goto(i, "rollback_git")
  /\ UNCHANGED <<stores, repo, used>>

(* git worktree remove --force, release, git branch -D; a failure of one is
   swallowed and the next is tried.                                        *)
RollbackGit(i) ==
  /\ At(i, "rollback_git")
  /\ git' = [git EXCEPT ![job[i].id] = NoBranch]
  /\ disk' = IF git[job[i].id] = NoBranch THEN disk ELSE disk \ {job[i].id}
  /\ Goto(i, "rollback_ports")
  /\ UNCHANGED <<stores, branches, ours, used>>

Faulty_RollbackPorts(i) ==
  /\ At(i, "rollback_ports")
  /\ Goto(i, "rollback_branch")
  /\ UNCHANGED <<stores, repo, used>>
RollbackPorts(i) ==
  /\ At(i, "rollback_ports")
  /\ Table!Free({job[i].id} \X Slots)
  /\ Goto(i, "rollback_branch")
  /\ UNCHANGED <<records, repo, used>>

RolledBack(clean) == [Idle EXCEPT !.at = "rolled_back", !.clean = clean]

RollbackBranch(i) ==
  /\ At(i, "rollback_branch")
  /\ \/ job[i].rec.owned /\ GitDeleteBranch(job[i].rec.branch)
     \/ /\ job[i].rec.owned => \/ job[i].rec.branch \notin branches
                               \/ Registered(job[i].rec.branch)
        /\ UNCHANGED <<branches, ours>>
  /\ job' = [job EXCEPT ![i] = RolledBack(job[i].clean)]
  /\ UNCHANGED <<stores, git, disk, used>>

RollbackStepFails(i) ==
  /\ \/ At(i, "rollback_git") /\ job' = [job EXCEPT ![i].at = "rollback_ports",
                                                    ![i].clean = FALSE]
     \/ At(i, "rollback_ports") /\ job' = [job EXCEPT ![i].at = "rollback_branch",
                                                      ![i].clean = FALSE]
     \/ At(i, "rollback_branch") /\ job' = [job EXCEPT ![i] = RolledBack(FALSE)]
  /\ UNCHANGED <<stores, repo, used>>

(* The first exception is raised again.                                    *)
CreateRaises(i) ==
  /\ At(i, "rolled_back")
  /\ End(i)
  /\ UNCHANGED <<stores, repo, used>>

(* The setup: hook runs; the record create() holds since "allocated" is
   then written back whole.                                                *)
SetupDone(i, status) ==
  /\ At(i, "setup")
  /\ \/ Store!Update(job[i].id, [job[i].rec EXCEPT !.status = status])
     \/ records[job[i].id] = Absent /\ UNCHANGED records
  /\ End(i)
  /\ UNCHANGED <<table, repo, used>>

-----------------------------------------------------------------------------
(* adopt(): git lists the worktrees; then, in one critical section, those
   whose path and branch no record has are imported.                       *)

AdoptScan(i) ==
  /\ Begin(i, "adopt",
       [Idle EXCEPT !.at = "scanned",
          !.found = {w \in Paths \X Branches : w[1] \in disk /\ git[w[1]] = w[2]}])
  /\ UNCHANGED <<stores, repo, used>>

Faulty_Unknown(found) == found
Unknown(found) ==
  {w \in found : \A id \in Tracked : records[id].path # w[1] /\ records[id].branch # w[2]}

Adopted(w) == [path |-> w[1], branch |-> w[2], owned |-> FALSE,
               status |-> "adopted", ports |-> NoPorts]

AdoptImport(i) ==
  /\ At(i, "scanned")
  /\ \E name \in [Unknown(job[i].found) -> Ids \ used] :
       /\ \A v, w \in Unknown(job[i].found) : name[v] = name[w] => v = w
       /\ records' = [id \in Ids |->
            IF \E w \in Unknown(job[i].found) : name[w] = id
            THEN Adopted(CHOOSE w \in Unknown(job[i].found) : name[w] = id)
            ELSE records[id]]
       /\ used' = used \cup {name[w] : w \in Unknown(job[i].found)}
  /\ End(i)
  /\ UNCHANGED <<table, repo>>

-----------------------------------------------------------------------------
(* remove().  The target is looked up first, by id or by checkout path; a
   linked worktree without a record is removed without touching the store. *)

ResolveTracked(i, id, force) ==
  /\ records[id] # Absent
  /\ \/ "remove" \in Does[i] /\ At(i, "idle")
     \/ At(i, "listed")
  /\ job' = [job EXCEPT ![i] = [Idle EXCEPT !.at = "teardown", !.id = id,
                                           !.rec = records[id], !.force = force]]
  /\ UNCHANGED <<stores, repo, used>>

(* Looking for a worktree without a record goes through list_repo, which
   reconciles first (below): "listed" comes after its phase 2.             *)
ResolveUntracked(i, p, force) ==
  /\ At(i, "listed")
  /\ p \in disk
  /\ git[p] # NoBranch
  /\ \A id \in Tracked : records[id].path # p
  /\ job' = [job EXCEPT ![i] = [Idle EXCEPT !.at = "teardown", !.force = force,
                                           !.rec = Adopted(<<p, git[p]>>)]]
  /\ UNCHANGED <<stores, repo, used>>

NotFound(i) ==
  /\ At(i, "listed")
  /\ End(i)
  /\ UNCHANGED <<stores, repo, used>>

(* run_teardown as far as this module sees it: the checkout is deleted, the
   registrations are pruned, the ports are released, in this order.        *)
DeleteCheckout(i) ==
  /\ At(i, "teardown")
  /\ disk' = disk \ {job[i].rec.path}
  /\ Goto(i, "deleted")
  /\ UNCHANGED <<stores, git, branches, ours, used>>

(* A gate, a hook, a lock or the final guard stops the removal: the record
   and the ports stay, and so does the checkout, be it under the name the
   deletion staged it under.                                               *)
Faulty_TeardownRaises(i) ==
  /\ At(i, "teardown")
  /\ Goto(i, "deleted")
  /\ UNCHANGED <<stores, repo, used>>
TeardownRaises(i) ==
  /\ At(i, "teardown")
  /\ disk' \in {disk, disk \ {job[i].rec.path}}
  /\ GitPrune \/ UNCHANGED git
  /\ End(i)
  /\ UNCHANGED <<stores, branches, ours, used>>

(* Warn and continue when git fails.                                       *)
PruneAfterDelete(i) ==
  /\ At(i, "deleted")
  /\ GitPrune \/ UNCHANGED git
  /\ Goto(i, "pruned")
  /\ UNCHANGED <<stores, disk, branches, ours, used>>

ReleasePorts(i) ==
  /\ At(i, "pruned")
  /\ Table!Free({job[i].id} \X Slots)
  /\ Goto(i, "released")
  /\ UNCHANGED <<records, repo, used>>

Faulty_DropRecord(i) ==
  /\ At(i, "released")
  /\ \/ job[i].id # NoId /\ Store!Remove(job[i].id)
     \/ job[i].id = NoId /\ UNCHANGED records
  /\ Goto(i, "dropped")
  /\ UNCHANGED <<table, repo, used>>
(* state.remove; an untracked target has nothing to remove.  A target that
   somebody else has removed meanwhile fails the assertion.                *)
DropRecord(i) ==
  /\ At(i, "released")
  /\ \/ job[i].id \in Tracked /\ Store!Remove(job[i].id) /\ Goto(i, "dropped")
     \/ job[i].id = NoId /\ UNCHANGED records /\ Goto(i, "dropped")
     \/ job[i].id \in Ids \ Tracked /\ UNCHANGED records /\ End(i)
  /\ UNCHANGED <<table, repo, used>>

(* git branch -d refuses an unmerged branch, -D does not.                  *)
DeleteOwnedBranch(i) ==
  /\ At(i, "dropped")
  /\ \/ job[i].rec.owned /\ GitDeleteBranch(job[i].rec.branch)
     \/ /\ job[i].rec.owned => job[i].rec.branch \notin branches \/ ~job[i].force
                               \/ Registered(job[i].rec.branch)
        /\ UNCHANGED <<branches, ours>>
  /\ End(i)
  /\ UNCHANGED <<stores, git, disk, used>>

-----------------------------------------------------------------------------
(* prune().                                                                *)

Prune(i) ==
  /\ "prune" \in Does[i]
  /\ At(i, "idle")
  /\ GitPrune
  /\ UNCHANGED <<stores, disk, branches, ours, used, job>>

-----------------------------------------------------------------------------
(* reconcile(): phase 1 under the lock of state.yaml, phase 2 under that of
   ports.yaml, with the ids phase 1 saw.  It runs for list(), for a new
   manager, and inside a removal by path.                                  *)

\* surviving_ids
Faulty_SurvivingIds == {records[id].path : id \in Tracked}
SurvivingIds == Tracked

ReconcileMark(i) ==
  /\ \/ Begin(i, "reconcile", [Idle EXCEPT !.at = "marked", !.seen = SurvivingIds])
     \/ Begin(i, "remove_path", [Idle EXCEPT !.at = "listing", !.seen = SurvivingIds])
  /\ records' = [id \in Ids |->
       IF id \in Tracked /\ records[id].path \notin disk
       THEN [records[id] EXCEPT !.status = "orphaned"]
       ELSE records[id]]
  /\ UNCHANGED <<table, repo, used>>

Faulty_Ownerless(seen) == {k \in Table!Keys : k[1] \in seen}
Ownerless(seen) == {k \in Table!Keys : k[1] \notin seen}

ReconcileSweep(i) ==
  /\ Table!Free(Ownerless(job[i].seen))
  /\ \/ At(i, "marked") /\ End(i)
     \/ At(i, "listing") /\ job' = [job EXCEPT ![i] = [Idle EXCEPT !.at = "listed"]]
  /\ UNCHANGED <<records, repo, used>>

-----------------------------------------------------------------------------
(* start(), its part on ports and records, for a contract without start:
   steps and without pins.  A record whose setup failed is refused unless
   the caller insists.                                                     *)

Missing(r) == {s \in Slots : r.ports[s] = NoPort}

StartGet(i, id, allow_setup_failed) ==
  /\ records[id] # Absent
  /\ records[id].status = "setup_failed" => allow_setup_failed
  /\ Begin(i, "start",
       [Idle EXCEPT !.at = IF Missing(records[id]) = {} THEN "leased" ELSE "started",
                    !.id = id, !.rec = records[id]])
  /\ UNCHANGED <<stores, repo, used>>

(* allocate, for the slots the record lacks.                               *)
LeasePorts(i) ==
  LET id == job[i].id
      slots == Missing(job[i].rec)
  IN /\ At(i, "started")
     /\ slots # {}
     /\ Table!Claim(id, slots)
     /\ job' = [job EXCEPT ![i].rec.ports =
                  [s \in Slots |-> IF s \in slots THEN table'[<<id, s>>] ELSE @[s]]]
     /\ UNCHANGED <<records, repo, used>>

LeaseFails(i) ==
  /\ At(i, "started")
  /\ Missing(job[i].rec) # {}
  /\ End(i)
  /\ UNCHANGED <<stores, repo, used>>

SaveLease(i) ==
  /\ At(i, "started")
  /\ Missing(job[i].rec) = {}
  /\ Update(i, job[i].id, "leased")
  /\ UNCHANGED <<table, repo, used>>

StartReady(i) ==
  /\ At(i, "leased")
  /\ \/ Store!Update(job[i].id, [job[i].rec EXCEPT !.status = "ready"])
     \/ records[job[i].id] = Absent /\ UNCHANGED records
  /\ End(i)
  /\ UNCHANGED <<table, repo, used>>

-----------------------------------------------------------------------------
(* The environment.                                                        *)

Crash(i) ==
  /\ "crash" \in Does[i]
  /\ ~At(i, "idle")
  /\ End(i)
  /\ UNCHANGED <<stores, repo, used>>

(* The user adds a worktree, of a branch that exists or of a new one, in a
   place of its own, ...                                                    *)
UserAddsWorktree(p, b) ==
  /\ "add" \in UserDoes
  /\ p \notin used
  /\ ~Registered(b)
  /\ git' = [git EXCEPT ![p] = b]
  /\ disk' = disk \cup {p}
  /\ branches' = branches \cup {b}
  /\ used' = used \cup {p}
  /\ UNCHANGED <<stores, ours, job>>

(* ... or deletes a checkout behind everybody's back.                      *)
UserDeletesCheckout(p) ==
  /\ "delete" \in UserDoes
  /\ p \in disk
  /\ disk' = disk \ {p}
  /\ UNCHANGED <<stores, git, branches, ours, used, job>>

Create(i) ==
  \/ \E b \in Branches : CheckDuplicate(i, b)
  \/ ProbeBranch(i) \/ GitAddFails(i) \/ AllocatePorts(i) \/ AddRecord(i)
  \/ \E id \in Ids, timeout \in BOOLEAN : GitAdd(i, id, timeout)
  \/ CreateFails(i) \/ RollbackGit(i) \/ RollbackPorts(i) \/ RollbackBranch(i)
  \/ RollbackStepFails(i) \/ CreateRaises(i)
  \/ \E status \in {"created", "setup_failed"} : SetupDone(i, status)

Adopt(i) == AdoptScan(i) \/ AdoptImport(i)

Remove(i) ==
  \/ \E id \in Ids, force \in BOOLEAN : ResolveTracked(i, id, force)
  \/ \E p \in Paths, force \in BOOLEAN : ResolveUntracked(i, p, force)
  \/ NotFound(i) \/ DeleteCheckout(i) \/ TeardownRaises(i) \/ PruneAfterDelete(i)
  \/ ReleasePorts(i) \/ DropRecord(i) \/ DeleteOwnedBranch(i)

Reconcile(i) == ReconcileMark(i) \/ ReconcileSweep(i)

Start(i) ==
  \/ \E id \in Ids, allow \in BOOLEAN : StartGet(i, id, allow)
  \/ LeasePorts(i) \/ LeaseFails(i) \/ SaveLease(i) \/ StartReady(i)

Next ==
  \/ \E i \in Instances :
       \/ Create(i) \/ Adopt(i) \/ Remove(i) \/ Prune(i)
       \/ Reconcile(i) \/ Start(i) \/ Crash(i)
  \/ \E p \in UserPaths, b \in Branches : UserAddsWorktree(p, b)
  \/ \E p \in Paths : UserDeletesCheckout(p)

Spec == Init /\ [][Next]_vars

(* Who polls list() reconciles again and again; an operation under way goes
   on until it ends.  Nobody has to begin any other operation.             *)
Polling(i) == "reconcile" \in Does[i]
FairSpec == Spec /\ \A i \in Instances : Polling(i) => WF_vars(Reconcile(i))

-----------------------------------------------------------------------------
(* Properties.                                                             *)

(* While an environment is tracked and its checkout exists, ports.yaml holds
   every port its record shows, under its own key: nobody else is given it.
   remove releases after the deletion, reconcile frees by owner.           *)
Live(id) == records[id] # Absent /\ records[id].path \in disk
ReservationHeld ==
  \A id \in Ids, s \in Slots :
    Live(id) /\ records[id].ports[s] # NoPort => table[<<id, s>>] = records[id].ports[s]

(* What the user sees of it: two environments that exist show no port twice. *)
NoSharedPort ==
  \A k, l \in Table!Keys :
    /\ Live(k[1]) /\ Live(l[1])
    /\ records[k[1]].ports[k[2]] = records[l[1]].ports[l[2]]
    /\ records[k[1]].ports[k[2]] # NoPort
    => k = l

(* No two records stand for one checkout: else removing one of the two
   environments deletes the other.  adopt's single critical section.       *)
OneRecordPerCheckout ==
  \A a, b \in Tracked : records[a].path = records[b].path => a = b

(* A record leaves state.yaml only when its checkout is gone: a removal that
   fails can always be tried again.                                        *)
DroppedOnlyWhenGone ==
  [][\A id \in Tracked : records'[id] = Absent => records[id].path \notin disk]_vars

(* A create() that fails, and whose rollback meets no failure, leaves nothing
   of its own at the end of it: no registration, directory, reservation or
   record under its id, and no branch that it made, unless somebody has
   checked that branch out elsewhere by then.                              *)
NothingLeft(i) ==
  LET id == job[i].id
      b == job[i].rec.branch
  IN /\ git'[id] = NoBranch /\ id \notin disk'
     /\ records'[id] = Absent
     /\ \A s \in Slots : table'[<<id, s>>] = NoPort
     /\ job[i].rec.owned /\ b \in branches' => \E p \in Paths \ {id} : git'[p] = b
FailedCreateLeavesNothing ==
  [][\A i \in Instances :
       At(i, "rollback_branch") /\ job'[i].at = "rolled_back" /\ job'[i].clean
         => NothingLeft(i)]_vars

(* No operation deletes a branch that a create() has not made itself.      *)
UserBranchesKept == [][branches \ branches' \subseteq ours]_vars

(* A step of reconcile frees a reservation only if no record owns it, as
   README.md:95-102 and the comment on phase 2 have it.                    *)
FreedOnlyWithoutRecord ==
  [][\A i \in Instances, k \in Table!Keys :
       /\ job[i].at \in {"marked", "listing"} /\ job'[i] # job[i]
       /\ table[k] # NoPort /\ table'[k] = NoPort
       => records[k[1]] = Absent]_vars

(* A reservation without a record does not stay, if somebody reconciles.   *)
OrphanReservationsFreed ==
  \A id \in Ids, s \in Slots :
    records[id] = Absent /\ table[<<id, s>>] # NoPort
      ~> records[id] # Absent \/ table[<<id, s>>] = NoPort

(* An environment whose checkout was deleted outside is reported as such.  *)
LostCheckoutsReported ==
  \A id \in Ids :
    records[id] # Absent /\ records[id].path \notin disk
      ~> records[id] = Absent \/ records[id].status = "orphaned"

(* What crashes, failures and deletions outside leave behind does not stay. *)
ReconcileSettles == OrphanReservationsFreed /\ LostCheckoutsReported

-----------------------------------------------------------------------------
(* The inductive invariant behind the safety properties.                   *)

(* An id that create() has been given, and no record has yet.              *)
Making == {"added", "allocated", "rollback_git", "rollback_ports", "rollback_branch"}
Creating == Making \cup {"checked", "probed", "setup"}
Removing == {"teardown", "deleted", "pruned", "released", "dropped"}
Starting == {"started", "leased"}

(* What a job holds at each of its stages.                                 *)
JobsOK ==
  \A i \in Instances :
    /\ job[i].at \in Creating \cup Removing \cup Starting => job[i].rec \in Recs
    /\ job[i].at \in Making \cup {"setup"} \cup Starting => job[i].id \in Ids
    /\ job[i].at \notin Making \cup {"setup"} \cup Starting \cup Removing => job[i].id = NoId
    /\ job[i].at \in Removing /\ job[i].id = NoId => ~job[i].rec.owned
    /\ \A v, w \in job[i].found : v[1] = w[1] => v = w
    /\ job[i].at \in Creating => "create" \in Does[i]
    /\ job[i].at = "scanned" => "adopt" \in Does[i]
    /\ job[i].at \in Starting => "start" \in Does[i]
    /\ job[i].at \in {"marked", "listing"} => Does[i] \cap {"reconcile", "remove_path"} # {}

(* Nothing exists in a place, or under an id, that was never given out.    *)
UsedOK ==
  /\ \A p \in Paths : git[p] # NoBranch => p \in used
  /\ \A p \in disk : git[p] # NoBranch
  /\ \A id \in Tracked : id \in used /\ records[id].path \in used
  /\ \A id \in Ids, s \in Slots : table[<<id, s>>] # NoPort => id \in used
  /\ \A i \in Instances :
       /\ job[i].id # NoId => job[i].id \in used
       /\ job[i].at \in Making \cup {"setup"} \cup Removing \cup Starting => job[i].rec.path \in used
       /\ \A w \in job[i].found : w[1] \in used

(* An id belongs to the create() that was given it until the record is there. *)
NewIdsOK ==
  \A i \in Instances :
    /\ job[i].at \in Making =>
         /\ job[i].rec.path = job[i].id /\ job[i].id \notin Tracked
         /\ \A j \in Instances \ {i} : job[j].id # job[i].id
    /\ job[i].at = "setup" =>
         \A j \in Instances \ {i} : job[j].at = "setup" => job[j].id # job[i].id

(* What never changes in a record, every older copy of it still shows.     *)
CopiesOK ==
  \A i \in Instances : job[i].id \in Tracked =>
    /\ job[i].rec.path = records[job[i].id].path
    /\ job[i].rec.branch = records[job[i].id].branch
    /\ job[i].rec.owned = records[job[i].id].owned

(* A removal that is past the deletion; its record is dropped only once.   *)
RemovalsOK ==
  \A i \in Instances :
    /\ job[i].at \in Removing \ {"teardown"} => job[i].rec.path \notin disk
    /\ job[i].at = "dropped" /\ job[i].id # NoId =>
         /\ job[i].id \notin Tracked
         /\ \A j \in Instances \ {i} : job[j].at = "dropped" => job[j].id # job[i].id

(* The environments that a branch may be deleted with: at most one, and only
   if create() has made it.                                                *)
OwnersOf(b) ==
  {id \in Ids :
     \/ id \in Tracked /\ records[id].owned /\ records[id].branch = b
     \/ \E i \in Instances :
          /\ job[i].at \in Making \cup {"dropped"} /\ job[i].id = id
          /\ job[i].rec.owned /\ job[i].rec.branch = b}
OwnersOK ==
  \A b \in Branches :
    /\ OwnersOf(b) # {} => b \in ours
    /\ \A x, y \in OwnersOf(b) : x = y

RollbackOK ==
  \A i \in Instances : job[i].clean =>
    /\ job[i].at \in {"rollback_ports", "rollback_branch"} =>
         git[job[i].id] = NoBranch /\ job[i].id \notin disk
    /\ At(i, "rollback_branch") => \A s \in Slots : table[<<job[i].id, s>>] = NoPort

TableOK == \A k, l \in Table!Keys : table[k] = table[l] /\ table[k] # NoPort => k = l

(* Nobody imports what somebody else is about to add a record for.         *)
AdoptApart ==
  \A i, j \in Instances : "create" \in Does[i] /\ "adopt" \in Does[j] => i = j

CheckoutsOK ==
  /\ OneRecordPerCheckout
  /\ \A i \in Instances : job[i].at \in {"added", "allocated"} =>
       \A id \in Tracked : records[id].path # job[i].id

(* One instance starts, and nobody reconciles beside one that leases ports. *)
LeaseApart ==
  \A i, j \in Instances :
    /\ "start" \in Does[i] /\ "start" \in Does[j] => i = j
    /\ Does[i] \cap {"create", "start"} # {} /\ Does[j] \cap {"reconcile", "remove_path"} # {}
         => i = j

(* Whoever will write ports into a record holds all that the record shows,
   and ports.yaml has what it holds.                                       *)
LeasesOK ==
  /\ ReservationHeld
  /\ \A i \in Instances, s \in Slots :
       /\ job[i].at \in {"allocated", "setup"} => job[i].rec.ports[s] # NoPort
       /\ At(i, "allocated") => table[<<job[i].id, s>>] = job[i].rec.ports[s]
  /\ \A i \in Instances, id \in Tracked, s \in Slots :
       job[i].at \in {"setup"} \cup Starting /\ job[i].id = id =>
         /\ records[id].ports[s] # NoPort => job[i].rec.ports[s] = records[id].ports[s]
         /\ At(i, "setup") => records[id].ports[s] # NoPort
         /\ Live(id) /\ job[i].rec.ports[s] # NoPort => table[<<id, s>>] = job[i].rec.ports[s]
  /\ \A i \in Instances, id \in Tracked, s \in Slots :
       job[i].at \in {"marked", "listing"} /\ id \notin job[i].seen => table[<<id, s>>] = NoPort

IInv ==
  /\ TypeOK /\ JobsOK /\ UsedOK /\ NewIdsOK /\ CopiesOK /\ RemovalsOK /\ OwnersOK
  /\ RollbackOK /\ TableOK
  /\ AdoptApart => CheckoutsOK
  /\ LeaseApart => LeasesOK
=============================================================================
