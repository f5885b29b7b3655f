----------------------------- MODULE BranchHeal -----------------------------
(***************************************************************************)
(* core/yaml_store.py: the last phase of reconcile(), which repairs branch *)
(* names that were stored in a wrong encoding (#139).  It suspects records *)
(* by what phase 1 has read, asks git with no lock held, and writes under  *)
(* the lock of state.yaml, on a fresh reading, what git said: while users  *)
(* switch branches and other operations save, drop and recreate records.   *)
(*                                                                         *)
(* Names are strings; some are what becomes of another one when its bytes  *)
(* are decoded wrongly.  No branch is ever really called that.             *)
(***************************************************************************)
EXTENDS Naturals

CONSTANTS Ids, Repos, RepoOf,      \* the records and the repository of each
          Branches,                \* the names that branches have
          Garbled,                 \* the names that no branch has
          Garbles,                 \* <<g, b>>: g is b decoded wrongly
          Ascii,                   \* the names that survive any encoding
          NoBranch,                \* a detached HEAD, or no checkout
          Answering,               \* the repositories where git does not fail for ever
          Healers,                 \* processes that reconcile
          MaxChanges               \* bound on what users and other operations do,
                                   \* on failures of git there, and of the lock

ASSUME HealAssumption ==
  /\ RepoOf \in [Ids -> Repos]
  /\ Garbled \cap (Branches \cup Ascii) = {} /\ NoBranch \notin Branches \cup Garbled
  /\ Garbles \subseteq Garbled \X Branches
  /\ \A p, q \in Garbles : p[1] = q[1] => p[2] = q[2]
  /\ MaxChanges \in Nat

VARIABLES table,         \* state.yaml
          live,          \* the branch that is checked out at the path of each
          created,       \* the branch each was made for: branch_created_by_us
          healer,        \* what each reconcile() is doing
          changes

healVars == <<table, live, created, healer, changes>>

Heard == Branches \cup {NoBranch}
Names == Heard \cup Garbled

(* rest: all else in the record, by the number of its last change. *)
StoredRecord == [tracked: BOOLEAN, branch: Names, rest: 0..MaxChanges]
NoRecord == [tracked |-> FALSE, branch |-> NoBranch, rest |-> 0]
Healer == [at: {"idle", "asking"}, records: [Ids -> StoredRecord],
           todo: SUBSET Repos, heard: [Ids -> Heard], answered: SUBSET Repos]

HealTypeOK ==
  /\ table \in [Ids -> StoredRecord]
  /\ live \in [Ids -> Heard]
  /\ created \in [Ids -> Heard]
  /\ healer \in [Healers -> Healer]
  /\ \A h \in Healers : healer[h].todo \cap healer[h].answered = {}
  /\ changes \in 0..MaxChanges

(* The ways to store the name of a branch, right or wrong. *)
Spellings(b) == {b} \cup {g \in Garbled : <<g, b>> \in Garbles}

Idle == [at |-> "idle", records |-> [id \in Ids |-> NoRecord], todo |-> {},
         heard |-> [id \in Ids |-> NoBranch], answered |-> {}]

HealInit ==
  /\ created \in [Ids -> Heard]
  /\ table \in [Ids -> [tracked: {TRUE}, branch: Names, rest: {0}]]
  /\ \A id \in Ids : table[id].branch \in Spellings(created[id])
  /\ live = created
  /\ healer = [h \in Healers |-> Idle]
  /\ changes = 0

Change == changes < MaxChanges /\ changes' = changes + 1

-----------------------------------------------------------------------------
(* reconcile(), phase 3.                                                   *)

Candidates(records) ==
  {id \in Ids : records[id].tracked /\ records[id].branch \notin Ascii \cup {NoBranch}}

(* _is_utf8_mojibake_of *)
Faulty_Repairs(stored, said) == TRUE
Repairs(stored, said) == <<stored, said>> \in Garbles

Suspect(h) ==
  /\ healer[h].at = "idle" /\ Candidates(table) # {}
  /\ healer' = [healer EXCEPT ![h] =
       [Idle EXCEPT !.at = "asking", !.records = table,
                    !.todo = {RepoOf[id] : id \in Candidates(table)}]]
  /\ UNCHANGED <<table, live, created, changes>>

(* git worktree list --porcelain in one of the repositories. *)
AskGit(h, r) ==
  /\ r \in healer[h].todo
  /\ healer' = [healer EXCEPT
       ![h].todo = @ \ {r}, ![h].answered = @ \cup {r},
       ![h].heard = [id \in Ids |-> IF RepoOf[id] = r THEN live[id] ELSE @[id]]]
  /\ UNCHANGED <<table, live, created, changes>>

(* Skips that repository and no other. *)
Failing(r) == IF r \in Answering THEN Change ELSE UNCHANGED changes
Faulty_GitFails(h, r) ==
  /\ r \in healer[h].todo /\ Failing(r)
  /\ healer' = [healer EXCEPT ![h] = Idle]
  /\ UNCHANGED <<table, live, created>>
GitFails(h, r) ==
  /\ r \in healer[h].todo /\ Failing(r)
  /\ healer' = [healer EXCEPT ![h].todo = @ \ {r}]
  /\ UNCHANGED <<table, live, created>>

AllAsked(h) == healer[h].at = "asking" /\ healer[h].todo = {}

NothingToHeal(h) ==
  /\ AllAsked(h) /\ healer[h].answered = {}
  /\ healer' = [healer EXCEPT ![h] = Idle]
  /\ UNCHANGED <<table, live, created, changes>>

Faulty_Reloaded(h) == healer[h].records
Reloaded(h) == table

Healed(h, id) ==
  LET fresh == Reloaded(h)[id]
      said == healer[h].heard[id]
  IN IF /\ id \in Candidates(healer[h].records) /\ fresh.tracked
        /\ said # NoBranch /\ said # fresh.branch /\ Repairs(fresh.branch, said)
     THEN [fresh EXCEPT !.branch = said]
     ELSE fresh

(* One critical section of state.yaml. *)
Heal(h) ==
  /\ AllAsked(h) /\ healer[h].answered # {}
  /\ table' = [id \in Ids |-> Healed(h, id)]
  /\ healer' = [healer EXCEPT ![h] = Idle]
  /\ UNCHANGED <<live, created, changes>>

(* The lock is not free, or the file cannot be read or written. *)
HealFails(h) ==
  /\ AllAsked(h) /\ healer[h].answered # {}
  /\ Change
  /\ healer' = [healer EXCEPT ![h] = Idle]
  /\ UNCHANGED <<table, live, created>>

HealStep(h) ==
  \/ Suspect(h) \/ NothingToHeal(h) \/ Heal(h) \/ HealFails(h)
  \/ \E r \in Repos : AskGit(h, r) \/ GitFails(h, r)

-----------------------------------------------------------------------------
(* The others.                                                             *)

Switch(id) ==
  /\ Change
  /\ live' \in {[live EXCEPT ![id] = b] : b \in Heard}
  /\ UNCHANGED <<table, created, healer>>

(* An operation saves a record, perhaps as it had read it before a heal. *)
WriteBack(id) ==
  /\ Change /\ table[id].tracked
  /\ \E spelling \in Spellings(table[id].branch) :
       table' = [table EXCEPT ![id].branch = spelling, ![id].rest = changes']
  /\ UNCHANGED <<live, created, healer>>

(* remove(), and create() with the same id. *)
Forget(id) ==
  /\ Change /\ table[id].tracked
  /\ table' = [table EXCEPT ![id].tracked = FALSE]
  /\ live' = [live EXCEPT ![id] = NoBranch]
  /\ UNCHANGED <<created, healer>>

CreateAgain(id) ==
  /\ Change /\ ~table[id].tracked
  /\ \E b \in Branches :
       /\ table' = [table EXCEPT ![id] = [tracked |-> TRUE, branch |-> b, rest |-> changes']]
       /\ live' = [live EXCEPT ![id] = b]
       /\ created' = [created EXCEPT ![id] = b]
  /\ UNCHANGED healer

Other(id) == Switch(id) \/ WriteBack(id) \/ Forget(id) \/ CreateAgain(id)
HealNext == (\E h \in Healers : HealStep(h)) \/ \E id \in Ids : Other(id)

HealSpec == HealInit /\ [][HealNext]_healVars

(* Somebody keeps listing. *)
HealFairness == \A h \in Healers : WF_healVars(HealStep(h))

-----------------------------------------------------------------------------
(* Properties.                                                             *)

(* A heal never retargets a record onto a branch that was not made for it,
   whatever was switched, dropped or recreated since it asked: the name is
   paired with branch_created_by_us, and remove() deletes that branch.     *)
OwnershipKept == \A id \in Ids : table[id].branch \in Spellings(created[id])

(* A heal loses nothing that others saved while git was asked: no record
   comes back, and all but the branch stays as it was saved last.          *)
HealLosesNothing ==
  [][healer' # healer =>
       \A id \in Ids : table'[id].tracked = table[id].tracked
                          /\ table'[id].rest = table[id].rest]_healVars

(* A record whose checkout is on its branch does not keep a wrong spelling for
   ever, even though git works in no other repository (#139).              *)
HealedInTheEnd ==
  \A id \in Ids : RepoOf[id] \in Answering =>
    []<>~(table[id].tracked /\ live[id] = created[id] /\ table[id].branch # created[id])
=============================================================================
