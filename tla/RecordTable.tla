---------------------------- MODULE RecordTable ----------------------------
(***************************************************************************)
(* What state.yaml promises: a map from worktree ids to records, changed   *)
(* by whole operations only.  StateFile, with its lock, temporary files    *)
(* and failures, is shown to implement it.                                 *)
(***************************************************************************)
CONSTANTS Ids,      \* worktree ids
          Recs,     \* values a record can have
          Absent    \* the value of an id that is not tracked

VARIABLE file

Tables == [Ids -> Recs \cup {Absent}]
Tracked(t) == {id \in Ids : t[id] # Absent}

RInit == file = [id \in Ids |-> Absent]

Add(id, r) == file[id] = Absent /\ file' = [file EXCEPT ![id] = r]
Update(id, r) == file[id] # Absent /\ file' = [file EXCEPT ![id] = r]
Remove(id) == file' = [file EXCEPT ![id] = Absent]

(* reconcile rewrites records but neither adds nor removes one; adopt adds
   records and rewrites none.                                              *)
Rewrite == file' \in {t \in Tables : Tracked(t) = Tracked(file)}
Import == file' \in {t \in Tables : \A id \in Tracked(file) : t[id] = file[id]}

RNext ==
  \/ \E id \in Ids, r \in Recs : Add(id, r) \/ Update(id, r)
  \/ \E id \in Ids : Remove(id)
  \/ Rewrite
  \/ Import

RSpec == RInit /\ [][RNext]_file
=============================================================================
