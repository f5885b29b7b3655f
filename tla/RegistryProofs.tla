--------------------------- MODULE RegistryProofs ---------------------------
(***************************************************************************)
(* Proofs about module Registry, for any number of managers, environments, *)
(* branches, slots and ports, whatever each manager is used for.  For each *)
(* step a lemma, named after it, says that it keeps IInv; steps that have  *)
(* much in common share a lemma about any step of their kind.              *)
(***************************************************************************)
EXTENDS Registry, TLAPS

-----------------------------------------------------------------------------
(* What the steps do to the job of their instance, and to ports.yaml.      *)

(* Only the operation of i goes on. *)
OnlyMoves(i) ==
  /\ job' \in [Instances -> Jobs]
  /\ \A j \in Instances \ {i} : job'[j] = job[j]

(* It goes on to a stage and forgets nothing. *)
MovesTo(i, stage) ==
  /\ OnlyMoves(i)
  /\ job'[i].at = stage
  /\ job'[i].id = job[i].id /\ job'[i].rec = job[i].rec
  /\ job'[i].clean = job[i].clean /\ job'[i].found = job[i].found /\ job'[i].seen = job[i].seen

Stages == {"idle", "checked", "probed", "added", "allocated", "rollback_git",
           "rollback_ports", "rollback_branch", "rolled_back", "setup", "scanned", "teardown",
           "deleted", "pruned", "released", "dropped", "marked", "listing",
           "listed", "started", "leased"}

LEMMA IdleIsJob ==
  /\ Idle \in Jobs /\ Idle.at = "idle" /\ Idle.id = NoId /\ Idle.rec = Absent
  /\ Idle.clean = TRUE /\ Idle.found = {} /\ Idle.seen = {}
BY DEF Idle, Jobs

LEMMA EndMoves ==
  ASSUME TypeOK, NEW i \in Instances, End(i)
  PROVE  OnlyMoves(i) /\ job'[i] = Idle
BY IdleIsJob DEF End, OnlyMoves, TypeOK

LEMMA GotoMoves ==
  ASSUME TypeOK, NEW i \in Instances, NEW stage \in Stages, Goto(i, stage)
  PROVE  MovesTo(i, stage)
<1> DEFINE new == [job[i] EXCEPT !.at = stage]
<1>1. job \in [Instances -> Jobs] /\ job' = [job EXCEPT ![i] = new]
  BY DEF Goto, TypeOK
<1>2. /\ new \in Jobs /\ new.at = stage /\ new.id = job[i].id /\ new.rec = job[i].rec
      /\ new.clean = job[i].clean /\ new.found = job[i].found /\ new.seen = job[i].seen
  BY <1>1 DEF Jobs, Stages
<1> HIDE DEF new
<1> QED
  BY <1>1, <1>2 DEF MovesTo, OnlyMoves

LEMMA ClaimEffect ==
  ASSUME TypeOK, TableOK, NEW o \in Ids, NEW S \in SUBSET Slots, Table!Claim(o, S)
  PROVE  /\ table' \in [Ids \X Slots -> Ports \cup {NoPort}]
         /\ \A s \in S : table'[<<o, s>>] \in Ports
         /\ \A id \in Ids, s \in Slots : id # o \/ s \notin S => table'[<<id, s>>] = table[<<id, s>>]
         /\ TableOK'
<1> DEFINE mine == Table!OwnKeys(o, S)
<1>1. PICK grant \in [S -> Ports] :
        /\ Table!Injective(grant, S)
        /\ \A s \in S : grant[s] \notin Table!Held(Table!Keys \ mine)
        /\ table' = [k \in Table!Keys |-> IF k \in mine THEN grant[k[2]] ELSE table[k]]
  BY DEF Table!Claim
<1>2. Table!Keys = Ids \X Slots
  BY DEF Table!Keys
<1>3. \A k \in Ids \X Slots : k \in mine <=> k[1] = o /\ k[2] \in S
  BY DEF Table!OwnKeys
<1>4. \A k \in Ids \X Slots : k \in mine => table'[k] = grant[k[2]] /\ grant[k[2]] \in Ports
  BY <1>1, <1>2, <1>3
<1>5. \A k \in Ids \X Slots : k \notin mine => table'[k] = table[k]
  BY <1>1, <1>2
<1>6. table' \in [Ids \X Slots -> Ports \cup {NoPort}]
  BY <1>1, <1>2, <1>3 DEF TypeOK
<1>7. \A s \in S : <<o, s>> \in Ids \X Slots /\ <<o, s>>[1] = o /\ <<o, s>>[2] = s
  OBVIOUS
<1>8. \A s \in S : table'[<<o, s>>] \in Ports
  BY <1>3, <1>4, <1>7
<1>9. \A id \in Ids, s \in Slots : id # o \/ s \notin S => table'[<<id, s>>] = table[<<id, s>>]
  BY <1>3, <1>5
<1>10. ASSUME NEW k \in Ids \X Slots, NEW l \in Ids \X Slots, table'[k] = table'[l], table'[k] # NoPort
       PROVE  k = l
  <2>1. CASE k \in mine /\ l \in mine
    <3>1. grant[k[2]] = grant[l[2]]
      BY <1>4, <1>10, <2>1
    <3>2. k[2] = l[2]
      BY <1>1, <1>3, <2>1, <3>1 DEF Table!Injective
    <3> QED
      BY <1>3, <2>1, <3>2
  <2>2. ASSUME NEW x \in Ids \X Slots, NEW y \in Ids \X Slots, x \in mine, y \notin mine,
               table'[x] = table'[y]
        PROVE  FALSE
    <3>1. table'[y] \in Table!Held(Table!Keys \ mine)
      <4>1. table'[y] = table[y] /\ table'[y] # NoPort
        BY <1>4, <1>5, <2>2, RegistryAssumption DEF RegistryAssumption
      <4> QED
        BY <1>2, <2>2, <4>1 DEF Table!Held
    <3> QED
      BY <1>1, <1>3, <1>4, <2>2, <3>1
  <2>3. CASE k \notin mine /\ l \notin mine
    BY <1>2, <1>5, <1>10, <2>3 DEF TableOK
  <2> QED
    BY <1>10, <2>1, <2>2, <2>3
<1> HIDE DEF mine
<1> QED
  BY <1>2, <1>6, <1>8, <1>9, <1>10 DEF TableOK

LEMMA FreeEffect ==
  ASSUME TypeOK, TableOK, NEW K, Table!Free(K)
  PROVE  /\ table' \in [Ids \X Slots -> Ports \cup {NoPort}]
         /\ \A k \in Ids \X Slots : /\ k \in K => table'[k] = NoPort
                                    /\ k \notin K => table'[k] = table[k]
         /\ TableOK'
<1>1. table' = [k \in Ids \X Slots |-> IF k \in K THEN NoPort ELSE table[k]]
  BY DEF Table!Free, Table!Keys
<1>2. \A k \in Ids \X Slots : table'[k] = IF k \in K THEN NoPort ELSE table[k]
  BY <1>1
<1>3. table' \in [Ids \X Slots -> Ports \cup {NoPort}]
  BY <1>1 DEF TypeOK
<1>4. TableOK'
  BY <1>2 DEF TableOK, Table!Keys
<1> QED
  BY <1>2, <1>3, <1>4

(* The record an operation writes back. *)
LEMMA RecordWrite ==
  ASSUME TypeOK, NEW id \in Ids, NEW r \in Recs,
         Store!Add(id, r) \/ Store!Update(id, r)
  PROVE  /\ records' \in [Ids -> Recs \cup {Absent}]
         /\ records'[id] = r
         /\ \A x \in Ids \ {id} : records'[x] = records[x]
BY DEF Store!Add, Store!Update, TypeOK

LEMMA StatusOnly ==
  ASSUME NEW r \in Recs,
         NEW status \in {"created", "adopted", "ready", "setup_failed", "orphaned"},
         NEW q, q = [r EXCEPT !.status = status]
  PROVE  /\ q \in Recs /\ q.path = r.path /\ q.branch = r.branch /\ q.owned = r.owned
         /\ q.ports = r.ports
BY DEF Recs

-----------------------------------------------------------------------------
(* Steps that change nothing but the job of their instance.                *)

LEMMA OwnersFewer ==
  ASSUME OwnersOK,
         \A b \in Branches : /\ OwnersOf(b)' \subseteq OwnersOf(b)
                             /\ OwnersOf(b)' # {} => b \notin ours \ ours'
  PROVE  OwnersOK'
BY DEF OwnersOK

(* The job has no environment. *)
LEMMA WithoutIdKeeps ==
  ASSUME IInv, NEW i \in Instances, OnlyMoves(i), UNCHANGED <<stores, repo, used>>, JobsOK',
         job'[i].id = NoId,
         job'[i].at \in {"idle", "checked", "probed", "scanned", "listed", "teardown"},
         job'[i].at = "teardown" => job'[i].rec.path \in used,
         \A w \in job'[i].found : w[1] \in used
  PROVE  IInv'
<1> USE DEF IInv
<1>1. NoId \notin Ids
  BY RegistryAssumption DEF RegistryAssumption
<1>2. /\ UNCHANGED <<records, table, git, disk, branches, ours, used>>
      /\ Tracked' = Tracked
  BY DEF stores, repo, Tracked
<1>3. TypeOK'
  BY <1>2 DEF TypeOK, OnlyMoves
<1>4. UsedOK'
  BY <1>2 DEF UsedOK, OnlyMoves, Making, Starting, Removing
<1>5. NewIdsOK'
  BY <1>1, <1>2 DEF NewIdsOK, OnlyMoves, Making, JobsOK
<1>6. CopiesOK'
  BY <1>1, <1>2 DEF CopiesOK, OnlyMoves, Tracked
<1>7. RemovalsOK'
  BY <1>2 DEF RemovalsOK, OnlyMoves, Removing
<1>8. OwnersOK'
  <2>1. \A b \in Branches : OwnersOf(b)' \subseteq OwnersOf(b)
    BY <1>1, <1>2 DEF OwnersOf, OnlyMoves
  <2> QED
    BY <1>2, <2>1, OwnersFewer
<1>9. RollbackOK' /\ TableOK'
  BY <1>2 DEF RollbackOK, TableOK, OnlyMoves, At
<1>10. AdoptApart => CheckoutsOK'
  BY <1>2 DEF CheckoutsOK, OneRecordPerCheckout, OnlyMoves
<1>11. LeaseApart => LeasesOK'
  BY <1>1, <1>2 DEF LeasesOK, ReservationHeld, Live, OnlyMoves, At, Starting, Tracked
<1> QED
  BY <1>3, <1>4, <1>5, <1>6, <1>7, <1>8, <1>9, <1>10, <1>11 DEF AdoptApart, LeaseApart

(* The job takes a copy of a record. *)
LEMMA CopyKeeps ==
  ASSUME IInv, NEW i \in Instances, OnlyMoves(i), UNCHANGED <<stores, repo, used>>, JobsOK',
         NEW id \in Tracked, job'[i].id = id, job'[i].rec = records[id],
         job'[i].at \in {"teardown"} \cup Starting,
         job'[i].found = {}
  PROVE  IInv'
<1> USE DEF IInv
<1>1. /\ UNCHANGED <<records, table, git, disk, branches, ours, used>>
      /\ Tracked' = Tracked
  BY DEF stores, repo, Tracked
<1>2. TypeOK'
  BY <1>1 DEF TypeOK, OnlyMoves
<1>3. UsedOK'
  BY <1>1 DEF UsedOK, OnlyMoves, Making, Starting, Removing
<1>4. NewIdsOK'
  BY <1>1 DEF NewIdsOK, OnlyMoves, Making, Starting
<1>5. CopiesOK'
  BY <1>1 DEF CopiesOK, OnlyMoves
<1>6. RemovalsOK'
  BY <1>1 DEF RemovalsOK, OnlyMoves, Removing, Starting
<1>7. OwnersOK'
  <2>1. \A b \in Branches : OwnersOf(b)' \subseteq OwnersOf(b)
    BY <1>1 DEF OwnersOf, OnlyMoves, Making, Starting
  <2> QED
    BY <1>1, <2>1, OwnersFewer
<1>8. RollbackOK' /\ TableOK'
  BY <1>1 DEF RollbackOK, TableOK, OnlyMoves, At, Starting
<1>9. AdoptApart => CheckoutsOK'
  BY <1>1 DEF CheckoutsOK, OneRecordPerCheckout, OnlyMoves, Starting
<1>10. LeaseApart => LeasesOK'
  BY <1>1 DEF LeasesOK, ReservationHeld, Live, OnlyMoves, At, Starting, Tracked
<1> QED
  BY <1>2, <1>3, <1>4, <1>5, <1>6, <1>7, <1>8, <1>9, <1>10 DEF AdoptApart, LeaseApart

(* A create() has failed, or a step of its rollback has. *)
LEMMA RollbackKeeps ==
  ASSUME IInv, NEW i \in Instances, OnlyMoves(i), UNCHANGED <<stores, repo, used>>,
         job[i].at \in Making, job'[i].at \in Making \ {"added", "allocated"},
         job'[i].id = job[i].id, job'[i].rec = job[i].rec, job'[i].found = job[i].found,
         job'[i].at = "rollback_git" \/ ~job'[i].clean
  PROVE  IInv'
<1> USE DEF IInv
<1>1. /\ UNCHANGED <<records, table, git, disk, branches, ours, used>>
      /\ Tracked' = Tracked
  BY DEF stores, repo, Tracked
<1>2. TypeOK'
  BY <1>1 DEF TypeOK, OnlyMoves
<1>3. JobsOK'
  BY DEF JobsOK, OnlyMoves, Making, Creating, Starting, Removing
<1>4. UsedOK'
  BY <1>1 DEF UsedOK, OnlyMoves, Making, Starting, Removing
<1>5. NewIdsOK'
  BY <1>1 DEF NewIdsOK, OnlyMoves, Making
<1>6. CopiesOK' /\ RemovalsOK'
  BY <1>1 DEF CopiesOK, RemovalsOK, OnlyMoves, Making, Removing
<1>7. OwnersOK'
  <2>1. \A b \in Branches : OwnersOf(b)' \subseteq OwnersOf(b)
    BY <1>1 DEF OwnersOf, OnlyMoves, Making
  <2> QED
    BY <1>1, <2>1, OwnersFewer
<1>8. RollbackOK' /\ TableOK'
  BY <1>1 DEF RollbackOK, TableOK, OnlyMoves, At, Making
<1>9. AdoptApart => CheckoutsOK'
  BY <1>1 DEF CheckoutsOK, OneRecordPerCheckout, OnlyMoves, Making
<1>10. LeaseApart => LeasesOK'
  BY <1>1 DEF LeasesOK, ReservationHeld, Live, OnlyMoves, At, Starting, Making
<1> QED
  BY <1>2, <1>3, <1>4, <1>5, <1>6, <1>7, <1>8, <1>9, <1>10 DEF AdoptApart, LeaseApart

LEMMA EndKeeps ==
  ASSUME IInv, NEW i \in Instances, End(i), UNCHANGED <<stores, repo, used>>
  PROVE  IInv'
<1>1. OnlyMoves(i) /\ job'[i] = Idle
  BY EndMoves DEF IInv
<1>2. JobsOK'
  BY <1>1, IdleIsJob DEF IInv, JobsOK, OnlyMoves, Creating, Making, Removing, Starting
<1> QED
  BY <1>1, <1>2, IdleIsJob, WithoutIdKeeps

LEMMA CheckDuplicateKeeps ==
  ASSUME IInv, NEW i \in Instances, NEW b \in Branches, CheckDuplicate(i, b)
  PROVE  IInv'
<1> DEFINE r == [path |-> Nowhere, branch |-> b, owned |-> FALSE, status |-> "created",
                 ports |-> NoPorts]
           new == [Idle EXCEPT !.at = "checked", !.rec = r]
<1>1. r \in Recs
  BY DEF Recs, NoPorts
<1>2. /\ new \in Jobs /\ new.at = "checked" /\ new.id = NoId /\ new.rec = r /\ new.clean = TRUE
      /\ new.found = {} /\ new.seen = {}
  BY <1>1 DEF Idle, Jobs
<1> HIDE DEF r
<1>3. OnlyMoves(i) /\ job'[i] = new /\ "create" \in Does[i] /\ UNCHANGED <<stores, repo, used>>
  BY <1>2 DEF CheckDuplicate, Begin, OnlyMoves, IInv, TypeOK, r
<1> HIDE DEF new
<1>4. JobsOK'
  BY <1>1, <1>2, <1>3 DEF IInv, JobsOK, OnlyMoves, Creating, Making, Removing, Starting
<1> QED
  BY <1>2, <1>3, <1>4, WithoutIdKeeps

LEMMA ProbeBranchKeeps ==
  ASSUME IInv, NEW i \in Instances, ProbeBranch(i)
  PROVE  IInv'
<1> DEFINE owned == job[i].rec.branch \notin branches
           r == [job[i].rec EXCEPT !.owned = owned]
           new == [job[i] EXCEPT !.at = "probed", !.rec = r]
<1>1. /\ job \in [Instances -> Jobs] /\ job[i].at = "checked" /\ job' = [job EXCEPT ![i] = new]
      /\ UNCHANGED <<stores, repo, used>>
  BY DEF ProbeBranch, IInv, TypeOK, At
<1>2. job[i].rec \in Recs /\ job[i].id = NoId /\ "create" \in Does[i]
  BY <1>1 DEF IInv, JobsOK, Creating, Making, Removing, Starting
<1>3. /\ new \in Jobs /\ new.at = "probed" /\ new.id = NoId /\ new.rec \in Recs
      /\ new.found = job[i].found
  <2>1. r \in Recs
    BY <1>2 DEF Recs
  <2> HIDE DEF r
  <2>2. job[i] \in Jobs
    BY <1>1
  <2>3. [job[i] EXCEPT !.rec = r] \in Jobs
    BY <2>1, <2>2 DEF Jobs
  <2> QED
    BY <1>2, <2>1, <2>2, <2>3 DEF Jobs
<1> HIDE DEF new
<1>4. OnlyMoves(i) /\ job'[i] = new
  BY <1>1, <1>3 DEF OnlyMoves
<1>5. JobsOK'
  BY <1>1, <1>2, <1>3, <1>4 DEF IInv, JobsOK, OnlyMoves, Creating, Making, Removing, Starting
<1>6. \A w \in job'[i].found : w[1] \in used
  BY <1>3, <1>4 DEF IInv, UsedOK
<1> QED
  BY <1>1, <1>3, <1>4, <1>5, <1>6, WithoutIdKeeps

LEMMA AdoptScanKeeps ==
  ASSUME IInv, NEW i \in Instances, AdoptScan(i)
  PROVE  IInv'
<1> DEFINE seen == {w \in Paths \X Branches : w[1] \in disk /\ git[w[1]] = w[2]}
           new == [Idle EXCEPT !.at = "scanned", !.found = seen]
<1>1. /\ new \in Jobs /\ new.at = "scanned" /\ new.id = NoId /\ new.rec = Absent
      /\ new.found = seen
  BY DEF Idle, Jobs
<1>2. OnlyMoves(i) /\ job'[i] = new /\ "adopt" \in Does[i] /\ UNCHANGED <<stores, repo, used>>
  BY <1>1 DEF AdoptScan, Begin, OnlyMoves, IInv, TypeOK
<1>3. /\ \A w \in seen : w[1] \in used
      /\ \A v, w \in seen : v[1] = w[1] => v = w
  BY DEF IInv, UsedOK, TypeOK
<1> HIDE DEF new, seen
<1>4. JobsOK'
  BY <1>1, <1>2, <1>3 DEF IInv, JobsOK, OnlyMoves, Creating, Making, Removing, Starting
<1> QED
  BY <1>1, <1>2, <1>3, <1>4, WithoutIdKeeps

LEMMA ResolveUntrackedKeeps ==
  ASSUME IInv, NEW i \in Instances, NEW p \in Paths, NEW force \in BOOLEAN,
         ResolveUntracked(i, p, force)
  PROVE  IInv'
<1> DEFINE r == Adopted(<<p, git[p]>>)
           new == [Idle EXCEPT !.at = "teardown", !.force = force, !.rec = r]
<1>1. r \in Recs /\ r.path = p /\ r.owned = FALSE /\ p \in used
  BY DEF ResolveUntracked, Recs, NoPorts, Adopted, IInv, TypeOK, UsedOK
<1> HIDE DEF r
<1>2. /\ new \in Jobs /\ new.at = "teardown" /\ new.id = NoId /\ new.rec = r /\ new.found = {}
  BY <1>1 DEF Idle, Jobs
<1>3. OnlyMoves(i) /\ job'[i] = new /\ UNCHANGED <<stores, repo, used>>
  BY <1>2 DEF ResolveUntracked, OnlyMoves, IInv, TypeOK, r
<1> HIDE DEF new
<1>4. JobsOK'
  BY <1>1, <1>2, <1>3 DEF IInv, JobsOK, OnlyMoves, Creating, Making, Removing, Starting
<1> QED
  BY <1>1, <1>2, <1>3, <1>4, WithoutIdKeeps

LEMMA ResolveTrackedKeeps ==
  ASSUME IInv, NEW i \in Instances, NEW id \in Ids, NEW force \in BOOLEAN,
         ResolveTracked(i, id, force)
  PROVE  IInv'
<1> DEFINE new == [Idle EXCEPT !.at = "teardown", !.id = id, !.rec = records[id], !.force = force]
<1>1. id \in Tracked /\ records[id] \in Recs /\ id # NoId
  BY RegistryAssumption DEF ResolveTracked, Tracked, IInv, TypeOK, RegistryAssumption
<1>2. /\ new \in Jobs /\ new.at = "teardown" /\ new.id = id /\ new.rec = records[id]
      /\ new.found = {}
  BY <1>1 DEF Idle, Jobs
<1>3. OnlyMoves(i) /\ job'[i] = new /\ UNCHANGED <<stores, repo, used>>
  BY <1>2 DEF ResolveTracked, OnlyMoves, IInv, TypeOK
<1> HIDE DEF new
<1>4. JobsOK'
  BY <1>1, <1>2, <1>3 DEF IInv, JobsOK, OnlyMoves, Creating, Making, Removing, Starting
<1> QED
  BY <1>1, <1>2, <1>3, <1>4, CopyKeeps

LEMMA StartGetKeeps ==
  ASSUME IInv, NEW i \in Instances, NEW id \in Ids, NEW allow \in BOOLEAN, StartGet(i, id, allow)
  PROVE  IInv'
<1> DEFINE stage == IF Missing(records[id]) = {} THEN "leased" ELSE "started"
           new == [Idle EXCEPT !.at = stage, !.id = id, !.rec = records[id]]
<1>1. id \in Tracked /\ records[id] \in Recs /\ stage \in Starting /\ "start" \in Does[i]
  BY DEF StartGet, Begin, Tracked, IInv, TypeOK, Starting
<1>2. OnlyMoves(i) /\ job'[i] = new /\ UNCHANGED <<stores, repo, used>>
      /\ new \in Jobs /\ new.at = stage /\ new.id = id /\ new.rec = records[id] /\ new.found = {}
  <2> HIDE DEF stage
  <2>1. new \in Jobs /\ new.at = stage /\ new.id = id /\ new.rec = records[id] /\ new.found = {}
    BY <1>1 DEF Idle, Jobs, Starting
  <2> QED
    BY <2>1 DEF StartGet, Begin, OnlyMoves, IInv, TypeOK, stage
<1> HIDE DEF new, stage
<1>3. JobsOK'
  BY <1>1, <1>2 DEF IInv, JobsOK, OnlyMoves, Creating, Making, Removing, Starting
<1> QED
  BY <1>1, <1>2, <1>3, CopyKeeps

LEMMA CreateFailsKeeps ==
  ASSUME IInv, NEW i \in Instances,
         CreateFails(i) \/ (RollbackStepFails(i) /\ ~At(i, "rollback_branch"))
  PROVE  IInv'
<1>1. CASE CreateFails(i)
  <2>1. MovesTo(i, "rollback_git")
    BY <1>1, GotoMoves DEF CreateFails, Stages, IInv
  <2> QED
    BY <1>1, <2>1, RollbackKeeps DEF CreateFails, MovesTo, Making
<1>2. CASE RollbackStepFails(i) /\ ~At(i, "rollback_branch")
  <2> DEFINE stage == IF job[i].at = "rollback_git" THEN "rollback_ports" ELSE "rollback_branch"
             new == [job[i] EXCEPT !.at = stage, !.clean = FALSE]
  <2>1. /\ job \in [Instances -> Jobs] /\ job' = [job EXCEPT ![i] = new]
        /\ job[i].at \in {"rollback_git", "rollback_ports"} /\ UNCHANGED <<stores, repo, used>>
    BY <1>2 DEF RollbackStepFails, At, IInv, TypeOK
  <2>2. stage \in {"rollback_ports", "rollback_branch"}
    OBVIOUS
  <2> HIDE DEF stage
  <2>3. /\ new \in Jobs /\ new.at = stage /\ new.clean = FALSE /\ new.id = job[i].id
        /\ new.rec = job[i].rec /\ new.found = job[i].found
    BY <2>1, <2>2 DEF Jobs
  <2> HIDE DEF new
  <2> QED
    BY <2>1, <2>2, <2>3, RollbackKeeps DEF OnlyMoves, Making
<1> QED
  BY <1>1, <1>2

-----------------------------------------------------------------------------
(* The steps of create() that change something.                            *)

LEMMA GitAddMoves ==
  ASSUME IInv, NEW i \in Instances, NEW id \in Ids, NEW timeout \in BOOLEAN,
         GitAdd(i, id, timeout)
  PROVE  \/ OnlyMoves(i) /\ job'[i] = Idle
         \/ /\ OnlyMoves(i) /\ job'[i].at = "added" /\ job'[i].id = id
            /\ job'[i].rec \in Recs /\ job'[i].rec.path = id
            /\ job'[i].rec.branch = job[i].rec.branch /\ job'[i].rec.owned = job[i].rec.owned
            /\ job'[i].found = job[i].found
<1>1. job \in [Instances -> Jobs] /\ job[i].at = "probed"
  BY DEF GitAdd, IInv, TypeOK, At
<1>2. job[i].rec \in Recs
  BY <1>1 DEF IInv, JobsOK, Creating
<1>3. CASE End(i)
  BY <1>3, EndMoves DEF IInv
<1>4. CASE ~timeout
  <2> DEFINE r == [job[i].rec EXCEPT !.path = id]
             new == [job[i] EXCEPT !.at = "added", !.id = id, !.rec = r]
  <2>1. /\ r \in Recs /\ r.path = id /\ r.branch = job[i].rec.branch
        /\ r.owned = job[i].rec.owned
    BY <1>2 DEF Recs, Paths
  <2> HIDE DEF r
  <2>2. /\ new \in Jobs /\ new.at = "added" /\ new.id = id /\ new.rec = r
        /\ new.found = job[i].found
    BY <1>1, <2>1 DEF Jobs
  <2>3. job' = [job EXCEPT ![i] = new]
    <3>1. job' = [job EXCEPT ![i].at = "added", ![i].id = id, ![i].rec.path = id]
      BY <1>4, Zenon DEF GitAdd
    <3> QED
      BY <1>1, <3>1 DEF r
  <2> HIDE DEF new
  <2> QED
    BY <1>1, <2>1, <2>2, <2>3 DEF OnlyMoves
<1> QED
  BY <1>3, <1>4 DEF GitAdd

LEMMA GitAddKeeps ==
  ASSUME IInv, NEW i \in Instances, NEW id \in Ids, NEW timeout \in BOOLEAN,
         GitAdd(i, id, timeout)
  PROVE  IInv'
<1> USE DEF IInv
<1> DEFINE b == job[i].rec.branch
<1>1. /\ job[i].at = "probed" /\ id \notin used /\ used' = used \cup {id}
      /\ git' = [git EXCEPT ![id] = b] /\ disk' = disk \cup {id}
      /\ branches' = branches \cup {b}
      /\ ours' = ours \cup (IF job[i].rec.owned THEN {b} ELSE {})
      /\ job[i].rec.owned => b \notin branches
      /\ UNCHANGED <<records, table>> /\ Tracked' = Tracked
  BY DEF GitAdd, GitWouldAdd, At, stores, Tracked
<1>2. /\ job[i].rec \in Recs /\ "create" \in Does[i] /\ b \in Branches /\ job[i].id = NoId
      /\ id \in Paths /\ NoId \notin Ids /\ NoBranch \notin Branches
  BY <1>1, RegistryAssumption
     DEF JobsOK, Creating, Making, Removing, Starting, Recs, Paths, RegistryAssumption
<1> HIDE DEF b
<1>3. \/ OnlyMoves(i) /\ job'[i] = Idle
      \/ /\ OnlyMoves(i) /\ job'[i].at = "added" /\ job'[i].id = id
         /\ job'[i].rec \in Recs /\ job'[i].rec.path = id
         /\ job'[i].rec.branch = b /\ job'[i].rec.owned = job[i].rec.owned
         /\ job'[i].found = job[i].found
  BY GitAddMoves DEF b
<1>4. \A p \in Paths : git'[p] = IF p = id THEN b ELSE git[p]
  BY <1>1, <1>2 DEF TypeOK
<1>5. \A j \in Instances : job[j].id # id
  BY <1>1, <1>2 DEF UsedOK
<1>6. TypeOK'
  <2>1. git' \in [Paths -> Branches \cup {NoBranch}]
    BY <1>1, <1>2 DEF TypeOK
  <2> QED
    BY <1>1, <1>2, <1>3, <2>1 DEF TypeOK, OnlyMoves
<1>7. JobsOK'
  BY <1>2, <1>3, IdleIsJob DEF JobsOK, OnlyMoves, Creating, Making, Removing, Starting
<1>8. UsedOK'
  BY <1>1, <1>2, <1>3, <1>4, IdleIsJob
     DEF UsedOK, OnlyMoves, Creating, Making, Removing, Starting
<1>9. NewIdsOK'
  BY <1>1, <1>2, <1>3, <1>5, IdleIsJob DEF NewIdsOK, UsedOK, OnlyMoves, Making
<1>10. CopiesOK'
  BY <1>1, <1>2, <1>3, IdleIsJob DEF CopiesOK, UsedOK, OnlyMoves, Tracked
<1>11. RemovalsOK'
  BY <1>1, <1>2, <1>3, IdleIsJob DEF RemovalsOK, UsedOK, OnlyMoves, Removing
<1>12. OwnersOK'
  <2>1. \A x \in Branches : OwnersOf(x)' \subseteq
          OwnersOf(x) \cup {y \in {id} : job[i].rec.owned /\ x = b}
    BY <1>1, <1>2, <1>3, IdleIsJob DEF OwnersOf, OnlyMoves
  <2>2. job[i].rec.owned => OwnersOf(b) = {} /\ b \in ours'
    BY <1>1, <1>2 DEF OwnersOK, TypeOK
  <2> QED
    BY <1>1, <2>1, <2>2 DEF OwnersOK
<1>13. RollbackOK' /\ TableOK'
  <2>1. RollbackOK'
    BY <1>1, <1>2, <1>3, <1>4, <1>5, IdleIsJob DEF RollbackOK, OnlyMoves, At, UsedOK, JobsOK, Making
  <2> QED
    BY <1>1, <2>1 DEF TableOK
<1>14. AdoptApart => CheckoutsOK'
  BY <1>1, <1>2, <1>3, IdleIsJob DEF CheckoutsOK, OneRecordPerCheckout, OnlyMoves, UsedOK
<1>15. LeaseApart => LeasesOK'
  <2>1. \A x \in Tracked : Live(x)' = Live(x)
    BY <1>1 DEF Live, UsedOK, Tracked
  <2> QED
    BY <1>1, <1>2, <1>3, <2>1, IdleIsJob
       DEF LeasesOK, ReservationHeld, OnlyMoves, At, Starting, Tracked, Live
<1> QED
  BY <1>6, <1>7, <1>8, <1>9, <1>10, <1>11, <1>12, <1>13, <1>14, <1>15 DEF AdoptApart, LeaseApart

(* A create() fails in git. *)
LEMMA GitAddFailsKeeps ==
  ASSUME IInv, NEW i \in Instances, GitAddFails(i)
  PROVE  IInv'
<1> USE DEF IInv
<1>1. /\ OnlyMoves(i) /\ job'[i] = Idle /\ job[i].at = "probed"
      /\ UNCHANGED <<records, table, git, disk, used>> /\ Tracked' = Tracked
  BY EndMoves DEF GitAddFails, stores, Tracked, At
<1>2. job[i].rec.branch \in Branches
  BY <1>1 DEF JobsOK, Creating, Recs
<1>3. ours \subseteq ours' /\ ours' \subseteq branches' /\ branches' \subseteq Branches
  BY <1>2 DEF GitAddFails, TypeOK
<1>4. TypeOK'
  BY <1>1, <1>3 DEF TypeOK, OnlyMoves
<1>5. JobsOK'
  BY <1>1, IdleIsJob DEF JobsOK, OnlyMoves, Creating, Making, Removing, Starting
<1>6. UsedOK' /\ NewIdsOK'
  BY <1>1, IdleIsJob, RegistryAssumption
     DEF UsedOK, NewIdsOK, OnlyMoves, Making, Removing, Starting, RegistryAssumption, JobsOK
<1>7. CopiesOK' /\ RemovalsOK'
  BY <1>1, IdleIsJob, RegistryAssumption
     DEF CopiesOK, RemovalsOK, OnlyMoves, Removing, Tracked, RegistryAssumption
<1>8. OwnersOK'
  <2>1. \A b \in Branches : OwnersOf(b)' \subseteq OwnersOf(b)
    BY <1>1, IdleIsJob DEF OwnersOf, OnlyMoves, Making
  <2> QED
    BY <1>3, <2>1, OwnersFewer
<1>9. RollbackOK' /\ TableOK'
  BY <1>1, IdleIsJob DEF RollbackOK, TableOK, OnlyMoves, At
<1>10. AdoptApart => CheckoutsOK'
  BY <1>1, IdleIsJob DEF CheckoutsOK, OneRecordPerCheckout, OnlyMoves
<1>11. LeaseApart => LeasesOK'
  BY <1>1, IdleIsJob DEF LeasesOK, ReservationHeld, Live, OnlyMoves, At, Starting, Tracked
<1> QED
  BY <1>4, <1>5, <1>6, <1>7, <1>8, <1>9, <1>10, <1>11 DEF AdoptApart, LeaseApart

LEMMA AllocatePortsKeeps ==
  ASSUME IInv, NEW i \in Instances, AllocatePorts(i)
  PROVE  IInv'
<1> USE DEF IInv
<1> DEFINE id == job[i].id
           ports == [s \in Slots |-> table'[<<id, s>>]]
           r == [job[i].rec EXCEPT !.ports = ports]
           new == [job[i] EXCEPT !.at = "allocated", !.rec = r]
<1>1. /\ job \in [Instances -> Jobs] /\ job[i].at = "added"
      /\ job' = [job EXCEPT ![i] = new]
      /\ UNCHANGED <<records, git, disk, branches, ours, used>> /\ Tracked' = Tracked
  BY DEF AllocatePorts, TypeOK, At, repo, Tracked
<1>2. job[i].rec \in Recs /\ id \in Ids /\ "create" \in Does[i] /\ id \in Ids \ Tracked
  BY <1>1 DEF JobsOK, Creating, Making, NewIdsOK
<1>3. /\ table' \in [Ids \X Slots -> Ports \cup {NoPort}]
      /\ \A s \in Slots : table'[<<id, s>>] \in Ports
      /\ \A x \in Ids, s \in Slots : x # id => table'[<<x, s>>] = table[<<x, s>>]
      /\ TableOK'
  <2>1. Table!Claim(id, Slots)
    BY DEF AllocatePorts
  <2> QED
    BY <1>2, <2>1, ClaimEffect
<1>4. /\ r \in Recs /\ r.path = job[i].rec.path /\ r.branch = job[i].rec.branch
      /\ r.owned = job[i].rec.owned /\ \A s \in Slots : r.ports[s] = table'[<<id, s>>]
  BY <1>2, <1>3 DEF Recs
<1> HIDE DEF r
<1>5. /\ new \in Jobs /\ new.at = "allocated" /\ new.id = id /\ new.rec = r
      /\ new.found = job[i].found /\ new.clean = job[i].clean
  BY <1>1, <1>4 DEF Jobs
<1> HIDE DEF new
<1>6. OnlyMoves(i) /\ job'[i] = new
  BY <1>1, <1>5 DEF OnlyMoves
<1>7. \A s \in Slots : table'[<<id, s>>] # NoPort
  BY <1>3, RegistryAssumption DEF RegistryAssumption
<1>8. \A j \in Instances \ {i} : job[j].id # id
  BY <1>1 DEF NewIdsOK, Making
<1>9. job[i].rec.path = id
  BY <1>1 DEF NewIdsOK, Making
<1> HIDE DEF id
<1>10. TypeOK'
  BY <1>1, <1>3, <1>6 DEF TypeOK, OnlyMoves
<1>11. JobsOK'
  BY <1>1, <1>2, <1>4, <1>5, <1>6 DEF JobsOK, OnlyMoves, Creating, Making, Removing, Starting, id
<1>12. UsedOK'
  <2>1. id \in used
    BY <1>2, RegistryAssumption DEF UsedOK, RegistryAssumption, id
  <2>2. \A x \in Ids, s \in Slots : table'[<<x, s>>] # NoPort => x \in used
    BY <1>3, <2>1 DEF UsedOK
  <2>3. \A j \in Instances :
          /\ job'[j].id # NoId => job'[j].id \in used
          /\ job'[j].at \in Making \cup {"setup"} \cup Removing \cup Starting => job'[j].rec.path \in used
          /\ \A w \in job'[j].found : w[1] \in used
    BY <1>1, <1>4, <1>5, <1>6, <1>9, <2>1 DEF UsedOK, OnlyMoves
  <2> QED
    BY <1>1, <2>2, <2>3 DEF UsedOK
<1>13. NewIdsOK'
  BY <1>1, <1>4, <1>5, <1>6, <1>8, <1>9 DEF NewIdsOK, OnlyMoves, Making, id
<1>14. CopiesOK' /\ RemovalsOK'
  BY <1>1, <1>2, <1>4, <1>5, <1>6 DEF CopiesOK, RemovalsOK, OnlyMoves, Removing, Making
<1>15. OwnersOK'
  <2>1. \A b \in Branches : OwnersOf(b)' \subseteq OwnersOf(b)
    BY <1>1, <1>4, <1>5, <1>6 DEF OwnersOf, OnlyMoves, Making, id
  <2> QED
    BY <1>1, <2>1, OwnersFewer
<1>16. RollbackOK'
  <2>1. \A j \in Instances : job[j].id # NoId /\ j # i => job[j].id \in Ids
    BY <1>1 DEF Jobs
  <2>2. \A j \in Instances : job[j].at = "rollback_branch" => job[j].id \in Ids
    BY DEF JobsOK, Making
  <2> QED
    BY <1>1, <1>3, <1>5, <1>6, <1>8, <2>2 DEF RollbackOK, OnlyMoves, At
<1>17. AdoptApart => CheckoutsOK'
  BY <1>1, <1>5, <1>6 DEF CheckoutsOK, OneRecordPerCheckout, OnlyMoves, id
<1>18. LeaseApart => LeasesOK'
  <2> SUFFICES ASSUME LeaseApart PROVE LeasesOK'
    OBVIOUS
  <2>1. ReservationHeld'
    BY <1>1, <1>2, <1>3 DEF LeasesOK, ReservationHeld, Live, Tracked
  <2>2. \A j \in Instances \ {i} : job'[j] = job[j] /\ job[j].id # id
    BY <1>6, <1>8 DEF OnlyMoves
  <2>3. \A j \in Instances : job[j].at \in Starting \cup {"allocated", "setup"} => job[j].id \in Ids
    BY DEF JobsOK, Making
  <2>4. \A x \in Tracked : Live(x)' = Live(x)
    BY <1>1 DEF Live, Tracked
  <2>5. \A x \in Tracked : x \in Ids /\ x # id
    BY <1>2 DEF Tracked
  <2> QED
    BY <1>1, <1>2, <1>3, <1>4, <1>5, <1>6, <1>7, <2>1, <2>2, <2>3, <2>4, <2>5
       DEF LeasesOK, At, Starting
<1> QED
  BY <1>3, <1>10, <1>11, <1>12, <1>13, <1>14, <1>15, <1>16, <1>17, <1>18 DEF AdoptApart, LeaseApart

LEMMA AddRecordKeeps ==
  ASSUME IInv, NEW i \in Instances, AddRecord(i)
  PROVE  IInv'
<1> USE DEF IInv
<1> DEFINE id == job[i].id
<1>1. /\ MovesTo(i, "setup") /\ job[i].at = "allocated"
      /\ UNCHANGED <<table, git, disk, branches, ours, used>>
  BY GotoMoves DEF AddRecord, At, repo, Stages
<1>2. /\ id \in Ids /\ id \notin Tracked /\ job[i].rec \in Recs /\ job[i].rec.path = id
      /\ "create" \in Does[i] /\ \A j \in Instances \ {i} : job[j].id # id
  BY <1>1 DEF JobsOK, Creating, Making, NewIdsOK
<1>3. /\ records' \in [Ids -> Recs \cup {Absent}] /\ records'[id] = job[i].rec
      /\ \A x \in Ids \ {id} : records'[x] = records[x]
  <2>1. Store!Add(id, job[i].rec)
    BY DEF AddRecord
  <2> QED
    BY <1>2, <2>1, RecordWrite
<1>4. Tracked' = Tracked \cup {id}
  BY <1>2, <1>3, RegistryAssumption DEF Tracked, RegistryAssumption
<1>5. id \in used
  BY <1>1, <1>2, RegistryAssumption DEF UsedOK, RegistryAssumption
<1> HIDE DEF id
<1>6. OnlyMoves(i) /\ job'[i].at = "setup" /\ job'[i].id = id /\ job'[i].rec = job[i].rec
      /\ job'[i].found = job[i].found
  BY <1>1 DEF MovesTo, id
<1>7. TypeOK'
  BY <1>1, <1>3, <1>6 DEF TypeOK, OnlyMoves
<1>8. JobsOK'
  BY <1>2, <1>6 DEF JobsOK, OnlyMoves, Creating, Making, Removing, Starting
<1>9. UsedOK'
  BY <1>1, <1>2, <1>3, <1>4, <1>5, <1>6
     DEF UsedOK, OnlyMoves, Making, Removing, Starting, Tracked
<1>10. NewIdsOK'
  BY <1>2, <1>4, <1>6 DEF NewIdsOK, OnlyMoves, Making
<1>11. CopiesOK'
  BY <1>2, <1>3, <1>4, <1>6 DEF CopiesOK, OnlyMoves, Tracked
<1>12. RemovalsOK'
  BY <1>1, <1>2, <1>4, <1>6 DEF RemovalsOK, OnlyMoves, Removing
<1>13. OwnersOK'
  <2>1. \A b \in Branches : OwnersOf(b)' \subseteq OwnersOf(b)
    BY <1>1, <1>2, <1>3, <1>4, <1>6 DEF OwnersOf, OnlyMoves, Making, id, Tracked
  <2> QED
    BY <1>1, <2>1, OwnersFewer
<1>14. RollbackOK' /\ TableOK'
  BY <1>1, <1>6 DEF RollbackOK, TableOK, OnlyMoves, At
<1>15. AdoptApart => CheckoutsOK'
  <2>1. AdoptApart => \A x \in Tracked : records[x].path # id
    BY <1>1, <1>2 DEF CheckoutsOK, id
  <2> QED
    BY <1>2, <1>3, <1>4, <1>6, <2>1 DEF CheckoutsOK, OneRecordPerCheckout, OnlyMoves, Tracked
<1>16. LeaseApart => LeasesOK'
  <2> SUFFICES ASSUME LeaseApart PROVE LeasesOK'
    OBVIOUS
  <2>1. \A s \in Slots : job[i].rec.ports[s] # NoPort /\ table[<<id, s>>] = job[i].rec.ports[s]
    BY <1>1 DEF LeasesOK, At, id
  <2>2. \A x \in Tracked : Live(x)' = Live(x) /\ x # id /\ records'[x] = records[x] /\ x \in Ids
    BY <1>1, <1>2, <1>3 DEF Live, Tracked
  <2>3. ReservationHeld'
    BY <1>1, <1>3, <1>4, <2>1, <2>2 DEF LeasesOK, ReservationHeld, Live, Tracked
  <2>4. \A j \in Instances : job'[j].at \notin {"marked", "listing"}
    BY <1>2, <1>6 DEF LeaseApart, OnlyMoves, JobsOK
  <2> QED
    BY <1>1, <1>2, <1>3, <1>4, <1>6, <2>1, <2>2, <2>3, <2>4
       DEF LeasesOK, OnlyMoves, At, Starting
<1> QED
  BY <1>7, <1>8, <1>9, <1>10, <1>11, <1>12, <1>13, <1>14, <1>15, <1>16 DEF AdoptApart, LeaseApart

LEMMA RollbackGitKeeps ==
  ASSUME IInv, NEW i \in Instances, RollbackGit(i)
  PROVE  IInv'
<1> USE DEF IInv
<1> DEFINE id == job[i].id
<1>1. /\ MovesTo(i, "rollback_ports") /\ job[i].at = "rollback_git"
      /\ git' = [git EXCEPT ![id] = NoBranch]
      /\ disk' = IF git[id] = NoBranch THEN disk ELSE disk \ {id}
      /\ UNCHANGED <<records, table, branches, ours, used>> /\ Tracked' = Tracked
  BY GotoMoves DEF RollbackGit, At, stores, Stages, Tracked
<1>2. /\ id \in Ids /\ id \notin Tracked /\ "create" \in Does[i] /\ id \in Paths
      /\ \A j \in Instances \ {i} : job[j].id # id
  BY <1>1 DEF JobsOK, Creating, Making, NewIdsOK, Paths
<1> HIDE DEF id
<1>3. OnlyMoves(i) /\ job'[i].at = "rollback_ports" /\ job'[i].id = id /\ job'[i].rec = job[i].rec
      /\ job'[i].found = job[i].found
  BY <1>1 DEF MovesTo, id
<1>4. /\ \A p \in Paths : git'[p] = IF p = id THEN NoBranch ELSE git[p]
      /\ git' \in [Paths -> Branches \cup {NoBranch}]
      /\ disk' = disk \ {id}
  BY <1>1, <1>2 DEF TypeOK, UsedOK
<1>5. TypeOK'
  BY <1>1, <1>3, <1>4 DEF TypeOK, OnlyMoves
<1>6. JobsOK'
  BY <1>1, <1>2, <1>3 DEF JobsOK, OnlyMoves, Creating, Making, Removing, Starting
<1>7. UsedOK'
  BY <1>1, <1>3, <1>4 DEF UsedOK, OnlyMoves, Making, Removing, Starting, TypeOK, id
<1>8. NewIdsOK'
  BY <1>1, <1>3 DEF NewIdsOK, OnlyMoves, Making, id
<1>9. CopiesOK' /\ RemovalsOK'
  BY <1>1, <1>2, <1>3, <1>4 DEF CopiesOK, RemovalsOK, OnlyMoves, Removing
<1>10. OwnersOK'
  <2>1. \A b \in Branches : OwnersOf(b)' \subseteq OwnersOf(b)
    BY <1>1, <1>3 DEF OwnersOf, OnlyMoves, Making, id
  <2> QED
    BY <1>1, <2>1, OwnersFewer
<1>11. RollbackOK' /\ TableOK'
  <2>1. \A j \in Instances : job[j].at \in {"rollback_ports", "rollback_branch"} => job[j].id \in Paths
    BY DEF JobsOK, Making, Paths
  <2> QED
    BY <1>1, <1>2, <1>3, <1>4, <2>1 DEF RollbackOK, TableOK, OnlyMoves, At
<1>12. AdoptApart => CheckoutsOK'
  BY <1>1, <1>3 DEF CheckoutsOK, OneRecordPerCheckout, OnlyMoves
<1>13. LeaseApart => LeasesOK'
  BY <1>1, <1>3, <1>4 DEF LeasesOK, ReservationHeld, Live, OnlyMoves, At, Starting, Tracked
<1> QED
  BY <1>5, <1>6, <1>7, <1>8, <1>9, <1>10, <1>11, <1>12, <1>13 DEF AdoptApart, LeaseApart

LEMMA RollbackPortsKeeps ==
  ASSUME IInv, NEW i \in Instances, RollbackPorts(i)
  PROVE  IInv'
<1> USE DEF IInv
<1> DEFINE id == job[i].id
<1>1. /\ MovesTo(i, "rollback_branch") /\ job[i].at = "rollback_ports"
      /\ Table!Free({id} \X Slots)
      /\ UNCHANGED <<records, git, disk, branches, ours, used>> /\ Tracked' = Tracked
  BY GotoMoves DEF RollbackPorts, At, repo, Stages, Tracked
<1>2. /\ id \in Ids /\ id \notin Tracked /\ "create" \in Does[i]
      /\ \A j \in Instances \ {i} : job[j].id # id
  BY <1>1 DEF JobsOK, Creating, Making, NewIdsOK
<1> HIDE DEF id
<1>3. OnlyMoves(i) /\ job'[i].at = "rollback_branch" /\ job'[i].id = id /\ job'[i].rec = job[i].rec
      /\ job'[i].found = job[i].found /\ job'[i].clean = job[i].clean
  BY <1>1 DEF MovesTo, id
<1>4. /\ table' \in [Ids \X Slots -> Ports \cup {NoPort}] /\ TableOK'
      /\ \A x \in Ids, s \in Slots :
           table'[<<x, s>>] = IF x = id THEN NoPort ELSE table[<<x, s>>]
  <2>1. /\ table' \in [Ids \X Slots -> Ports \cup {NoPort}] /\ TableOK'
        /\ \A k \in Ids \X Slots : /\ k \in {id} \X Slots => table'[k] = NoPort
                                   /\ k \notin {id} \X Slots => table'[k] = table[k]
    BY <1>1, FreeEffect
  <2>2. \A x \in Ids, s \in Slots : <<x, s>> \in {id} \X Slots <=> x = id
    OBVIOUS
  <2> QED
    BY <2>1, <2>2
<1>5. TypeOK'
  BY <1>1, <1>3, <1>4 DEF TypeOK, OnlyMoves
<1>6. JobsOK'
  BY <1>1, <1>2, <1>3 DEF JobsOK, OnlyMoves, Creating, Making, Removing, Starting
<1>7. UsedOK'
  BY <1>1, <1>3, <1>4 DEF UsedOK, OnlyMoves, Making, Removing, Starting, id
<1>8. NewIdsOK'
  BY <1>1, <1>3 DEF NewIdsOK, OnlyMoves, Making, id
<1>9. CopiesOK' /\ RemovalsOK'
  BY <1>1, <1>2, <1>3 DEF CopiesOK, RemovalsOK, OnlyMoves, Removing
<1>10. OwnersOK'
  <2>1. \A b \in Branches : OwnersOf(b)' \subseteq OwnersOf(b)
    BY <1>1, <1>3 DEF OwnersOf, OnlyMoves, Making, id
  <2> QED
    BY <1>1, <2>1, OwnersFewer
<1>11. RollbackOK'
  <2>1. \A j \in Instances : job[j].at \in {"rollback_ports", "rollback_branch"} => job[j].id \in Ids
    BY DEF JobsOK, Making
  <2> QED
    BY <1>1, <1>2, <1>3, <1>4, <2>1 DEF RollbackOK, OnlyMoves, At, id
<1>12. AdoptApart => CheckoutsOK'
  BY <1>1, <1>3 DEF CheckoutsOK, OneRecordPerCheckout, OnlyMoves
<1>13. LeaseApart => LeasesOK'
  <2> SUFFICES ASSUME LeaseApart PROVE LeasesOK'
    OBVIOUS
  <2>1. \A x \in Tracked : x # id /\ x \in Ids
    BY <1>2 DEF Tracked
  <2>2. ReservationHeld'
    BY <1>1, <1>4, <2>1 DEF LeasesOK, ReservationHeld, Live, Tracked
  <2>3. \A j \in Instances : job[j].at \in Starting \cup {"allocated", "setup"} => job[j].id \in Ids
    BY DEF JobsOK, Making
  <2>4. \A x \in Tracked : Live(x)' = Live(x)
    BY <1>1 DEF Live, Tracked
  <2>5. \A j \in Instances \ {i} : job'[j] = job[j] /\ job[j].id # id
    BY <1>2, <1>3 DEF OnlyMoves
  <2>6. \A x \in Ids, s \in Slots : x # id => table'[<<x, s>>] = table[<<x, s>>]
    BY <1>4
  <2>7. \A j \in Instances, x \in Tracked, s \in Slots :
          job'[j].at \in {"marked", "listing"} /\ x \notin job'[j].seen => table'[<<x, s>>] = NoPort
    BY <1>3, <2>1, <2>5, <2>6 DEF LeasesOK
  <2> QED
    BY <1>1, <1>3, <2>2, <2>3, <2>4, <2>5, <2>6, <2>7 DEF LeasesOK, At, Starting
<1> QED
  BY <1>4, <1>5, <1>6, <1>7, <1>8, <1>9, <1>10, <1>11, <1>12, <1>13 DEF AdoptApart, LeaseApart

(* The last step of a rollback, and of a removal: the branch goes if it is the
   environment's own.                                                      *)
LEMMA BranchKeeps ==
  ASSUME IInv, NEW i \in Instances, OnlyMoves(i),
         job'[i].at \in {"idle", "rolled_back"}, job'[i].id = NoId, job'[i].found = {},
         job[i].at \in {"rollback_branch", "dropped"},
         UNCHANGED <<records, table, git, disk, used>>,
         \/ job[i].rec.owned /\ GitDeleteBranch(job[i].rec.branch)
         \/ UNCHANGED <<branches, ours>>
  PROVE  IInv'
<1> USE DEF IInv
<1>1. /\ Tracked' = Tracked /\ NoId \notin Ids
      /\ job[i].rec \in Recs /\ job[i].rec.branch \in Branches
  BY RegistryAssumption DEF Tracked, RegistryAssumption, JobsOK, Creating, Making, Removing, Recs
<1>2. TypeOK'
  BY DEF TypeOK, OnlyMoves, GitDeleteBranch
<1>3. JobsOK'
  BY DEF JobsOK, OnlyMoves, Creating, Making, Removing, Starting
<1>4. UsedOK' /\ NewIdsOK'
  BY <1>1 DEF UsedOK, NewIdsOK, OnlyMoves, Making, Removing, Starting, JobsOK
<1>5. CopiesOK' /\ RemovalsOK'
  BY <1>1 DEF CopiesOK, RemovalsOK, OnlyMoves, Removing, Tracked
<1>6. OwnersOK'
  <2>1. \A b \in Branches : OwnersOf(b)' \subseteq OwnersOf(b)
    BY <1>1 DEF OwnersOf, OnlyMoves, Making
  <2>2. CASE UNCHANGED <<branches, ours>>
    BY <2>1, <2>2, OwnersFewer
  <2>3. CASE job[i].rec.owned /\ GitDeleteBranch(job[i].rec.branch)
    <3>1. /\ job[i].id \in Ids /\ job[i].id \notin Tracked
          /\ \A j \in Instances \ {i} :
               job[j].at \in Making \cup {"dropped"} => job[j].id # job[i].id
      BY <2>3 DEF JobsOK, NewIdsOK, RemovalsOK, Making, Removing, TypeOK, Jobs
    <3>2. PICK id \in Ids, b \in Branches : id = job[i].id /\ b = job[i].rec.branch
      BY <1>1, <3>1
    <3>3. id \in OwnersOf(b)
      BY <2>3, <3>2 DEF OwnersOf, Making
    <3>4. id \notin OwnersOf(b)'
      BY <1>1, <3>1, <3>2 DEF OwnersOf, OnlyMoves
    <3>5. OwnersOf(b)' = {}
      BY <2>1, <3>3, <3>4 DEF OwnersOK
    <3>6. ours' = ours \ {b}
      BY <2>3, <3>2 DEF GitDeleteBranch
    <3> QED
      BY <2>1, <3>5, <3>6, OwnersFewer
  <2> QED
    BY <2>2, <2>3
<1>7. RollbackOK' /\ TableOK'
  BY DEF RollbackOK, TableOK, OnlyMoves, At
<1>8. AdoptApart => CheckoutsOK'
  BY <1>1 DEF CheckoutsOK, OneRecordPerCheckout, OnlyMoves
<1>9. LeaseApart => LeasesOK'
  BY <1>1 DEF LeasesOK, ReservationHeld, Live, OnlyMoves, At, Starting, Tracked
<1> QED
  BY <1>2, <1>3, <1>4, <1>5, <1>6, <1>7, <1>8, <1>9 DEF AdoptApart, LeaseApart

LEMMA RollbackBranchKeeps ==
  ASSUME IInv, NEW i \in Instances,
         \/ RollbackBranch(i)
         \/ DeleteOwnedBranch(i)
         \/ (RollbackStepFails(i) /\ At(i, "rollback_branch"))
  PROVE  IInv'
<1>1. UNCHANGED <<records, table, git, disk, used>>
  BY DEF RollbackBranch, DeleteOwnedBranch, RollbackStepFails, stores, repo
<1>2. /\ OnlyMoves(i) /\ job'[i].at \in {"idle", "rolled_back"}
      /\ job'[i].id = NoId /\ job'[i].found = {}
  <2>1. CASE DeleteOwnedBranch(i)
    BY <2>1, EndMoves, IdleIsJob DEF DeleteOwnedBranch, IInv
  <2>2. CASE ~DeleteOwnedBranch(i)
    <3>1. PICK clean \in BOOLEAN : job' = [job EXCEPT ![i] = RolledBack(clean)]
      BY <2>2, job[i].clean \in BOOLEAN DEF RollbackBranch, RollbackStepFails, At, IInv, TypeOK, Jobs
    <3>2. /\ RolledBack(clean) \in Jobs /\ RolledBack(clean).at = "rolled_back"
          /\ RolledBack(clean).id = NoId /\ RolledBack(clean).found = {}
      BY DEF RolledBack, Idle, Jobs
    <3> QED
      BY <3>1, <3>2 DEF OnlyMoves, IInv, TypeOK
  <2> QED
    BY <2>1, <2>2
<1> QED
  BY <1>1, <1>2, BranchKeeps DEF RollbackBranch, DeleteOwnedBranch, RollbackStepFails, At, repo

-----------------------------------------------------------------------------
(* Records written back, imported and dropped.                             *)

(* An operation writes the record it holds, perhaps with another status, or
   finds that there is none any more; then it is over, or goes on with the
   same record.                                                            *)
LEMMA WriteBackKeeps ==
  ASSUME IInv, NEW i \in Instances, job[i].at \in {"setup"} \cup Starting,
         OnlyMoves(i), UNCHANGED <<table, git, disk, branches, ours, used>>,
         \/ job'[i] = Idle
         \/ /\ job[i].at \in Starting /\ job'[i].at = "leased" /\ job'[i].id = job[i].id
            /\ job'[i].rec = job[i].rec /\ job'[i].found = job[i].found,
         \/ UNCHANGED records
         \/ \E r \in Recs :
              /\ job[i].id \in Tracked
              /\ r.path = job[i].rec.path /\ r.branch = job[i].rec.branch
              /\ r.owned = job[i].rec.owned /\ r.ports = job[i].rec.ports
              /\ Store!Update(job[i].id, r)
  PROVE  IInv'
<1> USE DEF IInv
<1> DEFINE id == job[i].id
<1>1. /\ id \in Ids /\ job[i].rec \in Recs
      /\ job[i].at = "setup" => "create" \in Does[i]
      /\ job[i].at \in Starting => "start" \in Does[i]
  BY DEF JobsOK, Creating
<1>2. /\ records' \in [Ids -> Recs \cup {Absent}]
      /\ \A x \in Ids \ {id} : records'[x] = records[x]
      /\ \/ records'[id] = records[id]
         \/ /\ id \in Tracked /\ records'[id] \in Recs
            /\ records'[id].path = job[i].rec.path /\ records'[id].branch = job[i].rec.branch
            /\ records'[id].owned = job[i].rec.owned /\ records'[id].ports = job[i].rec.ports
  <2>1. CASE UNCHANGED records
    BY <2>1 DEF TypeOK
  <2>2. CASE ~UNCHANGED records
    <3>1. PICK r \in Recs :
              /\ id \in Tracked
              /\ r.path = job[i].rec.path /\ r.branch = job[i].rec.branch
              /\ r.owned = job[i].rec.owned /\ r.ports = job[i].rec.ports
              /\ Store!Update(id, r)
      BY <2>2
    <3>2. /\ records' \in [Ids -> Recs \cup {Absent}] /\ records'[id] = r
          /\ \A x \in Ids \ {id} : records'[x] = records[x]
      BY <1>1, <3>1, RecordWrite
    <3> QED
      BY <3>1, <3>2
  <2> QED
    BY <2>1, <2>2
<1>3. Tracked' = Tracked
  BY <1>1, <1>2, RegistryAssumption DEF Tracked, RegistryAssumption
<1>4. \A x \in Tracked :
        /\ x \in Ids /\ records'[x].path = records[x].path
        /\ records'[x].branch = records[x].branch /\ records'[x].owned = records[x].owned
        /\ x # id => records'[x] = records[x]
  BY <1>1, <1>2 DEF CopiesOK, Tracked
<1>5. job'[i].id \in {id, NoId} /\ NoId \notin Ids
  BY IdleIsJob, RegistryAssumption DEF RegistryAssumption
<1>6. TypeOK'
  BY <1>2 DEF TypeOK, OnlyMoves
<1>7. JobsOK'
  BY <1>1, IdleIsJob DEF JobsOK, OnlyMoves, Creating, Making, Removing, Starting
<1>8. UsedOK'
  BY <1>1, <1>3, <1>4, IdleIsJob DEF UsedOK, OnlyMoves, Making, Removing, Starting
<1>9. NewIdsOK'
  BY <1>1, <1>3, <1>5, IdleIsJob DEF NewIdsOK, JobsOK, OnlyMoves, Making, Starting
<1>10. CopiesOK'
  <2>1. \A x \in Ids : x \in Tracked' => x \in Tracked
    BY <1>3
  <2> QED
    BY <1>3, <1>4, <1>5, IdleIsJob DEF CopiesOK, OnlyMoves, Tracked
<1>11. RemovalsOK'
  BY <1>1, <1>3, <1>5, IdleIsJob DEF RemovalsOK, OnlyMoves, Removing, Starting
<1>12. OwnersOK'
  <2>1. \A b \in Branches : OwnersOf(b)' \subseteq OwnersOf(b)
    BY <1>3, <1>4, IdleIsJob DEF OwnersOf, OnlyMoves, Making, Starting
  <2> QED
    BY <2>1, OwnersFewer
<1>13. RollbackOK' /\ TableOK'
  BY IdleIsJob DEF RollbackOK, TableOK, OnlyMoves, At, Starting
<1>14. AdoptApart => CheckoutsOK'
  BY <1>3, <1>4, IdleIsJob DEF CheckoutsOK, OneRecordPerCheckout, OnlyMoves, Starting
<1>15. LeaseApart => LeasesOK'
  <2> SUFFICES ASSUME LeaseApart PROVE LeasesOK'
    OBVIOUS
  <2>1. \A x \in Tracked : Live(x)' = Live(x)
    BY <1>3, <1>4 DEF Live, Tracked
  <2>2. \A s \in Slots : id \in Tracked /\ records[id].ports[s] # NoPort =>
          job[i].rec.ports[s] = records[id].ports[s]
    BY DEF LeasesOK
  <2>3. \A s \in Slots : id \in Tracked => records'[id].ports[s] \in {records[id].ports[s], job[i].rec.ports[s]}
    BY <1>2
  <2>4. ReservationHeld'
    <3> SUFFICES ASSUME NEW x \in Ids, NEW s \in Slots, Live(x)', records'[x].ports[s] # NoPort
                 PROVE  table[<<x, s>>] = records'[x].ports[s]
      BY DEF ReservationHeld
    <3>1. x \in Tracked /\ Live(x)
      BY <1>3, <2>1 DEF Live, Tracked
    <3>2. CASE x # id
      BY <1>4, <3>1, <3>2 DEF LeasesOK, ReservationHeld
    <3>3. CASE x = id
      BY <2>3, <3>1, <3>3 DEF LeasesOK, ReservationHeld
    <3> QED
      BY <3>2, <3>3
  <2>5. \A j \in Instances \ {i} : job'[j] = job[j]
    BY DEF OnlyMoves
  <2>6. ASSUME NEW j \in Instances, NEW x \in Tracked, NEW s \in Slots,
               job'[j].at \in {"setup"} \cup Starting, job'[j].id = x
        PROVE  /\ records'[x].ports[s] # NoPort => job'[j].rec.ports[s] = records'[x].ports[s]
               /\ job'[j].at = "setup" => records'[x].ports[s] # NoPort
               /\ Live(x)' /\ job'[j].rec.ports[s] # NoPort => table[<<x, s>>] = job'[j].rec.ports[s]
    <3>1. CASE j = i
      <4>1. x = id /\ job'[i].rec = job[i].rec /\ job'[i].at # "setup" /\ job[i].at \in Starting
        BY <2>6, <3>1, IdleIsJob DEF Starting
      <4> QED
        BY <2>1, <2>2, <2>3, <3>1, <4>1 DEF LeasesOK
    <3>2. CASE j # i /\ x # id
      BY <1>4, <2>1, <2>5, <2>6, <3>2 DEF LeasesOK, At
    <3>3. CASE j # i /\ x = id
      <4>1. /\ job'[j] = job[j] /\ job[j].id = id /\ job[j].at \in {"setup"} \cup Starting
            /\ id \in Tracked
        BY <2>5, <2>6, <3>3
      <4>2. ~(job[j].at \in Starting /\ job[i].at \in Starting)
        BY <1>1, <3>3 DEF LeaseApart, JobsOK
      <4>3. ~(job[j].at = "setup" /\ job[i].at = "setup")
        BY <3>3, <4>1 DEF NewIdsOK
      <4>4. records[id].ports[s] # NoPort
        BY <4>1, <4>2, <4>3 DEF LeasesOK, At
      <4>5. records'[id].ports[s] = records[id].ports[s]
        BY <2>2, <2>3, <4>1, <4>4
      <4> QED
        BY <2>1, <3>3, <4>1, <4>4, <4>5 DEF LeasesOK, At
    <3> QED
      BY <3>1, <3>2, <3>3
  <2>7. \A j \in Instances, s \in Slots :
          /\ job'[j].at \in {"allocated", "setup"} => job'[j].rec.ports[s] # NoPort
          /\ job'[j].at = "allocated" => table[<<job'[j].id, s>>] = job'[j].rec.ports[s]
    BY <2>5, IdleIsJob DEF LeasesOK, At, Starting
  <2>8. \A j \in Instances : job'[j].at \in {"marked", "listing"} => job'[j] = job[j]
    BY <2>5, IdleIsJob DEF Starting
  <2> QED
    BY <1>3, <2>4, <2>6, <2>7, <2>8 DEF LeasesOK, At
<1> QED
  BY <1>6, <1>7, <1>8, <1>9, <1>10, <1>11, <1>12, <1>13, <1>14, <1>15 DEF AdoptApart, LeaseApart

LEMMA SetupDoneKeeps ==
  ASSUME IInv, NEW i \in Instances, NEW status \in {"created", "setup_failed"},
         SetupDone(i, status)
  PROVE  IInv'
<1>1. /\ job[i].at = "setup" /\ OnlyMoves(i) /\ job'[i] = Idle
      /\ UNCHANGED <<table, git, disk, branches, ours, used>>
  BY EndMoves DEF SetupDone, At, repo, IInv
<1>2. job[i].rec \in Recs /\ job[i].id \in Ids
  BY <1>1 DEF IInv, JobsOK, Creating
<1>3. CASE UNCHANGED records
  BY <1>1, <1>3, WriteBackKeeps
<1>4. CASE Store!Update(job[i].id, [job[i].rec EXCEPT !.status = status])
  <2> DEFINE r == [job[i].rec EXCEPT !.status = status]
  <2>1. /\ r \in Recs /\ r.path = job[i].rec.path /\ r.branch = job[i].rec.branch
        /\ r.owned = job[i].rec.owned /\ r.ports = job[i].rec.ports
    BY <1>2, StatusOnly
  <2>2. Store!Update(job[i].id, r) /\ job[i].id \in Tracked
    BY <1>2, <1>4 DEF Store!Update, Tracked
  <2> HIDE DEF r
  <2> QED
    BY <1>1, <2>1, <2>2, WriteBackKeeps
<1> QED
  BY <1>3, <1>4 DEF SetupDone

LEMMA StartReadyKeeps ==
  ASSUME IInv, NEW i \in Instances, StartReady(i)
  PROVE  IInv'
<1>1. /\ job[i].at = "leased" /\ OnlyMoves(i) /\ job'[i] = Idle
      /\ UNCHANGED <<table, git, disk, branches, ours, used>>
  BY EndMoves DEF StartReady, At, repo, IInv
<1>2. job[i].rec \in Recs /\ job[i].id \in Ids
  BY <1>1 DEF IInv, JobsOK, Starting
<1>3. CASE UNCHANGED records
  BY <1>1, <1>3, WriteBackKeeps DEF Starting
<1>4. CASE Store!Update(job[i].id, [job[i].rec EXCEPT !.status = "ready"])
  <2> DEFINE r == [job[i].rec EXCEPT !.status = "ready"]
  <2>1. /\ r \in Recs /\ r.path = job[i].rec.path /\ r.branch = job[i].rec.branch
        /\ r.owned = job[i].rec.owned /\ r.ports = job[i].rec.ports
    BY <1>2, StatusOnly
  <2>2. Store!Update(job[i].id, r) /\ job[i].id \in Tracked
    BY <1>2, <1>4 DEF Store!Update, Tracked
  <2> HIDE DEF r
  <2> QED
    BY <1>1, <2>1, <2>2, WriteBackKeeps DEF Starting
<1> QED
  BY <1>3, <1>4 DEF StartReady

LEMMA SaveLeaseKeeps ==
  ASSUME IInv, NEW i \in Instances, SaveLease(i)
  PROVE  IInv'
<1>1. /\ job[i].at = "started" /\ UNCHANGED <<table, git, disk, branches, ours, used>>
      /\ Update(i, job[i].id, "leased")
  BY DEF SaveLease, At, repo
<1>2. job[i].rec \in Recs /\ job[i].id \in Ids
  BY <1>1 DEF IInv, JobsOK, Starting
<1>3. CASE End(i) /\ UNCHANGED records
  <2>1. OnlyMoves(i) /\ job'[i] = Idle
    BY <1>3, EndMoves DEF IInv
  <2> QED
    BY <1>1, <1>3, <2>1, WriteBackKeeps DEF Starting
<1>4. CASE Goto(i, "leased") /\ Store!Update(job[i].id, job[i].rec)
  <2>1. MovesTo(i, "leased")
    BY <1>4, GotoMoves DEF IInv, Stages
  <2>2. job[i].id \in Tracked
    BY <1>2, <1>4 DEF Store!Update, Tracked
  <2> QED
    BY <1>1, <1>2, <1>4, <2>1, <2>2, WriteBackKeeps DEF Starting, MovesTo
<1> QED
  BY <1>1, <1>3, <1>4 DEF Update

-----------------------------------------------------------------------------
(* Registrations and directories that go.                                  *)

(* Directories and registrations only get fewer, a directory that stays keeps
   its registration; an operation stands still, ends, or is a removal that
   goes on with its directory gone.                                        *)
LEMMA VanishKeeps ==
  ASSUME IInv, UNCHANGED <<records, table, branches, ours, used>>,
         disk' \in SUBSET disk, git' \in [Paths -> Branches \cup {NoBranch}],
         \A p \in Paths : /\ git'[p] = git[p] \/ git'[p] = NoBranch
                          /\ p \in disk' => git'[p] = git[p],
         job' \in [Instances -> Jobs],
         \A j \in Instances :
           \/ job'[j] = job[j]
           \/ job'[j] = Idle
           \/ /\ job[j].at \in Removing /\ job'[j].at \in {"deleted", "pruned"}
              /\ job'[j].id = job[j].id /\ job'[j].rec = job[j].rec
              /\ job'[j].found = job[j].found /\ job'[j].rec.path \notin disk'
  PROVE  IInv'
<1> USE DEF IInv
<1>1. Tracked' = Tracked /\ NoId \notin Ids
  BY RegistryAssumption DEF Tracked, RegistryAssumption
<1>2. TypeOK'
  BY DEF TypeOK
<1>3. JobsOK'
  BY IdleIsJob DEF JobsOK, Creating, Making, Removing, Starting
<1>4. UsedOK'
  BY <1>1, IdleIsJob DEF UsedOK, Making, Removing, Starting, TypeOK
<1>5. NewIdsOK'
  BY <1>1, IdleIsJob DEF NewIdsOK, Making, JobsOK, Removing
<1>6. CopiesOK'
  BY <1>1, IdleIsJob DEF CopiesOK, Tracked
<1>7. RemovalsOK'
  BY <1>1, IdleIsJob DEF RemovalsOK, Removing
<1>8. OwnersOK'
  <2>1. \A b \in Branches : OwnersOf(b)' \subseteq OwnersOf(b)
    BY <1>1, IdleIsJob DEF OwnersOf, Making
  <2> QED
    BY <2>1, OwnersFewer
<1>9. RollbackOK'
  <2>1. \A j \in Instances : job[j].at \in {"rollback_ports", "rollback_branch"} => job[j].id \in Paths
    BY DEF JobsOK, Making, Paths
  <2> QED
    BY <2>1, IdleIsJob DEF RollbackOK, At
<1>10. TableOK'
  BY DEF TableOK
<1>11. AdoptApart => CheckoutsOK'
  BY <1>1, IdleIsJob DEF CheckoutsOK, OneRecordPerCheckout
<1>12. LeaseApart => LeasesOK'
  <2>1. \A x \in Ids : Live(x)' => Live(x)
    BY DEF Live
  <2>2. \A j \in Instances : job'[j].at \in {"allocated", "setup", "marked", "listing"} \cup Starting
          => job'[j] = job[j]
    BY IdleIsJob DEF Starting
  <2>3. Tracked \subseteq Ids
    BY DEF Tracked
  <2> QED
    BY <1>1, <2>1, <2>2, <2>3 DEF LeasesOK, ReservationHeld, At, Starting
<1> QED
  BY <1>2, <1>3, <1>4, <1>5, <1>6, <1>7, <1>8, <1>9, <1>10, <1>11, <1>12
     DEF AdoptApart, LeaseApart

LEMMA GitPruneEffect ==
  ASSUME TypeOK, UsedOK, GitPrune \/ UNCHANGED git, NEW D \in SUBSET disk
  PROVE  /\ git' \in [Paths -> Branches \cup {NoBranch}]
         /\ \A p \in Paths : /\ git'[p] = git[p] \/ git'[p] = NoBranch
                             /\ p \in D => git'[p] = git[p]
BY DEF GitPrune, TypeOK

LEMMA RemovalStepsKeep ==
  ASSUME IInv, NEW i \in Instances,
         DeleteCheckout(i) \/ TeardownRaises(i) \/ PruneAfterDelete(i) \/ Prune(i)
  PROVE  IInv'
<1> USE DEF IInv
<1>1. CASE DeleteCheckout(i)
  <2>1. MovesTo(i, "deleted") /\ job[i].at = "teardown" /\ UNCHANGED <<stores, git, branches, ours, used>>
        /\ disk' = disk \ {job[i].rec.path}
    BY <1>1, GotoMoves DEF DeleteCheckout, At, Stages
  <2> QED
    BY <2>1, VanishKeeps DEF MovesTo, OnlyMoves, stores, TypeOK, Removing
<1>2. CASE TeardownRaises(i)
  <2>1. OnlyMoves(i) /\ job'[i] = Idle /\ UNCHANGED <<stores, branches, ours, used>>
        /\ disk' \in SUBSET disk /\ (GitPrune \/ UNCHANGED git)
    BY <1>2, EndMoves DEF TeardownRaises
  <2> QED
    BY <2>1, GitPruneEffect, VanishKeeps DEF OnlyMoves, stores
<1>3. CASE PruneAfterDelete(i)
  <2>1. MovesTo(i, "pruned") /\ job[i].at = "deleted" /\ UNCHANGED <<stores, disk, branches, ours, used>>
        /\ (GitPrune \/ UNCHANGED git)
    BY <1>3, GotoMoves DEF PruneAfterDelete, At, Stages
  <2>2. job[i].rec.path \notin disk
    BY <2>1 DEF RemovalsOK, Removing
  <2> QED
    BY <2>1, <2>2, GitPruneEffect, VanishKeeps DEF MovesTo, OnlyMoves, stores, Removing
<1>4. CASE Prune(i)
  BY <1>4, GitPruneEffect, VanishKeeps DEF Prune, stores, TypeOK
<1> QED
  BY <1>1, <1>2, <1>3, <1>4

LEMMA UserDeletesKeeps ==
  ASSUME IInv, NEW p \in Paths, UserDeletesCheckout(p)
  PROVE  IInv'
BY VanishKeeps DEF UserDeletesCheckout, stores, IInv, TypeOK

LEMMA UserAddsKeeps ==
  ASSUME IInv, NEW p \in UserPaths, NEW b \in Branches, UserAddsWorktree(p, b)
  PROVE  IInv'
<1> USE DEF IInv
<1>1. /\ p \notin used /\ used' = used \cup {p} /\ disk' = disk \cup {p}
      /\ git' = [git EXCEPT ![p] = b] /\ branches' = branches \cup {b}
      /\ UNCHANGED <<records, table, ours, job>> /\ Tracked' = Tracked
      /\ p \in Paths /\ b # NoBranch
  BY RegistryAssumption DEF UserAddsWorktree, stores, Tracked, Paths, RegistryAssumption
<1>2. \A q \in Paths : git'[q] = IF q = p THEN b ELSE git[q]
  BY <1>1 DEF TypeOK
<1>3. TypeOK'
  BY <1>1 DEF TypeOK
<1>4. JobsOK'
  BY <1>1 DEF JobsOK
<1>5. UsedOK'
  BY <1>1, <1>2 DEF UsedOK, TypeOK
<1>6. NewIdsOK' /\ CopiesOK'
  BY <1>1 DEF NewIdsOK, CopiesOK
<1>7. RemovalsOK'
  BY <1>1 DEF RemovalsOK, UsedOK, Removing
<1>8. OwnersOK'
  <2>1. \A x \in Branches : OwnersOf(x)' = OwnersOf(x)
    BY <1>1 DEF OwnersOf
  <2> QED
    BY <1>1, <2>1 DEF OwnersOK
<1>9. RollbackOK' /\ TableOK'
  <2>1. \A j \in Instances : job[j].at \in {"rollback_ports", "rollback_branch"} =>
          job[j].id \in Paths /\ job[j].id # p
    BY <1>1, RegistryAssumption DEF JobsOK, Making, Paths, UsedOK, RegistryAssumption
  <2> QED
    BY <1>1, <1>2, <2>1 DEF RollbackOK, TableOK, At
<1>10. AdoptApart => CheckoutsOK'
  BY <1>1 DEF CheckoutsOK, OneRecordPerCheckout
<1>11. LeaseApart => LeasesOK'
  <2>1. \A x \in Ids : Live(x)' => Live(x)
    BY <1>1 DEF Live, UsedOK, Tracked
  <2>2. Tracked \subseteq Ids
    BY DEF Tracked
  <2> QED
    BY <1>1, <2>1, <2>2 DEF LeasesOK, ReservationHeld, At
<1> QED
  BY <1>3, <1>4, <1>5, <1>6, <1>7, <1>8, <1>9, <1>10, <1>11 DEF AdoptApart, LeaseApart
-----------------------------------------------------------------------------
(* Reservations released, records dropped, reconcile.                      *)

LEMMA ReleasePortsKeeps ==
  ASSUME IInv, NEW i \in Instances, ReleasePorts(i)
  PROVE  IInv'
<1> USE DEF IInv
<1> DEFINE o == job[i].id
<1>1. /\ MovesTo(i, "released") /\ job[i].at = "pruned"
      /\ Table!Free({o} \X Slots)
      /\ UNCHANGED <<records, git, disk, branches, ours, used>> /\ Tracked' = Tracked
  BY GotoMoves DEF ReleasePorts, At, repo, Stages, Tracked
<1>2. /\ OnlyMoves(i) /\ job'[i].at = "released" /\ job'[i].id = o /\ job'[i].rec = job[i].rec
      /\ job'[i].found = job[i].found /\ job[i].rec \in Recs
  BY <1>1 DEF MovesTo, JobsOK, Removing
<1>3. /\ table' \in [Ids \X Slots -> Ports \cup {NoPort}] /\ TableOK'
      /\ \A x \in Ids, s \in Slots :
           table'[<<x, s>>] = IF x = o THEN NoPort ELSE table[<<x, s>>]
  <2>1. /\ table' \in [Ids \X Slots -> Ports \cup {NoPort}] /\ TableOK'
        /\ \A k \in Ids \X Slots : /\ k \in {o} \X Slots => table'[k] = NoPort
                                   /\ k \notin {o} \X Slots => table'[k] = table[k]
    BY <1>1, FreeEffect
  <2>2. \A x \in Ids, s \in Slots : <<x, s>> \in {o} \X Slots <=> x = o
    OBVIOUS
  <2> QED
    BY <2>1, <2>2
<1>4. o \in Tracked => ~Live(o)
  BY <1>1 DEF CopiesOK, RemovalsOK, Removing, Live
<1> HIDE DEF o
<1>5. TypeOK'
  BY <1>1, <1>2, <1>3 DEF TypeOK, OnlyMoves
<1>6. JobsOK'
  BY <1>1, <1>2 DEF JobsOK, OnlyMoves, Creating, Making, Removing, Starting, o
<1>7. UsedOK'
  BY <1>1, <1>2, <1>3 DEF UsedOK, OnlyMoves, Making, Removing, Starting, o
<1>8. NewIdsOK'
  BY <1>1, <1>2 DEF NewIdsOK, OnlyMoves, Making, o
<1>9. CopiesOK' /\ RemovalsOK'
  BY <1>1, <1>2 DEF CopiesOK, RemovalsOK, OnlyMoves, Removing, o
<1>10. OwnersOK'
  <2>1. \A b \in Branches : OwnersOf(b)' \subseteq OwnersOf(b)
    BY <1>1, <1>2 DEF OwnersOf, OnlyMoves, Making, o
  <2> QED
    BY <1>1, <2>1, OwnersFewer
<1>11. RollbackOK'
  <2>1. \A j \in Instances : job[j].at = "rollback_branch" => job[j].id \in Ids
    BY DEF JobsOK, Making
  <2> QED
    BY <1>1, <1>2, <1>3, <2>1 DEF RollbackOK, OnlyMoves, At
<1>12. AdoptApart => CheckoutsOK'
  BY <1>1, <1>2 DEF CheckoutsOK, OneRecordPerCheckout, OnlyMoves
<1>13. LeaseApart => LeasesOK'
  <2> SUFFICES ASSUME LeaseApart PROVE LeasesOK'
    OBVIOUS
  <2>1. \A x \in Ids : Live(x)' = Live(x) /\ (x = o => ~Live(x))
    BY <1>1, <1>4 DEF Live, Tracked
  <2>2. ReservationHeld'
    BY <1>1, <1>3, <2>1 DEF LeasesOK, ReservationHeld
  <2>3. \A j \in Instances : job[j].at = "allocated" => job[j].id \in Ids /\ job[j].id # o
    BY <1>1 DEF JobsOK, Making, NewIdsOK, o
  <2>4. \A j \in Instances \ {i} : job'[j] = job[j]
    BY <1>2 DEF OnlyMoves
  <2>5. \A x \in Tracked : x \in Ids
    BY DEF Tracked
  <2>6. \A j \in Instances, x \in Tracked, s \in Slots :
          job'[j].at \in {"marked", "listing"} /\ x \notin job'[j].seen => table'[<<x, s>>] = NoPort
    BY <1>2, <1>3, <2>4, <2>5 DEF LeasesOK
  <2>7. \A j \in Instances, s \in Slots :
          /\ job'[j].at \in {"allocated", "setup"} => job'[j].rec.ports[s] # NoPort
          /\ job'[j].at = "allocated" => table'[<<job'[j].id, s>>] = job'[j].rec.ports[s]
    BY <1>2, <1>3, <2>3, <2>4 DEF LeasesOK, At
  <2>8. ASSUME NEW j \in Instances, NEW x \in Tracked, NEW s \in Slots,
               job'[j].at \in {"setup"} \cup Starting, job'[j].id = x
        PROVE  /\ records[x].ports[s] # NoPort => job'[j].rec.ports[s] = records[x].ports[s]
               /\ job'[j].at = "setup" => records[x].ports[s] # NoPort
               /\ Live(x) /\ job'[j].rec.ports[s] # NoPort => table'[<<x, s>>] = job'[j].rec.ports[s]
    <3>1. job'[j] = job[j]
      BY <1>2, <2>4, <2>8 DEF Starting
    <3> QED
      BY <1>3, <2>1, <2>5, <2>8, <3>1 DEF LeasesOK, At
  <2> QED
    BY <1>1, <2>1, <2>2, <2>5, <2>6, <2>7, <2>8 DEF LeasesOK, At
<1> QED
  BY <1>3, <1>5, <1>6, <1>7, <1>8, <1>9, <1>10, <1>11, <1>12, <1>13 DEF AdoptApart, LeaseApart

(* The record of the job is dropped. *)
LEMMA RecordDropped ==
  ASSUME IInv, NEW i \in Instances, job[i].at = "released", job[i].id \in Tracked,
         Store!Remove(job[i].id), Goto(i, "dropped"),
         UNCHANGED <<table, git, disk, branches, ours, used>>
  PROVE  IInv'
<1> USE DEF IInv
<1> DEFINE o == job[i].id
<1>1. /\ OnlyMoves(i) /\ job'[i].at = "dropped" /\ job'[i].id = o /\ job'[i].rec = job[i].rec
      /\ job'[i].found = job[i].found /\ job[i].rec \in Recs /\ o \in Ids
  BY GotoMoves DEF MovesTo, Stages, JobsOK, Removing, Tracked
<1>2. /\ records' \in [Ids -> Recs \cup {Absent}] /\ records'[o] = Absent
      /\ \A x \in Ids \ {o} : records'[x] = records[x]
  BY <1>1 DEF Store!Remove, TypeOK
<1>3. Tracked' = Tracked \ {o}
  BY <1>1, <1>2 DEF Tracked
<1>4. /\ job[i].rec.owned = records[o].owned /\ job[i].rec.branch = records[o].branch
      /\ job[i].rec.path \notin disk
  BY DEF CopiesOK, RemovalsOK, Removing
<1>5. o \in Tracked
  OBVIOUS
<1> HIDE DEF o
<1>6. TypeOK'
  BY <1>1, <1>2 DEF TypeOK, OnlyMoves
<1>7. JobsOK'
  BY <1>1 DEF JobsOK, OnlyMoves, Creating, Making, Removing, Starting, o
<1>8. UsedOK'
  BY <1>1, <1>2, <1>3 DEF UsedOK, OnlyMoves, Making, Removing, Starting, o, Tracked
<1>9. NewIdsOK'
  BY <1>1, <1>3 DEF NewIdsOK, OnlyMoves, Making, o
<1>10. CopiesOK'
  BY <1>1, <1>2, <1>3 DEF CopiesOK, OnlyMoves, Tracked
<1>11. RemovalsOK'
  <2>1. \A j \in Instances : job[j].at = "dropped" => job[j].id # o
    BY <1>1, <1>5, RegistryAssumption DEF RemovalsOK, RegistryAssumption
  <2> QED
    BY <1>1, <1>3, <1>4, <2>1 DEF RemovalsOK, OnlyMoves, Removing
<1>12. OwnersOK'
  <2>1. \A b \in Branches : OwnersOf(b)' \subseteq OwnersOf(b)
    BY <1>1, <1>2, <1>3, <1>4, <1>5 DEF OwnersOf, OnlyMoves, Making, o, Tracked
  <2> QED
    BY <2>1, OwnersFewer
<1>13. RollbackOK' /\ TableOK'
  BY <1>1 DEF RollbackOK, TableOK, OnlyMoves, At
<1>14. AdoptApart => CheckoutsOK'
  BY <1>1, <1>2, <1>3 DEF CheckoutsOK, OneRecordPerCheckout, OnlyMoves, Tracked
<1>15. LeaseApart => LeasesOK'
  <2>1. \A x \in Tracked' : x \in Tracked /\ x \in Ids /\ records'[x] = records[x]
    BY <1>2, <1>3 DEF Tracked
  <2>2. \A x \in Ids : Live(x)' => x \in Tracked' /\ Live(x)
    BY <1>2, <1>3 DEF Live, Tracked
  <2> QED
    BY <1>1, <2>1, <2>2 DEF LeasesOK, ReservationHeld, OnlyMoves, At, Starting
<1> QED
  BY <1>6, <1>7, <1>8, <1>9, <1>10, <1>11, <1>12, <1>13, <1>14, <1>15 DEF AdoptApart, LeaseApart

(* A target without a record has nothing to drop. *)
LEMMA NothingDropped ==
  ASSUME IInv, NEW i \in Instances, job[i].at = "released", job[i].id = NoId,
         Goto(i, "dropped"), UNCHANGED <<stores, repo, used>>
  PROVE  IInv'
<1> USE DEF IInv
<1>1. /\ OnlyMoves(i) /\ job'[i].at = "dropped" /\ job'[i].id = NoId /\ job'[i].rec = job[i].rec
      /\ job'[i].found = job[i].found /\ ~job[i].rec.owned /\ NoId \notin Ids
  BY GotoMoves, RegistryAssumption DEF MovesTo, Stages, JobsOK, Removing, RegistryAssumption
<1>2. UNCHANGED <<records, table, git, disk, branches, ours, used>> /\ Tracked' = Tracked
  BY DEF stores, repo, Tracked
<1>3. TypeOK'
  BY <1>1, <1>2 DEF TypeOK, OnlyMoves
<1>4. JobsOK'
  BY <1>1 DEF JobsOK, OnlyMoves, Creating, Making, Removing, Starting
<1>5. UsedOK' /\ NewIdsOK'
  BY <1>1, <1>2 DEF UsedOK, NewIdsOK, OnlyMoves, Making, Removing, Starting
<1>6. CopiesOK' /\ RemovalsOK'
  BY <1>1, <1>2 DEF CopiesOK, RemovalsOK, OnlyMoves, Removing
<1>7. OwnersOK'
  <2>1. \A b \in Branches : OwnersOf(b)' \subseteq OwnersOf(b)
    BY <1>1, <1>2 DEF OwnersOf, OnlyMoves, Making
  <2> QED
    BY <1>2, <2>1, OwnersFewer
<1>8. RollbackOK' /\ TableOK'
  BY <1>1, <1>2 DEF RollbackOK, TableOK, OnlyMoves, At
<1>9. AdoptApart => CheckoutsOK'
  BY <1>1, <1>2 DEF CheckoutsOK, OneRecordPerCheckout, OnlyMoves
<1>10. LeaseApart => LeasesOK'
  BY <1>1, <1>2 DEF LeasesOK, ReservationHeld, Live, OnlyMoves, At, Starting, Tracked
<1> QED
  BY <1>3, <1>4, <1>5, <1>6, <1>7, <1>8, <1>9, <1>10 DEF AdoptApart, LeaseApart

LEMMA DropRecordKeeps ==
  ASSUME IInv, NEW i \in Instances, DropRecord(i)
  PROVE  IInv'
<1>1. job[i].at = "released" /\ UNCHANGED <<table, repo, used>>
  BY DEF DropRecord, At
<1>2. CASE job[i].id \in Tracked /\ Store!Remove(job[i].id) /\ Goto(i, "dropped")
  BY <1>1, <1>2, RecordDropped DEF repo
<1>3. CASE job[i].id = NoId /\ UNCHANGED records /\ Goto(i, "dropped")
  BY <1>1, <1>3, NothingDropped DEF stores
<1>4. CASE UNCHANGED records /\ End(i)
  BY <1>1, <1>4, EndKeeps DEF stores
<1> QED
  BY <1>2, <1>3, <1>4 DEF DropRecord

(* Phase 1 of reconcile rewrites statuses, and nothing else. *)
LEMMA MarkEffect ==
  ASSUME IInv, NEW i \in Instances, ReconcileMark(i)
  PROVE  /\ records' \in [Ids -> Recs \cup {Absent}] /\ Tracked' = Tracked
         /\ \A x \in Ids : x \in Tracked =>
              /\ records'[x] \in Recs
              /\ records'[x].path = records[x].path /\ records'[x].branch = records[x].branch
              /\ records'[x].owned = records[x].owned /\ records'[x].ports = records[x].ports
<1> USE DEF IInv
<1>1. \A x \in Ids : records'[x] = IF x \in Tracked /\ records[x].path \notin disk
                                   THEN [records[x] EXCEPT !.status = "orphaned"]
                                   ELSE records[x]
  BY DEF ReconcileMark
<1>2. \A x \in Ids :
        /\ x \notin Tracked => records'[x] = records[x]
        /\ x \in Tracked =>
             /\ records'[x] \in Recs
             /\ records'[x].path = records[x].path /\ records'[x].branch = records[x].branch
             /\ records'[x].owned = records[x].owned /\ records'[x].ports = records[x].ports
  <2> SUFFICES ASSUME NEW x \in Ids, x \in Tracked
               PROVE  /\ records'[x] \in Recs
                      /\ records'[x].path = records[x].path
                      /\ records'[x].branch = records[x].branch
                      /\ records'[x].owned = records[x].owned
                      /\ records'[x].ports = records[x].ports
    BY <1>1
  <2>1. records[x] \in Recs
    BY DEF TypeOK, Tracked
  <2> DEFINE q == [records[x] EXCEPT !.status = "orphaned"]
  <2>2. /\ q \in Recs /\ q.path = records[x].path /\ q.branch = records[x].branch
        /\ q.owned = records[x].owned /\ q.ports = records[x].ports
    BY <2>1, StatusOnly
  <2>3. records'[x] = q \/ records'[x] = records[x]
    BY <1>1
  <2> HIDE DEF q
  <2> QED
    BY <2>1, <2>2, <2>3
<1>3. Tracked' = Tracked
  BY <1>2, RegistryAssumption DEF Tracked, RegistryAssumption
<1>4. records' = [x \in Ids |-> records'[x]]
  BY DEF ReconcileMark
<1>5. \A x \in Ids : records'[x] \in Recs \cup {Absent}
  BY <1>2 DEF TypeOK
<1>6. records' \in [Ids -> Recs \cup {Absent}]
  BY <1>4, <1>5
<1> QED
  BY <1>2, <1>3, <1>6

LEMMA ReconcileMarkKeeps ==
  ASSUME IInv, NEW i \in Instances, ReconcileMark(i)
  PROVE  IInv'
<1> USE DEF IInv
<1>1. PICK stage \in {"marked", "listing"} :
        /\ job' = [job EXCEPT ![i] = [Idle EXCEPT !.at = stage, !.seen = Tracked]]
        /\ Does[i] \cap {"reconcile", "remove_path"} # {}
  BY DEF ReconcileMark, Begin, SurvivingIds
<1>2. Tracked \in SUBSET Ids
  BY DEF Tracked
<1> DEFINE new == [Idle EXCEPT !.at = stage, !.seen = Tracked]
<1>3. /\ new \in Jobs /\ new.at = stage /\ new.id = NoId /\ new.seen = Tracked /\ new.found = {}
  BY <1>2 DEF Idle, Jobs
<1> HIDE DEF new
<1>4. OnlyMoves(i) /\ job'[i] = new /\ UNCHANGED <<table, git, disk, branches, ours, used>>
  BY <1>1, <1>3 DEF new, OnlyMoves, ReconcileMark, TypeOK, repo
<1>6. /\ records' \in [Ids -> Recs \cup {Absent}] /\ Tracked' = Tracked
      /\ \A x \in Ids : x \in Tracked =>
             /\ records'[x] \in Recs
             /\ records'[x].path = records[x].path /\ records'[x].branch = records[x].branch
             /\ records'[x].owned = records[x].owned /\ records'[x].ports = records[x].ports
  BY MarkEffect
<1>7. Tracked' = Tracked /\ NoId \notin Ids
  BY <1>6, RegistryAssumption DEF RegistryAssumption
<1>8. TypeOK'
  BY <1>4, <1>6 DEF TypeOK, OnlyMoves
<1>9. JobsOK'
  <2>1. \A j \in Instances \ {i} : job'[j] = job[j]
    BY <1>4 DEF OnlyMoves
  <2>2. /\ job'[i].at \in {"marked", "listing"} /\ job'[i].id = NoId /\ job'[i].found = {}
    BY <1>3, <1>4
  <2> QED
    BY <1>1, <2>1, <2>2 DEF JobsOK, Creating, Making, Removing, Starting
<1>10. UsedOK'
  BY <1>3, <1>4, <1>6, <1>7 DEF UsedOK, OnlyMoves, Making, Removing, Starting, Tracked
<1>11. NewIdsOK'
  BY <1>3, <1>4, <1>7 DEF NewIdsOK, OnlyMoves, Making, JobsOK
<1>12. CopiesOK'
  BY <1>3, <1>4, <1>6, <1>7 DEF CopiesOK, OnlyMoves, Tracked
<1>13. RemovalsOK'
  BY <1>3, <1>4, <1>7 DEF RemovalsOK, OnlyMoves, Removing
<1>14. OwnersOK'
  <2>1. \A b \in Branches : OwnersOf(b)' \subseteq OwnersOf(b)
    BY <1>3, <1>4, <1>6, <1>7 DEF OwnersOf, OnlyMoves, Making
  <2> QED
    BY <1>4, <2>1, OwnersFewer
<1>15. RollbackOK' /\ TableOK'
  BY <1>3, <1>4 DEF RollbackOK, TableOK, OnlyMoves, At
<1>16. AdoptApart => CheckoutsOK'
  BY <1>3, <1>4, <1>6, <1>7 DEF CheckoutsOK, OneRecordPerCheckout, OnlyMoves, Tracked
<1>17. LeaseApart => LeasesOK'
  <2> SUFFICES ASSUME LeaseApart PROVE LeasesOK'
    OBVIOUS
  <2>1. \A x \in Tracked : x \in Ids /\ (Live(x)' <=> Live(x)) /\ records'[x].ports = records[x].ports
    BY <1>4, <1>6, <1>7 DEF Live, Tracked
  <2>2. \A x \in Ids : Live(x)' => x \in Tracked
    BY <1>7 DEF Live, Tracked
  <2>3. ReservationHeld'
    <3> SUFFICES ASSUME NEW x \in Ids, NEW s \in Slots, Live(x)', records'[x].ports[s] # NoPort
                 PROVE  table[<<x, s>>] = records'[x].ports[s]
      BY <1>4 DEF ReservationHeld
    <3>1. x \in Tracked /\ Live(x) /\ records'[x].ports = records[x].ports
      BY <2>1, <2>2
    <3>2. records[x].ports[s] # NoPort
      BY <3>1
    <3>3. ReservationHeld
      BY DEF LeasesOK
    <3>4. table[<<x, s>>] = records[x].ports[s]
      BY <3>1, <3>2, <3>3 DEF ReservationHeld
    <3> QED
      BY <3>1, <3>4
  <2> QED
    BY <1>3, <1>4, <1>7, <2>1, <2>3 DEF LeasesOK, OnlyMoves, At, Starting
<1> QED
  BY <1>8, <1>9, <1>10, <1>11, <1>12, <1>13, <1>14, <1>15, <1>16, <1>17 DEF AdoptApart, LeaseApart

LEMMA ReconcileSweepKeeps ==
  ASSUME IInv, NEW i \in Instances, ReconcileSweep(i)
  PROVE  IInv'
<1> USE DEF IInv
<1> DEFINE seen == job[i].seen
<1>1. /\ Table!Free(Ownerless(seen)) /\ job[i].at \in {"marked", "listing"}
      /\ UNCHANGED <<records, git, disk, branches, ours, used>> /\ Tracked' = Tracked
      /\ NoId \notin Ids
  BY RegistryAssumption DEF ReconcileSweep, At, repo, Tracked, RegistryAssumption
<1>2. OnlyMoves(i) /\ job'[i].at \in {"idle", "listed"} /\ job'[i].id = NoId /\ job'[i].found = {}
  <2>1. CASE End(i)
    BY <2>1, EndMoves, IdleIsJob
  <2>2. CASE job' = [job EXCEPT ![i] = [Idle EXCEPT !.at = "listed"]]
    <3> DEFINE new == [Idle EXCEPT !.at = "listed"]
    <3>1. new \in Jobs /\ new.at = "listed" /\ new.id = NoId /\ new.found = {}
      BY DEF Idle, Jobs
    <3> HIDE DEF new
    <3>2. job' = [job EXCEPT ![i] = new]
      BY <2>2 DEF new
    <3> QED
      BY <3>1, <3>2 DEF OnlyMoves, TypeOK
  <2> QED
    BY <2>1, <2>2 DEF ReconcileSweep
<1>3. /\ table' \in [Ids \X Slots -> Ports \cup {NoPort}] /\ TableOK'
      /\ \A x \in Ids, s \in Slots :
           table'[<<x, s>>] = IF x \in seen THEN table[<<x, s>>] ELSE NoPort
  <2>1. /\ table' \in [Ids \X Slots -> Ports \cup {NoPort}] /\ TableOK'
        /\ \A k \in Ids \X Slots : /\ k \in Ownerless(seen) => table'[k] = NoPort
                                   /\ k \notin Ownerless(seen) => table'[k] = table[k]
    BY <1>1, FreeEffect
  <2>2. \A x \in Ids, s \in Slots : <<x, s>> \in Ownerless(seen) <=> x \notin seen
    BY DEF Ownerless, Table!Keys
  <2> QED
    BY <2>1, <2>2
<1>4. Does[i] \cap {"reconcile", "remove_path"} # {}
  BY <1>1 DEF JobsOK
<1> HIDE DEF seen
<1>5. TypeOK'
  BY <1>1, <1>2, <1>3 DEF TypeOK, OnlyMoves
<1>6. JobsOK'
  BY <1>2 DEF JobsOK, OnlyMoves, Creating, Making, Removing, Starting
<1>7. UsedOK'
  BY <1>1, <1>2, <1>3 DEF UsedOK, OnlyMoves, Making, Removing, Starting
<1>8. NewIdsOK'
  BY <1>1, <1>2 DEF NewIdsOK, OnlyMoves, Making, JobsOK
<1>9. CopiesOK' /\ RemovalsOK'
  BY <1>1, <1>2 DEF CopiesOK, RemovalsOK, OnlyMoves, Removing, Tracked
<1>10. OwnersOK'
  <2>1. \A b \in Branches : OwnersOf(b)' \subseteq OwnersOf(b)
    BY <1>1, <1>2 DEF OwnersOf, OnlyMoves, Making
  <2> QED
    BY <1>1, <2>1, OwnersFewer
<1>11. RollbackOK'
  <2>1. \A j \in Instances : job[j].at = "rollback_branch" => job[j].id \in Ids
    BY DEF JobsOK, Making
  <2> QED
    BY <1>1, <1>2, <1>3, <2>1 DEF RollbackOK, OnlyMoves, At
<1>12. AdoptApart => CheckoutsOK'
  BY <1>1, <1>2 DEF CheckoutsOK, OneRecordPerCheckout, OnlyMoves
<1>13. LeaseApart => LeasesOK'
  <2> SUFFICES ASSUME LeaseApart PROVE LeasesOK'
    OBVIOUS
  <2>1. \A x \in Tracked, s \in Slots : x \in Ids /\ table'[<<x, s>>] = table[<<x, s>>]
    <3>1. \A x \in Tracked, s \in Slots : x \notin seen => table[<<x, s>>] = NoPort
      BY <1>1 DEF LeasesOK, seen
    <3>2. Tracked \subseteq Ids
      BY DEF Tracked
    <3> QED
      BY <1>3, <3>1, <3>2
  <2>2. \A x \in Ids : /\ Live(x)' <=> Live(x)
                       /\ Live(x) => x \in Tracked
    BY <1>1 DEF Live, Tracked
  <2>3. ReservationHeld'
    BY <1>1, <2>1, <2>2 DEF LeasesOK, ReservationHeld
  <2>4. \A j \in Instances : job'[j].at # "allocated"
    BY <1>2, <1>4 DEF LeaseApart, JobsOK, Creating, Making, OnlyMoves
  <2>5. \A j \in Instances \ {i} : job'[j] = job[j]
    BY <1>2 DEF OnlyMoves
  <2> QED
    BY <1>1, <1>2, <2>1, <2>2, <2>3, <2>4, <2>5 DEF LeasesOK, At, Starting
<1> QED
  BY <1>3, <1>5, <1>6, <1>7, <1>8, <1>9, <1>10, <1>11, <1>12, <1>13 DEF AdoptApart, LeaseApart
-----------------------------------------------------------------------------
(* Ports leased for a record, records imported.                            *)

LEMMA LeasePortsMoves ==
  ASSUME IInv, NEW i \in Instances, LeasePorts(i),
         \A s \in Missing(job[i].rec) : table'[<<job[i].id, s>>] \in Ports
  PROVE  /\ OnlyMoves(i) /\ job'[i].at = "started" /\ job'[i].id = job[i].id
         /\ job'[i].rec \in Recs /\ job'[i].rec.path = job[i].rec.path
         /\ job'[i].rec.branch = job[i].rec.branch /\ job'[i].rec.owned = job[i].rec.owned
         /\ job'[i].found = job[i].found
         /\ \A s \in Slots :
              job'[i].rec.ports[s] = IF s \in Missing(job[i].rec) THEN table'[<<job[i].id, s>>]
                                     ELSE job[i].rec.ports[s]
<1> DEFINE slots == Missing(job[i].rec)
           ports == [s \in Slots |-> IF s \in slots THEN table'[<<job[i].id, s>>]
                                     ELSE job[i].rec.ports[s]]
           r == [job[i].rec EXCEPT !.ports = ports]
           new == [job[i] EXCEPT !.rec = r]
<1>1. job \in [Instances -> Jobs] /\ job[i].at = "started"
  BY DEF LeasePorts, IInv, TypeOK, At
<1>2. job[i].rec \in Recs
  BY <1>1 DEF IInv, JobsOK, Starting
<1>3. job' = [job EXCEPT ![i] = new]
  <2>1. job' = [job EXCEPT ![i].rec.ports =
                  [s \in Slots |-> IF s \in slots THEN table'[<<job[i].id, s>>] ELSE @[s]]]
    BY Zenon DEF LeasePorts
  <2> HIDE DEF slots
  <2> QED
    BY <1>1, <1>2, <2>1 DEF Jobs, Recs
<1>4. ports \in [Slots -> Ports \cup {NoPort}]
  BY <1>2 DEF Recs
<1>5. \A s \in Slots : ports[s] = IF s \in slots THEN table'[<<job[i].id, s>>]
                                  ELSE job[i].rec.ports[s]
  OBVIOUS
<1> HIDE DEF ports
<1>6. /\ r \in Recs /\ r.path = job[i].rec.path /\ r.branch = job[i].rec.branch
      /\ r.owned = job[i].rec.owned /\ r.ports = ports
  BY <1>2, <1>4 DEF Recs
<1> HIDE DEF r
<1>7. /\ new \in Jobs /\ new.at = "started" /\ new.id = job[i].id /\ new.rec = r
      /\ new.found = job[i].found
  BY <1>1, <1>6 DEF Jobs
<1> HIDE DEF new
<1> QED
  BY <1>1, <1>3, <1>5, <1>6, <1>7 DEF OnlyMoves

LEMMA LeasePortsKeeps ==
  ASSUME IInv, NEW i \in Instances, LeasePorts(i)
  PROVE  IInv'
<1> USE DEF IInv
<1> DEFINE o == job[i].id
           slots == Missing(job[i].rec)
<1>1. /\ job[i].at = "started" /\ slots # {} /\ slots \in SUBSET Slots /\ Table!Claim(o, slots)
      /\ UNCHANGED <<records, git, disk, branches, ours, used>> /\ Tracked' = Tracked
  BY DEF LeasePorts, At, repo, Tracked, Missing
<1>2. o \in Ids /\ job[i].rec \in Recs /\ "start" \in Does[i]
  BY <1>1 DEF JobsOK, Starting
<1>3. \A s \in Slots : s \in slots <=> job[i].rec.ports[s] = NoPort
  BY DEF Missing
<1> HIDE DEF slots
<1>4. /\ table' \in [Ids \X Slots -> Ports \cup {NoPort}] /\ TableOK'
      /\ \A s \in slots : table'[<<o, s>>] \in Ports
      /\ \A id \in Ids, s \in Slots : id # o \/ s \notin slots => table'[<<id, s>>] = table[<<id, s>>]
  BY <1>1, <1>2, ClaimEffect
<1>5. /\ OnlyMoves(i) /\ job'[i].at = "started" /\ job'[i].id = o
      /\ job'[i].rec \in Recs /\ job'[i].rec.path = job[i].rec.path
      /\ job'[i].rec.branch = job[i].rec.branch /\ job'[i].rec.owned = job[i].rec.owned
      /\ job'[i].found = job[i].found
      /\ \A s \in Slots : job'[i].rec.ports[s] =
           IF s \in slots THEN table'[<<o, s>>] ELSE job[i].rec.ports[s]
  BY <1>4, LeasePortsMoves DEF slots
<1>6. o \in used
  BY <1>2, RegistryAssumption DEF UsedOK, RegistryAssumption
<1>7. \A j \in Instances : job[j].at \in Making => job[j].id \in Ids /\ job[j].id # o
  BY <1>1 DEF JobsOK, Making, NewIdsOK
<1> HIDE DEF o
<1>8. TypeOK'
  BY <1>1, <1>4, <1>5 DEF TypeOK, OnlyMoves
<1>9. JobsOK'
  BY <1>1, <1>2, <1>5 DEF JobsOK, OnlyMoves, Creating, Making, Removing, Starting
<1>10. UsedOK'
  <2>1. \A x \in Ids, s \in Slots : table'[<<x, s>>] # NoPort => x \in used
    BY <1>4, <1>6 DEF UsedOK
  <2>2. \A j \in Instances :
          /\ job'[j].id # NoId => job'[j].id \in used
          /\ job'[j].at \in Making \cup {"setup"} \cup Removing \cup Starting => job'[j].rec.path \in used
          /\ \A w \in job'[j].found : w[1] \in used
    BY <1>1, <1>5, <1>6 DEF UsedOK, OnlyMoves, Starting
  <2> QED
    BY <1>1, <2>1, <2>2 DEF UsedOK
<1>11. NewIdsOK'
  BY <1>1, <1>5 DEF NewIdsOK, OnlyMoves, Making, o
<1>12. CopiesOK' /\ RemovalsOK'
  BY <1>1, <1>2, <1>5 DEF CopiesOK, RemovalsOK, OnlyMoves, Removing, o
<1>13. OwnersOK'
  <2>1. \A b \in Branches : OwnersOf(b)' \subseteq OwnersOf(b)
    BY <1>1, <1>5 DEF OwnersOf, OnlyMoves, Making
  <2> QED
    BY <1>1, <2>1, OwnersFewer
<1>14. RollbackOK'
  BY <1>1, <1>4, <1>5, <1>7 DEF RollbackOK, OnlyMoves, At, Making
<1>15. AdoptApart => CheckoutsOK'
  BY <1>1, <1>5 DEF CheckoutsOK, OneRecordPerCheckout, OnlyMoves
<1>16. LeaseApart => LeasesOK'
  <2> SUFFICES ASSUME LeaseApart PROVE LeasesOK'
    OBVIOUS
  <2>1. LeasesOK
    OBVIOUS
  <2>2. \A x \in Ids : /\ Live(x)' <=> Live(x)
                       /\ Live(x) => x \in Tracked
    BY <1>1 DEF Live, Tracked
  <2>3. \A s \in Slots : o \in Tracked =>
          /\ records[o].ports[s] # NoPort => job[i].rec.ports[s] = records[o].ports[s]
          /\ Live(o) /\ job[i].rec.ports[s] # NoPort => table[<<o, s>>] = job[i].rec.ports[s]
    BY <1>1, <2>1 DEF LeasesOK, Starting, o
  <2>4. \A s \in slots : s \in Slots /\ (o \in Tracked => records[o].ports[s] = NoPort)
    BY <1>1, <1>3, <2>3
  <2>5. ReservationHeld'
    <3> SUFFICES ASSUME NEW x \in Ids, NEW s \in Slots, Live(x)', records[x].ports[s] # NoPort
                 PROVE  table'[<<x, s>>] = records[x].ports[s]
      BY <1>1 DEF ReservationHeld
    <3>1. Live(x) /\ x \in Tracked
      BY <2>2
    <3>2. table[<<x, s>>] = records[x].ports[s]
      BY <2>1, <3>1 DEF LeasesOK, ReservationHeld
    <3> QED
      BY <1>4, <2>4, <3>1, <3>2
  <2>6. \A j \in Instances \ {i} : job'[j] = job[j]
    BY <1>5 DEF OnlyMoves
  <2>7. ASSUME NEW j \in Instances, NEW s \in Slots
        PROVE  /\ job'[j].at \in {"allocated", "setup"} => job'[j].rec.ports[s] # NoPort
               /\ job'[j].at = "allocated" => table'[<<job'[j].id, s>>] = job'[j].rec.ports[s]
    <3>1. CASE j = i
      BY <1>5, <3>1
    <3>2. CASE j # i
      BY <1>4, <1>7, <2>1, <2>6, <3>2 DEF LeasesOK, At, Making
    <3> QED
      BY <3>1, <3>2
  <2>8. ASSUME NEW j \in Instances, NEW x \in Tracked, NEW s \in Slots,
               job'[j].at \in {"setup"} \cup Starting, job'[j].id = x
        PROVE  /\ records[x].ports[s] # NoPort => job'[j].rec.ports[s] = records[x].ports[s]
               /\ job'[j].at = "setup" => records[x].ports[s] # NoPort
               /\ Live(x) /\ job'[j].rec.ports[s] # NoPort => table'[<<x, s>>] = job'[j].rec.ports[s]
    <3>1. x \in Ids
      BY DEF Tracked
    <3>2. CASE j = i
      <4>1. x = o
        BY <1>5, <2>8, <3>2
      <4>2. CASE s \in slots
        BY <1>5, <2>4, <3>2, <4>1, <4>2
      <4>3. CASE s \notin slots
        BY <1>3, <1>4, <1>5, <2>3, <3>1, <3>2, <4>1, <4>3
      <4> QED
        BY <4>2, <4>3
    <3>3. CASE j # i
      <4>1. job'[j] = job[j]
        BY <2>6, <3>3
      <4>2. /\ records[x].ports[s] # NoPort => job[j].rec.ports[s] = records[x].ports[s]
            /\ job[j].at = "setup" => records[x].ports[s] # NoPort
            /\ Live(x) /\ job[j].rec.ports[s] # NoPort => table[<<x, s>>] = job[j].rec.ports[s]
        BY <2>1, <2>8, <4>1 DEF LeasesOK, At
      <4>3. x = o => job[j].at = "setup"
        BY <1>2, <2>8, <3>3, <4>1 DEF LeaseApart, JobsOK
      <4>4. x # o \/ s \notin slots
        BY <2>4, <4>2, <4>3
      <4> QED
        BY <1>4, <3>1, <4>1, <4>2, <4>4
    <3> QED
      BY <3>2, <3>3
  <2>9. \A j \in Instances : job'[j].at \notin {"marked", "listing"}
    BY <1>2, <1>5, <2>6 DEF LeaseApart, JobsOK
  <2>10. \A j \in Instances, x \in Tracked, s \in Slots :
           job'[j].at \in {"setup"} \cup Starting /\ job'[j].id = x =>
             /\ records[x].ports[s] # NoPort => job'[j].rec.ports[s] = records[x].ports[s]
             /\ job'[j].at = "setup" => records[x].ports[s] # NoPort
             /\ Live(x)' /\ job'[j].rec.ports[s] # NoPort => table'[<<x, s>>] = job'[j].rec.ports[s]
    BY <2>2, <2>8 DEF Tracked
  <2> QED
    BY <1>1, <2>5, <2>7, <2>9, <2>10 DEF LeasesOK, At
<1> QED
  BY <1>4, <1>8, <1>9, <1>10, <1>11, <1>12, <1>13, <1>14, <1>15, <1>16 DEF AdoptApart, LeaseApart
(* What an import does to state.yaml: a new record, under an id nobody has had,
   for each worktree that no record stood for.                             *)
LEMMA ImportEffect ==
  ASSUME IInv, NEW i \in Instances, AdoptImport(i)
  PROVE  \E N \in SUBSET (Ids \ used) :
           /\ used' = used \cup N
           /\ records' \in [Ids -> Recs \cup {Absent}]
           /\ \A x \in Ids \ N : records'[x] = records[x]
           /\ \A x \in N :
                /\ records'[x] \in Recs /\ ~records'[x].owned /\ records'[x].ports = NoPorts
                /\ records'[x].path \in used
                /\ \A t \in Tracked : records[t].path # records'[x].path
           /\ \A x, y \in N : records'[x].path = records'[y].path => x = y
<1> DEFINE U == Unknown(job[i].found)
<1>1. PICK name \in [U -> Ids \ used] :
        /\ \A v, w \in U : name[v] = name[w] => v = w
        /\ records' = [id \in Ids |-> IF \E w \in U : name[w] = id
                                      THEN Adopted(CHOOSE w \in U : name[w] = id)
                                      ELSE records[id]]
        /\ used' = used \cup {name[w] : w \in U}
  BY DEF AdoptImport
<1>2. \A w \in U : /\ w \in Paths \X Branches /\ w[1] \in used
                   /\ \A t \in Tracked : records[t].path # w[1]
  BY DEF Unknown, IInv, TypeOK, Jobs, UsedOK
<1>3. \A v, w \in U : v[1] = w[1] => v = w
  BY DEF Unknown, IInv, JobsOK
<1> HIDE DEF U
<1> DEFINE N == {name[w] : w \in U}
<1>4. N \in SUBSET (Ids \ used)
  BY <1>1
<1>5. \A x \in Ids \ N : records'[x] = records[x]
  BY <1>1
<1>6. \A w \in U : records'[name[w]] = Adopted(w)
  <2> SUFFICES ASSUME NEW w \in U PROVE records'[name[w]] = Adopted(w)
    OBVIOUS
  <2>1. name[w] \in Ids
    BY <1>1
  <2>2. (CHOOSE v \in U : name[v] = name[w]) = w
    BY <1>1
  <2> QED
    BY <1>1, <2>1, <2>2
<1>7. \A w \in U : /\ Adopted(w) \in Recs /\ ~Adopted(w).owned /\ Adopted(w).ports = NoPorts
                   /\ Adopted(w).path = w[1]
  BY <1>2 DEF Adopted, Recs, NoPorts
<1>8. \A x \in N :
        /\ records'[x] \in Recs /\ ~records'[x].owned /\ records'[x].ports = NoPorts
        /\ records'[x].path \in used
        /\ \A t \in Tracked : records[t].path # records'[x].path
  BY <1>2, <1>6, <1>7
<1>9. \A x, y \in N : records'[x].path = records'[y].path => x = y
  BY <1>3, <1>6, <1>7
<1>10. records' \in [Ids -> Recs \cup {Absent}]
  <2>1. \A x \in Ids : records'[x] \in Recs \cup {Absent}
    BY <1>5, <1>8 DEF IInv, TypeOK
  <2>2. records' = [x \in Ids |-> records'[x]]
    BY <1>1
  <2> QED
    BY <2>1, <2>2
<1>11. used' = used \cup N
  BY <1>1
<1> HIDE DEF N
<1> QED
  BY <1>4, <1>5, <1>8, <1>9, <1>10, <1>11

LEMMA AdoptImportKeeps ==
  ASSUME IInv, NEW i \in Instances, AdoptImport(i)
  PROVE  IInv'
<1> USE DEF IInv
<1>1. /\ OnlyMoves(i) /\ job'[i] = Idle /\ job[i].at = "scanned" /\ "adopt" \in Does[i]
      /\ UNCHANGED <<table, git, disk, branches, ours>>
  BY EndMoves DEF AdoptImport, At, repo, JobsOK
<1>2. PICK N \in SUBSET (Ids \ used) :
        /\ used' = used \cup N
        /\ records' \in [Ids -> Recs \cup {Absent}]
        /\ \A x \in Ids \ N : records'[x] = records[x]
        /\ \A x \in N :
             /\ records'[x] \in Recs /\ ~records'[x].owned /\ records'[x].ports = NoPorts
             /\ records'[x].path \in used
             /\ \A t \in Tracked : records[t].path # records'[x].path
        /\ \A x, y \in N : records'[x].path = records'[y].path => x = y
  BY ImportEffect
<1>3. /\ Tracked' = Tracked \cup N /\ Tracked \subseteq Ids \cap used
      /\ NoId \notin Ids
  BY <1>2, RegistryAssumption DEF Tracked, RegistryAssumption, UsedOK
<1>4. \A x \in Tracked : records'[x] = records[x] /\ x \in Ids \ N
  BY <1>2, <1>3
<1>5. \A j \in Instances : job[j].id \notin N
  BY <1>2, <1>3 DEF UsedOK
<1>6. TypeOK'
  BY <1>1, <1>2 DEF TypeOK, OnlyMoves, Paths
<1>7. JobsOK'
  BY <1>1, IdleIsJob DEF JobsOK, OnlyMoves, Creating, Making, Removing, Starting
<1>8. UsedOK'
  BY <1>1, <1>2, <1>3, <1>4, IdleIsJob
     DEF UsedOK, OnlyMoves, Making, Removing, Starting
<1>9. NewIdsOK'
  BY <1>1, <1>3, <1>5, IdleIsJob DEF NewIdsOK, OnlyMoves, Making, JobsOK
<1>10. CopiesOK'
  BY <1>1, <1>3, <1>4, <1>5, IdleIsJob DEF CopiesOK, OnlyMoves
<1>11. RemovalsOK'
  BY <1>1, <1>3, <1>5, IdleIsJob DEF RemovalsOK, OnlyMoves, Removing
<1>12. OwnersOK'
  <2>1. \A b \in Branches : OwnersOf(b)' \subseteq OwnersOf(b)
    BY <1>1, <1>2, <1>3, <1>4, IdleIsJob DEF OwnersOf, OnlyMoves, Making
  <2> QED
    BY <1>1, <2>1, OwnersFewer
<1>13. RollbackOK' /\ TableOK'
  BY <1>1, IdleIsJob DEF RollbackOK, TableOK, OnlyMoves, At
<1>14. AdoptApart => CheckoutsOK'
  <2> SUFFICES ASSUME AdoptApart PROVE CheckoutsOK'
    OBVIOUS
  <2>1. OneRecordPerCheckout'
    BY <1>2, <1>3, <1>4 DEF CheckoutsOK, OneRecordPerCheckout
  <2>2. \A j \in Instances : job'[j].at \notin {"added", "allocated"}
    BY <1>1, IdleIsJob DEF AdoptApart, JobsOK, Creating, Making, OnlyMoves
  <2> QED
    BY <2>1, <2>2 DEF CheckoutsOK
<1>15. LeaseApart => LeasesOK'
  <2> SUFFICES ASSUME LeaseApart PROVE LeasesOK'
    OBVIOUS
  <2>1. \A x \in N, s \in Slots : records'[x].ports[s] = NoPort /\ table[<<x, s>>] = NoPort
    <3>1. \A x \in N : x \in Ids /\ x \notin used /\ records'[x].ports = NoPorts
      BY <1>2
    <3>2. \A x \in N, s \in Slots : table[<<x, s>>] = NoPort
      BY <3>1 DEF UsedOK
    <3>3. \A s \in Slots : NoPorts[s] = NoPort
      BY DEF NoPorts
    <3> QED
      BY <3>1, <3>2, <3>3
  <2>2. \A x \in Tracked : Live(x)' = Live(x)
    BY <1>1, <1>4 DEF Live
  <2>3. ReservationHeld'
    <3> SUFFICES ASSUME NEW x \in Ids, NEW s \in Slots, Live(x)', records'[x].ports[s] # NoPort
                 PROVE  table[<<x, s>>] = records'[x].ports[s]
      BY <1>1 DEF ReservationHeld
    <3>1. x \in Tracked'
      BY DEF Live, Tracked
    <3>2. x \in Tracked
      BY <1>3, <2>1, <3>1
    <3> QED
      BY <1>4, <2>2, <3>2 DEF LeasesOK, ReservationHeld
  <2>4. \A j \in Instances :
          \/ job'[j] = job[j] /\ job[j].id \notin N
          \/ job'[j].at = "idle"
    BY <1>1, <1>5, IdleIsJob DEF OnlyMoves
  <2>5. \A j \in Instances, x \in Tracked', s \in Slots :
          job'[j].at \in {"setup"} \cup Starting /\ job'[j].id = x =>
            /\ records'[x].ports[s] # NoPort => job'[j].rec.ports[s] = records'[x].ports[s]
            /\ job'[j].at = "setup" => records'[x].ports[s] # NoPort
            /\ Live(x)' /\ job'[j].rec.ports[s] # NoPort => table[<<x, s>>] = job'[j].rec.ports[s]
    BY <1>3, <1>4, <2>2, <2>4 DEF LeasesOK, At, Starting
  <2> QED
    BY <1>1, <1>3, <2>1, <2>3, <2>4, <2>5 DEF LeasesOK, At
<1> QED
  BY <1>1, <1>6, <1>7, <1>8, <1>9, <1>10, <1>11, <1>12, <1>13, <1>14, <1>15
     DEF AdoptApart, LeaseApart

-----------------------------------------------------------------------------
(* The invariant.                                                          *)

LEMMA InitIInv == Init => IInv
<1> SUFFICES ASSUME Init PROVE IInv
  OBVIOUS
<1>1. /\ records = [id \in Ids |-> Absent] /\ table = [k \in Ids \X Slots |-> NoPort]
      /\ git = [p \in Paths |-> NoBranch] /\ disk = {} /\ branches \in SUBSET Branches
      /\ ours = {} /\ used = {} /\ job = [i \in Instances |-> Idle]
  BY DEF Init, Store!RInit, Table!TInit, Table!Keys
<1>2. Tracked = {}
  BY <1>1 DEF Tracked
<1>3. TypeOK
  BY <1>1, IdleIsJob DEF TypeOK
<1>4. JobsOK /\ NewIdsOK /\ CopiesOK /\ RemovalsOK /\ RollbackOK
  BY <1>1, <1>2, IdleIsJob
     DEF JobsOK, NewIdsOK, CopiesOK, RemovalsOK, RollbackOK, Creating, Making, Removing, Starting, At
<1>5. UsedOK /\ TableOK
  BY <1>1, <1>2, IdleIsJob DEF UsedOK, TableOK, Making, Removing, Starting, Table!Keys
<1>6. \A b \in Branches : OwnersOf(b) = {}
  BY <1>1, <1>2, IdleIsJob DEF OwnersOf, Making
<1>7. CheckoutsOK
  BY <1>1, <1>2, IdleIsJob DEF CheckoutsOK, OneRecordPerCheckout
<1>8. LeasesOK
  BY <1>1, <1>2, IdleIsJob DEF LeasesOK, ReservationHeld, Live, At, Starting
<1> QED
  BY <1>3, <1>4, <1>5, <1>6, <1>7, <1>8 DEF IInv, OwnersOK

LEMMA StepIInv == IInv /\ [Next]_vars => IInv'
<1> SUFFICES ASSUME IInv, [Next]_vars PROVE IInv'
  OBVIOUS
<1>1. CASE UNCHANGED vars
  <2>1. UNCHANGED <<records, table, branches, ours, used, disk, git, job>>
    BY <1>1 DEF vars
  <2> QED
    BY <2>1, VanishKeeps DEF IInv, TypeOK
<1>2. ASSUME NEW i \in Instances, Create(i)
      PROVE  IInv'
  <2>1. CASE \E b \in Branches : CheckDuplicate(i, b)
    BY <2>1, CheckDuplicateKeeps
  <2>2. CASE ProbeBranch(i)
    BY <2>2, ProbeBranchKeeps
  <2>3. CASE GitAddFails(i)
    BY <2>3, GitAddFailsKeeps
  <2>4. CASE AllocatePorts(i)
    BY <2>4, AllocatePortsKeeps
  <2>5. CASE AddRecord(i)
    BY <2>5, AddRecordKeeps
  <2>6. CASE \E id \in Ids, timeout \in BOOLEAN : GitAdd(i, id, timeout)
    BY <2>6, GitAddKeeps
  <2>7. CASE CreateFails(i) \/ RollbackStepFails(i)
    <3>1. CASE At(i, "rollback_branch")
      BY <2>7, <3>1, RollbackBranchKeeps DEF CreateFails, At
    <3>2. CASE ~At(i, "rollback_branch")
      BY <2>7, <3>2, CreateFailsKeeps
    <3> QED
      BY <3>1, <3>2
  <2>8. CASE RollbackGit(i)
    BY <2>8, RollbackGitKeeps
  <2>9. CASE RollbackPorts(i)
    BY <2>9, RollbackPortsKeeps
  <2>10. CASE RollbackBranch(i)
    BY <2>10, RollbackBranchKeeps
  <2>11. CASE \E status \in {"created", "setup_failed"} : SetupDone(i, status)
    BY <2>11, SetupDoneKeeps
  <2>12. CASE CreateRaises(i)
    BY <2>12, EndKeeps DEF CreateRaises
  <2> QED
    BY <1>2, <2>1, <2>2, <2>3, <2>4, <2>5, <2>6, <2>7, <2>8, <2>9, <2>10, <2>11, <2>12 DEF Create
<1>3. ASSUME NEW i \in Instances, Adopt(i)
      PROVE  IInv'
  BY <1>3, AdoptScanKeeps, AdoptImportKeeps DEF Adopt
<1>4. ASSUME NEW i \in Instances, Remove(i)
      PROVE  IInv'
  <2>1. CASE \E id \in Ids, force \in BOOLEAN : ResolveTracked(i, id, force)
    BY <2>1, ResolveTrackedKeeps
  <2>2. CASE \E p \in Paths, force \in BOOLEAN : ResolveUntracked(i, p, force)
    BY <2>2, ResolveUntrackedKeeps
  <2>3. CASE NotFound(i)
    BY <2>3, EndKeeps DEF NotFound
  <2>4. CASE DeleteCheckout(i) \/ TeardownRaises(i) \/ PruneAfterDelete(i)
    BY <2>4, RemovalStepsKeep
  <2>5. CASE ReleasePorts(i)
    BY <2>5, ReleasePortsKeeps
  <2>6. CASE DropRecord(i)
    BY <2>6, DropRecordKeeps
  <2>7. CASE DeleteOwnedBranch(i)
    BY <2>7, RollbackBranchKeeps
  <2> QED
    BY <1>4, <2>1, <2>2, <2>3, <2>4, <2>5, <2>6, <2>7 DEF Remove
<1>5. ASSUME NEW i \in Instances, Prune(i) \/ Reconcile(i) \/ Crash(i)
      PROVE  IInv'
  BY <1>5, RemovalStepsKeep, ReconcileMarkKeeps, ReconcileSweepKeeps, EndKeeps
     DEF Reconcile, Crash
<1>6. ASSUME NEW i \in Instances, Start(i)
      PROVE  IInv'
  <2>1. CASE \E id \in Ids, allow \in BOOLEAN : StartGet(i, id, allow)
    BY <2>1, StartGetKeeps
  <2>2. CASE LeasePorts(i)
    BY <2>2, LeasePortsKeeps
  <2>3. CASE LeaseFails(i)
    BY <2>3, EndKeeps DEF LeaseFails
  <2>4. CASE SaveLease(i)
    BY <2>4, SaveLeaseKeeps
  <2>5. CASE StartReady(i)
    BY <2>5, StartReadyKeeps
  <2> QED
    BY <1>6, <2>1, <2>2, <2>3, <2>4, <2>5 DEF Start
<1>7. CASE \E p \in UserPaths, b \in Branches : UserAddsWorktree(p, b)
  BY <1>7, UserAddsKeeps
<1>8. CASE \E p \in Paths : UserDeletesCheckout(p)
  BY <1>8, UserDeletesKeeps
<1> QED
  BY <1>1, <1>2, <1>3, <1>4, <1>5, <1>6, <1>7, <1>8 DEF Next

(* Between any two steps of any operations of any managers, crashes and the
   user's own git commands included, the stores, git and what each operation
   remembers fit together.                                                 *)
THEOREM RegistryInvariant == Spec => []IInv
<1>1. Init => IInv
  BY InitIInv
<1>2. IInv /\ [Next]_vars => IInv'
  BY StepIInv
<1> QED
  BY <1>1, <1>2, PTL DEF Spec

-----------------------------------------------------------------------------
(* Which steps change what.                                                *)

LEMMA RecordsChangedBy ==
  ASSUME Next, records' # records
  PROVE  \E i \in Instances :
           \/ AddRecord(i) \/ AdoptImport(i) \/ DropRecord(i) \/ ReconcileMark(i)
           \/ SaveLease(i) \/ StartReady(i)
           \/ \E status \in {"created", "setup_failed"} : SetupDone(i, status)
<1>1. ASSUME NEW i \in Instances, Create(i)
      PROVE  AddRecord(i) \/ \E status \in {"created", "setup_failed"} : SetupDone(i, status)
  BY <1>1 DEF Create, CheckDuplicate, ProbeBranch, GitAdd, GitAddFails, AllocatePorts,
       CreateFails, RollbackGit, RollbackPorts, RollbackBranch, RollbackStepFails, CreateRaises, stores
<1>2. ASSUME NEW i \in Instances, Adopt(i)
      PROVE  AdoptImport(i)
  BY <1>2 DEF Adopt, AdoptScan, stores
<1>3. ASSUME NEW i \in Instances, Remove(i)
      PROVE  DropRecord(i)
  BY <1>3 DEF Remove, ResolveTracked, ResolveUntracked, NotFound, DeleteCheckout,
       TeardownRaises, PruneAfterDelete, ReleasePorts, DeleteOwnedBranch, stores
<1>4. ASSUME NEW i \in Instances, Prune(i) \/ Reconcile(i) \/ Crash(i)
      PROVE  ReconcileMark(i)
  BY <1>4 DEF Prune, Reconcile, ReconcileSweep, Crash, stores
<1>5. ASSUME NEW i \in Instances, Start(i)
      PROVE  SaveLease(i) \/ StartReady(i)
  BY <1>5 DEF Start, StartGet, LeasePorts, LeaseFails, stores
<1>6. ~(\E p \in UserPaths, b \in Branches : UserAddsWorktree(p, b))
  BY DEF UserAddsWorktree, stores
<1>7. ~(\E p \in Paths : UserDeletesCheckout(p))
  BY DEF UserDeletesCheckout, stores
<1> QED
  BY <1>1, <1>2, <1>3, <1>4, <1>5, <1>6, <1>7 DEF Next

LEMMA TableChangedBy ==
  ASSUME Next, table' # table
  PROVE  \E i \in Instances :
           \/ AllocatePorts(i) \/ RollbackPorts(i) \/ ReleasePorts(i)
           \/ ReconcileSweep(i) \/ LeasePorts(i)
<1>1. ASSUME NEW i \in Instances, Create(i)
      PROVE  AllocatePorts(i) \/ RollbackPorts(i)
  BY <1>1 DEF Create, CheckDuplicate, ProbeBranch, GitAdd, GitAddFails, AddRecord, SetupDone,
       CreateFails, RollbackGit, RollbackBranch, RollbackStepFails, CreateRaises, stores
<1>2. ASSUME NEW i \in Instances, Adopt(i)
      PROVE  FALSE
  BY <1>2 DEF Adopt, AdoptScan, AdoptImport, stores
<1>3. ASSUME NEW i \in Instances, Remove(i)
      PROVE  ReleasePorts(i)
  BY <1>3 DEF Remove, ResolveTracked, ResolveUntracked, NotFound, DeleteCheckout,
       TeardownRaises, PruneAfterDelete, DropRecord, DeleteOwnedBranch, stores
<1>4. ASSUME NEW i \in Instances, Prune(i) \/ Reconcile(i) \/ Crash(i)
      PROVE  ReconcileSweep(i)
  BY <1>4 DEF Prune, Reconcile, ReconcileMark, Crash, stores
<1>5. ASSUME NEW i \in Instances, Start(i)
      PROVE  LeasePorts(i)
  BY <1>5 DEF Start, StartGet, SaveLease, StartReady, LeaseFails, stores
<1>6. ~(\E p \in UserPaths, b \in Branches : UserAddsWorktree(p, b))
  BY DEF UserAddsWorktree, stores
<1>7. ~(\E p \in Paths : UserDeletesCheckout(p))
  BY DEF UserDeletesCheckout, stores
<1> QED
  BY <1>1, <1>2, <1>3, <1>4, <1>5, <1>6, <1>7 DEF Next

LEMMA BranchDeletedBy ==
  ASSUME Next, NEW b \in branches, b \notin branches'
  PROVE  \E i \in Instances : RollbackBranch(i) \/ DeleteOwnedBranch(i)
<1>1. ASSUME NEW i \in Instances, Create(i)
      PROVE  RollbackBranch(i)
  <2>1. \A id \in Ids, timeout \in BOOLEAN : ~GitAdd(i, id, timeout)
    BY DEF GitAdd
  <2> QED
    BY <1>1, <2>1
       DEF Create, CheckDuplicate, ProbeBranch, GitAddFails, AllocatePorts, AddRecord, SetupDone,
         CreateFails, RollbackGit, RollbackPorts, RollbackStepFails, CreateRaises, repo
<1>2. ASSUME NEW i \in Instances, Adopt(i)
      PROVE  FALSE
  BY <1>2 DEF Adopt, AdoptScan, AdoptImport, repo
<1>3. ASSUME NEW i \in Instances, Remove(i)
      PROVE  DeleteOwnedBranch(i)
  BY <1>3 DEF Remove, ResolveTracked, ResolveUntracked, NotFound, DeleteCheckout,
       TeardownRaises, PruneAfterDelete, ReleasePorts, DropRecord, repo
<1>4. ASSUME NEW i \in Instances, Prune(i) \/ Reconcile(i) \/ Crash(i)
      PROVE  FALSE
  BY <1>4 DEF Prune, Reconcile, ReconcileMark, ReconcileSweep, Crash, repo
<1>5. ASSUME NEW i \in Instances, Start(i)
      PROVE  FALSE
  BY <1>5 DEF Start, StartGet, LeasePorts, SaveLease, StartReady, LeaseFails, repo
<1>6. ~(\E p \in UserPaths, c \in Branches : UserAddsWorktree(p, c))
  BY DEF UserAddsWorktree
<1>7. ~(\E p \in Paths : UserDeletesCheckout(p))
  BY DEF UserDeletesCheckout
<1> QED
  BY <1>1, <1>2, <1>3, <1>4, <1>5, <1>6, <1>7 DEF Next

(* A rollback ends with its last step, done or failed. *)
LEMMA RolledBackBy ==
  ASSUME IInv, Next, NEW i \in Instances,
         At(i, "rollback_branch"), job'[i].at = "rolled_back"
  PROVE  RollbackBranch(i) \/ (RollbackStepFails(i) /\ ~job'[i].clean)
<1> USE DEF At, Goto, End, Begin
<1>1. job \in [Instances -> Jobs]
  BY DEF IInv, TypeOK
<1>2. ASSUME NEW j \in Instances, Create(j)
      PROVE  RollbackBranch(i) \/ (RollbackStepFails(i) /\ ~job'[i].clean)
  <2>1. CASE RollbackBranch(j) \/ RollbackStepFails(j)
    <3>1. CASE j = i
      <4>1. CASE RollbackBranch(i)
        BY <4>1
      <4>2. CASE RollbackStepFails(i)
        <5>1. job' = [job EXCEPT ![i] = RolledBack(FALSE)]
          BY <4>2 DEF RollbackStepFails
        <5> QED
          BY <1>1, <4>2, <5>1 DEF RolledBack, Idle
      <4> QED
        BY <2>1, <3>1, <4>1, <4>2
    <3>2. CASE j # i
      <4>1. \E new : job' = [job EXCEPT ![j] = new]
        BY <2>1 DEF RollbackBranch, RollbackStepFails
      <4> QED
        BY <1>1, <3>2, <4>1
    <3> QED
      BY <3>1, <3>2
  <2>2. CASE CreateFails(j) \/ RollbackGit(j) \/ RollbackPorts(j) \/ CreateRaises(j)
    BY <1>1, <2>2 DEF CreateFails, RollbackGit, RollbackPorts, CreateRaises
  <2>3. ASSUME NEW b \in Branches, CheckDuplicate(j, b)
        PROVE  FALSE
    BY <1>1, <2>3 DEF CheckDuplicate
  <2>4. CASE ProbeBranch(j) \/ GitAddFails(j) \/ AllocatePorts(j) \/ AddRecord(j)
    BY <1>1, <2>4 DEF ProbeBranch, GitAddFails, AllocatePorts, AddRecord
  <2>5. ASSUME NEW id \in Ids, NEW timeout \in BOOLEAN, GitAdd(j, id, timeout)
        PROVE  FALSE
    BY <1>1, <2>5 DEF GitAdd
  <2>6. ASSUME NEW status \in {"created", "setup_failed"}, SetupDone(j, status)
        PROVE  FALSE
    BY <1>1, <2>6 DEF SetupDone
  <2> QED
    BY <1>2, <2>1, <2>2, <2>3, <2>4, <2>5, <2>6 DEF Create
<1>3. ASSUME NEW j \in Instances, Adopt(j)
      PROVE  FALSE
  BY <1>1, <1>3 DEF Adopt, AdoptScan, AdoptImport
<1>4. ASSUME NEW j \in Instances, Remove(j)
      PROVE  FALSE
  <2>1. \A id \in Ids, force \in BOOLEAN : ~ResolveTracked(j, id, force)
    BY <1>1 DEF ResolveTracked
  <2>2. \A p \in Paths, force \in BOOLEAN : ~ResolveUntracked(j, p, force)
    BY <1>1 DEF ResolveUntracked
  <2> QED
    BY <1>1, <1>4, <2>1, <2>2
       DEF Remove, NotFound, DeleteCheckout, TeardownRaises, PruneAfterDelete, ReleasePorts,
         DropRecord, DeleteOwnedBranch
<1>5. ASSUME NEW j \in Instances, Prune(j) \/ Reconcile(j) \/ Crash(j)
      PROVE  FALSE
  BY <1>1, <1>5, IdleIsJob DEF Prune, Reconcile, ReconcileMark, ReconcileSweep, Crash
<1>6. ASSUME NEW j \in Instances, Start(j)
      PROVE  FALSE
  <2>1. \A id \in Ids, allow \in BOOLEAN : ~StartGet(j, id, allow)
    BY <1>1 DEF StartGet
  <2> QED
    BY <1>1, <1>6, <2>1 DEF Start, LeasePorts, LeaseFails, SaveLease, StartReady, Update
<1>7. ~(\E p \in UserPaths, b \in Branches : UserAddsWorktree(p, b))
  BY DEF UserAddsWorktree
<1>8. ~(\E p \in Paths : UserDeletesCheckout(p))
  BY DEF UserDeletesCheckout
<1> QED
  BY <1>2, <1>3, <1>4, <1>5, <1>6, <1>7, <1>8 DEF Next

-----------------------------------------------------------------------------
(* What follows from the invariant.                                        *)

(* Every store, git, and what an operation remembers, always have their form. *)
THEOREM RegistryTypeOK == Spec => []TypeOK
<1>1. IInv => TypeOK
  BY DEF IInv
<1> QED
  BY <1>1, RegistryInvariant, PTL

(* A create() that fails, and whose rollback meets no failure, leaves nothing
   of its own, whatever anybody else does meanwhile: its branch is gone too,
   or has come to be checked out in another place.                         *)
THEOREM FailuresLeaveNothing == Spec => FailedCreateLeavesNothing
<1>1. ASSUME IInv, Next, NEW i \in Instances,
             At(i, "rollback_branch"), job'[i].at = "rolled_back", job'[i].clean
      PROVE  NothingLeft(i)
  <2>1. RollbackBranch(i) \/ (RollbackStepFails(i) /\ ~job'[i].clean)
    BY <1>1, RolledBackBy
  <2>2. RollbackBranch(i) /\ job[i].clean
    BY <1>1, <2>1, IdleIsJob DEF RollbackBranch, RolledBack, IInv, TypeOK, Idle
  <2>3. UNCHANGED <<records, table, git, disk>>
    BY <2>2 DEF RollbackBranch, stores
  <2>4. /\ job[i].id \in Ids /\ git[job[i].id] = NoBranch /\ job[i].id \notin disk
        /\ records[job[i].id] = Absent
        /\ \A s \in Slots : table[<<job[i].id, s>>] = NoPort
    BY <1>1, <2>2 DEF IInv, RollbackOK, NewIdsOK, JobsOK, Making, At, Tracked
  <2>5. job[i].rec.branch \in Branches
    BY <1>1, <2>2 DEF IInv, JobsOK, Creating, Making, At, Recs
  <2>6. ASSUME job[i].rec.owned, job[i].rec.branch \in branches'
        PROVE  \E p \in Paths \ {job[i].id} : git'[p] = job[i].rec.branch
    <3>1. Registered(job[i].rec.branch)
      BY <2>2, <2>6 DEF RollbackBranch, GitDeleteBranch
    <3> QED
      BY <2>3, <2>4, <2>5, <3>1, RegistryAssumption DEF Registered, RegistryAssumption
  <2> QED
    BY <2>3, <2>4, <2>6 DEF NothingLeft
<1>2. IInv /\ [Next]_vars =>
        [\A i \in Instances :
           At(i, "rollback_branch") /\ job'[i].at = "rolled_back" /\ job'[i].clean
             => NothingLeft(i)]_vars
  BY <1>1 DEF vars, At
<1> QED
  BY <1>2, RegistryInvariant, PTL DEF Spec, FailedCreateLeavesNothing

(* No rollback and no removal deletes a branch that no create() has made: the
   branch it deletes is the branch of the one environment that owns it.    *)
THEOREM BranchesKept == Spec => UserBranchesKept
<1>1. ASSUME IInv, Next, NEW b \in branches, b \notin branches'
      PROVE  b \in ours
  <2>1. PICK i \in Instances : RollbackBranch(i) \/ DeleteOwnedBranch(i)
    BY <1>1, BranchDeletedBy
  <2>2. /\ job[i].at \in {"rollback_branch", "dropped"}
        /\ job[i].rec.owned /\ job[i].rec.branch = b
    BY <1>1, <2>1 DEF RollbackBranch, DeleteOwnedBranch, GitDeleteBranch, At
  <2>3. job[i].id \in Ids /\ b \in Branches
    BY <1>1, <2>2 DEF IInv, JobsOK, Making, Removing, TypeOK, Jobs
  <2>4. PICK id \in Ids : id = job[i].id
    BY <2>3
  <2>5. id \in OwnersOf(b)
    BY <2>2, <2>4 DEF OwnersOf, Making
  <2> QED
    BY <1>1, <2>3, <2>5 DEF IInv, OwnersOK
<1>2. IInv /\ [Next]_vars => [branches \ branches' \subseteq ours]_vars
  BY <1>1 DEF vars
<1> QED
  BY <1>2, RegistryInvariant, PTL DEF Spec, UserBranchesKept

(* A record leaves state.yaml only when its checkout is gone: only the removal
   that has deleted the checkout of that very record drops it.             *)
THEOREM DroppedWhenGone == Spec => DroppedOnlyWhenGone
<1>1. ASSUME IInv, Next, NEW id \in Tracked, records'[id] = Absent
      PROVE  records[id].path \notin disk
  <2>1. id \in Ids /\ records[id] # Absent /\ Absent \notin Recs
    BY <1>1, RegistryAssumption DEF Tracked, RegistryAssumption
  <2>2. PICK i \in Instances :
          \/ AddRecord(i) \/ AdoptImport(i) \/ DropRecord(i) \/ ReconcileMark(i)
          \/ SaveLease(i) \/ StartReady(i)
          \/ \E status \in {"created", "setup_failed"} : SetupDone(i, status)
    BY <1>1, <2>1, RecordsChangedBy
  <2>3. ~(\E x \in Ids, r \in Recs : Store!Add(x, r) \/ Store!Update(x, r))
    BY <1>1, <2>1, RecordWrite DEF IInv
  <2>4. /\ job[i].at \in {"allocated", "setup", "started", "leased"} => job[i].rec \in Recs
        /\ job[i].at \in {"allocated", "setup", "started", "leased"} => job[i].id \in Ids
    BY <1>1 DEF IInv, JobsOK, Creating, Making, Starting
  <2>5. \A x \in {"created", "setup_failed", "ready"} :
          job[i].rec \in Recs => [job[i].rec EXCEPT !.status = x] \in Recs
    BY StatusOnly
  <2>6. ~AddRecord(i) /\ ~SaveLease(i)
    BY <1>1, <2>1, <2>3, <2>4 DEF AddRecord, SaveLease, Update, At
  <2>7. ~StartReady(i) /\ ~(\E status \in {"created", "setup_failed"} : SetupDone(i, status))
    BY <1>1, <2>1, <2>3, <2>4, <2>5 DEF StartReady, SetupDone, At
  <2>8. ~AdoptImport(i)
    <3>1. SUFFICES ASSUME AdoptImport(i) PROVE FALSE
      OBVIOUS
    <3>2. PICK N \in SUBSET (Ids \ used) : /\ \A x \in Ids \ N : records'[x] = records[x]
                                           /\ \A x \in N : records'[x] \in Recs
      BY <1>1, <3>1, ImportEffect
    <3> QED
      BY <1>1, <2>1, <3>2
  <2>9. ~ReconcileMark(i)
    <3>1. records[id] \in Recs
      BY <1>1, <2>1 DEF IInv, TypeOK
    <3>2. [records[id] EXCEPT !.status = "orphaned"] \in Recs
      BY <3>1, StatusOnly
    <3> QED
      BY <1>1, <2>1, <3>2 DEF ReconcileMark
  <2>10. job[i].at = "released" /\ job[i].id = id
    <3>1. DropRecord(i)
      BY <2>2, <2>6, <2>7, <2>8, <2>9
    <3>2. job[i].at = "released" /\ Store!Remove(job[i].id)
      BY <1>1, <2>1, <3>1 DEF DropRecord, At
    <3> QED
      BY <1>1, <2>1, <3>2 DEF Store!Remove, IInv, TypeOK
  <2> QED
    BY <1>1, <2>10 DEF IInv, CopiesOK, RemovalsOK, Removing
<1>2. IInv /\ [Next]_vars =>
        [\A id \in Tracked : records'[id] = Absent => records[id].path \notin disk]_vars
  BY <1>1 DEF vars
<1> QED
  BY <1>2, RegistryInvariant, PTL DEF Spec, DroppedOnlyWhenGone

(* No two records stand for one checkout, unless somebody adopts beside another
   manager that creates.                                                   *)
THEOREM CheckoutsTrackedOnce ==
  ASSUME AdoptApart PROVE Spec => []OneRecordPerCheckout
<1>1. IInv => OneRecordPerCheckout
  BY DEF IInv, CheckoutsOK
<1> QED
  BY <1>1, RegistryInvariant, PTL

(* While an environment is tracked and its checkout exists, ports.yaml holds
   every port its record shows: with one manager that starts, and nobody who
   reconciles beside another manager that creates or starts.               *)
THEOREM ReservationsHeld ==
  ASSUME LeaseApart PROVE Spec => []ReservationHeld
<1>1. IInv => ReservationHeld
  BY DEF IInv, LeasesOK
<1> QED
  BY <1>1, RegistryInvariant, PTL

(* Then no two environments that exist show one port. *)
THEOREM PortsNeverShared ==
  ASSUME LeaseApart PROVE Spec => []NoSharedPort
<1>1. IInv => NoSharedPort
  <2> SUFFICES ASSUME IInv, NEW k \in Ids \X Slots, NEW l \in Ids \X Slots,
                      Live(k[1]), Live(l[1]),
                      records[k[1]].ports[k[2]] = records[l[1]].ports[l[2]],
                      records[k[1]].ports[k[2]] # NoPort
               PROVE  k = l
    BY DEF NoSharedPort, Table!Keys
  <2>1. ReservationHeld /\ TableOK
    BY DEF IInv, LeasesOK
  <2>2. k = <<k[1], k[2]>> /\ l = <<l[1], l[2]>>
    OBVIOUS
  <2>3. table[<<k[1], k[2]>>] = records[k[1]].ports[k[2]] /\ table[<<l[1], l[2]>>] = records[l[1]].ports[l[2]]
    BY <2>1 DEF ReservationHeld
  <2> QED
    BY <2>1, <2>2, <2>3 DEF TableOK, Table!Keys
<1> QED
  BY <1>1, RegistryInvariant, PTL

(* And reconcile frees a reservation only if no record owns it. *)
THEOREM SweepsSpareOwners ==
  ASSUME LeaseApart PROVE Spec => FreedOnlyWithoutRecord
<1> DEFINE Spared == \A i \in Instances, k \in Table!Keys :
                       /\ job[i].at \in {"marked", "listing"} /\ job'[i] # job[i]
                       /\ table[k] # NoPort /\ table'[k] = NoPort
                       => records[k[1]] = Absent
<1>1. ASSUME IInv, Next, NEW i \in Instances, NEW k \in Ids \X Slots,
             job[i].at \in {"marked", "listing"}, job'[i] # job[i],
             table[k] # NoPort, table'[k] = NoPort
      PROVE  records[k[1]] = Absent
  <2>1. PICK j \in Instances :
           \/ AllocatePorts(j) \/ RollbackPorts(j) \/ ReleasePorts(j)
           \/ ReconcileSweep(j) \/ LeasePorts(j)
    BY <1>1, TableChangedBy
  <2>2. job \in [Instances -> Jobs]
    BY <1>1 DEF IInv, TypeOK
  <2>3. j # i => job'[i] = job[i]
    <3>1. CASE AllocatePorts(j)
      BY <2>2, <3>1 DEF AllocatePorts
    <3>2. CASE RollbackPorts(j) \/ ReleasePorts(j)
      BY <2>2, <3>2 DEF RollbackPorts, ReleasePorts, Goto
    <3>3. CASE ReconcileSweep(j)
      BY <2>2, <3>3 DEF ReconcileSweep, End
    <3>4. CASE LeasePorts(j)
      <4>1. \E ports : job' = [job EXCEPT ![j].rec.ports = ports]
        BY <3>4, Zenon DEF LeasePorts
      <4> QED
        BY <2>2, <4>1
    <3> QED
      BY <2>1, <3>1, <3>2, <3>3, <3>4
  <2>4. ReconcileSweep(i)
    BY <1>1, <2>1, <2>3 DEF AllocatePorts, RollbackPorts, ReleasePorts, LeasePorts, At
  <2>5. Table!Free(Ownerless(job[i].seen))
    BY <2>4 DEF ReconcileSweep
  <2>6. k \in Ownerless(job[i].seen)
    BY <1>1, <2>5, FreeEffect DEF IInv
  <2>7. PICK id \in Ids, s \in Slots : k = <<id, s>>
    OBVIOUS
  <2>8. id \notin job[i].seen
    BY <2>6, <2>7 DEF Ownerless
  <2> QED
    BY <1>1, <2>7, <2>8 DEF IInv, LeasesOK, Tracked
<1>2. IInv /\ [Next]_vars => [Spared]_vars
  BY <1>1 DEF vars, Table!Keys
<1> QED
  BY <1>2, RegistryInvariant, PTL DEF Spec, FreedOnlyWithoutRecord

-----------------------------------------------------------------------------
(* The steps of all managers on the stores are operations of the stores.   *)

LEMMA RecordSteps == IInv /\ [Next]_vars => [Store!RNext]_records
<1> SUFFICES ASSUME IInv, Next, records' # records PROVE Store!RNext
  BY DEF vars
<1>1. PICK i \in Instances :
        \/ AddRecord(i) \/ AdoptImport(i) \/ DropRecord(i) \/ ReconcileMark(i)
        \/ SaveLease(i) \/ StartReady(i)
        \/ \E status \in {"created", "setup_failed"} : SetupDone(i, status)
  BY RecordsChangedBy
<1>2. /\ job[i].at \in {"allocated", "setup", "started", "leased"} => job[i].rec \in Recs
      /\ job[i].at \in {"allocated", "setup", "started", "leased"} => job[i].id \in Ids
  BY DEF IInv, JobsOK, Creating, Making, Starting
<1>3. \A x \in {"created", "setup_failed", "ready"} :
        job[i].rec \in Recs => [job[i].rec EXCEPT !.status = x] \in Recs
  BY StatusOnly
<1>4. CASE AddRecord(i)
  BY <1>2, <1>4 DEF AddRecord, At, Store!RNext
<1>5. CASE SaveLease(i)
  BY <1>2, <1>5 DEF SaveLease, Update, At, Store!RNext
<1>6. CASE StartReady(i) \/ \E status \in {"created", "setup_failed"} : SetupDone(i, status)
  BY <1>2, <1>3, <1>6 DEF StartReady, SetupDone, At, Store!RNext
<1>7. CASE DropRecord(i)
  BY <1>7 DEF DropRecord, Store!RNext, Tracked
<1>8. CASE AdoptImport(i)
  <2>1. PICK N \in SUBSET (Ids \ used) : /\ records' \in [Ids -> Recs \cup {Absent}]
                                         /\ \A x \in Ids \ N : records'[x] = records[x]
    BY <1>8, ImportEffect
  <2>2. Store!Tracked(records) \subseteq Ids \ N
    BY DEF IInv, UsedOK, Store!Tracked, Tracked
  <2> QED
    BY <2>1, <2>2 DEF Store!RNext, Store!Import, Store!Tables
<1>9. CASE ReconcileMark(i)
  <2>1. records' \in [Ids -> Recs \cup {Absent}] /\ Tracked' = Tracked
    BY <1>9, MarkEffect
  <2> QED
    BY <2>1 DEF Store!RNext, Store!Rewrite, Store!Tables, Store!Tracked, Tracked
<1> QED
  BY <1>1, <1>4, <1>5, <1>6, <1>7, <1>8, <1>9

LEMMA TableSteps == IInv /\ [Next]_vars => [Table!TNext]_table
<1> SUFFICES ASSUME IInv, Next, table' # table PROVE Table!TNext
  BY DEF vars
<1>1. PICK i \in Instances :
        \/ AllocatePorts(i) \/ RollbackPorts(i) \/ ReleasePorts(i)
        \/ ReconcileSweep(i) \/ LeasePorts(i)
  BY TableChangedBy
<1>2. CASE AllocatePorts(i) \/ LeasePorts(i)
  <2>1. job[i].id \in Ids
    BY <1>2 DEF AllocatePorts, LeasePorts, At, IInv, JobsOK, Making, Starting
  <2>2. \E S \in SUBSET Slots : Table!Claim(job[i].id, S)
    BY <1>2 DEF AllocatePorts, LeasePorts, Missing
  <2> QED
    BY <2>1, <2>2 DEF Table!TNext
<1>3. ASSUME NEW K, Table!Free(K) PROVE Table!TNext
  <2>1. Table!Free(K \cap Table!Keys)
    BY <1>3 DEF Table!Free
  <2> QED
    BY <2>1 DEF Table!TNext
<1> QED
  BY <1>1, <1>2, <1>3 DEF RollbackPorts, ReleasePorts, ReconcileSweep

(* state.yaml is the table of records that StateFile promises, and ports.yaml
   the table of reservations that PortAllocator promises, however the
   operations of several managers interleave and wherever they crash.      *)
THEOREM StoresKeepTheirPromise == Spec => Store!RSpec /\ Table!TSpec
<1>1. Init => Store!RInit /\ Table!TInit
  BY DEF Init
<1> QED
  BY <1>1, RecordSteps, TableSteps, RegistryInvariant, PTL DEF Spec, Store!RSpec, Table!TSpec
=============================================================================
