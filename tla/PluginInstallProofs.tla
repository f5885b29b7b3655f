------------------------ MODULE PluginInstallProofs -------------------------
(***************************************************************************)
(* Proofs about module PluginInstall, for any number of calls, worktrees   *)
(* and plugins.                                                            *)
(***************************************************************************)
EXTENDS PluginInstall, TLAPS

(* What a call is about to write has not been written yet, and the registry
   is still what it has read, unless the CLI wrote without the lock.       *)
NotThereOK == \A c \in Installers : At(c, "writing") => Cloned(c) \notin job[c].data
FreshOK == \A c \in Installers : At(c, "writing") /\ ~raced => job[c].data = registry

Settled(c) == job[c].skipped \cup job[c].installed
HasEntry(c, k) == \E e \in registry : e.key = k /\ e.project = job[c].worktree

(* Also while the file is damaged but about to be replaced by a good one. *)
SettledOK ==
  ~raced /\ (~unreadable \/ registryLock # NoOne) =>
    \A c \in Installers : \A k \in Settled(c) : HasEntry(c, k)

PluginInv == PluginTypeOK /\ NotThereOK /\ FreshOK /\ SettledOK /\ NoDoubleEntries

LEMMA PluginInvInit == PluginInit => PluginInv
<1> SUFFICES ASSUME PluginInit PROVE PluginInv
  OBVIOUS
<1>1. AnyKey \in Keys /\ AnyPath \in Paths
  BY PluginAssumption DEF AnyKey, AnyPath, PluginAssumption
<1>2. registry \in SUBSET Entry
  BY DEF PluginInit, Entry
<1>3. \A w \in Worktrees : NewJob(w) \in Job /\ NewJob(w).at = "new"
                           /\ NewJob(w).skipped = {} /\ NewJob(w).installed = {}
  BY <1>1 DEF NewJob, Job
<1>4. job \in [Installers -> Job]
  BY <1>3 DEF PluginInit
<1>5. cli \in [Installers -> Cli]
  BY <1>1 DEF PluginInit, NoCli, Cli
<1>6. ASSUME NEW c \in Installers PROVE job[c].at = "new" /\ Settled(c) = {}
  <2>1. PICK w \in Worktrees : job[c] = NewJob(w)
    BY DEF PluginInit
  <2> QED
    BY <1>3, <2>1 DEF Settled
<1>7. \A c \in Installers : ~(job[c].at = "writing") /\ registryLock # c
  BY <1>6, PluginAssumption DEF PluginInit, PluginAssumption
<1>8. PluginTypeOK
  <2>1. valid \in SUBSET Paths /\ unreadable = FALSE /\ doubles = FALSE /\ raced = FALSE
        /\ registryLock = NoOne
    BY DEF PluginInit
  <2> QED
    BY <1>2, <1>4, <1>5, <1>7, <2>1 DEF PluginTypeOK
<1> QED
  BY <1>6, <1>7, <1>8 DEF PluginInit, PluginInv, NotThereOK, FreshOK, SettledOK,
                          NoDoubleEntries, At

(* Settling a key. *)
LEMMA SettleEffect ==
  ASSUME PluginTypeOK, NEW c \in Installers, NEW ok \in BOOLEAN, Settle(c, ok)
  PROVE  /\ job' \in [Installers -> Job]
         /\ job'[c].at = "next"
         /\ job'[c].worktree = job[c].worktree /\ job'[c].skipped = job[c].skipped
         /\ job'[c].installed = IF ok THEN job[c].installed \cup {job[c].key}
                                ELSE job[c].installed
         /\ \A d \in Installers \ {c} : job'[d] = job[d]
<1>1. job \in [Installers -> Job]
  BY DEF PluginTypeOK
<1> DEFINE new == [job[c] EXCEPT !.at = "next", !.data = {}, !.todo = @ \ {job[c].key},
                       !.installed = IF ok THEN @ \cup {job[c].key} ELSE @,
                       !.failed = IF ok THEN @ ELSE @ \cup {job[c].key}]
<1>2. job' = [job EXCEPT ![c] = new]
  BY <1>1 DEF Settle
<1>3. new \in Job
  <2>1. job[c] \in Job /\ job[c].key \in Keys
    BY <1>1 DEF Job
  <2>2. /\ (IF ok THEN job[c].installed \cup {job[c].key} ELSE job[c].installed) \in SUBSET Keys
        /\ (IF ok THEN job[c].failed ELSE job[c].failed \cup {job[c].key}) \in SUBSET Keys
        /\ job[c].todo \ {job[c].key} \in SUBSET Keys
    BY <2>1 DEF Job
  <2>3. {} \in SUBSET Entry
    OBVIOUS
  <2> QED
    BY <2>1, <2>2, <2>3 DEF Job
<1>4. /\ new.at = "next" /\ new.worktree = job[c].worktree /\ new.skipped = job[c].skipped
      /\ new.installed = IF ok THEN job[c].installed \cup {job[c].key} ELSE job[c].installed
  BY <1>1 DEF Job
<1> HIDE DEF new
<1> QED
  BY <1>1, <1>2, <1>3, <1>4

(* A step of one call that touches neither the registry nor the lock, and
   settles nothing that has no entry.                                      *)
LEMMA QuietStep ==
  ASSUME PluginInv, NEW c \in Installers,
         job' \in [Installers -> Job], cli' \in [Installers -> Cli],
         UNCHANGED <<registry, unreadable, valid, registryLock, doubles, raced>>,
         \A d \in Installers \ {c} : job'[d] = job[d],
         job[c].at # "writing", job'[c].at # "writing",
         job'[c].worktree = job[c].worktree,
         \A k \in job'[c].skipped \cup job'[c].installed :
           \/ k \in Settled(c) \/ HasEntry(c, k)
           \/ unreadable /\ registryLock = NoOne
  PROVE  PluginInv'
<1>1. PluginTypeOK'
  <2>1. \A d \in Installers : job'[d].at = "writing" <=> registryLock' = d
    BY DEF PluginInv, PluginTypeOK
  <2>2. /\ registry' \in SUBSET Entry /\ valid' \in SUBSET Paths
        /\ unreadable' \in BOOLEAN /\ doubles' \in BOOLEAN /\ raced' \in BOOLEAN
        /\ registryLock' \in Installers \cup {NoOne}
    BY DEF PluginInv, PluginTypeOK
  <2> QED
    BY <2>1, <2>2 DEF PluginTypeOK
<1>2. NotThereOK' /\ FreshOK' /\ NoDoubleEntries'
  BY DEF PluginInv, NotThereOK, FreshOK, NoDoubleEntries, At, Cloned
<1>3. SettledOK'
  <2> SUFFICES ASSUME ~raced, ~unreadable \/ registryLock # NoOne,
                      NEW d \in Installers, NEW k \in job'[d].skipped \cup job'[d].installed
               PROVE  \E e \in registry : e.key = k /\ e.project = job'[d].worktree
    BY DEF SettledOK, HasEntry, Settled
  <2>1. CASE d # c
    BY <2>1 DEF PluginInv, SettledOK, Settled, HasEntry
  <2>2. CASE d = c
    <3>1. k \in Settled(c) => HasEntry(c, k)
      BY DEF PluginInv, SettledOK
    <3> QED
      BY <2>2, <3>1 DEF HasEntry
  <2> QED
    BY <2>1, <2>2
<1> QED
  BY <1>1, <1>2, <1>3 DEF PluginInv

(* Settling a key that has an entry, or that nobody can look for. *)
LEMMA SettleQuietly ==
  ASSUME PluginInv, NEW c \in Installers, NEW ok \in BOOLEAN, Settle(c, ok),
         UNCHANGED <<registry, unreadable, valid, registryLock, cli, doubles, raced>>,
         job[c].at # "writing",
         ok => (HasEntry(c, job[c].key) \/ (unreadable /\ registryLock = NoOne))
  PROVE  PluginInv'
<1>1. /\ job' \in [Installers -> Job]
      /\ job'[c].at = "next"
      /\ job'[c].worktree = job[c].worktree /\ job'[c].skipped = job[c].skipped
      /\ job'[c].installed = IF ok THEN job[c].installed \cup {job[c].key}
                             ELSE job[c].installed
      /\ \A d \in Installers \ {c} : job'[d] = job[d]
  BY SettleEffect DEF PluginInv
<1>2. \A k \in job'[c].skipped \cup job'[c].installed :
        \/ k \in Settled(c) \/ HasEntry(c, k)
        \/ unreadable /\ registryLock = NoOne
  BY <1>1 DEF Settled
<1>3. cli' \in [Installers -> Cli]
  BY DEF PluginInv, PluginTypeOK
<1> QED
  BY <1>1, <1>2, <1>3, QuietStep

LEMMA BeginInstallInv ==
  ASSUME PluginInv, NEW c \in Installers, BeginInstall(c)  PROVE PluginInv'
<1>1. job \in [Installers -> Job] /\ cli \in [Installers -> Cli] /\ registry \in SUBSET Entry
  BY DEF PluginInv, PluginTypeOK
<1> DEFINE skipped == {k \in Keys : Registered(Loaded, k, job[c].worktree)}
<1>2. PICK exe \in BOOLEAN :
        job' = [job EXCEPT ![c].at = "next", ![c].exe = exe, ![c].seen = Loaded,
                           ![c].skipped = skipped, ![c].todo = Keys \ skipped]
  BY DEF BeginInstall
<1>3. Loaded \in SUBSET Entry /\ skipped \in SUBSET Keys
  BY <1>1 DEF Loaded
<1>4. \A k \in skipped : HasEntry(c, k)
  BY <1>1 DEF Registered, Loaded, HasEntry
<1> HIDE DEF skipped
<1> DEFINE new == [job[c] EXCEPT !.at = "next", !.exe = exe, !.seen = Loaded,
                                 !.skipped = skipped, !.todo = Keys \ skipped]
<1>5. job' \in [Installers -> Job]
  <2>1. job' = [job EXCEPT ![c] = new]
    BY <1>1, <1>2
  <2>2. job[c] \in Job /\ Keys \ skipped \in SUBSET Keys
    BY <1>1
  <2>3. new \in Job
    BY <1>3, <2>2 DEF Job
  <2> QED
    BY <1>1, <2>1, <2>3
<1>6. /\ job'[c].at = "next" /\ job'[c].worktree = job[c].worktree
      /\ job'[c].skipped = skipped /\ job'[c].installed = job[c].installed
      /\ \A d \in Installers \ {c} : job'[d] = job[d]
  BY <1>1, <1>2 DEF Job
<1>7. /\ UNCHANGED <<registry, unreadable, valid, registryLock, cli, doubles, raced>>
      /\ job[c].at # "writing"
  BY DEF BeginInstall, At
<1>8. \A k \in job'[c].skipped \cup job'[c].installed :
        \/ k \in Settled(c) \/ HasEntry(c, k)
        \/ unreadable /\ registryLock = NoOne
  BY <1>4, <1>6 DEF Settled
<1> QED
  BY <1>1, <1>5, <1>6, <1>7, <1>8, QuietStep

LEMMA NextKeyInv ==
  ASSUME PluginInv, NEW c \in Installers, NEW k \in Keys, NextKey(c, k)  PROVE PluginInv'
<1>1. job \in [Installers -> Job] /\ cli \in [Installers -> Cli]
  BY DEF PluginInv, PluginTypeOK
<1>2. /\ UNCHANGED <<registry, unreadable, valid, registryLock, doubles, raced>>
      /\ job[c].at # "writing"
  BY DEF NextKey, At
<1> DEFINE sources == Sources(job[c].seen, k)
<1>3. /\ job' \in [Installers -> Job]
      /\ job'[c].at # "writing" /\ job'[c].worktree = job[c].worktree
      /\ job'[c].skipped = job[c].skipped /\ job'[c].installed = job[c].installed
      /\ \A d \in Installers \ {c} : job'[d] = job[d]
  <2>1. CASE \E p \in sources :
               job' = [job EXCEPT ![c].at = "clone", ![c].key = k, ![c].path = p]
    <3>1. PICK p \in sources :
               job' = [job EXCEPT ![c].at = "clone", ![c].key = k, ![c].path = p]
      BY <2>1
    <3>2. p \in Paths
      <4>1. job[c].seen \in SUBSET Entry
        BY <1>1 DEF Job
      <4> QED
        BY <4>1 DEF Sources, Entry
    <3> DEFINE new == [job[c] EXCEPT !.at = "clone", !.key = k, !.path = p]
    <3>3. job' = [job EXCEPT ![c] = new]
      BY <1>1, <3>1
    <3>4. new \in Job /\ new.at = "clone" /\ new.worktree = job[c].worktree
          /\ new.skipped = job[c].skipped /\ new.installed = job[c].installed
      <4>1. job[c] \in Job
        BY <1>1
      <4> QED
        BY <3>2, <4>1 DEF Job
    <3> HIDE DEF new
    <3> QED
      BY <1>1, <3>3, <3>4
  <2>2. CASE job' = [job EXCEPT ![c].at = "cli", ![c].key = k]
    <3> DEFINE new == [job[c] EXCEPT !.at = "cli", !.key = k]
    <3>1. job' = [job EXCEPT ![c] = new]
      BY <1>1, <2>2
    <3>2. new \in Job /\ new.at = "cli" /\ new.worktree = job[c].worktree
          /\ new.skipped = job[c].skipped /\ new.installed = job[c].installed
      <4>1. job[c] \in Job
        BY <1>1
      <4> QED
        BY <4>1 DEF Job
    <3> HIDE DEF new
    <3> QED
      BY <1>1, <3>1, <3>2
  <2>3. CASE job' = [job EXCEPT ![c].todo = @ \ {k}, ![c].failed = @ \cup {k}]
    <3> DEFINE new == [job[c] EXCEPT !.todo = @ \ {k}, !.failed = @ \cup {k}]
    <3>1. job' = [job EXCEPT ![c] = new]
      BY <1>1, <2>3
    <3>2. new \in Job /\ new.at = job[c].at /\ new.worktree = job[c].worktree
          /\ new.skipped = job[c].skipped /\ new.installed = job[c].installed
      <4>1. job[c] \in Job
        BY <1>1
      <4>2. job[c].todo \ {k} \in SUBSET Keys /\ job[c].failed \cup {k} \in SUBSET Keys
        BY <4>1 DEF Job
      <4> QED
        BY <4>1, <4>2 DEF Job
    <3> HIDE DEF new
    <3> QED
      BY <1>1, <1>2, <3>1, <3>2
  <2> QED
    BY <2>1, <2>2, <2>3 DEF NextKey
<1>4. cli' \in [Installers -> Cli]
  <2>1. CASE cli' = cli
    BY <1>1, <2>1
  <2>2. CASE cli' = [cli EXCEPT ![c] = [state |-> "started", key |-> k, data |-> {}]]
    BY <1>1, <2>2 DEF Cli
  <2>3. CASE cli' = [cli EXCEPT ![c] = [@ EXCEPT !.state = "none", !.data = {}]]
    BY <1>1, <2>3 DEF Cli
  <2> QED
    BY <2>1, <2>2, <2>3 DEF NextKey
<1>5. \A j \in job'[c].skipped \cup job'[c].installed :
        \/ j \in Settled(c) \/ HasEntry(c, j)
        \/ unreadable /\ registryLock = NoOne
  BY <1>3 DEF Settled
<1> QED
  BY <1>2, <1>3, <1>4, <1>5, QuietStep

LEMMA CloneLoadsInv ==
  ASSUME PluginInv, NEW c \in Installers, CloneLoads(c)  PROVE PluginInv'
<1>1. /\ job \in [Installers -> Job] /\ cli \in [Installers -> Cli]
      /\ registry \in SUBSET Entry
  BY DEF PluginInv, PluginTypeOK
<1>2. /\ UNCHANGED <<registry, unreadable, valid, cli, doubles, raced>>
      /\ job[c].at = "clone" /\ registryLock = NoOne /\ ~unreadable
  BY DEF CloneLoads, At, LockIsFree
<1>3. CASE Cloned(c) \in registry
  <2>1. HasEntry(c, job[c].key)
    BY <1>3 DEF HasEntry, Cloned
  <2>2. Settle(c, TRUE) /\ UNCHANGED registryLock
    BY <1>3 DEF CloneLoads
  <2> QED
    BY <1>2, <2>1, <2>2, SettleQuietly
<1>4. CASE Cloned(c) \notin registry
  <2> DEFINE new == [job[c] EXCEPT !.at = "writing", !.data = registry]
  <2>1. job' = [job EXCEPT ![c] = new] /\ registryLock' = c
    BY <1>1, <1>4 DEF CloneLoads
  <2>2. /\ new \in Job /\ new.at = "writing" /\ new.data = registry
        /\ new.worktree = job[c].worktree /\ new.key = job[c].key /\ new.path = job[c].path
        /\ new.skipped = job[c].skipped /\ new.installed = job[c].installed
    <3>1. job[c] \in Job
      BY <1>1
    <3> QED
      BY <1>1, <3>1 DEF Job
  <2> HIDE DEF new
  <2>3. \A d \in Installers : job[d].at # "writing"
    BY <1>2, PluginAssumption DEF PluginInv, PluginTypeOK, PluginAssumption
  <2>4. /\ job' \in [Installers -> Job] /\ job'[c] = new
        /\ \A d \in Installers \ {c} : job'[d] = job[d]
    BY <1>1, <2>1, <2>2
  <2>5. PluginTypeOK'
    <3>1. \A d \in Installers : job'[d].at = "writing" <=> registryLock' = d
      BY <2>1, <2>2, <2>3, <2>4
    <3>2. /\ registry' \in SUBSET Entry /\ valid' \in SUBSET Paths
          /\ unreadable' \in BOOLEAN /\ doubles' \in BOOLEAN /\ raced' \in BOOLEAN
          /\ registryLock' \in Installers \cup {NoOne} /\ cli' \in [Installers -> Cli]
      BY <1>2, <2>1 DEF PluginInv, PluginTypeOK
    <3> QED
      BY <2>4, <3>1, <3>2 DEF PluginTypeOK
  <2>6. NotThereOK' /\ FreshOK' /\ NoDoubleEntries'
    BY <1>2, <1>4, <2>2, <2>3, <2>4
       DEF PluginInv, NotThereOK, FreshOK, NoDoubleEntries, At, Cloned
  <2>7. SettledOK'
    <3>1. \A d \in Installers : job'[d].skipped = job[d].skipped
            /\ job'[d].installed = job[d].installed /\ job'[d].worktree = job[d].worktree
      BY <2>2, <2>4
    <3> QED
      BY <1>2, <3>1 DEF PluginInv, SettledOK, Settled, HasEntry
  <2> QED
    BY <2>5, <2>6, <2>7 DEF PluginInv
<1> QED
  BY <1>3, <1>4

(* Nobody else writes meanwhile. *)
LEMMA CloneWritesInv ==
  ASSUME PluginInv, NEW c \in Installers, CloneWrites(c)
  PROVE  PluginInv' /\ (~raced => registry \subseteq registry')
<1>1. /\ job \in [Installers -> Job] /\ cli \in [Installers -> Cli]
      /\ job[c] \in Job
  BY DEF PluginInv, PluginTypeOK
<1>2. /\ UNCHANGED <<valid, cli, raced>>
      /\ job[c].at = "writing" /\ registryLock' = NoOne /\ unreadable' = FALSE
      /\ registry' = job[c].data \cup {Cloned(c)}
  BY DEF CloneWrites, At
<1>3. registryLock = c /\ registryLock # NoOne
  BY <1>2, PluginAssumption DEF PluginInv, PluginTypeOK, PluginAssumption
<1>4. /\ job' \in [Installers -> Job]
      /\ job'[c].at = "next"
      /\ job'[c].worktree = job[c].worktree /\ job'[c].skipped = job[c].skipped
      /\ job'[c].installed = job[c].installed \cup {job[c].key}
      /\ \A d \in Installers \ {c} : job'[d] = job[d]
  BY SettleEffect DEF PluginInv, CloneWrites
<1>5. Cloned(c) \in Entry /\ job[c].data \in SUBSET Entry
  BY <1>1 DEF Cloned, Entry, Job
<1>6. doubles' = FALSE
  BY <1>2 DEF CloneWrites, PluginInv, NotThereOK, NoDoubleEntries, At
<1>7. \A d \in Installers : job'[d].at # "writing"
  BY <1>3, <1>4 DEF PluginInv, PluginTypeOK
<1>8. ~raced => registry \subseteq registry'
  BY <1>2 DEF PluginInv, FreshOK, At
<1>9. PluginTypeOK'
  <2>1. /\ registry' \in SUBSET Entry /\ valid' \in SUBSET Paths
        /\ unreadable' \in BOOLEAN /\ doubles' \in BOOLEAN /\ raced' \in BOOLEAN
        /\ registryLock' \in Installers \cup {NoOne}
        /\ cli' \in [Installers -> Cli]
    BY <1>2, <1>5, <1>6 DEF PluginInv, PluginTypeOK
  <2>2. \A d \in Installers : job'[d].at = "writing" <=> registryLock' = d
    BY <1>2, <1>7, PluginAssumption DEF PluginAssumption
  <2> QED
    BY <1>4, <2>1, <2>2 DEF PluginTypeOK
<1>10. NotThereOK' /\ FreshOK' /\ NoDoubleEntries'
  BY <1>6, <1>7 DEF NotThereOK, FreshOK, NoDoubleEntries, At
<1>11. SettledOK'
  <2> SUFFICES ASSUME ~raced, NEW d \in Installers,
                      NEW k \in job'[d].skipped \cup job'[d].installed
               PROVE  \E e \in registry' : e.key = k /\ e.project = job'[d].worktree
    BY <1>2 DEF SettledOK, HasEntry, Settled
  <2>1. ASSUME k \in Settled(d), job'[d].worktree = job[d].worktree
        PROVE  \E e \in registry' : e.key = k /\ e.project = job'[d].worktree
    BY <1>3, <1>8, <2>1 DEF PluginInv, SettledOK, HasEntry
  <2>2. CASE d # c
    BY <1>4, <2>1, <2>2 DEF Settled
  <2>3. CASE d = c /\ k # job[c].key
    BY <1>4, <2>1, <2>3 DEF Settled
  <2>4. CASE d = c /\ k = job[c].key
    <3>1. Cloned(c) \in registry'
      BY <1>2
    <3>2. Cloned(c).key = k /\ Cloned(c).project = job[c].worktree
      BY <2>4 DEF Cloned
    <3> QED
      BY <1>4, <2>4, <3>1, <3>2
  <2> QED
    BY <2>2, <2>3, <2>4
<1> QED
  BY <1>8, <1>9, <1>10, <1>11 DEF PluginInv

LEMMA AbortInv ==
  ASSUME PluginInv, NEW c \in Installers, Abort(c)  PROVE PluginInv'
<1>1. /\ job \in [Installers -> Job] /\ job[c] \in Job
  BY DEF PluginInv, PluginTypeOK
<1>2. /\ UNCHANGED <<registry, unreadable, valid, cli, doubles, raced>>
      /\ registryLock' = IF registryLock = c THEN NoOne ELSE registryLock
  BY DEF Abort
<1> DEFINE new == [job[c] EXCEPT !.at = "aborted", !.data = {}]
<1>3. job' = [job EXCEPT ![c] = new]
  BY <1>1 DEF Abort
<1>4. /\ new \in Job /\ new.at = "aborted" /\ new.worktree = job[c].worktree
      /\ new.skipped = job[c].skipped /\ new.installed = job[c].installed
  BY <1>1 DEF Job
<1> HIDE DEF new
<1>5. /\ job' \in [Installers -> Job] /\ job'[c] = new
      /\ \A d \in Installers \ {c} : job'[d] = job[d]
  BY <1>1, <1>3, <1>4
<1>6. PluginTypeOK'
  <2>1. /\ registry' \in SUBSET Entry /\ valid' \in SUBSET Paths
        /\ unreadable' \in BOOLEAN /\ doubles' \in BOOLEAN /\ raced' \in BOOLEAN
        /\ registryLock' \in Installers \cup {NoOne}
        /\ cli' \in [Installers -> Cli]
    BY <1>2 DEF PluginInv, PluginTypeOK
  <2>2. \A d \in Installers : job'[d].at = "writing" <=> registryLock' = d
    <3>1. \A d \in Installers : job[d].at = "writing" <=> registryLock = d
      BY DEF PluginInv, PluginTypeOK
    <3> QED
      BY <1>2, <1>4, <1>5, <3>1, PluginAssumption DEF PluginAssumption
  <2> QED
    BY <1>5, <2>1, <2>2 DEF PluginTypeOK
<1>7. NotThereOK' /\ FreshOK' /\ NoDoubleEntries'
  BY <1>2, <1>4, <1>5 DEF PluginInv, NotThereOK, FreshOK, NoDoubleEntries, At, Cloned
<1>8. SettledOK'
  <2>1. \A d \in Installers : job'[d].skipped = job[d].skipped
          /\ job'[d].installed = job[d].installed /\ job'[d].worktree = job[d].worktree
    BY <1>4, <1>5
  <2>2. registryLock' # NoOne => registryLock # NoOne
    BY <1>2
  <2> QED
    BY <1>2, <2>1, <2>2 DEF PluginInv, SettledOK, Settled, HasEntry
<1> QED
  BY <1>6, <1>7, <1>8 DEF PluginInv

LEMMA InstallEndsInv ==
  ASSUME PluginInv, NEW c \in Installers,
         InstallSucceeds(c) \/ InstallFails(c) \/ CloneFinds(c)
  PROVE  PluginInv'
<1>1. /\ job \in [Installers -> Job] /\ job[c] \in Job /\ cli \in [Installers -> Cli]
      /\ registry \in SUBSET Entry
  BY DEF PluginInv, PluginTypeOK
<1>2. CASE InstallSucceeds(c)
  <2>1. HasEntry(c, job[c].key)
    BY <1>2 DEF InstallSucceeds, Loaded, HasEntry
  <2>2. /\ job[c].at # "writing" /\ Settle(c, TRUE)
        /\ UNCHANGED <<registry, unreadable, valid, registryLock, cli, doubles, raced>>
    BY <1>2 DEF InstallSucceeds, At
  <2>3. TRUE => (HasEntry(c, job[c].key) \/ (unreadable /\ registryLock = NoOne))
    BY <2>1
  <2> QED
    BY <2>2, <2>3, SettleQuietly
<1>3. CASE CloneFinds(c)
  <2>1. job[c].at # "writing" /\ unreadable /\ registryLock = NoOne
    BY <1>3 DEF CloneFinds, At, LockIsFree
  <2> QED
    BY <1>3, <2>1, SettleQuietly DEF CloneFinds
<1>4. CASE InstallFails(c)
  <2>1. /\ job[c].at # "writing"
        /\ UNCHANGED <<registry, unreadable, valid, registryLock, cli, doubles, raced>>
    BY <1>4 DEF InstallFails, At
  <2>2. CASE Settle(c, FALSE)
    BY <2>1, <2>2, SettleQuietly
  <2>3. CASE \E p \in Sources(Loaded, job[c].key) :
               job' = [job EXCEPT ![c].at = "clone", ![c].path = p]
    <3>1. PICK p \in Sources(Loaded, job[c].key) :
               job' = [job EXCEPT ![c].at = "clone", ![c].path = p]
      BY <2>3
    <3>2. p \in Paths
      BY <1>1 DEF Sources, Loaded, Entry
    <3> DEFINE new == [job[c] EXCEPT !.at = "clone", !.path = p]
    <3>3. job' = [job EXCEPT ![c] = new]
      BY <1>1, <3>1
    <3>4. /\ new \in Job /\ new.at = "clone" /\ new.worktree = job[c].worktree
          /\ new.skipped = job[c].skipped /\ new.installed = job[c].installed
      BY <1>1, <3>2 DEF Job
    <3> HIDE DEF new
    <3>5. /\ job' \in [Installers -> Job] /\ job'[c] = new
          /\ \A d \in Installers \ {c} : job'[d] = job[d]
      BY <1>1, <3>3, <3>4
    <3>6. \A k \in job'[c].skipped \cup job'[c].installed :
            \/ k \in Settled(c) \/ HasEntry(c, k)
            \/ unreadable /\ registryLock = NoOne
      BY <3>4, <3>5 DEF Settled
    <3> QED
      BY <1>1, <2>1, <3>4, <3>5, <3>6, QuietStep
  <2> QED
    BY <1>4, <2>2, <2>3 DEF InstallFails
<1> QED
  BY <1>2, <1>3, <1>4

LEMMA EndInstallInv ==
  ASSUME PluginInv, NEW c \in Installers, EndInstall(c)  PROVE PluginInv'
<1>1. /\ job \in [Installers -> Job] /\ job[c] \in Job /\ cli \in [Installers -> Cli]
  BY DEF PluginInv, PluginTypeOK
<1>2. /\ job[c].at # "writing"
      /\ UNCHANGED <<registry, unreadable, valid, registryLock, cli, doubles, raced>>
  BY DEF EndInstall, At
<1> DEFINE new == [job[c] EXCEPT !.at = "done"]
<1>3. job' = [job EXCEPT ![c] = new]
  BY <1>1 DEF EndInstall
<1>4. /\ new \in Job /\ new.at = "done" /\ new.worktree = job[c].worktree
      /\ new.skipped = job[c].skipped /\ new.installed = job[c].installed
  BY <1>1 DEF Job
<1> HIDE DEF new
<1>5. /\ job' \in [Installers -> Job] /\ job'[c] = new
      /\ \A d \in Installers \ {c} : job'[d] = job[d]
  BY <1>1, <1>3, <1>4
<1>6. \A k \in job'[c].skipped \cup job'[c].installed :
        \/ k \in Settled(c) \/ HasEntry(c, k)
        \/ unreadable /\ registryLock = NoOne
  BY <1>4, <1>5 DEF Settled
<1> QED
  BY <1>1, <1>2, <1>4, <1>5, <1>6, QuietStep

LEMMA CliLoadsInv ==
  ASSUME PluginInv, NEW c \in Installers, CliLoads(c)  PROVE PluginInv'
<1>1. cli' \in [Installers -> Cli]
  BY DEF PluginInv, PluginTypeOK, CliLoads, Cli
<1>2. UNCHANGED <<registry, unreadable, valid, registryLock, job, doubles, raced>>
  BY DEF CliLoads
<1>3. PluginTypeOK'
  <2>1. /\ registry' \in SUBSET Entry /\ valid' \in SUBSET Paths
        /\ unreadable' \in BOOLEAN /\ doubles' \in BOOLEAN /\ raced' \in BOOLEAN
        /\ registryLock' \in Installers \cup {NoOne} /\ job' \in [Installers -> Job]
        /\ \A d \in Installers : job'[d].at = "writing" <=> registryLock' = d
    BY <1>2 DEF PluginInv, PluginTypeOK
  <2> QED
    BY <1>1, <2>1 DEF PluginTypeOK
<1>4. NotThereOK' /\ FreshOK' /\ NoDoubleEntries'
  BY <1>2 DEF PluginInv, NotThereOK, FreshOK, NoDoubleEntries, At, Cloned
<1>5. SettledOK'
  BY <1>2 DEF PluginInv, SettledOK, Settled, HasEntry
<1> QED
  BY <1>3, <1>4, <1>5 DEF PluginInv

(* Unless it races, the registry is still what it has read. *)
LEMMA CliWritesInv ==
  ASSUME PluginInv, NEW c \in Installers, CliWrites(c)
  PROVE  PluginInv' /\ (registry \subseteq registry' \/ raced')
<1>1. /\ job \in [Installers -> Job] /\ cli \in [Installers -> Cli] /\ cli[c] \in Cli
      /\ job[c] \in Job /\ valid \in SUBSET Paths
  BY DEF PluginInv, PluginTypeOK
<1>2. PICK p \in Paths, project \in {job[c].worktree, Main} :
        /\ registry' = cli[c].data \cup {[key |-> cli[c].key, project |-> project, path |-> p]}
        /\ valid' \in {valid, valid \cup {p}}
  BY DEF CliWrites
<1>3. /\ UNCHANGED <<registryLock, job, doubles>> /\ unreadable' = FALSE
      /\ cli' = [cli EXCEPT ![c].state = "none", ![c].data = {}]
      /\ raced' = (raced \/ registry # cli[c].data \/ registryLock # NoOne \/ unreadable)
  BY DEF CliWrites
<1>4. ~raced' => /\ ~raced /\ ~unreadable /\ registryLock = NoOne
                 /\ registry \subseteq registry'
  BY <1>2, <1>3
<1>5. PluginTypeOK'
  <2>1. registry' \in SUBSET Entry /\ valid' \in SUBSET Paths
    <3>1. [key |-> cli[c].key, project |-> project, path |-> p] \in Entry
      BY <1>1 DEF Entry, Cli, Job
    <3>2. cli[c].data \in SUBSET Entry
      BY <1>1 DEF Cli
    <3> QED
      BY <1>1, <1>2, <3>1, <3>2
  <2>2. cli' \in [Installers -> Cli]
    <3> DEFINE new == [cli[c] EXCEPT !.state = "none", !.data = {}]
    <3>1. cli' = [cli EXCEPT ![c] = new]
      BY <1>1, <1>3
    <3>2. new \in Cli
      BY <1>1 DEF Cli
    <3> HIDE DEF new
    <3> QED
      BY <1>1, <3>1, <3>2
  <2>3. raced' \in BOOLEAN
    BY <1>3
  <2>4. /\ unreadable' \in BOOLEAN /\ doubles' \in BOOLEAN
        /\ registryLock' \in Installers \cup {NoOne} /\ job' \in [Installers -> Job]
        /\ \A d \in Installers : job'[d].at = "writing" <=> registryLock' = d
    BY <1>3 DEF PluginInv, PluginTypeOK
  <2> QED
    BY <2>1, <2>2, <2>3, <2>4 DEF PluginTypeOK
<1>6. NotThereOK' /\ NoDoubleEntries'
  BY <1>3 DEF PluginInv, NotThereOK, NoDoubleEntries, At, Cloned
<1>7. FreshOK'
  <2>1. ~raced' => \A d \in Installers : job'[d].at # "writing"
    BY <1>3, <1>4, PluginAssumption DEF PluginInv, PluginTypeOK, PluginAssumption
  <2> QED
    BY <2>1 DEF FreshOK, At
<1>8. SettledOK'
  <2> SUFFICES ASSUME ~raced', NEW d \in Installers, NEW k \in Settled(d)
               PROVE  \E e \in registry' : e.key = k /\ e.project = job[d].worktree
    BY <1>3 DEF SettledOK, Settled, HasEntry
  <2>1. HasEntry(d, k)
    BY <1>4 DEF PluginInv, SettledOK
  <2> QED
    BY <1>4, <2>1 DEF HasEntry
<1> QED
  BY <1>4, <1>5, <1>6, <1>7, <1>8 DEF PluginInv

LEMMA DamageInv == ASSUME PluginInv, Damage PROVE PluginInv'
<1>1. /\ UNCHANGED <<registry, valid, registryLock, job, cli, doubles, raced>>
      /\ ~unreadable /\ unreadable' = TRUE
  BY DEF Damage
<1>2. PluginTypeOK'
  BY <1>1 DEF PluginInv, PluginTypeOK
<1>3. NotThereOK' /\ FreshOK' /\ NoDoubleEntries'
  BY <1>1 DEF PluginInv, NotThereOK, FreshOK, NoDoubleEntries, At, Cloned
<1>4. SettledOK'
  BY <1>1 DEF PluginInv, SettledOK, Settled, HasEntry
<1> QED
  BY <1>2, <1>3, <1>4 DEF PluginInv

LEMMA PluginInvStep ==
  ASSUME PluginInv, [PluginNext]_pluginVars
  PROVE  PluginInv' /\ (registry \subseteq registry' \/ raced')
<1>1. ASSUME NEW c \in Installers, CloneWrites(c)
      PROVE  PluginInv' /\ (registry \subseteq registry' \/ raced')
  <2>1. raced => raced'
    BY <1>1 DEF CloneWrites
  <2> QED
    BY <1>1, <2>1, CloneWritesInv
<1>2. ASSUME NEW c \in Installers, CliWrites(c)
      PROVE  PluginInv' /\ (registry \subseteq registry' \/ raced')
  BY <1>2, CliWritesInv
<1>3. ASSUME NEW c \in Installers, InstallStep(c), ~CloneWrites(c)
      PROVE  PluginInv' /\ registry' = registry
  <2>1. CASE BeginInstall(c)
    BY <2>1, BeginInstallInv DEF BeginInstall
  <2>2. ASSUME NEW k \in Keys, NextKey(c, k)  PROVE PluginInv' /\ registry' = registry
    BY <2>2, NextKeyInv DEF NextKey
  <2>3. CASE CloneLoads(c)
    BY <2>3, CloneLoadsInv DEF CloneLoads
  <2>4. CASE CloneFinds(c)
    BY <2>4, InstallEndsInv DEF CloneFinds
  <2>5. CASE Abort(c)
    BY <2>5, AbortInv DEF Abort
  <2>6. CASE InstallSucceeds(c)
    BY <2>6, InstallEndsInv DEF InstallSucceeds
  <2>7. CASE InstallFails(c)
    BY <2>7, InstallEndsInv DEF InstallFails
  <2>8. CASE EndInstall(c)
    BY <2>8, EndInstallInv DEF EndInstall
  <2> QED
    BY <1>3, <2>1, <2>2, <2>3, <2>4, <2>5, <2>6, <2>7, <2>8 DEF InstallStep
<1>4. ASSUME NEW c \in Installers, CliLoads(c)  PROVE PluginInv' /\ registry' = registry
  BY <1>4, CliLoadsInv DEF CliLoads
<1>5. CASE Damage
  BY <1>5, DamageInv DEF Damage
<1>6. CASE UNCHANGED pluginVars
  <2>1. UNCHANGED <<registry, unreadable, valid, registryLock, job, cli, doubles, raced>>
    BY <1>6 DEF pluginVars
  <2> QED
    BY <2>1 DEF PluginInv, PluginTypeOK, NotThereOK, FreshOK, SettledOK, Settled, HasEntry,
                NoDoubleEntries, At, Cloned
<1> QED
  BY <1>1, <1>2, <1>3, <1>4, <1>5, <1>6 DEF PluginNext

-----------------------------------------------------------------------------

(* The invariant: who writes has the lock and writes what is there plus an
   entry that is not, and what is reported has its entry.                  *)
THEOREM PluginInvariant == PluginSpec => []PluginInv
<1>1. PluginInit => PluginInv
  BY PluginInvInit
<1>2. PluginInv /\ [PluginNext]_pluginVars => PluginInv'
  BY PluginInvStep
<1> QED
  BY <1>1, <1>2, PTL DEF PluginSpec

(* The types, and that only the holder of the lock writes a clone. *)
THEOREM PluginTypeCorrect == PluginSpec => []PluginTypeOK
<1>1. PluginInv => PluginTypeOK
  BY DEF PluginInv
<1> QED
  BY <1>1, PluginInvariant, PTL

(* No clone appends an entry that is there (#64), whatever the CLI does. *)
THEOREM EntriesNotDoubled == PluginSpec => []NoDoubleEntries
<1>1. PluginInv => NoDoubleEntries
  BY DEF PluginInv
<1> QED
  BY <1>1, PluginInvariant, PTL

(* Clones lose no entry, of each other or of the CLI. *)
THEOREM EntriesKept == PluginSpec => ClonesLoseNothing
<1>1. PluginInv /\ [PluginNext]_pluginVars
        => [registry \ registry' # {} => raced']_pluginVars
  BY PluginInvStep
<1> QED
  BY <1>1, PluginInvariant, PTL DEF PluginSpec, ClonesLoseNothing

(* What a call reports or skips as installed has an entry. *)
THEOREM ReportsAreTrue == PluginSpec => []ReportedMeansRegistered
<1>1. PluginInv => ReportedMeansRegistered
  BY DEF PluginInv, SettledOK, ReportedMeansRegistered, Settled, HasEntry
<1> QED
  BY <1>1, PluginInvariant, PTL

(* Nothing is registered twice, and the reports are true. *)
THEOREM RegistryIsExact == PluginSpec => []RegistryExact
BY EntriesNotDoubled, ReportsAreTrue, PTL DEF RegistryExact
=============================================================================
