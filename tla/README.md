# TLA+ verification of lib-python-worktree

`lib-python-worktree` manages git worktrees as *environments*: a checkout, a
record in a YAML state file, reserved TCP ports, and processes ("roles") that
are started and stopped in it. Several MCP server processes use it at once on
the same files, without a daemon; the only coordination is a file lock around
each read-modify-write of a file. This directory holds TLA+ models of that
code, the TLC runs that check them and TLAPS proofs about them. Paths such as
`manager.py:695` are relative to `src/src/lib_python_worktree/core/`.

Run a check with `tlc -workers 2 -config X.cfg M` and a proof with
`tlapm M.tla`; `PROJECT.json` lists the runs, the mutants that show that each
property can fail, the source lines behind each definition, the hazards and
the theorems.

## 1. Inventory of the system

| Part | State it keeps | Operations | Correct when |
|---|---|---|---|
| Port allocator (`port_allocator.py`, `_PortsFile` in `yaml_store.py`) | `ports.yaml`: (worktree id, slot) to port; `ports.yaml.lock` | `allocate` (pinned slots, then drawn ones, each probed), `release`, the freeing pass of `reconcile` | no port under two keys; a claim is granted whole or not at all; a refusal names a true reason |
| State store (`yaml_store.py`, `YamlStateStore`) | `state.yaml`: id to record; `state.yaml.lock`; temporary files | `add`, `update`, `remove`, `get`, `find_by_branch`, `list` | the file is never half-written; no change of one process is lost by another's write |
| `reconcile` (`yaml_store.py:807`) | none; rewrites records, then `ports.yaml`, then heals branches | three phases, each under a lock of its own | orphaned checkouts and dead processes are noticed, reservations without owner freed, wrong spellings of branches repaired, nothing else touched |
| `adopt` (`yaml_store.py:1198`) | none | scan with git outside the lock, import under it | each worktree imported once, none that is known |
| Worktree manager (`manager.py`) | none of its own: works on the stores, git and the disk | `create`, `remove`, `adopt`, `prune`, `start`, `stop`, `list`, `list_repo` | a failed operation leaves nothing, or what a later one can clean up; the user's branches and worktrees are safe |
| Process lifecycle (`process_lifecycle.py`) | the `processes` of a record: pid, start time, group, job | `start`, `stop` with escalation, orphan scan, outcome | never signals a recycled pid, does not report stopped what still runs |
| Teardown (`teardown.py`) | a context for one removal; a `.removing` directory; the marker `teardown_ran` | ten phases from the guard of the primary checkout to the release of ports | the record goes only when the checkout is gone; gates come before what they guard; nothing unsaved is lost that a look could have seen; steps run once; it ends |
| Start variants, target resolution (`manager.py:544,1474,1652,1904`) | `variants` of a record | which variant starts, which role a variant means, which record a name means | what is listed starts; a variant means what was started as it; one answer or a refusal |
| Stop budget (`process_lifecycle.py:434`) | a deadline | shares of a timeout | shares add up; no later step is starved |
| Bounded workers, handle scan (`process_lifecycle.py:1795-3238`) | the persistent worker, the slots, the wedging objects remembered | native queries that may hang | the number of wedged workers is bounded; no handle leaks or is closed under a query |
| Discovery of blockers (`process_lifecycle.py:3241-3767`) | none | passes over all processes, exclusions, kills | says so when it is not complete; spares the host and who is protected |
| Setup runner (`setup/runner.py`) | log files | steps with timeouts | one step after the other; the logs are true; it ends |
| `list_repo`, checkout classification (`checkout.py`) | none | joins git's list with the records | each checkout listed once |
| Contract (`contract/`) | none | validation | pins and step names unique |
| Plugins (`plugin_install.py`, `plugin_seed.py`) | the registry file `installed_plugins.json` and its lock | install by clone or by the CLI, seed | no entry lost or doubled; what it reports is true |
| Support (`_git_utils.py`, `_env_utils.py`, `_exceptions.py`, `state.py`) | none | git with a timeout, environment, types | |

How they interact: the manager calls everything else. `state.yaml` and
`ports.yaml` are separate files with separate locks, never held together, and
no lock covers an operation of the manager: `create` is a chain of a lookup, a
probe, `git worktree add`, a claim of ports, an addition of a record and a
hook. Every link may fail, time out or be the last one before the process
dies, and between two links any other process may run. git and the disk are
shared state too, which the user changes as well. That is where the hard
behaviour is: stale reads between critical sections, failures half-way,
crashes between two files, identities (pids, branches, paths) that mean
something else by the time they are used. `PROJECT.json` lists these hazards
line by line with the properties that look at them.

## 2. The modules

| Module | What it is |
|---|---|
| `PortTable` | abstract: a table whose changes are whole claims and releases |
| `PortAllocator` | `allocate`, `release` and the sweep under the lock, crash at any point; refines `PortTable` |
| `PortAllocatorProofs` | its theorems |
| `RecordTable` | abstract: a map changed by whole operations |
| `StateFile` | lock, load, change, temporary file, rename; refines `RecordTable` |
| `StateFileProofs` | its theorems |
| `Registry`, `RegistryProofs` | operations of several managers over the two abstract tables, git, the disk and the user; theorems |
| `Lifecycle`, `LifecycleProofs` | one record's roles and the operating system's processes: start, stop, reconcile; theorems |
| `RemovalPromise` | abstract: what `remove()` promises of the checkout, the ports and the record |
| `Teardown`, `TeardownProofs` | the phases of a removal and its retries; refines `RemovalPromise`; its theorems |
| `HandleScan` | query threads that may wedge: scans of handles and bounded calls |
| `Discovery` | one search for the processes inside a checkout, and their kill |
| `SearchProofs` | theorems about `HandleScan` and `Discovery` |
| `PluginInstall`, `PluginInstallProofs` | plugin installations side by side and next to the CLI; theorems |
| `SetupRunner` | one run of the `setup:` steps and what they leave behind |
| `StopBudget` | how a stop divides its timeout |
| `BranchHeal` | the repair of branch names by `reconcile` |
| `StartVariants` | steps, listings and roles by variant |
| `ProceduresProofs` | theorems about these four, and about all eight procedures side by side |
| `MCPortAllocator`, `MCStateFile`, `MCRegistry`, `MCLifecycle`, `MCTeardown`, `MCProcedures` | the instances TLC checks |

`Registry` composes the two stores by `INSTANCE PortTable` and
`INSTANCE RecordTable`: a critical section is one step there because
`PortAllocator` and `StateFile` are shown (and proved) to implement those
abstract tables, and `Registry` to change them as they allow
(`StoresKeepTheirPromise`). So the properties of `Registry` rest on the
refinements below it and not on an assumption.

### PortAllocator
`table` is the file, `lock` its lock. A call goes `idle`, `waiting`, then
`claiming` or `freeing`. `local`, `taken` and `done` are the variables
`allocated`, `taken` and the loop position of `allocate`
(`port_allocator.py:163-249`). Each slot is a step of its own, so that a port
may be bound or closed by another program (`Listen`) between two probes; the
shuffled search of one slot is one step that ends in any candidate that is
neither taken nor busy. `Crash` forgets the call and frees the lock, as the
operating system does. `outcome` records how the step's call ended; it is what
the caller sees and lets properties speak of errors.

### StateFile
One action per system call of `_atomic_write_yaml` (`yaml_store.py:507-528`),
each of which may fail: `MakeTemp`, `Dump`, `Replace`, `Cleanup`. `Torn` is
the content of a file whose dump has not ended.

### Registry
`job[i]` is the operation manager `i` is in: which step it has reached, the
record it holds in memory (`rec`), what git showed it (`found`), the ids it
saw under the state lock (`seen`). The chains are

- `create`: `CheckDuplicate`, `ProbeBranch`, `GitAdd` or `GitAddFails`,
  `AllocatePorts`, `AddRecord`, `SetupDone`; a failure after `GitAdd` runs
  `RollbackGit`, `RollbackPorts`, `RollbackBranch`, each of which may itself
  fail and be swallowed, and then `CreateRaises`;
- `adopt`: `AdoptScan`, `AdoptImport`;
- `remove`: `ResolveTracked` or (through a reconcile) `ResolveUntracked`,
  `DeleteCheckout` or `TeardownRaises`, `PruneAfterDelete`, `ReleasePorts`,
  `DropRecord`, `DeleteOwnedBranch`;
- `reconcile`: `ReconcileMark`, `ReconcileSweep`; `prune`: `Prune`;
- `start`, as far as ports go: `StartGet`, `LeasePorts`, `SaveLease`,
  `StartReady`.

`Does` says which operations an instance is used for, so that a run can look
at a set of operations without paying for the others. `ours` is a history
variable: the branches some `create` made by `git worktree add -b`. The stage
`rolled_back` is the end of a failed `create` whose three steps are over:
`NothingLeft` says what must be gone by then, the branch included.

### Lifecycle
`os[p]` is the process that has number `p`: whether it is ours, its
`create_time` (`birth`, unique), its parent and its process group. `rec` is
the record in `state.yaml`, reduced to `pids`, `start_times` and `status`;
`call[c]` the operation caller `c` is in with the record it has loaded
(`rec`), its first verdict on the tracked process (`verdict`), the numbers it
is going to hit or has hit (`hit`), those it leaves alone (`guard`), those a
scan has found (`aim`). The chains are

- `start`: `StartCheck`, `Spawn` or `SpawnFails`, `StartSave`;
- `stop` of a role with a process: `StopLoad` (first look), `Snapshot`
  (`_process_tree`, `_process_group_members`), `Signal` (second look and
  `_signal_process_group`, `_wait_or_kill`), `KillTree`, with `kill_orphans`
  also `Scan` and `KillFound`, and `StopSave`;
- `stop` of a role without one (`manager.py:1730`): `NoProcess`, `Protect` (whom
  to leave alone, as numbers), `Scan`, `KillFound`, `SweepSave`;
- `reconcile`, phase 1, as far as roles go: one step, for it is under the lock.

`Fork`, `Exit`, `Stranger` and `CheckoutDeleted` may come between any two of
them. A signal or a force-kill may fail for each process on its own: `Kill` is
applied to any subset. A second look and the signal that follows it are one
step: what happens between the two system calls cannot be helped by code.
`seen`, `tried`, `checked` and `attempted` are history: the processes, by
birth, that a snapshot showed or that ran for other roles when a sweep set out, that a stop has tried to kill, the time of the
second look.

A sweep whose protected set could not be had in time kills nothing. What the
scan has found is killed later and by number, as in the code
(`process_lifecycle.py:3740-3758`), so a number that changes hands between is
hit: `SiblingsSpared` is about who ran when the sweep set out.

Left out: Windows (job objects, where a process has no group), caps that
truncate a list (they lead to `stop_incomplete`), and queries of psutil that
fail at one look and not at the next (so the trees a sweep protects are read in
full, or it is known that they were not). A start time that could not be had at all
is in the model (`Unborn`). `Exit` is the end of a process and its reaping, for
`os.kill(pid, 0)` finds a zombie alive. The kernel does not give out a number
that still names a group. `Ours` stands for what runs under the checkout: all
that descends from a role, nobody else.
### Teardown
One action per outcome of a phase, in the order of `_TEARDOWN_PHASES`:
`StopProcesses`, `GateB`, the `teardown:` steps (`SkipSteps`, `RunSteps`,
`StepsFail`, `Mark`, `MarkFails`), `DirtGateOpen`, `DirtGateProbes` or
`UndoStaging`, the staging (`NothingToStage`, `OnlyRemnant`, `PreClean`,
`Rename`, `NotRenamed`, `RenameFails`, `Diagnose`), `DeleteTree`, `Residual`,
`FinalGuard`, `ReleasePorts`, `DropRecord`. `checkout` and `remnant` are the
two directories a removal works on, each absent, without or with unsaved work
(the remnant also empty). `attempt` is `_TeardownContext`: the arguments, the
memo of `git status`, what was on record of the steps. `holders` are processes
that have either directory open; whether that forbids a rename or a deletion
depends on the platform, so both outcomes are possible. The user edits,
commits, deletes, recreates and restores the checkout between any two phases,
a `start()` may come after a failed removal, and the remover may die anywhere.
Left out are the guard of the primary checkout, a refusal before anything has
happened, and the prune of git, which `Registry` has. `past` is history.

### HandleScan
`worker[w]` is a query thread: parked, busy, answered but not yet asked again,
or wedged, that is given up by its caller; `slots` is the counter of wedged
ones, `known` the bounded memory of objects that wedge, `duplicates` counts
handles that are open in this process. A scan admits itself (`LockScan`,
`Admit`), passes over or queries each object for its type and, if it is a
file, its name. Some objects it skips with no tag: those of a process it may
not open (`Denied`), one whose handle cannot be duplicated (`NotDuplicated`),
and those of a type whose query was answered without a name (`TypeKnown`,
then `PassOver`); once a process is found to hold a file of the worktree, its
other handles are of no interest (`NameKnown`). `settled` is what the scan is
done with in one of these ways or by an answer. A query is answered or given up, in which case the worker is
retired and replaced or the scan ends early with a tag (`StopCapped`).
`Straggler` is the late return of a given-up query. `BoundedCall` is
`_bounded_call`, which takes a thread of its own and counts in the same cell.

### Discovery
One call: the walk of the ancestors ends, is refused or hangs; each pass shows
the processes in reach of it, may stop at its deadline, and may meet processes
that do not answer; what is found is killed with its descendants, of which
`_process_tree` may name only some: when time is up, which is tagged, or when
a tree is too large or cannot be read, which is not (`cut`). Nothing runs
beside a pass that it shares state with, so a pass is one step.

### PluginInstall
`registry` is the file, `registryLock` its lock. A call (`BeginInstall`) reads
the registry once, then takes each missing plugin in any order: a clone of an
entry (`CloneLoads`, `CloneWrites`, two steps inside the lock), else the CLI,
whose reading and writing are steps of their own without the lock and may come
after its timeout; then the second-chance clone. An exit code 0 of the CLI is
taken to mean that it wrote its entry; that is an assumption about a program
outside the repository. The file may become unreadable at any time.

### SetupRunner
Per step a shell, what it has started (which inherits the output pipes or
not), and its log. `Communicate` is the return of `communicate()`, which waits
for the end of the pipes and not of the shell; `TimesOut` kills the shell
only; `DrainOver` is the end of the bounded wait after that.

### StopBudget
The arithmetic of `_compute_stop_budget` and of its users over integers: the
timeout is ten times a `tenth`, so that the shares 0.6, 0.3, 0.1 and 0.5 of
it are numbers. A step takes any part of what it was granted and up to `Lag`
more. `late` sums those excesses.

### BranchHeal
`table` is `state.yaml`, `live` what git says of each checkout, `healer[h]` a
`reconcile` in its third phase: `Suspect` takes the candidates of phase 1's
reading, `AskGit` or `GitFails` one repository at a time with no lock held,
`Heal` writes on a fresh reading. Names are model values; `Garbles` relates a
wrong spelling to the name it comes from. Two facts about names are assumed:
no branch is really called like the wrong spelling of another, and a wrong
spelling comes from one name only (cp1252 and latin-1 map bytes one to one and
agree wherever both give a character the other has). Users switch branches and
other operations save, drop and recreate the record meanwhile. `WriteBack`
saves any spelling: also one read before a heal, or stored by an old version.

### StartVariants
`steps` is the contract, as the names of its `start:` steps; `Selected` has
the three tiers of `start()`, `Available` the other formulation in
`available_variants`. `variants` and `pids` are those of the record. A stop
resolves its role first and stops it later; contracts are edited, processes
die and sweeps run in between. A contract without `start:` steps is started by
any variant and starts nothing (`StartNothing`). One caller; step names are not empty (a step
named `""` could be started by that name but is not listed).

### MCProcedures
Those eight have no state in common. The instance lets a behaviour choose one
of them (`which`) and leaves the variables of the others at one initial state,
so that its state space is the sum of theirs and each is explored completely.

## 3. The runs

| Run | Module, config | Checks | What it shows |
|---|---|---|---|
| `port_allocator` | `MCPortAllocator`, `PortAllocator.cfg` | `NoSharedPort`, `IInv`, `RefusalsAreTrue`, `ImplementsPortTable`, `CallsReturn` | Two processes allocate, release and sweep with two environments and two slots each for two ports, die at any point and meet busy ports: no port is reserved twice, pins are refused for the stated reason only, the file changes by whole claims and releases, and every call returns. |
| `state_file` | `MCStateFile`, `StateFile.cfg` | `IInv`, `NoLitter`, `ImplementsRecordTable`, `CallsReturn` | Three processes read and rewrite state.yaml while system calls fail and processes are killed: the file is never half-written, no operation is lost to another, and every call returns. |
| `registry_two` | `MCRegistry`, `RegistryTwo.cfg` | `ReservationHeld`, `FailedCreateLeavesNothing`, `UserBranchesKept` | Two managers create, remove and prune side by side on one branch, dying at any step, while the user adds and deletes worktrees: reservations of existing environments stay, a create() whose rollback meets no failure leaves nothing, its branch included, and branches of the user are never deleted, without any lock around a whole operation. |
| `registry_adopt` | `MCRegistry`, `RegistryAdopt.cfg` | `IInv`, `ReservationHeld`, `OneRecordPerCheckout`, `DroppedOnlyWhenGone` | Two managers import the worktrees of the user at once and remove them, by id or by path; one of them also starts them, lists, and dies at any step: no worktree is imported twice, what start() leased stays reserved and a record outlives its checkout. |
| `registry_live` | `MCRegistry`, `RegistryLive.cfg` | `ReconcileSettles` | While somebody keeps listing, the reservations that crashed or failed operations leave behind are freed and checkouts deleted outside are reported, though creates and starts write back older copies of the records. |
| `create_vs_reconcile` (violation) | `MCRegistry`, `CreateVsReconcile.cfg` | `FreedOnlyWithoutRecord` | A reconcile that snapshots the records before a create() adds its own frees, in its second phase, the ports that create() has reserved. |
| `start_twice` (violation) | `MCRegistry`, `StartTwice.cfg` | `NoSharedPort` | Two start() calls for an environment that lacks a port both allocate one; the record keeps the port whose reservation the other call replaced, and another environment is given it. |
| `lifecycle` | `MCLifecycle`, `Lifecycle.cfg` | `IInv`, `NoFalseStopped`, `StrangersSpared`, `SiblingsSpared`, `NoLiveRoleForgotten` | Two roles are started, stopped and swept by a caller that may die at any step, while a poller reconciles, processes fork, exit, survive signals, and their ids are recycled by strangers: a stop that failed is not called stopped later, strangers are spared, the other roles are spared with all that descended from them when the sweep set out, and no running role drops out of the record unsaid. |
| `stop_misses_child` (violation) | `MCLifecycle`, `StopMissesChild.cfg` | `StoppedMeansGone` | When the tracked process exits by itself between the two looks of stop(), its child is neither killed nor counted and the status becomes stopped. |
| `stop_vs_start` (violation) | `MCLifecycle`, `StopVsStart.cfg` | `RacedRoleStaysTracked` | A stop() of a role without a process, which finds that a start() has come in between, writes its own old record over that of start(). |
| `procedures` | `MCProcedures`, `Procedures.cfg` | `ProceduresInv`, `StepsOncePerLife`, `NothingLeaks`, `ThreadsBounded`, `OnlyBlockersKilled`, `CompleteIsTrue`, `RegistryExact`, `StepByStep`, `TimeIsShared`, `OwnershipKept`, `VariantsAgree`, `WorkRespected`, `ImplementsPromise`, `RemovedInTheEnd`, `ClonesLoseNothing`, `RunEnds`, `HealLosesNothing`, `HealedInTheEnd` | Eight procedures that share no state, each explored to its end: a removal with crashes, failures, programs that hold the checkout and a user who changes it; a scan of handles whose queries hang, are refused or say nothing, next to bounded calls; the discovery of blocking processes, whose passes fail; two plugin installations next to the CLI; a setup run whose steps leave processes behind; the division of a stop timeout; the healing of branch names; and the choice of start: steps and roles by variant. Removal, setup run and healing come to their end whatever is left behind, and the removal frees ports and record only as RemovalPromise allows. |
| `remnant_destroyed` (violation) | `MCTeardown`, `RemnantDestroyed.cfg` | `RemnantNeverDestroyed` | An unforced removal deletes the `.removing` remnant of an earlier attempt when there is a checkout in the old place again. |

Many of these are conjunctions of named parts, one for each way in which the
idea can fail; the modules state and comment every part. `IInv` has the type
invariant of its module as its first conjunct (and `NeverTorn`, for the state
file). `ProceduresInv` joins the type invariants of the eight procedures and the
whole inductive invariants of `HandleScan` and `Discovery`. All of them are the
invariants that the proofs use, so that TLC tries them first.

Deadlock is checked for the stores. It is off for `Registry` and `Lifecycle`,
where the ids, places and processes of an instance run out and nobody is
obliged to do anything more, and for the procedures, which end.

### Bounds and why they are enough
- *PortAllocator*: two processes, two environments with two slots, two ports
  of which one is in the automatic range. Two processes are all it takes to
  race for one lock; two slots let a pin and a drawn slot of one call meet;
  with fewer ports than keys, conflicts, exhaustion and busy ports all occur.
- *StateFile*: three processes (a writer, a waiter whose lock times out, a
  third that comes after a crash), two ids, two record values.
- *Registry*: two managers. `Ids` bounds the creates and imports and
  `UserPaths` the worktrees the user adds: ids are `uuid4` and never recur; a
  place is used once by the user, which is a restriction (below). One slot is
  enough since slots of one call are the business of `PortAllocator`; two ports
  and two ids let one environment lose a port to the other.
- *Lifecycle*: two numbers and three births, so that a number is recycled
  while another process runs, and a recycled number can be recycled again; two
  roles for the protection of siblings; one caller that starts and stops and
  one that reconciles. Two callers that start and stop at once are looked at in
  `stop_vs_start`, with one role.
- *Teardown*: `MaxMischief` bounds crashes, failed saves, arrivals and
  restarts, not the attempts, the edits of the user or the failures of phases.
  Two are enough for a crash with a remnant and a user who comes between it and
  the retry. One remover at a time.
- *HandleScan*: two threads that scan, one of which also makes bounded calls,
  two objects of one type in one process, at most two wedged workers and one remembered
  object: so that the cap is reached, an object is forgotten and met again, and
  a scan and a call wedge together. `MaxThreads` (three) only limits how many
  bounded calls hang at once.
- *Discovery*: the calling process, its parent, a process that may be inside,
  and its child; each pass may show any of them or none (the parent: the first
  pass or none).
- *PluginInstall*: two calls for one or two worktrees, one plugin, one path. All
  that two calls share is the file.
- *SetupRunner*: three steps, so that there is one before and one after any.
- *StopBudget*: half seconds, timeouts of 0, 5, 10, 15 and 20 s, excesses of up
  to 1 s. With a second as two units the caps of 1 s and 3 s bind for some
  timeouts (10 s and up) and the shares for others.
- *BranchHeal*: two records in two repositories, in one of which git may fail
  for ever, a name that is spelled wrongly and one that never is; one healer,
  since healers share nothing but the table, which others change as well; two
  changes by others.
- *StartVariants*: two roles, two names, contracts of up to three steps, so
  that there are none, one or several unnamed steps, with and without a step
  called `default`.
- Symmetry is used only in runs without liveness.

### Fairness
- The stores: weak fairness of what a process that has called does next.
  The code loops nowhere; a lock is waited for with a timeout
  (`yaml_store.py:52-64`), and `_port_in_use` returns. Nobody has to call.
- `Registry`: weak fairness of `reconcile` for one instance. That is the
  application that keeps calling `list()`, which reconciles each time
  (`manager.py:983`). No other operation is assumed ever to be begun or ended.
- `Teardown`: a phase that runs goes on (each is bounded by its own timeouts);
  who holds the checkout lets go of it some time; the caller insists with
  `force` and `kill` (strong fairness, since crashes and refusals interrupt
  it). So `RemovedInTheEnd` says that no remnant, marker or half-deleted tree
  makes a removal impossible for good.
- `SetupRunner`: the thread of the runner goes on and its timeouts are reached.
  Nothing is assumed of the shells or of what they have started.
- `BranchHeal`: somebody keeps listing. Git goes on failing only in the
  repositories outside `Answering`.
- `Lifecycle` and the other procedures: none; their properties are about
  safety.

## 4. What is proved

The eight modules of proofs prove, for every value of the constants, with no
bound on managers, callers, processes, process numbers, threads, handles,
environments, slots, ports, ids, interferences, steps, plugins, timeouts,
repositories, roles or contracts:

| Theorem | States |
|---|---|
| `PortAllocatorProofs`!`AllocatorInvariant` | The inductive invariant of the port allocator holds in every reachable state, for any number of processes, environments, slots and ports. |
| `PortAllocatorProofs`!`PortsNeverShared` | No two keys of ports.yaml ever hold the same port. |
| `PortAllocatorProofs`!`AllocatorImplementsTable` | The locked two-pass allocator with crashes and failures implements the abstract table of whole claims and releases. |
| `PortAllocatorProofs`!`RefusalsNameTrueReasons` | A pin is refused as taken only for a key outside the request, as in use only when its slot does not hold it yet. |
| `StateFileProofs`!`StateFileInvariant` | The inductive invariant of the state file holds for any number of processes, ids and record values. |
| `StateFileProofs`!`StateFileNeverTorn` | state.yaml is never half-written. |
| `StateFileProofs`!`StateFileImplementsTable` | The lock, the temporary file and the rename implement the abstract record table. |
| `StateFileProofs`!`NothingLittered` | A call that returns leaves no temporary file beside state.yaml unless the unlink itself fails. |
| `RegistryProofs`!`RegistryInvariant` | The inductive invariant of the operations on stores, git and disk holds for any number of managers, ids, places, branches, slots and ports, with crashes and failures anywhere. |
| `RegistryProofs`!`RegistryTypeOK` | Stores, git, the disk and what each operation remembers keep their types. |
| `RegistryProofs`!`FailuresLeaveNothing` | A create() whose rollback meets no failure ends with no registration, directory, reservation or record under its id, and without the branch it made unless somebody has that checked out elsewhere, whatever others do meanwhile. |
| `RegistryProofs`!`BranchesKept` | No step of any operation deletes a branch that no create() has made. |
| `RegistryProofs`!`DroppedWhenGone` | A record is dropped only when its checkout does not exist. |
| `RegistryProofs`!`CheckoutsTrackedOnce` | No two records stand for one checkout, if nobody adopts beside another manager that creates (AdoptApart). |
| `RegistryProofs`!`ReservationsHeld` | ports.yaml holds the ports of every environment that exists, if one manager starts and none reconciles beside another that creates or starts (LeaseApart). |
| `RegistryProofs`!`PortsNeverShared` | Under LeaseApart no two environments that exist show one port; run start_twice shows that the hypothesis is needed. |
| `RegistryProofs`!`SweepsSpareOwners` | Under LeaseApart reconcile frees no reservation of a record; run create_vs_reconcile shows that the hypothesis is needed. |
| `RegistryProofs`!`StoresKeepTheirPromise` | The operations implement the two abstract tables: state.yaml and ports.yaml change by whole operations of RecordTable and PortTable only. |
| `LifecycleProofs`!`LifecycleInvariant` | The inductive invariant of start, stop, sweep and reconcile holds for any number of callers, roles and process numbers, while numbers are recycled. |
| `LifecycleProofs`!`LifecycleTypeOK` | Type correctness, and no two live processes share a birth. |
| `LifecycleProofs`!`StrangersAreSpared` | A stop() hits neither a stranger that has the number of its process at the second look nor that stranger's group and children, whoever else starts and stops. |
| `LifecycleProofs`!`StoppedIsHonest` | No status but those that say so is on record while a process lives that a stop() has tried to kill, if nobody starts or stops beside another caller (OneOperator). |
| `LifecycleProofs`!`LiveRolesStay` | Under OneOperator a role that runs leaves the record only with stop_incomplete. |
| `LifecycleProofs`!`SiblingsAreSpared` | Under OneOperator the sweep of a role without a process kills no process of another role, nor any that descended from one when the protected numbers were read, though it scans and kills later; a process forked after that is not protected, and the property does not speak of it. |
| `SearchProofs`!`DiscoveryInvariant` | The inductive invariant of the search for blockers, for any processes and passes that fail. |
| `SearchProofs`!`OnlyBlockersAreKilled` | Neither the calling process nor a protected process is ever killed, nor an ancestor of the calling process unless the system refused to name the ancestors. |
| `SearchProofs`!`CompleteSearchIsTrue` | A search without tags has killed all that its passes would show, with their descendants, except who must not be touched and what is cut, with no tag, off a tree that is too large or cannot be read. |
| `SearchProofs`!`ScanInvariant` | The inductive invariant of the scans of handles, for any number of threads, objects, workers and late answers. |
| `SearchProofs`!`NothingIsLeaked` | The cell counts the stuck workers exactly, and each duplicated handle has one owner: the sum of two cardinalities. |
| `SearchProofs`!`ThreadsStayBounded` | The threads of scans never exceed the cap, and an object that is remembered wedges one thread at most. |
| `SearchProofs`!`CompleteScansLooked` | A scan without tags has settled every object but those that wedged a query themselves; settled includes what it skips with no tag: handles of processes that cannot be opened, that cannot be duplicated, without a name or of a type without one. |
| `TeardownProofs`!`RemovalTypeCorrect` | Type correctness of the removal procedure, for any number of interferences. |
| `TeardownProofs`!`StepsRunOnce` | Between two start()s the teardown: steps succeed at most once, plus once for every marker that could not be saved, and no removal completes without having tried them. |
| `TeardownProofs`!`StepsSpare` | No teardown: step begins in a tree that was seen to hold unsaved work, unless forced. |
| `TeardownProofs`!`UnsavedWork` | No step of an unforced removal deletes unsaved work, unless it was edited in after the last look, the look was inconclusive, or it lies in the remnant of an earlier attempt. |
| `TeardownProofs`!`KeepsPromise` | The phases implement the abstract removal: ports and record go only after a look has found the checkout gone. |
| `TeardownProofs`!`WorkIsRespected` | Without force the steps spare a tree seen dirty, and unsaved work is not lost. |
| `ProceduresProofs`!`RunnerTypeCorrect` | Type correctness of the runner, for any number of steps. |
| `ProceduresProofs`!`StepsAreSequential` | No shell runs but that of the current step. |
| `ProceduresProofs`!`LogsAreTrue` | What is logged of a step is how it ended. |
| `ProceduresProofs`!`RunsStepByStep` | Steps do not overlap and their logs are true, for any number of them. |
| `PluginInstallProofs`!`PluginTypeCorrect` | Type correctness, for any number of installers, plugins and worktrees. |
| `PluginInstallProofs`!`EntriesNotDoubled` | Concurrent installations never register a plugin twice for one worktree by cloning. |
| `PluginInstallProofs`!`EntriesKept` | No entry of the registry is ever lost, but to a write of the CLI, which takes no lock, that has raced with another write. |
| `PluginInstallProofs`!`ReportsAreTrue` | What an installation reports as there or installed is in the registry, as long as the registry is readable and no write of the CLI has raced with another write. |
| `PluginInstallProofs`!`RegistryIsExact` | Nothing is registered twice by cloning; what an installation reports is registered, as long as the registry is readable and no write of the CLI has raced with another write. |
| `ProceduresProofs`!`BudgetTypeCorrect` | Type correctness, for every timeout, length of a second and delay: no grant is negative. |
| `ProceduresProofs`!`StopStaysInTime` | For every timeout the steps of a stop leave the later ones their floors and end in time, but for what a step takes beyond its grant. |
| `ProceduresProofs`!`NobodyIsStarved` | For every timeout and every delay of the earlier steps the later ones get what they were promised. |
| `ProceduresProofs`!`TimeIsAlwaysShared` | For every timeout the shares add up and no step is starved. |
| `ProceduresProofs`!`HealTypeCorrect` | Type correctness, for any number of records, repositories, names and healers. |
| `ProceduresProofs`!`HealKeepsOwnership` | No heal retargets a record onto a branch that was not made for it. |
| `ProceduresProofs`!`HealLoses` | A heal changes nothing but the branch of records that are still there. |
| `ProceduresProofs`!`VariantTypeCorrect` | Type correctness, with variants recorded only for tracked roles, for any contract. |
| `ProceduresProofs`!`OffersAreStartable` | For every contract what is listed is exactly what start() accepts, and it selects one step. |
| `ProceduresProofs`!`VariantsReachTheirRoles` | A variant means exactly the tracked roles that were started as it. |
| `ProceduresProofs`!`VariantsAlwaysAgree` | A variant means the same to a listing, to start() and to stop(), for every contract. |
| `ProceduresProofs`!`EachKeepsItsOwn` | The eight procedures side by side implement the specification of each, so that what is proved of one holds among the others. |
| `ProceduresProofs`!`ProceduresInvariant` | The types of all procedures and the inductive invariants of the two searches hold side by side. |
| `ProceduresProofs`!`CompleteIsAlwaysTrue` | A scan without tags has settled every object but those that wedged, and a search without tags has killed all it would see with their descendants, both up to what the code skips with no tag (refusals of the system, unnamed types, trees that are cut), which the formulas name. |

### Assumptions and hypotheses
What is assumed of the constants is declared in the modules: the null values
are not among the real ones, the automatic range is a set of ports, bounds are
natural numbers, the threads that scan are finitely many (`HandleScan` counts
them), the calling process is a process (`Discovery`), there are a role and a
plugin, and the two facts about the spelling of branches given above. TLC
evaluates them in every run.

Some results need more, which their theorems say as a hypothesis about who
does what. They are formulas of the constant `Does`, and the runs satisfy them:

- `LeaseApart` (`registry_two`, `registry_adopt`): one manager starts, and
  nobody reconciles beside another manager that creates or starts. Without it
  the code loses reservations; `create_vs_reconcile` and `start_twice` are the
  counterexamples, listed below. So `ReservationsHeld`, `PortsNeverShared` and
  `SweepsSpareOwners` say exactly where the two races are the only ones.
- `AdoptApart` (the same runs): nobody adopts beside another manager that
  creates. A `create` is between its look for duplicates and its record for as
  long as `git worktree add` takes, and an `adopt` that lists git meanwhile
  imports the new worktree under an id of its own.
- `OneOperator` (`lifecycle`): nobody starts or stops beside another caller who
  does; reconciles, crashes and recycled numbers are free. Two operators each
  write back the record they have read; `stop_vs_start` shows one outcome, and
  with two of them TLC also refutes `NoFalseStopped`, `NoLiveRoleForgotten` and
  `SiblingsSpared`.

The rest of the theorems about `Registry` and `Lifecycle` (types, rollbacks,
branches of the user, records and checkouts, strangers) holds for any callers
that do anything at once.

### The arguments
*The allocator.* `NoSharedPort` is not inductive: it says nothing of the copy
that `SaveClaim` will write. `IInv` adds that whoever is inside the `with`
block holds the lock (`HolderOK`), that a claim's copy equals the file but for
the slots it has chosen (`CopyOK`), that `taken` is what everybody else holds
plus what this call has chosen (`TakenOK`), and that the chosen ports differ
pairwise and from everybody else's (`ChosenOK`). The case that needs all of
them is a pin the slot already holds (`KeepPin`): it is not in the initial
`taken`, and only joining it keeps a drawn slot from taking it. Refinement
follows because at `SaveClaim` the copy is a whole claim in the sense of
`PortTable`.

*The state file.* `IInv` says that inside the lock the loaded copy is the file
until a change, and that what is about to be renamed over the file is one
operation away from it. `NeverTorn` follows since a rename is reached only
with a finished dump. That no call leaves its temporary file (`NothingLittered`)
needs one invariant more, `Tidy`: only a call that is writing has one.

*The registry.* `IInv` of `Registry` is a conjunction of what each operation
relies on between its critical sections. `JobsOK` gives every stage what it
holds; `UsedOK` says that nothing exists under an id or in a place that was
never given out, so that a new id is new to ports, git and the disk at once;
`NewIdsOK` that an id belongs to one `create` until its record is there;
`CopiesOK` that the path, branch and ownership in an old copy of a record are
still those of the record. From these follow `RemovalsOK` (behind the deletion
the checkout stays gone, since places are not reused), whence
`DroppedWhenGone`, and `RollbackOK`, whence `FailuresLeaveNothing`: the
checkout, its registration and the ports are gone at `rolled_back` because
each step removed its own and no other environment has the id, and the branch
because `RollbackBranch` deletes it unless it is registered again by then
(the lemma `RolledBackBy`). `OwnersOK`
carries `BranchesKept`: all that may delete a branch - a record that owns it,
a `create` that may roll back, a removal that has dropped its record - is one
environment at most, and a `create` made the branch. Under `AdoptApart` the
path of a `create` in progress is in no record (`CheckoutsOK`). Under
`LeaseApart`, `LeasesOK` says that whoever will write ports into a record holds
all that the record shows and has them reserved, and that an id the sweep has
not seen has no reservations. The branch a rollback deletes, the record a
removal drops and the reservation a sweep frees are all decided on copies; the
proofs show which copies may be old and why it does not matter.

*The lifecycle.* What is dangerous is a number that changes hands. `Remembered`
says of every record and every copy of one that a start time in it is in the
past and is that of a process of the environment, so that nobody who comes
later can pass for it. `SecondLookOK` says that while there is somebody to hit,
whoever has the tracked number is ours or came after the second look; with it
`StrangersAreSpared` needs no hypothesis. `TriedOK` says that who was to be
killed and lives is among those who are looked at before the status is
written. `GuardOK` says that a sweep leaves alone the numbers on the record it
has read. Under `OneOperator`, `CopyOK` says that the record a call will write
back lacks nothing of what is on record by then and that its status hides no
survivor (reconcile, the other writer, only drops the dead); also, that who ran
for another role when the sweep set out and lives has a number the sweep
leaves alone. That and `GuardOK` give `SiblingsAreSpared`. Nothing of the
kind holds of who is born after the sweep set out (section 5).

*The handle scan.* The counters are compared with cardinalities: `slots` with
the stuck workers, `duplicates` with the sum of the threads that ask and the
stuck workers of scans. Neither equality is inductive: `ScanLockOK` (who is
inside a scan has the lock), `SharedWorkerOK` (the one serving scan worker is
`persistent`, except between its loss and its replacement) and `HoldingsOK`
(what a thread holds) are needed to know whose worker a step changes.
`ScanThreadsBounded` follows because a new scan worker is made only when every
other one is stuck and a slot is free. `OneThreadPerObject` needs that an
object that is asked about is not remembered, and that a stuck worker's object
is remembered or was evicted (`StuckOK`), for which `RememberRecalls` says what
the bounded memory keeps. `LookedOK` carries `CompleteScansLooked`:
what an untagged scan no longer has to look at is settled, wedged a query
before, or is being asked about.

*The discovery.* `ExclusionsOK`: what must not be touched is excluded before
anybody is looked at. `CoverOK`: what an untagged pass would show has been
found. Both are carried from pass to pass up to the kill; at `Lineage` the
descendants join, but for what is cut off a tree, and that exception goes with
`CompleteMeansAll`. The calling process is safe whatever became of the walk of the ancestors:
`_process_tree` never names it.

*The removal.* `RemovalInv` joins what the properties need to be inductive:
which steps have succeeded is known but for lost markers (`OnceOK`,
`TriedOK`), an unforced attempt has a clean verdict when it runs steps and
again when it stages (`MemoOK`), and unsaved work that is there in spite of
it came later or was not seen (`WorkOK`). That a late dirty verdict undoes the
staging only while there is a remnant (`UndoOK`), and that the record is
dropped only after the ports (`DropOK`), give the refinement.

*The runner.* `RunnerInv` divides the steps: those behind have succeeded and
closed their pipes, those ahead have not begun (`BehindOK`, `AheadOK`), and
the present one is in the state its phase says (`HereOK`).

*The plugins.* `PluginInv` says that the copy a clone is about to write is the
file unless the CLI has interfered (`FreshOK`), that the entry is not in it
(`NotThereOK`), and that what is settled is registered (`SettledOK`), also
while a damaged file is about to be replaced by a good one.

*The budget.* `BudgetTypeOK`, `StopsInTime` and `NobodyStarved` are inductive
together. The arithmetic (that the shares fit for every timeout and every
length of a second) is in lemmas of its own.

*Side by side.* `EachKeepsItsOwn` shows that a behaviour of `MCProcedures` is a
behaviour of each of the eight specifications, which makes every theorem about
one of them a theorem about the instance TLC checks.

*The healing.* `HealTypeOK` and `OwnershipKept` are inductive. The lemma that
carries it is `RepairKeepsBranch`: since a wrong spelling belongs to one
branch, an answer of git it is repaired by names the branch the record was
made for, however old the answer and whatever the id stands for by now.

*The variants.* `VariantInv` adds to the types that what is recorded of a role
is what it was started as (`RecordedAsStarted`). That listing and starting
agree is the lemma `SelectsOne`, on the uniqueness of step names.

### Only model-checked
Liveness (`CallsReturn`, `ReconcileSettles`, `RemovedInTheEnd`, `RunEnds`,
`HealedInTheEnd`): out of the prover's reach, which has no rule for fairness and `ENABLED`. Every invariant and every action
property of the passing runs is proved.

## 5. Where code and documentation disagree

Each is the counterexample of a run that checks what the documentation says:

- `remnant_destroyed` (`teardown.py:1053`): when the checkout exists (again) and a non-empty `.removing` directory of an earlier attempt does too, the removal deletes that directory before it stages, whatever force says; README.md:434-437 says: "A stale `.removing` remnant found on a *later* `remove()` attempt is never silently restored or destroyed: under `force=False` it raises again". The docstring of the phase (teardown.py:1029-1031) knows of the pre-clean.
- `create_vs_reconcile` (`yaml_store.py:976`): reconcile() decides with the ids it saw under the lock of state.yaml (surviving_ids, line 976) what it frees later under the lock of ports.yaml, so a create() that allocated before phase 2 and adds its record between the two phases loses its reservation while its record exists; README.md:95-102 says: "a `ports.yaml` entry is freed only when its *owning record* ... no longer exists in `state.yaml`" and the comment at yaml_store.py:967 says the same.
- `start_twice` (`manager.py:1456`): start() decides from the record it read that a slot has no port, allocates one and writes the record in separate critical sections; two concurrent calls both allocate (the second replaces the first one's entry) and may write their records in the other order, so a record shows a port that ports.yaml no longer reserves and that is given to the next environment; port_allocator.py:124-125 says the read-modify-write is under one lock "so concurrent callers cannot race and claim the same port".
- `stop_misses_child` (`process_lifecycle.py:5013`): recycled_after_confirm is true whenever the second look does not find the process that the first one found, also when it has simply exited: then the snapshot of its tree is discarded (line 5016), a child that is alive is neither killed nor counted as a survivor, and the status becomes "stopped" though the snapshot had that child; the docstring of stop() says (process_lifecycle.py:4588-4590): "``stop()`` must never report ``"stopped"`` while a process it was responsible for is demonstrably still running".
- `stop_vs_start` (`manager.py:1833`): when _detect_concurrent_start_race finds that a start() has given the role a process, stop() writes back the record it had read before that start(), without the process: the running role is no longer tracked, and the "remediation" of state.py:63-65 ("the race window has closed, call again") finds no process recorded; the tests use the in-memory store, where both calls share one record.

Met while modelling, without a run of their own:
- `README.md:187` says that `setup:` is not executed by `create()`;
  `manager.py:905` runs it.
- `yaml_store.py:18-19` and the docstring of `reconcile` speak of removing
  ports that are not in use; phase 2 frees by owner only.
- `create` and `adopt` of one branch at the same time may both record it:
  `find_by_branch` and `add` are separate critical sections (`manager.py:695`
  and `:861`).
- A process that dies between the release of ports and `state.remove` leaves a
  record whose ports are no longer reserved. Its checkout is gone by then, so
  `ReservationHeld` speaks of existing checkouts; a user who puts a worktree
  back in that very place would get it with ports that are not reserved. The
  bound that a place is used once keeps this out of the runs.
- `manager.start` for a contract without processes sets the status `ready`
  (`manager.py:1458-1472`) and leaves `stop_detail`, which `state.py:203` says
  implies `stop_incomplete`.
- `reconcile` sets the status `stopped` when one role is dead, though others
  run (`yaml_store.py:952`); `stop` does so only for the last role.
- The comment at `process_lifecycle.py:4911` says that the group signal is what
  reaches the descendants of a tracked process that is already dead;
  `_signal_process_group` asks for the group of that process first and returns
  when there is no such process (line 1601). They are reached all the same, by
  `_kill_process_tree`.
- The hint `kill_orphans_may_help` of a stop whose process had already exited
  is never given with the file store: `_sweep_untracked_orphans` runs before
  the record is written (`process_lifecycle.py:5512`), so the race detector
  reads the role's old process from the file and takes it for a concurrent
  start. `README.md:713` promises the hint; the tests use the in-memory store.
- A sweep protects the descendants of the other roles by parentage
  (`process_lifecycle.py:3846`), `stop` itself also goes by process group: a
  process of another role whose parent has exited is taken for an orphan. So
  `SiblingsSpared` speaks of descendants. It protects the roles of the record
  it has read: one that is started meanwhile is not among them.
- `stop(kill_orphans=True)` of a role with a process scans without any
  protection of the other roles.
- If a tracked process is dead at the first look, its number is given to a
  stranger while the snapshot is taken, and the stranger is gone again at the
  second look, then the snapshot is not discarded and what is left of the
  stranger's group is killed. `StrangersSpared` speaks of a stranger that is
  still there.
- `git worktree add` that is killed by its timeout leaves a registration and
  possibly a branch, and `create` raises before its rollback is in force.
- `remove` of one environment twice at once: the second one finds the record
  gone, and an `AssertionError` (`manager.py:1177`) ends it.
- The write-back of `teardown_ran` (`teardown.py:774-783` takes it for granted
  that `record.pids` is empty by then) saves the record as it was read before
  the processes were stopped; with the file store the stopped roles come back
  until the next sweep. In-memory records are shared, so tests do not see it.
- Two removals at once both run the `teardown:` steps: each has read
  `teardown_ran` before the other saved it.
- When the deletion is blocked, what the diagnosis kills or waits for does not
  lead to another run of the delete ladder in the residual leg
  (`README.md:505-507` describes a retry).
- An empty `.removing` directory is no remnant, but on Windows it makes the next
  rename fail, so that removal fails once.
- A `git status` that tells nothing counts as clean (a documented choice): then
  unsaved work may be deleted.
- `_HANDLE_SCAN_MAX_LIVE_WORKERS` (`process_lifecycle.py:1895-1899`: "Bound on
  how many query-worker daemon threads may be alive process-wide at once")
  bounds the threads of scans only: `_bounded_call` creates a thread whenever
  it is called, without a look at the cap, and its wedged threads may use up
  the slots and keep scans out.
- The enrichment of what was found does not skip processes that have not
  answered before (compare the comment at `process_lifecycle.py:3399-3403`).
- If the system refuses to name the ancestors of the calling process, they are
  not excluded, and one that is found, or descends from what is, is killed.
  The calling process itself is always spared, for `_process_tree` leaves it
  out by itself (`process_lifecycle.py:1437-1443`). `HostSpared` says just this.
- A tree of descendants above `_MAX_TREE_NODES` or one that cannot be read is
  cut with a line in the log (`process_lifecycle.py:1516-1518`), and the kill of
  blockers adds no tag for it (`process_lifecycle.py:3716-3725`). So
  `CompleteMeansAll` excepts what is cut off.
- A scan of handles skips what the system refuses without a tag: processes that
  cannot be opened, which its docstring says (`process_lifecycle.py:2586-2593`),
  and handles that cannot be duplicated (`process_lifecycle.py:3049`), of which
  it does not speak. `CompleteScanLooked` counts both as settled.
- A type query that comes back without a name (`NtQueryObject` fails at line 2558
  or gives an empty name, which is a resolved query) writes `None` into the
  cache (`process_lifecycle.py:3072`), and every later handle of that type index
  is skipped at line 3036 without `type_unresolved`: the scan reports
  `complete=True`, also if the type was "File". The comment at
  `process_lifecycle.py:3167-3171` asks for the contrary: "a scan that suppressed
  a type index must honestly report `complete=False` rather than silently
  under-counting". In the model that is the type `unnamed`, of which
  `CompleteScanLooked` makes an exception; without the exception TLC refutes it.
- A sweep computes once whose processes to protect (`process_lifecycle.py:4078`,
  for up to some seconds), as numbers, and then scans and kills with them
  (4101-4103): a child that another role forks in between runs under the
  checkout, is not among them, and is killed. `README.md:705-707` says that the
  sweep is run "protecting every OTHER currently tracked role's own
  pid/process-tree/(Windows) Job Object from it, so a healthy sibling process is
  never mistaken for an orphan". `SiblingsSpared` therefore speaks of who ran
  when the sweep set out; of whole trees at the time of the kill TLC refutes it,
  with a single caller.
- What the scan for orphans has found is killed later and by number
  (`process_lifecycle.py:3740-3758`), with no other look at who has the number.
- On the trigger of a rename that fails, the second tier of the diagnosis looks
  for processes under the staged path, where the tree is not
  (`teardown.py:740`). `Diagnose` takes any holder to be found there, which is
  more than the code can.
- `install_enabled_plugins` ignores what the second-chance clone returns
  (`plugin_install.py:542-543`): a plugin is reported as installed though the
  registry had become unreadable, and `RegistryExact` excepts an unreadable
  registry. The lock does not bind the CLI.
- The runner kills the shell of a step that times out, not what it has
  started; a step whose shell has succeeded but left a process with its output
  pipes open is reported as timed out.
- With `kill_orphans` both floors of a stop may be spent past its timeout, up to
  4 s; `process_lifecycle.py:4541-4546` speaks of 1 s. The snapshot of the
  process tree before the wait is in no share at all. `StopsInTime` counts
  both as lateness.
- `stop(variant=v)` resolves the role, runs the `stop:` steps and then stops
  whatever the role runs by then.

## 6. What is not modelled

- String work: shell quoting of the setup runner, YAML layout, porcelain
  parsing beyond what it yields, messages.
- Windows job objects, which contain what has left the process tree.
- Native process queries of Windows (the layout of handles and job objects);
  only that they answer, fail or hang matters to the protocols.
- The record types and the in-memory store, which only tests use.
- `list_repo` and the classification of checkouts (`checkout.py`): one call
  joins, without writing anything, what git lists with the records. It has no
  state and no second step that something could come in between of.
- The resolution of targets (`_resolve_target`): a chain of lookups.
- Slots that leave a contract: the contract of `Registry` does not change, so
  the freeing of stale slots by `reconcile` is not looked at.
- `_env_utils.py` (reads the registry of Windows), `_git_utils.py` (its timeout
  is an outcome of every git step), `plugin_seed.py` (called by nothing), the
  exceptions.

## 7. What could come next

1. `start` under a contract that changes (slots added, dropped, pinned) against
   the two phases of `reconcile` that free ports, as an extension of
   `Registry`.
2. Proofs without `OneOperator`: which of the properties of `Lifecycle` survive
   two operators on one role, and what weaker invariant they share.
3. Removals side by side: `Teardown` has one remover at a time, `Registry`
   several but only the outcome of their phases.
