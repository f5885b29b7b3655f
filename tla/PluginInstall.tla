--------------------------- MODULE PluginInstall ----------------------------
(***************************************************************************)
(* core/plugin_install.py: calls of install_enabled_plugins, each for one  *)
(* worktree, that share the registry installed_plugins.json with each      *)
(* other and with the `claude` CLI.  A call clones an entry under a lock,  *)
(* from what it read at its beginning, or else runs the CLI, which takes   *)
(* no lock and may outlive its time-out.                                   *)
(***************************************************************************)
EXTENDS Naturals

CONSTANTS Installers,    \* concurrent calls
          Worktrees, Main,   \* project paths; Main: any other project, or scope "user"
          Keys,          \* the enabled plugins
          Paths,         \* install paths
          NoOne          \* no call has the lock

(* Without enabled plugins a call returns at once. *)
ASSUME PluginAssumption == NoOne \notin Installers /\ Keys # {} /\ Paths # {}

VARIABLES registry,      \* the entries of installed_plugins.json
          unreadable,    \* it is gone or is no Schema-v2 document
          valid,         \* the paths that hold a structurally valid install
          registryLock,
          job,           \* the calls
          cli,           \* the CLI process of each call
          doubles,       \* history: an entry was appended twice
          raced          \* history: a write without the lock met another one

pluginVars == <<registry, unreadable, valid, registryLock, job, cli, doubles, raced>>

Entry == [key: Keys, project: Worktrees \cup {Main}, path: Paths]
Job == [at: {"new", "next", "clone", "writing", "cli", "done", "aborted"},
        worktree: Worktrees, exe: BOOLEAN, seen: SUBSET Entry, data: SUBSET Entry,
        todo: SUBSET Keys, key: Keys, path: Paths,
        skipped: SUBSET Keys, installed: SUBSET Keys, failed: SUBSET Keys]
Cli == [state: {"none", "started", "loaded"}, key: Keys, data: SUBSET Entry]

AnyKey == CHOOSE k \in Keys : TRUE
AnyPath == CHOOSE p \in Paths : TRUE
NewJob(w) ==
  [at |-> "new", worktree |-> w, exe |-> FALSE, seen |-> {}, data |-> {}, todo |-> {},
   key |-> AnyKey, path |-> AnyPath, skipped |-> {}, installed |-> {}, failed |-> {}]
NoCli == [state |-> "none", key |-> AnyKey, data |-> {}]

(* The types, and: whoever writes has the lock. *)
PluginTypeOK ==
  /\ registry \in SUBSET Entry /\ valid \in SUBSET Paths
  /\ unreadable \in BOOLEAN /\ doubles \in BOOLEAN /\ raced \in BOOLEAN
  /\ registryLock \in Installers \cup {NoOne}
  /\ job \in [Installers -> Job] /\ cli \in [Installers -> Cli]
  /\ \A c \in Installers : job[c].at = "writing" <=> registryLock = c

PluginInit ==
  /\ registry \in {{}} \cup {{[key |-> k, project |-> Main, path |-> p]} : k \in Keys, p \in Paths}
  /\ valid \in SUBSET Paths
  /\ unreadable = FALSE /\ doubles = FALSE /\ raced = FALSE
  /\ registryLock = NoOne
  /\ job \in [Installers -> {NewJob(w) : w \in Worktrees}]
  /\ cli = [c \in Installers |-> NoCli]

-----------------------------------------------------------------------------
(* Helpers.                                                                *)

At(c, stage) == job[c].at = stage

(* _load_registry *)
Loaded == IF unreadable THEN {} ELSE registry

(* _already_registered *)
Registered(entries, k, worktree) ==
  \E e \in entries : e.key = k /\ e.project = worktree /\ e.path \in valid

(* _find_clone_source: the newest of them, whichever that is. *)
Sources(entries, k) == {e.path : e \in {e \in entries : e.key = k /\ e.path \in valid}}

Cloned(c) == [key |-> job[c].key, project |-> job[c].worktree, path |-> job[c].path]

(* The key is settled, and the next one is taken. *)
Settle(c, installed) ==
  LET settled == {job[c].key}
  IN job' = [job EXCEPT ![c].at = "next", ![c].data = {}, ![c].todo = @ \ settled,
                        ![c].installed = IF installed THEN @ \cup settled ELSE @,
                        ![c].failed = IF installed THEN @ ELSE @ \cup settled]

-----------------------------------------------------------------------------
(* A call.                                                                 *)

BeginInstall(c) ==
  /\ At(c, "new")
  /\ LET skipped == {k \in Keys : Registered(Loaded, k, job[c].worktree)}
     IN \E exe \in BOOLEAN :
          job' = [job EXCEPT ![c].at = "next", ![c].exe = exe, ![c].seen = Loaded,
                             ![c].skipped = skipped, ![c].todo = Keys \ skipped]
  /\ UNCHANGED <<registry, unreadable, valid, registryLock, cli, doubles, raced>>

NextKey(c, k) ==
  /\ At(c, "next") /\ k \in job[c].todo
  /\ LET sources == Sources(job[c].seen, k)
     IN \/ /\ sources # {}
           /\ \E p \in sources :
                job' = [job EXCEPT ![c].at = "clone", ![c].key = k, ![c].path = p]
           /\ UNCHANGED cli
        \/ /\ sources = {} /\ job[c].exe
           /\ job' = [job EXCEPT ![c].at = "cli", ![c].key = k]
           /\ \/ cli' = [cli EXCEPT ![c] = [state |-> "started", key |-> k, data |-> {}]]
              \/ cli' = [cli EXCEPT ![c] = [@ EXCEPT !.state = "none", !.data = {}]]
        \/ /\ sources = {} /\ ~job[c].exe
           /\ job' = [job EXCEPT ![c].todo = @ \ {k}, ![c].failed = @ \cup {k}]
           /\ UNCHANGED cli
  /\ UNCHANGED <<registry, unreadable, valid, registryLock, doubles, raced>>

Faulty_LockIsFree(c) == TRUE
LockIsFree(c) == registryLock = NoOne

(* _clone_entry_to_worktree: under the lock, the fresh registry is read, unless
   it has the entry it gets it ...                                         *)
Faulty_CloneLoads(c) ==
  /\ At(c, "clone") /\ LockIsFree(c)
  /\ ~unreadable
  /\ IF Cloned(c) \in job[c].seen
     THEN Settle(c, TRUE) /\ UNCHANGED registryLock
     ELSE /\ registryLock' = c
          /\ job' = [job EXCEPT ![c].at = "writing", ![c].data = registry]
  /\ UNCHANGED <<registry, unreadable, valid, cli, doubles, raced>>
CloneLoads(c) ==
  /\ At(c, "clone") /\ LockIsFree(c)
  /\ ~unreadable
  /\ IF Cloned(c) \in registry
     THEN Settle(c, TRUE) /\ UNCHANGED registryLock
     ELSE /\ registryLock' = c
          /\ job' = [job EXCEPT ![c].at = "writing", ![c].data = registry]
  /\ UNCHANGED <<registry, unreadable, valid, cli, doubles, raced>>

(* ... and replaces the file. *)
CloneWrites(c) ==
  /\ At(c, "writing")
  /\ registryLock' = NoOne
  /\ registry' = job[c].data \cup {Cloned(c)}
  /\ doubles' = (doubles \/ Cloned(c) \in job[c].data)
  /\ unreadable' = FALSE
  /\ Settle(c, TRUE)
  /\ UNCHANGED <<valid, cli, raced>>

(* The registry has become unreadable: no entry is written, and nobody asks. *)
CloneFinds(c) ==
  /\ At(c, "clone") /\ LockIsFree(c)
  /\ unreadable
  /\ Settle(c, TRUE)
  /\ UNCHANGED <<registry, unreadable, valid, registryLock, cli, doubles, raced>>

(* The lock times out, the write fails, or the process dies. *)
Abort(c) ==
  /\ \/ At(c, "clone") /\ ~LockIsFree(c)
     \/ At(c, "writing")
  /\ registryLock' = IF registryLock = c THEN NoOne ELSE registryLock
  /\ job' = [job EXCEPT ![c].at = "aborted", ![c].data = {}]
  /\ UNCHANGED <<registry, unreadable, valid, cli, doubles, raced>>

(* It has exited with 0. *)
InstallSucceeds(c) ==
  /\ At(c, "cli") /\ cli[c].state = "none"
  /\ \E e \in Loaded : e.key = job[c].key /\ e.project = job[c].worktree
  /\ Settle(c, TRUE)
  /\ UNCHANGED <<registry, unreadable, valid, registryLock, cli, doubles, raced>>

(* No spawn, an error, or a time-out, which kills the process but not what it
   has started.  Then a clone of what it may have written.                 *)
InstallFails(c) ==
  LET sources == Sources(Loaded, job[c].key)
  IN /\ At(c, "cli")
     /\ IF sources = {} THEN Settle(c, FALSE)
        ELSE \E p \in sources : job' = [job EXCEPT ![c].at = "clone", ![c].path = p]
     /\ UNCHANGED <<registry, unreadable, valid, registryLock, cli, doubles, raced>>

EndInstall(c) ==
  /\ At(c, "next") /\ job[c].todo = {}
  /\ job' = [job EXCEPT ![c].at = "done"]
  /\ UNCHANGED <<registry, unreadable, valid, registryLock, cli, doubles, raced>>

-----------------------------------------------------------------------------
(* The others: the CLI, the user.                                          *)

CliLoads(c) ==
  /\ cli[c].state = "started" /\ ~unreadable
  /\ cli' = [cli EXCEPT ![c].state = "loaded", ![c].data = registry]
  /\ UNCHANGED <<registry, unreadable, valid, registryLock, job, doubles, raced>>

(* For the worktree, or as a template only, or nothing more than the files. *)
CliWrites(c) ==
  /\ cli[c].state = "loaded"
  /\ \E p \in Paths, project \in {job[c].worktree, Main} :
       /\ registry' = cli[c].data \cup {[key |-> cli[c].key, project |-> project, path |-> p]}
       /\ valid' \in {valid, valid \cup {p}}
  /\ unreadable' = FALSE
  /\ raced' = (raced \/ registry # cli[c].data \/ registryLock # NoOne \/ unreadable)
  /\ cli' = [cli EXCEPT ![c].state = "none", ![c].data = {}]
  /\ UNCHANGED <<registryLock, job, doubles>>

Damage ==
  /\ ~unreadable
  /\ unreadable' = TRUE
  /\ UNCHANGED <<registry, valid, registryLock, job, cli, doubles, raced>>

InstallStep(c) ==
  \/ BeginInstall(c) \/ \E k \in Keys : NextKey(c, k)
  \/ CloneLoads(c) \/ CloneWrites(c) \/ CloneFinds(c) \/ Abort(c)
  \/ InstallSucceeds(c) \/ InstallFails(c) \/ EndInstall(c)
PluginNext ==
  \/ \E c \in Installers : InstallStep(c) \/ CliLoads(c) \/ CliWrites(c)
  \/ Damage

PluginSpec == PluginInit /\ [][PluginNext]_pluginVars

-----------------------------------------------------------------------------
(* Properties.                                                             *)

(* However many calls clone for one worktree, from however old a reading, no
   entry is written twice (#64).                                           *)
NoDoubleEntries == ~doubles

(* What the registry has is lost to nothing but a write of the CLI that raced
   with another write: clones do not overwrite each other.                 *)
ClonesLoseNothing == [][registry \ registry' # {} => raced']_pluginVars

(* A plugin that a call reports as installed, or skips as being so, has an
   entry for its worktree, unless the registry was damaged or raced for.   *)
ReportedMeansRegistered ==
  raced \/ unreadable \/
  \A c \in Installers : \A k \in job[c].skipped \cup job[c].installed :
    \E e \in registry : e.key = k /\ e.project = job[c].worktree

(* The registry and the reports agree, and nothing is in the registry twice. *)
RegistryExact == NoDoubleEntries /\ ReportedMeansRegistered
=============================================================================
