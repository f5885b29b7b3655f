----------------------------- MODULE Lifecycle -----------------------------
(***************************************************************************)
(* core/process_lifecycle.py: start() and stop() of the roles of one       *)
(* environment, with the no-process branch of WorktreeManager.stop() and   *)
(* the part of reconcile() that sweeps dead roles, against an operating    *)
(* system that recycles process ids.  POSIX: containment is the process    *)
(* group; Windows job objects are not modelled.                            *)
(*                                                                         *)
(* Each operation loads the record, works for a while on processes it      *)
(* knows by number, and writes the whole record back.                      *)
(***************************************************************************)
EXTENDS FiniteSets, Naturals

CONSTANTS Roles,
          Pids,        \* process ids: few, so that they are recycled
          MaxBirth,    \* bound on the processes that are ever born
          Free,        \* nobody has the process id
          NoPid,       \* the record has no entry for a role
          Callers,     \* callers of the operations below
          Does         \* the operations each of them is used for

VARIABLES os,          \* the process that has a process id
          clock,       \* the latest create_time
          exists,      \* the checkout is on disk
          rec,         \* the record in state.yaml
          call,        \* the operation each caller is in
          attempted    \* history: what stop()s have tried to kill in vain since
                       \* the last start()

vars == <<os, clock, exists, rec, call, attempted>>

ASSUME LifecycleAssumption == Roles # {} /\ MaxBirth \in Nat /\ NoPid \notin Pids

Births == 1..MaxBirth
Unborn == 0                         \* no start_times entry: identity unknown

Adopted == 0                          \* the parent of whoever has lost its own

Process == [ours: BOOLEAN, birth: Births, parent: Births \cup {Adopted}, group: Pids]
Statuses == {"created", "running", "exited", "stopped", "stop_incomplete", "orphaned"}

ASSUME FreeAssumption == Free \notin Process

Record == [pid: [Roles -> Pids \cup {NoPid}], born: [Roles -> Births \cup {Unborn}],
           status: Statuses]

NoRecord == [pid |-> [r \in Roles |-> NoPid], born |-> [r \in Roles |-> Unborn],
             status |-> "created"]
Idle == [at |-> "idle", role |-> CHOOSE r \in Roles : TRUE, rec |-> NoRecord,
         verdict |-> "gone", hit |-> {}, seen |-> {}, tried |-> {}, checked |-> 0,
         guard |-> {}, aim |-> {}, orphans |-> FALSE, complete |-> TRUE]

Calls == [at: {"idle", "spawning", "spawned", "loaded", "snapped", "signalled",
               "scanning", "found", "finishing", "sweeping", "swept"},
          role: Roles, rec: Record, verdict: {"gone", "ours", "stranger", "unknown"},
          hit: SUBSET Pids, seen: SUBSET Births, tried: SUBSET Births, checked: 0..MaxBirth,
          guard: SUBSET Pids, aim: SUBSET Pids, orphans: BOOLEAN, complete: BOOLEAN]

TypeOK ==
  /\ os \in [Pids -> Process \cup {Free}]
  /\ \A p, q \in Pids : os[p] # Free /\ os[q] # Free /\ os[p].birth = os[q].birth => p = q
  /\ clock \in 0..MaxBirth
  /\ exists \in BOOLEAN
  /\ rec \in Record
  /\ \A r \in Roles : rec.pid[r] = NoPid => rec.born[r] = Unborn
  /\ call \in [Callers -> Calls]
  /\ attempted \in SUBSET Births

Init ==
  /\ os = [p \in Pids |-> Free]
  /\ clock = 0
  /\ exists = TRUE
  /\ rec = NoRecord
  /\ call = [c \in Callers |-> Idle]
  /\ attempted = {}

-----------------------------------------------------------------------------
(* Helpers.                                                                *)

Alive(p) == os[p] # Free
Members(p) == {q \in Pids : Alive(q) /\ os[q].group = p}
Child(q, p) == Alive(p) /\ Alive(q) /\ os[q].parent = os[p].birth
Tree(p) ==
  {q \in Pids \ {p} : \A S \in SUBSET Pids :
     p \in S /\ (\A s \in S, t \in Pids : Child(t, s) => t \in S) => q \in S}
Family(p) == Tree(p) \cup Members(p)
Ours == {p \in Pids : Alive(p) /\ os[p].ours}
BirthsOf(P) == {os[p].birth : p \in {q \in P : Alive(q)}}
Living(b) == \E p \in Pids : Alive(p) /\ os[p].birth = b

(* The kernel does not hand out a number that still names a group.         *)
Recyclable(p) == ~Alive(p) /\ Members(p) = {}

(* _pid_status, with dead and mismatched told apart by _pid_alive.  A live
   process without a recorded start time is unknown.                       *)
Verdict(p, born) ==
  IF p = NoPid \/ ~Alive(p) THEN "gone"
  ELSE IF born = Unborn THEN "unknown"
  ELSE IF os[p].birth = born THEN "ours" ELSE "stranger"

Recorded(r, role) == Verdict(r.pid[role], r.born[role])
Tracked(r) == {role \in Roles : r.pid[role] # NoPid}
Faulty_Without(r, roles) ==
  [r EXCEPT !.pid = [x \in Roles |-> IF x \in roles THEN NoPid ELSE @[x]]]
Without(r, roles) ==
  [r EXCEPT !.pid = [x \in Roles |-> IF x \in roles THEN NoPid ELSE @[x]],
            !.born = [x \in Roles |-> IF x \in roles THEN Unborn ELSE @[x]]]

Faulty_Sticky == {"orphaned"}
Sticky == {"stop_incomplete", "orphaned"}

At(c, stage) == call[c].at = stage
Pid(c) == call[c].rec.pid[call[c].role]
Born(c) == call[c].rec.born[call[c].role]
Begin(c, op) == op \in Does[c] /\ At(c, "idle")
End(c) == call' = [call EXCEPT ![c] = Idle]

(* P dies, of a signal or by itself; their children are adopted.           *)
Kill(P) ==
  os' = [p \in Pids |->
           IF p \in P THEN Free
           ELSE IF \E q \in P : Child(p, q) THEN [os[p] EXCEPT !.parent = Adopted]
           ELSE os[p]]

-----------------------------------------------------------------------------
(* start().                                                                *)

(* A live process that is known to be ours is an error; one that is not, or
   not known to be, is abandoned.                                          *)
MayStart(r, role) == Recorded(r, role) # "ours"

StartCheck(c, role) ==
  /\ Begin(c, "start")
  /\ MayStart(rec, role)
  /\ call' = [call EXCEPT ![c] = [Idle EXCEPT !.at = "spawning", !.role = role, !.rec = rec]]
  /\ UNCHANGED <<os, clock, exists, rec, attempted>>

(* The child leads a group of its own; its start time may not be had.      *)
Spawn(c, p) ==
  /\ At(c, "spawning")
  /\ exists
  /\ Recyclable(p)
  /\ clock < MaxBirth
  /\ clock' = clock + 1
  /\ os' = [os EXCEPT ![p] = [ours |-> TRUE, birth |-> clock + 1, parent |-> Adopted, group |-> p]]
  /\ \E born \in {clock + 1, Unborn} :
       call' = [call EXCEPT ![c].at = "spawned",
                            ![c].rec.pid[call[c].role] = p,
                            ![c].rec.born[call[c].role] = born,
                            ![c].seen = {clock + 1}]
  /\ UNCHANGED <<exists, rec, attempted>>

(* No such command, or no checkout to run it in: nothing is written.       *)
SpawnFails(c) ==
  /\ At(c, "spawning")
  /\ End(c)
  /\ UNCHANGED <<os, clock, exists, rec, attempted>>

(* After a short wait for an early exit the record is written.             *)
StartSave(c) ==
  /\ At(c, "spawned")
  /\ rec' = [call[c].rec EXCEPT !.status =
               IF \E b \in call[c].seen : Living(b) THEN "running" ELSE "exited"]
  /\ attempted' = {}
  /\ End(c)
  /\ UNCHANGED <<os, clock, exists>>

-----------------------------------------------------------------------------
(* stop() of a role with a process id.                                     *)

StopLoad(c, role, orphans) ==
  /\ Begin(c, "stop")
  /\ role \in Tracked(rec)
  /\ call' = [call EXCEPT ![c] =
       [Idle EXCEPT !.at = "loaded", !.role = role, !.rec = rec,
                    !.verdict = Recorded(rec, role), !.orphans = orphans]]
  /\ UNCHANGED <<os, clock, exists, rec, attempted>>

(* The descendants and the group of the process, by number: never of a live
   process that is not known to be ours.                                   *)
Snapshot(c) ==
  LET tree == IF call[c].verdict \in {"ours", "gone"} THEN Family(Pid(c)) \ {Pid(c)} ELSE {}
  IN /\ At(c, "loaded")
     /\ call' = [call EXCEPT ![c].at = "snapped", ![c].hit = tree, ![c].seen = BirthsOf(tree)]
     /\ UNCHANGED <<os, clock, exists, rec, attempted>>

(* The second look, right before the signal.  A process that is ours is
   signalled with its group and waited for.  The group of a dead one is not:
   _signal_process_group asks the kernel for its leader first.  If the first
   look no longer holds, the snapshot is discarded.                        *)
Confirmed(c) == call[c].verdict = "ours" /\ Verdict(Pid(c), Born(c)) = "ours"
StillDead(c) == call[c].verdict = "gone" /\ ~Alive(Pid(c))

Faulty_Discard(c) == FALSE
Discard(c) == call[c].verdict \in {"ours", "gone"} /\ ~Confirmed(c) /\ ~StillDead(c)

Signal(c) ==
  /\ At(c, "snapped")
  /\ call' = [call EXCEPT ![c].at = "signalled", ![c].checked = clock,
                          ![c].hit = IF Discard(c) THEN {} ELSE @,
                          ![c].tried = IF Confirmed(c) THEN {Born(c)} ELSE {},
                          ![c].verdict = IF @ = "unknown" THEN @ ELSE "gone"]
  /\ \E P \in SUBSET (IF Confirmed(c) THEN Members(Pid(c)) ELSE {}) : Kill(P)
  /\ UNCHANGED <<clock, exists, rec, attempted>>

(* _kill_process_tree goes by number, without a look at identity.          *)
KillTree(c) ==
  /\ At(c, "signalled")
  /\ \E P \in SUBSET call[c].hit : Kill(P)
  /\ call' = [call EXCEPT ![c].at = IF call[c].orphans THEN "scanning" ELSE "finishing",
                          ![c].tried = @ \cup BirthsOf(call[c].hit), ![c].checked = 0,
                          ![c].seen = {b \in @ : Living(b)}]
  /\ UNCHANGED <<clock, exists, rec, attempted>>

(* The orphan scan finds everything that runs under the checkout, whatever its
   role, but the numbers it was told to leave alone: none in this path.  Out
   of time, it finds only a part and says so.                              *)
Scan(c) ==
  /\ At(c, "scanning")
  /\ \E found \in SUBSET (Ours \ call[c].guard), complete \in BOOLEAN :
       /\ complete => found = Ours \ call[c].guard
       /\ call' = [call EXCEPT ![c].at = "found", ![c].complete = complete, ![c].aim = found]
  /\ UNCHANGED <<os, clock, exists, rec, attempted>>

(* What was found is killed later and by number: whoever has it by then.   *)
KillFound(c) ==
  /\ At(c, "found")
  /\ \E P \in SUBSET call[c].aim : Kill(P)
  /\ call' = [call EXCEPT ![c].at = IF Pid(c) = NoPid THEN "swept" ELSE "finishing",
                          ![c].hit = @ \cup call[c].aim,
                          ![c].tried = @ \cup BirthsOf(call[c].aim),
                          ![c].guard = {}, ![c].aim = {}]
  /\ UNCHANGED <<clock, exists, rec, attempted>>

(* The last look: who survived?  The tracked process counts if it is known
   to be ours, everybody else by number.                                   *)
Faulty_Survivors(c) == {p \in call[c].hit : Alive(p)}
Survivors(c) ==
  {p \in call[c].hit : Alive(p)}
    \cup {p \in {Pid(c)} : Verdict(p, Born(c)) = "ours"}

Incomplete(c) ==
  \/ call[c].verdict = "unknown" /\ Alive(Pid(c))
  \/ Survivors(c) # {}
  \/ call[c].orphans /\ ~call[c].complete

StopSave(c) ==
  /\ At(c, "finishing")
  /\ LET left == Without(call[c].rec, {call[c].role})
     IN rec' = [left EXCEPT !.status =
                  IF Incomplete(c) THEN "stop_incomplete"
                  ELSE IF Tracked(left) = {} /\ @ \notin Sticky THEN "stopped" ELSE @]
  /\ attempted' = {b \in attempted \cup call[c].tried : Living(b)}
  /\ End(c)
  /\ UNCHANGED <<os, clock, exists>>

-----------------------------------------------------------------------------
(* WorktreeManager.stop() of a role without a process id: a sweep of what
   runs under the checkout and belongs to no other role.                   *)

NoProcess(c, role, orphans) ==
  /\ Begin(c, "stop")
  /\ role \notin Tracked(rec)
  /\ call' = [call EXCEPT ![c] = [Idle EXCEPT !.at = "sweeping", !.role = role,
                                             !.rec = rec, !.orphans = orphans]]
  /\ UNCHANGED <<os, clock, exists, rec, attempted>>

(* The other roles of the record, each with its descendants; not with what
   is in its group and descends from it no more.                           *)
Faulty_Protected(r) == {r.pid[role] : role \in Tracked(r)}
Protected(r) == UNION {{r.pid[role]} \cup Tree(r.pid[role]) : role \in Tracked(r)}

(* History: what runs of the roles on record by now, and descends from it. *)
Running(r) ==
  UNION {{r.pid[role]} \cup Tree(r.pid[role]) : role \in {x \in Roles : Recorded(r, x) = "ours"}}

(* _sweep_untracked_orphans first computes whom to protect, as numbers and for
   good: who is born later is not among them.  Nothing is looked at without a
   checkout, without time or when nothing is to be killed, and nothing is
   killed when the set cannot be had in time.                              *)
Protect(c) ==
  /\ At(c, "sweeping")
  /\ \/ /\ call[c].orphans /\ exists
        /\ \/ call' = [call EXCEPT ![c].at = "scanning", ![c].guard = Protected(call[c].rec),
                                   ![c].seen = BirthsOf(Running(rec))]
           \/ call' = [call EXCEPT ![c].at = "swept", ![c].complete = FALSE]
     \/ \E complete \in BOOLEAN :
          /\ complete => exists /\ ~call[c].orphans
          /\ call' = [call EXCEPT ![c].at = "swept", ![c].complete = complete,
                                  ![c].orphans = FALSE]
  /\ UNCHANGED <<os, clock, exists, rec, attempted>>

(* _detect_concurrent_start_race: the role has a process by now.           *)
Raced(c) == call[c].complete /\ rec.pid[call[c].role] # NoPid

SweepSave(c) ==
  /\ At(c, "swept")
  /\ rec' = [call[c].rec EXCEPT !.status =
               IF \/ \E p \in call[c].hit : Alive(p)
                  \/ call[c].orphans /\ ~call[c].complete
                  \/ Raced(c)
               THEN "stop_incomplete"
               ELSE IF Tracked(call[c].rec) = {} /\ @ \notin Sticky THEN "stopped" ELSE @]
  /\ attempted' = {b \in attempted \cup call[c].tried : Living(b)}
  /\ End(c)
  /\ UNCHANGED <<os, clock, exists>>

-----------------------------------------------------------------------------
(* reconcile(), phase 1, under the lock of state.yaml.                     *)

DeadRoles(r) == {role \in Tracked(r) : Recorded(r, role) \in {"gone", "stranger"}}

Reconcile(c) ==
  /\ Begin(c, "reconcile")
  /\ LET status == IF exists THEN rec.status ELSE "orphaned"
     IN rec' = [Without(rec, DeadRoles(rec)) EXCEPT !.status =
                  IF DeadRoles(rec) # {} /\ status \notin Sticky THEN "stopped" ELSE status]
  /\ UNCHANGED <<os, clock, exists, call, attempted>>

-----------------------------------------------------------------------------
(* The environment: processes fork, into their group or out of it, and
   exit; strangers come; the checkout is deleted; a caller dies.           *)

Fork(p, q, group) ==
  /\ Alive(p) /\ Recyclable(q) /\ clock < MaxBirth
  /\ group \in {os[p].group, q}
  /\ clock' = clock + 1
  /\ os' = [os EXCEPT ![q] = [ours |-> os[p].ours, birth |-> clock + 1,
                               parent |-> os[p].birth, group |-> group]]
  /\ UNCHANGED <<exists, rec, call, attempted>>

Exit(p) ==
  /\ Alive(p)
  /\ Kill({p})
  /\ UNCHANGED <<clock, exists, rec, call, attempted>>

Stranger(p) ==
  /\ Recyclable(p) /\ clock < MaxBirth
  /\ clock' = clock + 1
  /\ os' = [os EXCEPT ![p] = [ours |-> FALSE, birth |-> clock + 1, parent |-> Adopted, group |-> p]]
  /\ UNCHANGED <<exists, rec, call, attempted>>

CheckoutDeleted ==
  /\ exists
  /\ exists' = FALSE
  /\ UNCHANGED <<os, clock, rec, call, attempted>>

Crash(c) ==
  /\ "crash" \in Does[c]
  /\ ~At(c, "idle")
  /\ End(c)
  /\ UNCHANGED <<os, clock, exists, rec, attempted>>

Start(c) ==
  \/ \E role \in Roles : StartCheck(c, role)
  \/ \E p \in Pids : Spawn(c, p)
  \/ SpawnFails(c) \/ StartSave(c)

Stop(c) ==
  \/ \E role \in Roles, orphans \in BOOLEAN : StopLoad(c, role, orphans) \/ NoProcess(c, role, orphans)
  \/ Snapshot(c) \/ Signal(c) \/ KillTree(c) \/ Scan(c) \/ KillFound(c) \/ StopSave(c)
  \/ Protect(c) \/ SweepSave(c)

Next ==
  \/ \E c \in Callers : Start(c) \/ Stop(c) \/ Reconcile(c) \/ Crash(c)
  \/ \E p, q, group \in Pids : Fork(p, q, group)
  \/ \E p \in Pids : Exit(p) \/ Stranger(p)
  \/ CheckoutDeleted

Spec == Init /\ [][Next]_vars

-----------------------------------------------------------------------------
(* Properties.                                                             *)

(* "stopped" is not said while a process that a stop() has tried to kill is
   alive, neither by that stop() nor by a sweep or a stop() after it: an
   incomplete stop stays on record until the next start().                 *)
NoFalseStopped == rec.status = "stopped" => \A b \in attempted : ~Living(b)

(* When the tracked process id belongs to a stranger by the time of the
   second look, stop() hits neither the stranger nor its group and children. *)
TakenOver(c) ==
  /\ Alive(Pid(c)) /\ ~os[Pid(c)].ours
  /\ At(c, "signalled") => os[Pid(c)].birth <= call[c].checked
StrangersSpared ==
  [][\A c \in Callers :
       call[c].at \in {"snapped", "signalled"} /\ call'[c] # call[c] /\ TakenOver(c)
         => \A p \in {Pid(c)} \cup Family(Pid(c)) : os'[p] = os[p]]_vars

(* A role whose process runs and is known to be ours leaves the record only
   with the status that says so.                                           *)
NoLiveRoleForgotten ==
  [][\A role \in Roles :
       /\ Recorded(rec, role) = "ours" /\ rec'.pid[role] # rec.pid[role]
       /\ os'[rec.pid[role]] = os[rec.pid[role]]
       => rec'.status = "stop_incomplete"]_vars

(* stop() of a role without a process does not kill the process of another
   role, nor any that ran for one or descended from one when the sweep set
   out, however late it kills and whatever it has found meanwhile.         *)
SiblingsSpared ==
  [][\A c \in Callers, p \in Pids :
       /\ At(c, "found") /\ Pid(c) = NoPid /\ call'[c] # call[c]
       /\ Alive(p) /\ os'[p] = Free
       => /\ os[p].birth \notin call[c].seen
          /\ \A role \in Roles : Recorded(rec, role) = "ours" => p # rec.pid[role]]_vars

(* A stop() that says "stopped" has left alive no process that it saw in the
   tree of the tracked process: process_lifecycle.py, "Status honesty".    *)
StoppedMeansGone ==
  [][\A c \in Callers :
       At(c, "finishing") /\ call'[c] # call[c] /\ rec'.status = "stopped"
         => \A b \in call[c].seen : ~Living(b)]_vars

(* When stop() finds that a start() of its role came in between, the role it
   found running stays on record, so that the caller can "call again".     *)
RacedRoleStaysTracked ==
  [][\A c \in Callers :
       At(c, "swept") /\ call'[c] # call[c] /\ Raced(c) => call[c].role \in Tracked(rec')]_vars

-----------------------------------------------------------------------------
(* The inductive invariant behind the safety properties.                   *)

Starting == {"spawning", "spawned"}
Stopping == {"loaded", "snapped", "signalled", "finishing"}
Sweeping == {"sweeping", "swept"}
Looking == {"scanning", "found"}          \* for either of them

(* The start times of a record are those of processes of the environment, born
   by now: nobody who comes later can be mistaken for one of them.         *)
Remembered(r) ==
  \A role \in Roles :
    /\ r.born[role] <= clock
    /\ \A p \in Pids : Alive(p) /\ os[p].birth = r.born[role] => os[p].ours
    /\ r.pid[role] = NoPid => r.born[role] = Unborn

PastOK ==
  /\ \A p \in Pids : Alive(p) => os[p].birth <= clock
  /\ \A b \in attempted : b <= clock
  /\ Remembered(rec)

(* What an operation holds at each of its stages.                          *)
CallOK(c) ==
  /\ Remembered(call[c].rec)
  /\ call[c].checked <= clock /\ \A b \in call[c].tried : b <= clock
  /\ call[c].at \in Starting => "start" \in Does[c]
  /\ call[c].at \in Starting \cup {"loaded"} => call[c].tried = {}
  /\ call[c].at \in Stopping \cup Sweeping \cup Looking => "stop" \in Does[c]
  /\ call[c].at \in Stopping => Pid(c) # NoPid
  /\ call[c].at \in Sweeping => Pid(c) = NoPid
  /\ At(c, "snapped") /\ call[c].verdict \notin {"ours", "gone"} => call[c].hit = {}

(* The sweep leaves the numbers on its record alone.                       *)
GuardOK(c) ==
  call[c].at \in Looking /\ Pid(c) = NoPid =>
    /\ \A b \in call[c].seen : b <= clock
    /\ \A role \in Tracked(call[c].rec) : call[c].rec.pid[role] \in call[c].guard
    /\ At(c, "found") => call[c].aim \cap call[c].guard = {}

(* While there is somebody to kill, a process with the number of the tracked
   one is ours, or has come after the second look.                         *)
SecondLookOK(c) ==
  At(c, "signalled") /\ call[c].hit # {} /\ Alive(Pid(c)) =>
    os[Pid(c)].ours \/ os[Pid(c)].birth > call[c].checked

(* Who was to be killed and lives is among those who are looked at again.  *)
TriedOK(c) ==
  \A p \in Pids : Alive(p) /\ os[p].birth \in call[c].tried =>
    \/ p \in call[c].hit
    \/ p = Pid(c) /\ os[p].birth = Born(c)

(* Nobody starts or stops beside another caller who does.                  *)
OneOperator ==
  \A c, d \in Callers :
    Does[c] \cap {"start", "stop"} # {} /\ Does[d] \cap {"start", "stop"} # {} => c = d

(* A status that does not say so leaves nobody alive who was to be killed. *)
Honest(status) == status \notin Sticky => \A b \in attempted : ~Living(b)

(* The record that an operation will write back lacks nothing of what is on
   record by then, but the process a start() replaces, which is not ours; and
   who ran when a sweep set out and lives has a number it leaves alone.    *)
CopyOK(c) ==
  /\ Honest(call[c].rec.status)
  /\ call[c].at \in Looking /\ Pid(c) = NoPid =>
       \A p \in Pids : Alive(p) /\ os[p].birth \in call[c].seen => p \in call[c].guard
  /\ \A r \in Roles :
       \/ At(c, "spawned") /\ r = call[c].role
       \/ rec.pid[r] = NoPid
       \/ rec.pid[r] = call[c].rec.pid[r] /\ rec.born[r] = call[c].rec.born[r]
  /\ call[c].at \in Starting => Recorded(rec, call[c].role) # "ours"

IInv ==
  /\ TypeOK /\ PastOK
  /\ \A c \in Callers : CallOK(c) /\ GuardOK(c) /\ SecondLookOK(c) /\ TriedOK(c)
  /\ OneOperator => Honest(rec.status) /\ \A c \in Callers : ~At(c, "idle") => CopyOK(c)
=============================================================================
