----------------------------- MODULE StateFile -----------------------------
(***************************************************************************)
(* core/yaml_store.py: YamlStateStore and _atomic_write_yaml.              *)
(*                                                                         *)
(* Every operation takes the exclusive lock beside state.yaml, loads the   *)
(* file, and, when it has something to write, writes a temporary file in   *)
(* the same directory and renames it over state.yaml.  Any of the system   *)
(* calls may fail, and a process may be killed between any two of them.    *)
(* A missing state.yaml loads as the empty table.                          *)
(***************************************************************************)
CONSTANTS Ids, Recs, Absent,
          Procs,     \* processes that use the store
          Nobody,    \* the lock is free
          Torn,      \* contents of a file whose dump has not finished
          NoFile     \* the process has left no temporary file

VARIABLES file,      \* contents of state.yaml
          tmp,       \* the temporary file the call of each process has made
          lock,      \* holder of state.yaml.lock
          pc,
          local,     \* the `records` dict loaded and changed under the lock
          outcome    \* how the call that the last step ended has ended

vars == <<file, tmp, lock, pc, local, outcome>>

Tables == [Ids -> Recs \cup {Absent}]
Empty == [id \in Ids |-> Absent]
Tracked(t) == {id \in Ids : t[id] # Absent}

ASSUME FileAssumption ==
  /\ Absent \notin Recs
  /\ Nobody \notin Procs
  /\ Torn \notin Tables /\ NoFile \notin Tables /\ Torn # NoFile

Stages == {"idle", "waiting", "loaded", "changed", "dumping", "dumped", "cleanup"}

TypeOK ==
  /\ file \in Tables \cup {Torn}
  /\ tmp \in [Procs -> Tables \cup {Torn, NoFile}]
  /\ lock \in Procs \cup {Nobody}
  /\ pc \in [Procs -> Stages]
  /\ local \in [Procs -> Tables]
  /\ outcome \in {"none", "ok", "refused", "failed", "littered", "lock_timeout"}

Init ==
  /\ file = Empty
  /\ tmp = [p \in Procs |-> NoFile]
  /\ lock = Nobody
  /\ pc = [p \in Procs |-> "idle"]
  /\ local = [p \in Procs |-> Empty]
  /\ outcome = "none"

-----------------------------------------------------------------------------
(* The lock.                                                               *)

Call(p) ==
  /\ pc[p] = "idle"
  /\ pc' = [pc EXCEPT ![p] = "waiting"]
  /\ outcome' = "none"
  /\ UNCHANGED <<file, tmp, lock, local>>

Faulty_LockFree == TRUE
LockFree == lock = Nobody

Load(p) ==
  /\ pc[p] = "waiting"
  /\ LockFree
  /\ lock' = p
  /\ pc' = [pc EXCEPT ![p] = "loaded"]
  /\ local' = [local EXCEPT ![p] = file]
  /\ outcome' = "none"
  /\ UNCHANGED <<file, tmp>>

Faulty_LockTimeout(p) == FALSE
LockTimeout(p) ==
  /\ pc[p] = "waiting"
  /\ lock # Nobody
  /\ pc' = [pc EXCEPT ![p] = "idle"]
  /\ outcome' = "lock_timeout"
  /\ UNCHANGED <<file, tmp, lock, local>>

Leave(p, how) ==
  /\ lock' = Nobody
  /\ pc' = [pc EXCEPT ![p] = "idle"]
  /\ local' = [local EXCEPT ![p] = Empty]
  /\ outcome' = how

-----------------------------------------------------------------------------
(* The operations, each on the loaded copy.                                *)

Change(p, t) ==
  /\ pc[p] = "loaded"
  /\ pc' = [pc EXCEPT ![p] = "changed"]
  /\ local' = [local EXCEPT ![p] = t]
  /\ outcome' = "none"
  /\ UNCHANGED <<file, tmp, lock>>

(* The call ends without a write: a lookup, a removal of nothing, a pass
   that found nothing to do, or a refusal by ValueError or KeyError.       *)
Done(p, how) ==
  /\ pc[p] = "loaded"
  /\ Leave(p, how)
  /\ UNCHANGED <<file, tmp>>

Add(p, id, r) ==
  IF id \in Tracked(local[p])
    THEN Done(p, "refused")
    ELSE Change(p, [local[p] EXCEPT ![id] = r])

Update(p, id, r) ==
  IF id \in Tracked(local[p])
    THEN Change(p, [local[p] EXCEPT ![id] = r])
    ELSE Done(p, "refused")

Remove(p, id) ==
  IF id \in Tracked(local[p])
    THEN Change(p, [local[p] EXCEPT ![id] = Absent])
    ELSE Done(p, "ok")

Lookup(p) == Done(p, "ok")

(* The critical sections of reconcile and adopt.                           *)
Reconcile(p) ==
  \E t \in Tables :
    /\ Tracked(t) = Tracked(local[p])
    /\ IF t = local[p] THEN Done(p, "ok") ELSE Change(p, t)

Adopt(p) ==
  \E t \in Tables :
    /\ \A id \in Tracked(local[p]) : t[id] = local[p][id]
    /\ IF t = local[p] THEN Done(p, "ok") ELSE Change(p, t)

-----------------------------------------------------------------------------
(* _atomic_write_yaml.                                                     *)

MakeTemp(p) ==
  /\ pc[p] = "changed"
  /\ \/ /\ tmp' = [tmp EXCEPT ![p] = Torn]
        /\ pc' = [pc EXCEPT ![p] = "dumping"]
        /\ outcome' = "none"
        /\ UNCHANGED <<file, lock, local>>
     \/ /\ Leave(p, "failed")          \* mkstemp raises
        /\ UNCHANGED <<file, tmp>>

Dump(p) ==
  /\ pc[p] = "dumping"
  /\ \/ /\ tmp' = [tmp EXCEPT ![p] = local[p]]
        /\ pc' = [pc EXCEPT ![p] = "dumped"]
     \/ /\ pc' = [pc EXCEPT ![p] = "cleanup"]
        /\ UNCHANGED tmp
  /\ outcome' = "none"
  /\ UNCHANGED <<file, lock, local>>

Faulty_ReadyToReplace(p) == pc[p] \in {"dumping", "dumped"}
ReadyToReplace(p) == pc[p] = "dumped"

Replace(p) ==
  /\ ReadyToReplace(p)
  /\ \/ /\ file' = tmp[p]
        /\ tmp' = [tmp EXCEPT ![p] = NoFile]
        /\ Leave(p, "ok")
     \/ /\ pc' = [pc EXCEPT ![p] = "cleanup"]
        /\ outcome' = "none"
        /\ UNCHANGED <<file, tmp, lock, local>>

(* The exception handler: unlink what mkstemp made, then re-raise.         *)
Faulty_Unlinked(p) == tmp
Unlinked(p) == [tmp EXCEPT ![p] = NoFile]

Cleanup(p) ==
  /\ pc[p] = "cleanup"
  /\ \/ /\ tmp' = Unlinked(p)
        /\ Leave(p, "failed")
     \/ /\ tmp' = [tmp EXCEPT ![p] = NoFile]   \* unlink raises: the file is abandoned
        /\ Leave(p, "littered")
  /\ UNCHANGED file

-----------------------------------------------------------------------------
(* A process is killed: the lock goes with it.  Its temporary file stays on
   disk, but mkstemp never makes that name again and nobody looks for it.  *)
Crash(p) ==
  /\ pc[p] # "idle"
  /\ lock' = IF lock = p THEN Nobody ELSE lock
  /\ pc' = [pc EXCEPT ![p] = "idle"]
  /\ local' = [local EXCEPT ![p] = Empty]
  /\ tmp' = [tmp EXCEPT ![p] = NoFile]
  /\ outcome' = "none"
  /\ UNCHANGED file

Operate(p) ==
  \/ \E id \in Ids, r \in Recs : Add(p, id, r) \/ Update(p, id, r)
  \/ \E id \in Ids : Remove(p, id)
  \/ Lookup(p) \/ Reconcile(p) \/ Adopt(p)

Work(p) ==
  Load(p) \/ LockTimeout(p) \/ Operate(p) \/ MakeTemp(p) \/ Dump(p) \/ Replace(p) \/ Cleanup(p)

Next == \E p \in Procs : Call(p) \/ Work(p) \/ Crash(p)

Spec == Init /\ [][Next]_vars

FairSpec == Spec /\ \A p \in Procs : WF_vars(Work(p))

-----------------------------------------------------------------------------
(* state.yaml is complete at every moment, whoever is killed while writing:
   a process that starts now can load it.                                  *)
NeverTorn == file # Torn

(* A call that returns to its caller, by an exception too, has left no
   temporary file behind unless the very unlink failed.                    *)
NoLitter ==
  [][\A p \in Procs : lock = p /\ outcome' \in {"ok", "refused", "failed"}
                        => tmp'[p] = NoFile]_vars

(* state.yaml changes only by whole operations, each decided on the table it
   is applied to: no operation of one process is lost to another's write.  *)
Table == INSTANCE RecordTable
ImplementsRecordTable == Table!RSpec

(* Every call returns, with a lock timeout at worst.                       *)
CallsReturn == \A p \in Procs : pc[p] # "idle" ~> pc[p] = "idle"

-----------------------------------------------------------------------------
(* The inductive invariant behind the proofs.                              *)

\* The tables one operation can make of t.
OneOperation(t, u) ==
  \/ \E id \in Ids, r \in Recs : t[id] = Absent /\ u = [t EXCEPT ![id] = r]
  \/ \E id \in Ids, r \in Recs : t[id] # Absent /\ u = [t EXCEPT ![id] = r]
  \/ \E id \in Ids : u = [t EXCEPT ![id] = Absent]
  \/ Tracked(u) = Tracked(t)
  \/ \A id \in Tracked(t) : u[id] = t[id]

Writing == {"changed", "dumping", "dumped"}

InsideOK(p) ==
  /\ pc[p] \notin {"idle", "waiting"} => lock = p
  /\ pc[p] = "loaded" => local[p] = file
  /\ pc[p] \in Writing => OneOperation(file, local[p])
  /\ pc[p] = "dumped" => tmp[p] = local[p]

(* A process that has loaded the file still sees it as it is, and what it
   is about to rename over it is one operation away.                       *)
IInv == TypeOK /\ NeverTorn /\ \A p \in Procs : InsideOK(p)
=============================================================================
