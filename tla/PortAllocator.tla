--------------------------- MODULE PortAllocator ---------------------------
(***************************************************************************)
(* core/port_allocator.py and the ports.yaml half of core/yaml_store.py.   *)
(*                                                                         *)
(* Several processes (MCP server instances) share one ports.yaml file and  *)
(* its lock file.  Each call takes the lock, loads the table, works on its *)
(* copy and writes the copy back; a claim works in two passes, pinned      *)
(* slots first, probing the operating system once per candidate.  A        *)
(* process may die at any point; its lock dies with it.                    *)
(*                                                                         *)
(* The order of the slots inside one pass is left open (the code takes the *)
(* order of the contract), and the shuffled search of one auto slot is one *)
(* step: it ends with some candidate that is neither taken nor busy, or    *)
(* with none.                                                              *)
(***************************************************************************)
CONSTANTS Owners, Slots, Ports, NoPort,
          AutoPorts,   \* the configured port range
          Procs,       \* processes that use the file
          Nobody       \* no process, no owner: the lock is free, no call is open

VARIABLES table,    \* contents of ports.yaml
          lock,     \* holder of ports.yaml.lock
          busy,     \* ports some program listens on
          pc,       \* where each process is
          owner,    \* worktree id of the call
          slots,    \* slots of the call (allocate)
          pins,     \* pinned ports of the call (allocate)
          drop,     \* keys to delete (release, reconcile)
          local,    \* the `allocated` dict loaded under the lock
          taken,    \* the `taken` set of allocate
          done,     \* slots whose port has been chosen
          outcome   \* how the call that the last step ended has ended

request == <<owner, slots, pins, drop>>
work == <<local, taken, done>>
vars == <<table, lock, busy, pc, owner, slots, pins, drop, local, taken, done, outcome>>

Keys == Owners \X Slots
Entry == Ports \cup {NoPort}
Key(p, s) == <<owner[p], s>>
Pinned(p) == {s \in slots[p] : pins[p][s] # NoPort}
Outcomes == {"none", "ok", "taken", "in_use", "exhausted", "lock_timeout"}

EmptyTable == [k \in Keys |-> NoPort]
NoPins == [s \in Slots |-> NoPort]

ASSUME PortAssumption ==
  /\ NoPort \notin Ports
  /\ Nobody \notin Procs \cup Owners
  /\ AutoPorts \subseteq Ports

(* The contract schema rejects two slots pinned to one port. *)
UniquePins(S) ==
  {q \in [Slots -> Entry] :
     /\ \A s \in Slots \ S : q[s] = NoPort
     /\ \A s, t \in S : q[s] = q[t] /\ q[s] # NoPort => s = t}

TypeOK ==
  /\ table \in [Keys -> Entry]
  /\ lock \in Procs \cup {Nobody}
  /\ busy \in SUBSET Ports
  /\ pc \in [Procs -> {"idle", "waiting", "claiming", "freeing"}]
  /\ owner \in [Procs -> Owners \cup {Nobody}]
  /\ slots \in [Procs -> SUBSET Slots]
  /\ pins \in [Procs -> [Slots -> Entry]]
  /\ drop \in [Procs -> SUBSET Keys]
  /\ local \in [Procs -> [Keys -> Entry]]
  /\ taken \in [Procs -> SUBSET Ports]
  /\ done \in [Procs -> SUBSET Slots]
  /\ outcome \in Outcomes

Init ==
  /\ table = EmptyTable
  /\ lock = Nobody
  /\ busy = {}
  /\ pc = [p \in Procs |-> "idle"]
  /\ owner = [p \in Procs |-> Nobody]
  /\ slots = [p \in Procs |-> {}]
  /\ pins = [p \in Procs |-> NoPins]
  /\ drop = [p \in Procs |-> {}]
  /\ local = [p \in Procs |-> EmptyTable]
  /\ taken = [p \in Procs |-> {}]
  /\ done = [p \in Procs |-> {}]
  /\ outcome = "none"

-----------------------------------------------------------------------------
(* Calls.  A call waits for the lock; what it asks for depends on nothing in
   the table, so it is drawn when the lock is taken.  The request, and all
   the call has in memory, is forgotten when the call is over.             *)

Forget(p) ==
  /\ pc' = [pc EXCEPT ![p] = "idle"]
  /\ owner' = [owner EXCEPT ![p] = Nobody]
  /\ slots' = [slots EXCEPT ![p] = {}]
  /\ pins' = [pins EXCEPT ![p] = NoPins]
  /\ drop' = [drop EXCEPT ![p] = {}]
  /\ local' = [local EXCEPT ![p] = EmptyTable]
  /\ taken' = [taken EXCEPT ![p] = {}]
  /\ done' = [done EXCEPT ![p] = {}]

Call(p) ==
  /\ pc[p] = "idle"
  /\ pc' = [pc EXCEPT ![p] = "waiting"]
  /\ outcome' = "none"
  /\ UNCHANGED <<table, lock, busy, request, work>>

LockTimeout(p) ==
  /\ pc[p] = "waiting"
  /\ lock # Nobody
  /\ Forget(p)
  /\ outcome' = "lock_timeout"
  /\ UNCHANGED <<table, lock, busy>>

Faulty_LockFree == TRUE
LockFree == lock = Nobody

(* Entering the `with` block: the lock is taken and the table is loaded.   *)
Enter(p, stage) ==
  /\ pc[p] = "waiting"
  /\ LockFree
  /\ lock' = p
  /\ pc' = [pc EXCEPT ![p] = stage]
  /\ local' = [local EXCEPT ![p] = table]
  /\ done' = [done EXCEPT ![p] = {}]
  /\ outcome' = "none"
  /\ UNCHANGED <<table, busy>>

(* `taken` leaves out what the requested slots hold themselves.            *)
ForeignPorts(o, S) == {table[k] : k \in Keys \ ({o} \X S)} \ {NoPort}

BeginAllocate(p, o, S, q) ==
  /\ S # {}
  /\ Enter(p, "claiming")
  /\ owner' = [owner EXCEPT ![p] = o]
  /\ slots' = [slots EXCEPT ![p] = S]
  /\ pins' = [pins EXCEPT ![p] = q]
  /\ taken' = [taken EXCEPT ![p] = ForeignPorts(o, S)]
  /\ UNCHANGED drop

BeginFree(p, K) ==
  /\ Enter(p, "freeing")
  /\ drop' = [drop EXCEPT ![p] = K]
  /\ UNCHANGED <<owner, slots, pins, taken>>

BeginRelease(p, o, S) == BeginFree(p, {o} \X S)

(* Phase 2 of reconcile: keys whose owner is not among the records it saw
   in phase 1, and the keys of undeclared slots it pruned there.          *)
BeginSweep(p, survivors, stale) ==
  BeginFree(p, {k \in Keys : k[1] \notin survivors} \cup (survivors \X stale))

(* Leaving the `with` block, normally or by an exception.                  *)
Leave(p, how) ==
  /\ Forget(p)
  /\ lock' = Nobody
  /\ outcome' = how

-----------------------------------------------------------------------------
(* allocate, pass 1: the pinned slots.                                     *)

Choose(p, s, port) ==
  /\ local' = [local EXCEPT ![p][Key(p, s)] = port]
  /\ taken' = [taken EXCEPT ![p] = @ \cup {port}]
  /\ done' = [done EXCEPT ![p] = @ \cup {s}]
  /\ outcome' = "none"
  /\ UNCHANGED <<table, lock, busy, pc, request>>

Refuse(p, how) ==
  /\ Leave(p, how)
  /\ UNCHANGED <<table, busy>>

(* The slot holds the pin already: no probe, so a service of ours that
   listens there is no obstacle; the port still has to join `taken`.       *)
HoldsPin(p, s) == local[p][Key(p, s)] = pins[p][s]

Faulty_KeepPin(p, s) ==
  /\ done' = [done EXCEPT ![p] = @ \cup {s}]
  /\ outcome' = "none"
  /\ UNCHANGED <<table, lock, busy, pc, request, local, taken>>
KeepPin(p, s) == Choose(p, s, pins[p][s])

ClaimPin(p, s) ==
  /\ pc[p] = "claiming"
  /\ s \in Pinned(p) \ done[p]
  /\ \/ /\ HoldsPin(p, s)
        /\ KeepPin(p, s)
     \/ /\ ~HoldsPin(p, s)
        /\ pins[p][s] \in taken[p]
        /\ Refuse(p, "taken")
     \/ /\ ~HoldsPin(p, s)
        /\ pins[p][s] \in busy \ taken[p]
        /\ Refuse(p, "in_use")
     \/ /\ ~HoldsPin(p, s)
        /\ pins[p][s] \notin taken[p] \cup busy
        /\ Choose(p, s, pins[p][s])

-----------------------------------------------------------------------------
(* allocate, pass 2: the other slots, once every pin is claimed.           *)

Candidates(p) == AutoPorts \ (taken[p] \cup busy)

Faulty_PinsClaimed(p) == TRUE
PinsClaimed(p) == Pinned(p) \subseteq done[p]

Faulty_Exhausted(p) == FALSE
Exhausted(p) == Candidates(p) = {}

ClaimAuto(p, s) ==
  /\ pc[p] = "claiming"
  /\ PinsClaimed(p)
  /\ s \in slots[p] \ (Pinned(p) \cup done[p])
  /\ \/ \E port \in Candidates(p) : Choose(p, s, port)
     \/ /\ Exhausted(p)
        /\ Refuse(p, "exhausted")

(* The table is written once, after the last slot.                         *)
Faulty_AllChosen(p) == done[p] # {}
AllChosen(p) == done[p] = slots[p]

SaveClaim(p) ==
  /\ pc[p] = "claiming"
  /\ AllChosen(p)
  /\ table' = local[p]
  /\ Leave(p, "ok")
  /\ UNCHANGED busy

-----------------------------------------------------------------------------
(* release, and phase 2 of reconcile: delete the keys, save if any went.   *)

SaveFree(p) ==
  /\ pc[p] = "freeing"
  /\ table' = [k \in Keys |-> IF k \in drop[p] THEN NoPort ELSE local[p][k]]
  /\ Leave(p, "ok")
  /\ UNCHANGED busy

-----------------------------------------------------------------------------
(* The environment: a process dies; programs open and close ports.         *)

Crash(p) ==
  /\ pc[p] # "idle"
  /\ Forget(p)
  /\ lock' = IF lock = p THEN Nobody ELSE lock
  /\ outcome' = "none"
  /\ UNCHANGED <<table, busy>>

Listen(port) ==
  /\ busy' = IF port \in busy THEN busy \ {port} ELSE busy \cup {port}
  /\ outcome' = "none"
  /\ UNCHANGED <<table, lock, pc, request, work>>

Begin(p) ==
  \/ \E o \in Owners, S \in SUBSET Slots : \E q \in UniquePins(S) : BeginAllocate(p, o, S, q)
  \/ \E o \in Owners, S \in SUBSET Slots : BeginRelease(p, o, S)
  \/ \E survivors \in SUBSET Owners, stale \in SUBSET Slots : BeginSweep(p, survivors, stale)

Work(p) ==
  \/ Begin(p) \/ LockTimeout(p) \/ SaveClaim(p) \/ SaveFree(p)
  \/ \E s \in Slots : ClaimPin(p, s) \/ ClaimAuto(p, s)

Next ==
  \/ \E p \in Procs : Call(p) \/ Work(p) \/ Crash(p)
  \/ \E port \in Ports : Listen(port)

Spec == Init /\ [][Next]_vars

(* A call that was made runs on; nobody has to make one.                   *)
FairSpec == Spec /\ \A p \in Procs : WF_vars(Work(p))

-----------------------------------------------------------------------------
(* Properties.                                                             *)

(* No two keys of ports.yaml hold one port: two environments, or two slots
   of one environment, are never sent to the same port.  allocate's
   exclusive read-modify-write and its `taken` set are what ensures it.    *)
NoSharedPort ==
  \A k, l \in Keys : table[k] = table[l] /\ table[k] # NoPort => k = l

(* A pin is refused for the reason given.  "taken": somebody else's key holds
   it, it was not drawn by an auto slot of the same call (pass 1 before pass 2
   is load-bearing, as allocate's comment says).  "in_use": it is not our own
   service that listens on the pin its slot already holds.                 *)
RefusalsAreTrue ==
  [][\A p \in Procs :
       /\ outcome' = "taken" /\ lock = p =>
            \E s \in Pinned(p) : pins[p][s] \in ForeignPorts(owner[p], slots[p])
       /\ outcome' = "in_use" /\ lock = p =>
            \E s \in Pinned(p) : pins[p][s] \in busy /\ table[Key(p, s)] # pins[p][s]]_vars

(* ports.yaml changes only by whole claims and by releases: a call that
   fails, times out or dies half-way leaves the table as it was.           *)
Table == INSTANCE PortTable
ImplementsPortTable == Table!TSpec

(* Every call returns, if only with a lock timeout.                        *)
CallsReturn == \A p \in Procs : pc[p] # "idle" ~> pc[p] = "idle"

-----------------------------------------------------------------------------
(* The inductive invariant behind the proofs: who is inside the `with` block
   holds the lock; a claim's copy differs from the file only in the slots it
   has chosen, which are outside what anybody else holds.                  *)
Own(p) == {owner[p]} \X slots[p]

HolderOK == \A p \in Procs : pc[p] \in {"claiming", "freeing"} => lock = p

RequestOK(p) ==
  /\ owner[p] \in Owners
  /\ pins[p] \in UniquePins(slots[p])
  /\ done[p] \subseteq slots[p]
  /\ Pinned(p) \subseteq done[p] \/ done[p] \subseteq Pinned(p)

CopyOK(p) ==
  \A k \in Keys :
    (\A s \in done[p] : k # Key(p, s)) => local[p][k] = table[k]

TakenOK(p) ==
  /\ ForeignPorts(owner[p], slots[p]) \subseteq taken[p]
  /\ \A s \in done[p] : local[p][Key(p, s)] \in taken[p]
  /\ \A x \in taken[p] : \/ x \in ForeignPorts(owner[p], slots[p])
                        \/ \E s \in done[p] : x = local[p][Key(p, s)]

ChosenOK(p) ==
  /\ \A s \in done[p] : local[p][Key(p, s)] \notin ForeignPorts(owner[p], slots[p])
  /\ \A s, t \in done[p] : local[p][Key(p, s)] = local[p][Key(p, t)] => s = t
  /\ \A s \in done[p] \cap Pinned(p) : local[p][Key(p, s)] = pins[p][s]

(* A claim in progress never has a port of somebody else, nor one port for
   two of its slots, in its copy of the table.                             *)
ClaimOK ==
  \A p \in Procs :
    pc[p] = "claiming" => RequestOK(p) /\ CopyOK(p) /\ TakenOK(p) /\ ChosenOK(p)

FreeOK == \A p \in Procs : pc[p] = "freeing" => local[p] = table

IInv == TypeOK /\ NoSharedPort /\ HolderOK /\ ClaimOK /\ FreeOK
=============================================================================
