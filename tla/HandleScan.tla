----------------------------- MODULE HandleScan -----------------------------
(***************************************************************************)
(* core/process_lifecycle.py: the scan of the handle table of Windows      *)
(* (_win_handle_holders) and the worker threads that ask it and psutil     *)
(* questions which may never be answered (_BoundedQueryWorker).            *)
(*                                                                         *)
(* A question is given up after a while; its thread stays in the call, is  *)
(* counted as long as it does, and closes the handle it asks about when it *)
(* comes back.  Scans share one worker under a lock; a bounded psutil call *)
(* takes a worker of its own and counts in the same cell.                  *)
(***************************************************************************)
EXTENDS Naturals, FiniteSets, Sequences

CONSTANTS Threads,       \* of the program that scan
          Callers,       \* those of them that call psutil
          MaxThreads,    \* bound on the query threads that are alive at once
          Objects,       \* kernel objects that other processes have handles to
          TypeOf,        \* the type index of each
          HolderOf,      \* the process that has the handle
          MaxWedged,     \* _MAX_WEDGED_HANDLE_WORKERS
          MaxKnown,      \* _MAX_REMEMBERED_WEDGED_OBJECTS
          Nobody         \* no thread, worker or object

VARIABLES lock,          \* the thread that has _handle_scan_lock
          persistent,    \* _persistent_query_worker
          worker,        \* the query threads
          slots,         \* _wedged_worker_slots
          known,         \* _wedged_object_keys, oldest first
          duplicates,    \* handles duplicated into this process and not closed
          scan,          \* what each thread is doing
          evicted        \* history: the objects forgotten again

scanVars == <<lock, persistent, worker, slots, known, duplicates, scan, evicted>>

Workers == 1..MaxThreads

ASSUME ScanAssumption ==
  /\ IsFiniteSet(Threads)
  /\ MaxThreads \in Nat /\ MaxWedged \in Nat /\ MaxKnown \in Nat
  /\ Nobody \notin Threads /\ Nobody \notin Workers /\ Nobody \notin Objects

Types == {TypeOf[o] : o \in Objects}
Holders == {HolderOf[o] : o \in Objects}
Held(p) == {o \in Objects : HolderOf[o] = p}

(* For a scan: the objects to look at, what it knows of each type, its tags.
   The cache of types has None for a type that was given up ("suppressed") and
   for one whose query was answered without a name ("unnamed").  History: the
   objects that are settled, because the scan has an answer about them or
   because the system refuses to give one.                                 *)
Scan == [at: {"idle", "admitted", "picking", "type", "name", "retired", "done",
              "calling"},
         todo: SUBSET Objects, object: Objects \cup {Nobody},
         type: [Types -> {"unset", "file", "other", "unnamed", "suppressed"}],
         settled: SUBSET Objects,
         tags: SUBSET {"busy", "capped", "truncated", "type_unresolved"},
         capped: BOOLEAN, worker: Workers \cup {Nobody}]
Worker == [state: {"none", "parked", "busy", "answered", "wedged"},
           for: {"scan", "call"}, object: Objects \cup {Nobody}]

NoScan == [at |-> "idle", todo |-> {}, object |-> Nobody, type |-> [t \in Types |-> "unset"],
           settled |-> {}, tags |-> {}, capped |-> FALSE, worker |-> Nobody]
NoWorker == [state |-> "none", for |-> "scan", object |-> Nobody]
Parked == [NoWorker EXCEPT !.state = "parked"]

ScanTypeOK ==
  /\ lock \in Threads \cup {Nobody}
  /\ persistent \in Workers \cup {Nobody}
  /\ worker \in [Workers -> Worker]
  /\ slots \in Nat /\ duplicates \in Nat
  /\ known \in Seq(Objects)
  /\ scan \in [Threads -> Scan]
  /\ evicted \in SUBSET Objects

ScanInit ==
  /\ lock = Nobody /\ persistent = Nobody
  /\ worker = [w \in Workers |-> NoWorker]
  /\ slots = 0 /\ duplicates = 0
  /\ known = <<>>
  /\ scan = [c \in Threads |-> NoScan]
  /\ evicted = {}

-----------------------------------------------------------------------------
(* Helpers.                                                                *)

Doing(c, stage) == scan[c].at = stage
Alive == {w \in Workers : worker[w].state # "none"}
Fresh(w) == w \notin Alive /\ \A v \in Workers \ Alive : w <= v
Known(o) == \E i \in 1..Len(known) : known[i] = o
SlotAvailable == slots < MaxWedged

(* A scan with tags claims nothing of what it has looked at. *)
Finish(c, tags) ==
  LET all == scan[c].tags \cup tags
  IN scan' = [scan EXCEPT ![c] =
                [NoScan EXCEPT !.at = "done", !.tags = all,
                               !.settled = IF all = {} THEN scan[c].settled ELSE {}]]

Ask(w, for, o) == worker' = [worker EXCEPT ![w] = [state |-> "busy", for |-> for, object |-> o]]

(* _remember_wedging_handle: first in, first out. *)
Remember(o) ==
  LET longer == IF Known(o) THEN known ELSE Append(known, o)
  IN IF Len(longer) > MaxKnown
     THEN known' = Tail(longer) /\ evicted' = evicted \cup {Head(longer)}
     ELSE known' = longer /\ UNCHANGED evicted

(* submit() gives up: the thread is in the call and nothing gets it out.   *)
Retire(w) ==
  /\ worker[w].state = "busy"
  /\ worker' = [worker EXCEPT ![w].state = "wedged"]
  /\ slots' = slots + 1

-----------------------------------------------------------------------------
(* A scan.                                                                 *)

ScanBusy(c) ==
  /\ Doing(c, "idle") /\ lock # Nobody
  /\ Finish(c, {"busy"})
  /\ UNCHANGED <<lock, persistent, worker, slots, known, duplicates, evicted>>

LockScan(c) ==
  /\ Doing(c, "idle") /\ lock = Nobody
  /\ lock' = c
  /\ scan' = [scan EXCEPT ![c] = [NoScan EXCEPT !.at = "admitted", !.todo = Objects]]
  /\ UNCHANGED <<persistent, worker, slots, known, duplicates, evicted>>

(* _acquire_scan_worker *)
Admit(c) ==
  /\ Doing(c, "admitted")
  /\ \/ /\ persistent # Nobody
        /\ scan' = [scan EXCEPT ![c].at = "picking", ![c].worker = persistent]
        /\ UNCHANGED <<persistent, worker, lock>>
     \/ /\ persistent = Nobody /\ SlotAvailable
        /\ \E w \in Workers :
             /\ Fresh(w)
             /\ persistent' = w
             /\ worker' = [worker EXCEPT ![w] = Parked]
             /\ scan' = [scan EXCEPT ![c].at = "picking", ![c].worker = w]
        /\ UNCHANGED lock
     \/ /\ persistent = Nobody /\ ~SlotAvailable
        /\ Finish(c, {"capped"})
        /\ lock' = Nobody
        /\ UNCHANGED <<persistent, worker>>
  /\ UNCHANGED <<slots, known, duplicates, evicted>>

(* OpenProcess is refused: none of the handles of the process is looked at,
   and no tag says so.                                                     *)
Denied(c, p) ==
  /\ Doing(c, "picking") /\ Held(p) # {} /\ Held(p) \subseteq scan[c].todo
  /\ scan' = [scan EXCEPT ![c].todo = @ \ Held(p), ![c].settled = @ \cup Held(p)]
  /\ UNCHANGED <<lock, persistent, worker, slots, known, duplicates, evicted>>

(* An object known to wedge, or of a type that is no file, that has no name or
   that was given up.                                                      *)
PassOver(c, o) ==
  LET type == scan[c].type[TypeOf[o]]
  IN /\ Doing(c, "picking") /\ o \in scan[c].todo
     /\ Known(o) \/ type \in {"other", "unnamed", "suppressed"}
     /\ scan' = [scan EXCEPT
          ![c].todo = @ \ {o},
          ![c].settled = IF type = "suppressed" \/ Known(o) THEN @ ELSE @ \cup {o}]
     /\ UNCHANGED <<lock, persistent, worker, slots, known, duplicates, evicted>>

(* DuplicateHandle fails: the handle is skipped, untagged as well. *)
NotDuplicated(c, o) ==
  /\ Doing(c, "picking") /\ o \in scan[c].todo
  /\ ~Known(o) /\ scan[c].type[TypeOf[o]] \in {"unset", "file"}
  /\ scan' = [scan EXCEPT ![c].todo = @ \ {o}, ![c].settled = @ \cup {o}]
  /\ UNCHANGED <<lock, persistent, worker, slots, known, duplicates, evicted>>

(* Its handle is duplicated, and its type asked for unless it is known. *)
Query(c, o) ==
  LET type == scan[c].type[TypeOf[o]]
  IN /\ Doing(c, "picking") /\ o \in scan[c].todo
     /\ ~Known(o) /\ type \in {"unset", "file"}
     /\ duplicates' = duplicates + 1
     /\ Ask(scan[c].worker, "scan", o)
     /\ scan' = [scan EXCEPT ![c].at = IF type = "unset" THEN "type" ELSE "name",
                             ![c].todo = @ \ {o}, ![c].object = o]
     /\ UNCHANGED <<lock, persistent, slots, known, evicted>>

(* The call comes back in time, also while submit() is about to give up. *)
Answer(w) ==
  /\ worker[w].state = "busy"
  /\ worker' = [worker EXCEPT ![w].state = "answered"]
  /\ UNCHANGED <<lock, persistent, slots, known, duplicates, scan, evicted>>

(* A file, something else, or an answer without a name, which the cache keeps
   and no tag tells.                                                       *)
TypeKnown(c) ==
  LET o == scan[c].object
      w == scan[c].worker
  IN /\ Doing(c, "type") /\ worker[w].state = "answered"
     /\ \/ /\ scan' = [scan EXCEPT ![c].at = "name", ![c].type[TypeOf[o]] = "file"]
           /\ Ask(w, "scan", o)
           /\ UNCHANGED duplicates
        \/ /\ \E type \in {"other", "unnamed"} :
                scan' = [scan EXCEPT ![c].at = "picking", ![c].type[TypeOf[o]] = type,
                                     ![c].object = Nobody, ![c].settled = @ \cup {o}]
           /\ worker' = [worker EXCEPT ![w] = Parked]
           /\ duplicates' = duplicates - 1
     /\ UNCHANGED <<lock, persistent, slots, known, evicted>>

(* A path elsewhere or no path; or one in the worktree: its process is found,
   and its other handles do not matter.                                    *)
NameKnown(c) ==
  LET o == scan[c].object
  IN /\ Doing(c, "name") /\ worker[scan[c].worker].state = "answered"
     /\ \/ scan' = [scan EXCEPT ![c].at = "picking", ![c].object = Nobody,
                                 ![c].settled = @ \cup {o}]
        \/ scan' = [scan EXCEPT ![c].at = "picking", ![c].object = Nobody,
                                 ![c].todo = @ \ Held(HolderOf[o]),
                                 ![c].settled = @ \cup Held(HolderOf[o])]
     /\ worker' = [worker EXCEPT ![scan[c].worker] = Parked]
     /\ duplicates' = duplicates - 1
     /\ UNCHANGED <<lock, persistent, slots, known, evicted>>

(* The handle is the worker's from now on. *)
Faulty_GiveUpQuery(c) ==
  LET o == scan[c].object
  IN /\ Doing(c, "type") \/ Doing(c, "name")
     /\ Retire(scan[c].worker)
     /\ Remember(o)
     /\ duplicates' = duplicates - 1
     /\ scan' = [scan EXCEPT
          ![c].at = "retired", ![c].object = Nobody, ![c].capped = slots + 1 >= MaxWedged,
          ![c].type[TypeOf[o]] = IF Doing(c, "type") THEN "suppressed" ELSE @,
          ![c].tags = IF Doing(c, "type") THEN @ \cup {"type_unresolved"} ELSE @]
     /\ UNCHANGED <<lock, persistent>>
Faulty_GiveUpType(c) ==
  LET o == scan[c].object
  IN /\ Doing(c, "type") \/ Doing(c, "name")
     /\ Retire(scan[c].worker)
     /\ Remember(o)
     /\ scan' = [scan EXCEPT
          ![c].at = "retired", ![c].object = Nobody, ![c].capped = slots + 1 >= MaxWedged,
          ![c].type[TypeOf[o]] = IF Doing(c, "type") THEN "suppressed" ELSE @]
     /\ UNCHANGED <<lock, persistent, duplicates>>
GiveUpQuery(c) ==
  LET o == scan[c].object
  IN /\ Doing(c, "type") \/ Doing(c, "name")
     /\ Retire(scan[c].worker)
     /\ Remember(o)
     /\ scan' = [scan EXCEPT
          ![c].at = "retired", ![c].object = Nobody, ![c].capped = slots + 1 >= MaxWedged,
          ![c].type[TypeOf[o]] = IF Doing(c, "type") THEN "suppressed" ELSE @,
          ![c].tags = IF Doing(c, "type") THEN @ \cup {"type_unresolved"} ELSE @]
     /\ UNCHANGED <<lock, persistent, duplicates>>

(* _replace_scan_worker, unless submit() itself found no room. *)
Faulty_Replace(c) ==
  /\ Doing(c, "retired")
  /\ \E w \in Workers :
       /\ Fresh(w)
       /\ persistent' = w
       /\ worker' = [worker EXCEPT ![w] = Parked]
       /\ scan' = [scan EXCEPT ![c].at = "picking", ![c].worker = w]
  /\ UNCHANGED <<lock, slots, known, duplicates, evicted>>
Replace(c) ==
  /\ Doing(c, "retired") /\ ~scan[c].capped /\ SlotAvailable
  /\ \E w \in Workers :
       /\ Fresh(w)
       /\ persistent' = w
       /\ worker' = [worker EXCEPT ![w] = Parked]
       /\ scan' = [scan EXCEPT ![c].at = "picking", ![c].worker = w]
  /\ UNCHANGED <<lock, slots, known, duplicates, evicted>>

StopCapped(c) ==
  /\ Doing(c, "retired") /\ (scan[c].capped \/ ~SlotAvailable)
  /\ persistent' = Nobody
  /\ lock' = Nobody
  /\ Finish(c, {"capped"})
  /\ UNCHANGED <<worker, slots, known, duplicates, evicted>>

EndScan(c) ==
  /\ Doing(c, "picking")
  /\ Finish(c, IF scan[c].todo = {} THEN {} ELSE {"truncated"})
  /\ lock' = Nobody
  /\ UNCHANGED <<persistent, worker, slots, known, duplicates, evicted>>

Return(c) ==
  /\ Doing(c, "done")
  /\ scan' = [scan EXCEPT ![c] = NoScan]
  /\ UNCHANGED <<lock, persistent, worker, slots, known, duplicates, evicted>>

-----------------------------------------------------------------------------
(* _bounded_call: a psutil read on a worker of its own.                    *)

BoundedCall(c, w) ==
  /\ c \in Callers /\ Doing(c, "idle") /\ Fresh(w)
  /\ Ask(w, "call", Nobody)
  /\ scan' = [scan EXCEPT ![c].at = "calling", ![c].worker = w]
  /\ UNCHANGED <<lock, persistent, slots, known, duplicates, evicted>>

CallReturns(c) ==
  /\ Doing(c, "calling") /\ worker[scan[c].worker].state = "answered"
  /\ worker' = [worker EXCEPT ![scan[c].worker] = NoWorker]
  /\ scan' = [scan EXCEPT ![c] = NoScan]
  /\ UNCHANGED <<lock, persistent, slots, known, duplicates, evicted>>

GiveUpCall(c) ==
  /\ Doing(c, "calling")
  /\ Retire(scan[c].worker)
  /\ scan' = [scan EXCEPT ![c] = NoScan]
  /\ UNCHANGED <<lock, persistent, known, duplicates, evicted>>

(* The end of _run: a call that was given up returns after all. *)
Straggler(w) ==
  /\ worker[w].state = "wedged"
  /\ duplicates' = IF worker[w].for = "scan" THEN duplicates - 1 ELSE duplicates
  /\ slots' = slots - 1
  /\ worker' = [worker EXCEPT ![w] = NoWorker]
  /\ UNCHANGED <<lock, persistent, known, scan, evicted>>

ScanStep(c) ==
  \/ ScanBusy(c) \/ LockScan(c) \/ Admit(c)
  \/ \E p \in Holders : Denied(c, p)
  \/ \E o \in Objects : PassOver(c, o) \/ NotDuplicated(c, o) \/ Query(c, o)
  \/ TypeKnown(c) \/ NameKnown(c) \/ GiveUpQuery(c) \/ Replace(c) \/ StopCapped(c)
  \/ EndScan(c) \/ Return(c)
  \/ CallReturns(c) \/ GiveUpCall(c) \/ \E w \in Workers : BoundedCall(c, w)
ScanNext ==
  \/ \E c \in Threads : ScanStep(c)
  \/ \E w \in Workers : Answer(w) \/ Straggler(w)

ScanSpec == ScanInit /\ [][ScanNext]_scanVars

-----------------------------------------------------------------------------
(* Properties.                                                             *)

Stuck == {w \in Workers : worker[w].state = "wedged"}

(* The cell counts the threads that are stuck in a call, no more and no less,
   whichever way give-ups and late answers interleave.                     *)
SlotsExact == slots = Cardinality(Stuck)

(* A duplicated handle is closed once: by its scan, or by the thread that is
   still in a query on it, and by neither while the query runs (#90).      *)
HandlesAccounted ==
  duplicates = Cardinality({c \in Threads : Doing(c, "type") \/ Doing(c, "name")})
               + Cardinality({w \in Stuck : worker[w].for = "scan"})

(* The threads of scans, the one they share among them, stay within the cap,
   hence below _HANDLE_SCAN_MAX_LIVE_WORKERS, however long the program runs
   (#148).  The threads of bounded psutil calls do not.                    *)
ScanThreadsBounded == Cardinality({w \in Alive : worker[w].for = "scan"}) <= MaxWedged

(* One kernel object costs one thread as long as it is remembered (#121).  *)
OneThreadPerObject ==
  \A v, w \in Stuck :
    worker[v].for = "scan" /\ worker[v].object = worker[w].object /\ v # w
      => worker[v].object \in evicted

(* What a query takes is given back once: its slot and its handle. *)
NothingLeaks == SlotsExact /\ HandlesAccounted

(* Objects that wedge for ever do not use up threads without end. *)
ThreadsBounded == ScanThreadsBounded /\ OneThreadPerObject

(* A scan that says it is complete has settled every object but those that
   wedged a query themselves (#154).  Settled is also what the system refuses,
   and what no tag tells: a process that cannot be opened, a handle that cannot
   be duplicated, an object without a name, a type without one.            *)
CompleteScanLooked ==
  \A c \in Threads : Doing(c, "done") /\ scan[c].tags = {} =>
    \A o \in Objects : o \in scan[c].settled \/ Known(o) \/ o \in evicted

-----------------------------------------------------------------------------
(* The inductive invariant behind the safety properties.                   *)

Asking(c) == Doing(c, "type") \/ Doing(c, "name")
Recalled(o) == Known(o) \/ o \in evicted
Serving(w) == worker[w].state \in {"parked", "busy", "answered"}
NobodyRetired == \A c \in Threads : ~Doing(c, "retired")

(* Only the thread that has the lock is inside a scan. *)
ScanLockOK ==
  \A c \in Threads :
    scan[c].at \in {"admitted", "picking", "type", "name", "retired"} => lock = c

(* The one worker of the scans is there between two queries, and none is
   between the loss of a worker and its replacement.                       *)
SharedWorkerOK ==
  /\ \A w \in Workers : Serving(w) /\ worker[w].for = "scan" => w = persistent /\ NobodyRetired
  /\ persistent # Nobody /\ NobodyRetired =>
       /\ Serving(persistent) /\ worker[persistent].for = "scan"
       /\ (\A c \in Threads : ~Asking(c)) => worker[persistent].state = "parked"

(* What a thread holds: the scan worker, or one of its own; an object that is
   asked about is not among those that have wedged a query.                *)
HoldingsOK(c) ==
  /\ Doing(c, "picking") \/ Asking(c) => scan[c].worker = persistent /\ persistent # Nobody
  /\ Asking(c) =>
       /\ scan[c].object \in Objects /\ ~Known(scan[c].object)
       /\ worker[persistent].object = scan[c].object
       /\ worker[persistent].state \in {"busy", "answered"}
  /\ Doing(c, "calling") =>
       /\ scan[c].worker \in Workers
       /\ worker[scan[c].worker].for = "call"
       /\ worker[scan[c].worker].state \in {"busy", "answered"}
       /\ \A d \in Threads \ {c} : Doing(d, "calling") => scan[d].worker # scan[c].worker

(* Without the tag that says so, no type has been given up.  Without any tag,
   whatever is no longer to be looked at is settled, wedged a query, or is
   being asked about.                                                      *)
LookedOK(c) ==
  /\ "type_unresolved" \notin scan[c].tags => \A t \in Types : scan[c].type[t] # "suppressed"
  /\ scan[c].tags = {} /\ scan[c].at \notin {"idle", "calling"} =>
       \A o \in Objects :
         \/ o \in scan[c].todo \cup scan[c].settled
         \/ Recalled(o)
         \/ Asking(c) /\ o = scan[c].object
  /\ Doing(c, "done") => scan[c].todo = {}

(* A stuck thread remembers its object, the scans remember it too. *)
StuckOK ==
  \A w \in Workers :
    /\ worker[w].for = "call" => worker[w].object = Nobody
    /\ w \in Stuck /\ worker[w].for = "scan" => worker[w].object \in Objects /\ Recalled(worker[w].object)

ScanInv ==
  /\ ScanTypeOK /\ ScanLockOK /\ SharedWorkerOK /\ StuckOK
  /\ \A c \in Threads : HoldingsOK(c) /\ LookedOK(c)
  /\ NothingLeaks /\ ThreadsBounded
=============================================================================
