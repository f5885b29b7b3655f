-------------------------- MODULE LifecycleProofs --------------------------
(***************************************************************************)
(* Proofs about module Lifecycle, for any number of roles, process ids,    *)
(* births and callers, whatever each caller is used for.  For each step a  *)
(* lemma, named after it, says that it keeps IInv.                         *)
(***************************************************************************)
EXTENDS Lifecycle, TLAPS

-----------------------------------------------------------------------------
(* What the steps do to the processes, and to the call of their caller.    *)

(* Only the operation of c goes on. *)
OnlyMoves(c) ==
  /\ call' \in [Callers -> Calls]
  /\ \A d \in Callers \ {c} : call'[d] = call[d]

(* Processes die or are born; those who live on stay who they are. *)
Evolves ==
  /\ os' \in [Pids -> Process \cup {Free}]
  /\ clock' \in 0..MaxBirth /\ clock <= clock'
  /\ \A p, q \in Pids : os'[p] # Free /\ os'[q] # Free /\ os'[p].birth = os'[q].birth => p = q
  /\ \A p \in Pids : os'[p] # Free =>
       \/ os[p] # Free /\ os'[p].birth = os[p].birth /\ os'[p].ours = os[p].ours
       \/ os'[p].birth > clock /\ os'[p].birth <= clock'

LEMMA ClockIsNat == TypeOK => clock \in Nat /\ MaxBirth \in Nat
BY LifecycleAssumption DEF TypeOK, LifecycleAssumption

LEMMA IdleIsCall ==
  /\ NoRecord \in Record /\ Idle \in Calls
  /\ Idle.at = "idle" /\ Idle.rec = NoRecord /\ Idle.hit = {} /\ Idle.tried = {}
  /\ Idle.checked = 0 /\ Idle.role \in Roles
  /\ \A r \in Roles : NoRecord.pid[r] = NoPid /\ NoRecord.born[r] = Unborn
<1>1. NoRecord \in Record
  BY DEF NoRecord, Record, Statuses
<1>2. Idle.role \in Roles
  BY LifecycleAssumption DEF Idle, LifecycleAssumption
<1>3. 0 \in 0..MaxBirth
  BY LifecycleAssumption DEF LifecycleAssumption
<1> QED
  BY <1>1, <1>2, <1>3 DEF Idle, Calls, NoRecord

LEMMA EndMoves ==
  ASSUME TypeOK, NEW c \in Callers, End(c)
  PROVE  OnlyMoves(c) /\ call'[c] = Idle
BY IdleIsCall DEF End, OnlyMoves, TypeOK

LEMMA NobodyMoves ==
  ASSUME TypeOK, UNCHANGED <<os, clock>>
  PROVE  Evolves
BY ClockIsNat DEF Evolves, TypeOK

LEMMA KillEvolves ==
  ASSUME TypeOK, NEW P, Kill(P), UNCHANGED clock
  PROVE  /\ Evolves
         /\ \A p \in Pids : os'[p] # Free => os[p] # Free /\ os'[p].birth = os[p].birth
<1>1. \A p \in Pids : os'[p] = IF p \in P THEN Free
                               ELSE IF \E q \in P : Child(p, q) THEN [os[p] EXCEPT !.parent = Adopted]
                               ELSE os[p]
  BY DEF Kill
<1>2. ASSUME NEW p \in Pids, os'[p] # Free
      PROVE  /\ os[p] \in Process /\ os[p] # Free /\ os'[p] \in Process
             /\ os'[p].birth = os[p].birth /\ os'[p].ours = os[p].ours
  <2>1. CASE p \notin P /\ \E q \in P : Child(p, q)
    <3>1. os[p] # Free /\ os[p] \in Process
      BY <2>1 DEF Child, Alive, TypeOK
    <3>2. os'[p] = [os[p] EXCEPT !.parent = Adopted]
      BY <1>1, <2>1
    <3> QED
      BY <3>1, <3>2, <1>2 DEF Process, Adopted
  <2>2. CASE p \notin P /\ ~(\E q \in P : Child(p, q))
    BY <1>1, <1>2, <2>2 DEF TypeOK
  <2>3. CASE p \in P
    BY <1>1, <1>2, <2>3
  <2> QED
    BY <2>1, <2>2, <2>3
<1>3. os' \in [Pids -> Process \cup {Free}]
  <2>1. os' = [p \in Pids |-> os'[p]]
    BY DEF Kill
  <2> QED
    BY <1>2, <2>1
<1>4. \A p, q \in Pids : os'[p] # Free /\ os'[q] # Free /\ os'[p].birth = os'[q].birth => p = q
  BY <1>2 DEF TypeOK
<1> QED
  BY <1>2, <1>3, <1>4, ClockIsNat DEF Evolves, TypeOK

LEMMA BirthEvolves ==
  ASSUME TypeOK, PastOK, NEW q \in Pids, clock < MaxBirth, clock' = clock + 1,
         NEW new \in Process, new.birth = clock + 1, os' = [os EXCEPT ![q] = new]
  PROVE  Evolves /\ os'[q] = new /\ new # Free /\ \A p \in Pids \ {q} : os'[p] = os[p]
<1>1. os'[q] = new /\ new # Free /\ \A p \in Pids \ {q} : os'[p] = os[p]
  BY FreeAssumption DEF TypeOK, FreeAssumption
<1>2. \A p \in Pids : os[p] # Free => os[p].birth < clock + 1
  BY ClockIsNat DEF PastOK, Alive, TypeOK, Process, Births
<1>3. \A p, r \in Pids : os'[p] # Free /\ os'[r] # Free /\ os'[p].birth = os'[r].birth => p = r
  BY <1>1, <1>2, ClockIsNat DEF TypeOK
<1>4. os' \in [Pids -> Process \cup {Free}] /\ clock' \in 0..MaxBirth /\ clock <= clock'
  BY ClockIsNat DEF TypeOK
<1> QED
  BY <1>1, <1>3, <1>4, ClockIsNat DEF Evolves

(* Nobody comes back. *)
LEMMA PastStays ==
  ASSUME TypeOK, Evolves, NEW b \in Births \cup {Unborn}, b <= clock
  PROVE  /\ b <= clock'
         /\ Living(b)' => Living(b)
         /\ \A p \in Pids : os'[p] # Free /\ os'[p].birth = b =>
              os[p] # Free /\ os[p].birth = b /\ os'[p].ours = os[p].ours
         /\ \A p \in Pids \cup {NoPid} : Verdict(p, b)' = "ours" => Verdict(p, b) = "ours"
<1>1. clock \in Nat /\ clock' \in Nat /\ clock <= clock' /\ b \in Nat
  BY ClockIsNat DEF Evolves, Births, Unborn
<1>2. \A p \in Pids : os'[p] # Free /\ os'[p].birth = b =>
        os[p] # Free /\ os[p].birth = b /\ os'[p].ours = os[p].ours
  BY <1>1 DEF Evolves, Process, Births
<1>3. Living(b)' => Living(b)
  BY <1>2 DEF Living, Alive
<1>4. \A p \in Pids \cup {NoPid} : Verdict(p, b)' = "ours" => Verdict(p, b) = "ours"
  BY <1>2 DEF Verdict, Alive
<1> QED
  BY <1>1, <1>2, <1>3, <1>4

-----------------------------------------------------------------------------
(* What holds of who does not move.                                        *)

LEMMA RememberedStays ==
  ASSUME TypeOK, Evolves, NEW r \in Record, Remembered(r)
  PROVE  Remembered(r)'
<1>1. \A role \in Roles : r.born[role] \in Births \cup {Unborn}
  BY DEF Record
<1> QED
  BY <1>1, PastStays DEF Remembered, Alive

LEMMA PastKeeps ==
  ASSUME TypeOK, PastOK, Evolves, UNCHANGED <<rec, attempted>>
  PROVE  PastOK'
<1>1. rec \in Record /\ Remembered(rec)
  BY DEF TypeOK, PastOK
<1>2. PICK r \in Record : r = rec
  BY <1>1
<1>3. Remembered(r)'
  BY <1>1, <1>2, RememberedStays
<1>4. Remembered(rec)'
  BY <1>2, <1>3 DEF Remembered, Alive
<1>5. \A p \in Pids : Alive(p)' => os'[p].birth <= clock'
  BY ClockIsNat DEF Evolves, PastOK, Alive, Process, Births
<1>6. \A b \in attempted' : b <= clock'
  BY PastStays DEF PastOK, TypeOK
<1> QED
  BY <1>4, <1>5, <1>6 DEF PastOK, Alive

LEMMA CallerKeeps ==
  ASSUME TypeOK, Evolves, NEW c \in Callers, CallOK(c), GuardOK(c), SecondLookOK(c), TriedOK(c),
         call'[c] = call[c]
  PROVE  CallOK(c)' /\ GuardOK(c)' /\ SecondLookOK(c)' /\ TriedOK(c)'
<1>1. call[c] \in Calls
  BY DEF TypeOK
<1>2. PICK r \in Record : r = call[c].rec
  BY <1>1 DEF Calls
<1>3. Remembered(r)'
  BY <1>2, RememberedStays DEF CallOK
<1>4. Remembered(call[c].rec)'
  BY <1>2, <1>3 DEF Remembered, Alive
<1>5. call[c].checked \in 0..MaxBirth /\ call[c].tried \in SUBSET Births
  BY <1>1 DEF Calls
<1>6. call[c].checked <= clock' /\ \A b \in call[c].tried : b <= clock'
  BY <1>5, ClockIsNat, PastStays DEF CallOK, Evolves
<1>7. CallOK(c)'
  BY <1>4, <1>6 DEF CallOK, At, Pid
<1>8. SecondLookOK(c)'
  <2> SUFFICES ASSUME call[c].at = "signalled", call[c].hit # {}, Alive(Pid(c))'
               PROVE  os'[Pid(c)].ours \/ os'[Pid(c)].birth > call[c].checked
    BY DEF SecondLookOK, At, Pid
  <2>1. PICK p \in Pids : p = Pid(c)
    BY <1>1 DEF CallOK, Stopping, Calls, Record, Pid
  <2>2. os'[p] # Free /\ os'[p] \in Process
    BY <2>1 DEF Alive, Pid, Evolves
  <2>3. CASE os[p] # Free /\ os'[p].birth = os[p].birth /\ os'[p].ours = os[p].ours
    BY <2>1, <2>3 DEF SecondLookOK, At, Alive
  <2>4. CASE os'[p].birth > clock
    BY <1>5, <2>1, <2>2, <2>4, ClockIsNat DEF CallOK, Process, Births
  <2> QED
    BY <2>2, <2>3, <2>4 DEF Evolves
<1>9. TriedOK(c)'
  BY <1>5, PastStays DEF TriedOK, CallOK, Alive, Pid, Born
<1>10. GuardOK(c)'
  <2>1. call[c].seen \in SUBSET Births
    BY <1>1 DEF Calls
  <2>2. (\A b \in call[c].seen : b <= clock) => \A b \in call[c].seen : b <= clock'
    BY <2>1, ClockIsNat DEF Evolves, Births
  <2> QED
    BY <2>2 DEF GuardOK, Pid, At, Tracked
<1> QED
  BY <1>7, <1>8, <1>9, <1>10

LEMMA HonestStays ==
  ASSUME TypeOK, PastOK, Evolves, UNCHANGED attempted, NEW status, Honest(status)
  PROVE  Honest(status)'
BY PastStays DEF Honest, PastOK, TypeOK

LEMMA CopyKeeps ==
  ASSUME TypeOK, PastOK, Evolves, UNCHANGED <<rec, attempted>>, NEW c \in Callers, CopyOK(c),
         GuardOK(c), call'[c] = call[c]
  PROVE  CopyOK(c)'
<1>1. Honest(call[c].rec.status)'
  <2>1. PICK status : status = call[c].rec.status
    OBVIOUS
  <2>2. Honest(status)'
    BY <2>1, HonestStays DEF CopyOK
  <2> QED
    BY <2>1, <2>2 DEF Honest
<1>2. call[c].role \in Roles /\ rec \in Record
  BY DEF TypeOK, Calls
<1>3. call[c].at \in Starting => Recorded(rec, call[c].role)' # "ours"
  <2>1. PICK p \in Pids \cup {NoPid}, b \in Births \cup {Unborn} :
          p = rec.pid[call[c].role] /\ b = rec.born[call[c].role]
    BY <1>2 DEF Record
  <2>2. b <= clock
    BY <1>2, <2>1 DEF PastOK, Remembered
  <2>3. Verdict(p, b)' = "ours" => Verdict(p, b) = "ours"
    BY <2>2, PastStays
  <2>4. Recorded(rec, call[c].role) = Verdict(p, b) /\ Recorded(rec, call[c].role)' = Verdict(p, b)'
    BY <2>1 DEF Recorded, Verdict, Alive
  <2> QED
    BY <2>3, <2>4 DEF CopyOK
<1>4. ASSUME call[c].at \in Looking, Pid(c) = NoPid, NEW p \in Pids,
             os'[p] # Free, os'[p].birth \in call[c].seen
      PROVE  p \in call[c].guard
  <2>1. os'[p].birth \in Births /\ os'[p].birth <= clock
    BY <1>4 DEF GuardOK, TypeOK, Calls
  <2>2. os[p] # Free /\ os[p].birth = os'[p].birth
    BY <2>1, <1>4, PastStays
  <2> QED
    BY <1>4, <2>2 DEF CopyOK, Alive
<1>5. Pid(c)' = Pid(c)
  BY DEF Pid
<1> QED
  BY <1>1, <1>3, <1>4, <1>5 DEF CopyOK, At, Alive

(* The operation of c takes a step that leaves the record alone. *)
LEMMA StepKeeps ==
  ASSUME IInv, Evolves, UNCHANGED <<rec, attempted>>, exists' \in BOOLEAN,
         NEW c \in Callers, OnlyMoves(c), CallOK(c)', GuardOK(c)', SecondLookOK(c)', TriedOK(c)',
         OneOperator /\ call'[c].at # "idle" => CopyOK(c)'
  PROVE  IInv'
<1>1. TypeOK'
  BY DEF IInv, TypeOK, OnlyMoves, Evolves, Alive
<1>2. PastOK'
  BY PastKeeps DEF IInv
<1>3. \A d \in Callers : CallOK(d)' /\ GuardOK(d)' /\ SecondLookOK(d)' /\ TriedOK(d)'
  BY CallerKeeps DEF IInv, OnlyMoves
<1>4. ASSUME OneOperator
      PROVE  Honest(rec.status)' /\ \A d \in Callers : call'[d].at # "idle" => CopyOK(d)'
  <2>1. PICK status : status = rec.status
    OBVIOUS
  <2>2. Honest(status)'
    BY <1>4, <2>1, HonestStays DEF IInv
  <2>3. Honest(rec.status)'
    BY <2>1, <2>2 DEF Honest
  <2>4. \A d \in Callers \ {c} : call'[d].at # "idle" => CopyOK(d)'
    BY <1>4, CopyKeeps DEF IInv, OnlyMoves, At
  <2> QED
    BY <1>4, <2>3, <2>4
<1> QED
  BY <1>1, <1>2, <1>3, <1>4 DEF IInv, OneOperator, At

(* Only the processes change. *)
LEMMA WorldKeeps ==
  ASSUME IInv, Evolves, UNCHANGED <<rec, call, attempted>>, exists' \in BOOLEAN
  PROVE  IInv'
<1>1. TypeOK'
  BY DEF IInv, TypeOK, Evolves, Alive
<1>2. PastOK'
  BY PastKeeps DEF IInv
<1>3. \A d \in Callers : CallOK(d)' /\ GuardOK(d)' /\ SecondLookOK(d)' /\ TriedOK(d)'
  BY CallerKeeps DEF IInv
<1>4. ASSUME OneOperator
      PROVE  Honest(rec.status)' /\ \A d \in Callers : call'[d].at # "idle" => CopyOK(d)'
  <2>1. PICK status : status = rec.status
    OBVIOUS
  <2>2. Honest(status)'
    BY <1>4, <2>1, HonestStays DEF IInv
  <2>3. Honest(rec.status)'
    BY <2>1, <2>2 DEF Honest
  <2>4. \A d \in Callers : call'[d].at # "idle" => CopyOK(d)'
    BY <1>4, CopyKeeps DEF IInv, At
  <2> QED
    BY <1>4, <2>3, <2>4
<1> QED
  BY <1>1, <1>2, <1>3, <1>4 DEF IInv, OneOperator, At

LEMMA EndKeeps ==
  ASSUME IInv, NEW c \in Callers, End(c), UNCHANGED <<os, clock, exists, rec, attempted>>
  PROVE  IInv'
<1>1. OnlyMoves(c) /\ call'[c] = Idle /\ Evolves /\ exists' \in BOOLEAN
  BY EndMoves, NobodyMoves DEF IInv, TypeOK
<1>2. CallOK(c)' /\ GuardOK(c)' /\ SecondLookOK(c)' /\ TriedOK(c)'
  BY <1>1, IdleIsCall, ClockIsNat
     DEF CallOK, GuardOK, SecondLookOK, TriedOK, Remembered, At, Starting, Stopping, Sweeping, Looking, Unborn,
         Process, Births, Alive, IInv, TypeOK
<1> QED
  BY <1>1, <1>2, IdleIsCall, StepKeeps

-----------------------------------------------------------------------------
(* start().                                                                *)

(* A call begins, with a copy of the record. *)
LEMMA BeginKeeps ==
  ASSUME IInv, NEW c \in Callers, NEW new \in Calls, call' = [call EXCEPT ![c] = new],
         UNCHANGED <<os, clock, exists, rec, attempted>>,
         new.rec = rec, new.hit = {}, new.tried = {}, new.checked = 0,
         \/ /\ new.at = "spawning" /\ "start" \in Does[c]
            /\ Recorded(rec, new.role) # "ours"
         \/ /\ new.at = "loaded" /\ "stop" \in Does[c] /\ rec.pid[new.role] # NoPid
         \/ /\ new.at = "sweeping" /\ "stop" \in Does[c] /\ rec.pid[new.role] = NoPid
  PROVE  IInv'
<1>1. OnlyMoves(c) /\ call'[c] = new /\ Evolves /\ exists' \in BOOLEAN
  BY NobodyMoves DEF IInv, TypeOK, OnlyMoves
<1>2. CallOK(c)' /\ GuardOK(c)' /\ SecondLookOK(c)' /\ TriedOK(c)'
  <2>1. Remembered(rec)
    BY DEF IInv, PastOK
  <2>2. Remembered(call[c].rec)'
    BY <1>1, <2>1 DEF Remembered, Alive
  <2> QED
    BY <1>1, <2>2, ClockIsNat
       DEF CallOK, GuardOK, SecondLookOK, TriedOK, At, Pid, Starting, Stopping, Sweeping, Looking, IInv, TypeOK
<1>3. OneOperator => CopyOK(c)'
  <2>1. OneOperator => Honest(rec.status)
    BY DEF IInv
  <2> QED
    BY <1>1, <2>1 DEF CopyOK, Honest, Living, Alive, Starting, Looking, At, Recorded, Verdict
<1> QED
  BY <1>1, <1>2, <1>3, StepKeeps

LEMMA StartCheckKeeps ==
  ASSUME IInv, NEW c \in Callers, NEW role \in Roles, StartCheck(c, role)
  PROVE  IInv'
<1> DEFINE new == [Idle EXCEPT !.at = "spawning", !.role = role, !.rec = rec]
<1>1. /\ new \in Calls /\ new.at = "spawning" /\ new.role = role /\ new.rec = rec
      /\ new.hit = {} /\ new.tried = {} /\ new.checked = 0
  BY IdleIsCall DEF Calls, IInv, TypeOK
<1>2. call' = [call EXCEPT ![c] = new]
  BY DEF StartCheck
<1> HIDE DEF new
<1> QED
  BY <1>1, <1>2, BeginKeeps DEF StartCheck, Begin, MayStart

(* The record the call holds after a spawn. *)
LEMMA SpawnMoves ==
  ASSUME IInv, NEW c \in Callers, NEW p \in Pids, Spawn(c, p)
  PROVE  \E b \in {clock + 1, Unborn} :
           /\ OnlyMoves(c) /\ call'[c].at = "spawned" /\ call'[c].role = call[c].role
           /\ call'[c].hit = call[c].hit /\ call'[c].tried = call[c].tried
           /\ call'[c].checked = call[c].checked
           /\ call'[c].rec.status = call[c].rec.status
           /\ \A r \in Roles :
                /\ call'[c].rec.pid[r] = IF r = call[c].role THEN p ELSE call[c].rec.pid[r]
                /\ call'[c].rec.born[r] = IF r = call[c].role THEN b ELSE call[c].rec.born[r]
<1>1. call \in [Callers -> Calls] /\ call[c] \in Calls /\ call[c].rec \in Record /\ call[c].role \in Roles
  BY DEF IInv, TypeOK, Calls
<1>2. PICK b \in {clock + 1, Unborn} :
        call' = [call EXCEPT ![c].at = "spawned",
                             ![c].rec.pid[call[c].role] = p,
                             ![c].rec.born[call[c].role] = b,
                             ![c].seen = {clock + 1}]
  BY Zenon DEF Spawn
<1>3. clock + 1 \in Births /\ b \in Births \cup {Unborn}
  BY <1>2, ClockIsNat DEF Spawn, Births, IInv, TypeOK
<1> DEFINE pids == [call[c].rec.pid EXCEPT ![call[c].role] = p]
           borns == [call[c].rec.born EXCEPT ![call[c].role] = b]
           r2 == [call[c].rec EXCEPT !.pid = pids, !.born = borns]
           new == [call[c] EXCEPT !.at = "spawned", !.rec = r2, !.seen = {clock + 1}]
<1>4. call' = [call EXCEPT ![c] = new]
  <2> DEFINE c1 == [call[c] EXCEPT !.at = "spawned"]
             c2 == [c1 EXCEPT !.rec = [call[c].rec EXCEPT !.pid = pids]]
             c3 == [c1 EXCEPT !.rec = r2]
             first == [call EXCEPT ![c].at = "spawned"]
             second == [first EXCEPT ![c].rec.pid[call[c].role] = p]
             third == [second EXCEPT ![c].rec.born[call[c].role] = b]
  <2>1. call' = [third EXCEPT ![c].seen = {clock + 1}]
    BY <1>2
  <2>2. first = [call EXCEPT ![c] = c1] /\ c1.rec = call[c].rec
    BY <1>1 DEF Calls
  <2>3. second = [call EXCEPT ![c] = c2]
    BY <1>1, <2>2 DEF Calls, Record
  <2>4. second[c] = c2 /\ c2.rec = [call[c].rec EXCEPT !.pid = pids] /\ c2.rec.born = call[c].rec.born
    BY <1>1, <2>3 DEF Calls, Record
  <2>5. [c2 EXCEPT !.rec = [c2.rec EXCEPT !.born = borns]] = c3
    BY <1>1, <2>4 DEF Calls, Record
  <2> HIDE DEF second
  <2>6. third = [second EXCEPT ![c] = [c2 EXCEPT !.rec = [c2.rec EXCEPT !.born = borns]]]
    <3> HIDE DEF c2
    <3> QED
      BY <2>4
  <2>7. third = [call EXCEPT ![c] = c3]
    <3> HIDE DEF c2, c3
    <3> QED
      BY <2>3, <2>5, <2>6
  <2> HIDE DEF third
  <2> QED
    BY <1>1, <2>1, <2>7 DEF Calls, Record
<1>5. /\ pids \in [Roles -> Pids \cup {NoPid}] /\ borns \in [Roles -> Births \cup {Unborn}]
      /\ \A r \in Roles : pids[r] = IF r = call[c].role THEN p ELSE call[c].rec.pid[r]
      /\ \A r \in Roles : borns[r] = IF r = call[c].role THEN b ELSE call[c].rec.born[r]
  BY <1>1, <1>3 DEF Record
<1> HIDE DEF pids, borns
<1>6. r2 \in Record /\ r2.pid = pids /\ r2.born = borns /\ r2.status = call[c].rec.status
  BY <1>1, <1>5 DEF Record
<1> HIDE DEF r2
<1>7. /\ new \in Calls /\ new.at = "spawned" /\ new.rec = r2 /\ new.role = call[c].role
      /\ new.hit = call[c].hit /\ new.tried = call[c].tried /\ new.checked = call[c].checked
  BY <1>1, <1>3, <1>6 DEF Calls
<1> HIDE DEF new
<1>8. OnlyMoves(c) /\ call'[c] = new
  BY <1>1, <1>4, <1>7 DEF OnlyMoves
<1> QED
  BY <1>5, <1>6, <1>7, <1>8

LEMMA SpawnKeeps ==
  ASSUME IInv, NEW c \in Callers, NEW p \in Pids, Spawn(c, p)
  PROVE  IInv'
<1> DEFINE new == [ours |-> TRUE, birth |-> clock + 1, parent |-> Adopted, group |-> p]
<1>1. /\ TypeOK /\ PastOK /\ CallOK(c) /\ TriedOK(c) /\ clock \in Nat /\ MaxBirth \in Nat
      /\ call[c] \in Calls /\ call[c].at = "spawning" /\ clock < MaxBirth /\ clock' = clock + 1
      /\ os' = [os EXCEPT ![p] = new] /\ exists' \in BOOLEAN /\ UNCHANGED <<rec, attempted>>
      /\ p # NoPid
  BY ClockIsNat, LifecycleAssumption DEF IInv, Spawn, At, TypeOK, LifecycleAssumption
<1>2. new \in Process /\ new.birth = clock + 1 /\ new.ours
  BY <1>1 DEF Process, Births
<1> HIDE DEF new
<1>3. Evolves /\ os'[p] = new /\ \A q \in Pids \ {p} : os'[q] = os[q]
  BY <1>1, <1>2, BirthEvolves
<1>4. PICK b \in {clock + 1, Unborn} :
           /\ OnlyMoves(c) /\ call'[c].at = "spawned" /\ call'[c].role = call[c].role
           /\ call'[c].hit = call[c].hit /\ call'[c].tried = call[c].tried
           /\ call'[c].checked = call[c].checked
           /\ call'[c].rec.status = call[c].rec.status
           /\ \A r \in Roles :
                /\ call'[c].rec.pid[r] = IF r = call[c].role THEN p ELSE call[c].rec.pid[r]
                /\ call'[c].rec.born[r] = IF r = call[c].role THEN b ELSE call[c].rec.born[r]
  BY SpawnMoves
<1>5. PICK r0 \in Record : r0 = call[c].rec
  BY <1>1 DEF Calls
<1>6. Remembered(r0)'
  BY <1>1, <1>3, <1>5, RememberedStays DEF CallOK
<1>7. Remembered(call[c].rec)'
  <2>1. ASSUME NEW role \in Roles
        PROVE  /\ call'[c].rec.born[role] <= clock'
               /\ \A q \in Pids : os'[q] # Free /\ os'[q].birth = call'[c].rec.born[role] => os'[q].ours
               /\ call'[c].rec.pid[role] = NoPid => call'[c].rec.born[role] = Unborn
    <3>1. CASE role = call[c].role
      <4>1. call'[c].rec.pid[role] = p /\ call'[c].rec.born[role] = b
        BY <1>4, <3>1
      <4>2. \A q \in Pids : os'[q] # Free /\ os'[q].birth = b => os'[q].ours
        <5>1. \A q \in Pids \ {p} : os'[q] # Free => os'[q].birth <= clock /\ os'[q].birth \in Births
          BY <1>1, <1>3 DEF PastOK, Alive, Evolves, Process
        <5> QED
          BY <1>1, <1>2, <1>3, <1>4, <5>1 DEF Births, Unborn
      <4> QED
        BY <1>1, <1>4, <4>1, <4>2 DEF Unborn
    <3>2. CASE role # call[c].role
      BY <1>4, <1>5, <1>6, <3>2 DEF Remembered, Alive
    <3> QED
      BY <3>1, <3>2
  <2> QED
    BY <2>1 DEF Remembered, Alive
<1>8. CallOK(c)'
  <2>1. call'[c].checked <= clock' /\ \A x \in call'[c].tried : x <= clock'
    BY <1>1, <1>4 DEF CallOK, Calls, Births
  <2>2. "start" \in Does[c]
    BY <1>1 DEF CallOK, Starting
  <2> QED
    BY <1>1, <1>4, <1>7, <2>1, <2>2 DEF CallOK, At, Starting, Stopping, Sweeping, Looking
<1>9. SecondLookOK(c)'
  BY <1>4 DEF SecondLookOK, At
<1>10. call[c].tried = {} /\ TriedOK(c)'
  BY <1>1, <1>4 DEF CallOK, Starting, TriedOK
<1>11. GuardOK(c)'
  BY <1>4 DEF GuardOK, Looking
<1>12. OneOperator => CopyOK(c)'
  <2> SUFFICES ASSUME OneOperator PROVE CopyOK(c)'
    OBVIOUS
  <2>1. CopyOK(c)
    BY <1>1 DEF IInv, At
  <2>2. Honest(call[c].rec.status)'
    <3>1. PICK status : status = call[c].rec.status
      OBVIOUS
    <3>2. Honest(status)'
      BY <1>1, <1>3, <2>1, <3>1, HonestStays DEF CopyOK
    <3> QED
      BY <1>4, <3>1, <3>2 DEF Honest
  <2>3. Recorded(rec, call[c].role)' # "ours"
    <3>1. PICK role \in Roles, q \in Pids \cup {NoPid}, x \in Births \cup {Unborn} :
            role = call[c].role /\ q = rec.pid[role] /\ x = rec.born[role]
      BY <1>1 DEF TypeOK, Record, Calls
    <3>2. x <= clock
      BY <1>1, <3>1 DEF PastOK, Remembered
    <3>3. Verdict(q, x)' # "ours"
      BY <1>1, <1>3, <2>1, <3>1, <3>2, PastStays DEF CopyOK, Starting, Recorded
    <3> QED
      BY <1>1, <1>4, <3>1, <3>3 DEF Recorded, Verdict, Alive
  <2> QED
    BY <1>1, <1>4, <2>1, <2>2, <2>3 DEF CopyOK, At, Looking
<1> QED
  BY <1>1, <1>3, <1>4, <1>8, <1>9, <1>10, <1>11, <1>12, StepKeeps

-----------------------------------------------------------------------------
(* stop(), up to its last look.                                            *)

(* A stop() goes on, with the record it has loaded. *)
LEMMA StopGoesOn ==
  ASSUME IInv, Evolves, UNCHANGED <<exists, rec, attempted>>, NEW c \in Callers, OnlyMoves(c),
         call'[c].rec = call[c].rec, call'[c].role = call[c].role,
         call[c].at \in Stopping \cup Sweeping \cup Looking,
         call'[c].at \in (Stopping \ {"loaded"}) \cup Sweeping \cup Looking,
         call'[c].at \in Stopping => Pid(c) # NoPid,
         call'[c].at \in Sweeping => Pid(c) = NoPid,
         \A b \in call'[c].tried : b <= clock', call'[c].checked <= clock',
         call'[c].at = "snapped" /\ call'[c].verdict \notin {"ours", "gone"} => call'[c].hit = {},
         GuardOK(c)', SecondLookOK(c)', TriedOK(c)',
         OneOperator /\ call'[c].at \in Looking /\ Pid(c) = NoPid =>
           \A p \in Pids : os'[p] # Free /\ os'[p].birth \in call'[c].seen => p \in call'[c].guard
  PROVE  IInv'
<1>1. TypeOK /\ PastOK /\ CallOK(c) /\ call[c] \in Calls /\ exists' \in BOOLEAN
  BY DEF IInv, TypeOK
<1>2. PICK r0 \in Record : r0 = call[c].rec
  BY <1>1 DEF Calls
<1>3. Remembered(r0)'
  BY <1>1, <1>2, RememberedStays DEF CallOK
<1>4. Remembered(call[c].rec)'
  BY <1>2, <1>3 DEF Remembered, Alive
<1>5. CallOK(c)'
  BY <1>1, <1>4 DEF CallOK, At, Pid, Starting, Stopping, Sweeping, Looking
<1>6. OneOperator => CopyOK(c)'
  <2> SUFFICES ASSUME OneOperator PROVE CopyOK(c)'
    OBVIOUS
  <2>1. CopyOK(c) /\ call[c].at # "spawned" /\ call'[c].at \notin Starting
    BY DEF IInv, At, Stopping, Sweeping, Looking, Starting
  <2>2. PICK status : status = call[c].rec.status
    OBVIOUS
  <2>3. Honest(status)'
    BY <1>1, <2>1, <2>2, HonestStays DEF CopyOK
  <2>4. Honest(call[c].rec.status)'
    BY <2>2, <2>3 DEF Honest
  <2>5. Pid(c)' = Pid(c)
    BY DEF Pid
  <2> QED
    BY <2>1, <2>4, <2>5 DEF CopyOK, At, Alive
<1> QED
  BY <1>1, <1>5, <1>6, StepKeeps

LEMMA StopBeginsKeeps ==
  ASSUME IInv, NEW c \in Callers, NEW role \in Roles, NEW orphans \in BOOLEAN,
         StopLoad(c, role, orphans) \/ NoProcess(c, role, orphans)
  PROVE  IInv'
<1>1. CASE StopLoad(c, role, orphans)
  <2> DEFINE new == [Idle EXCEPT !.at = "loaded", !.role = role, !.rec = rec,
                                 !.verdict = Recorded(rec, role), !.orphans = orphans]
  <2>1. Recorded(rec, role) \in {"gone", "ours", "stranger", "unknown"}
    BY DEF Recorded, Verdict
  <2>2. /\ new \in Calls /\ new.at = "loaded" /\ new.role = role /\ new.rec = rec
        /\ new.hit = {} /\ new.tried = {} /\ new.checked = 0
    <3> HIDE DEF Recorded
    <3> QED
      BY <2>1, IdleIsCall DEF Calls, IInv, TypeOK
  <2>3. call' = [call EXCEPT ![c] = new] /\ "stop" \in Does[c] /\ rec.pid[role] # NoPid
    BY <1>1 DEF StopLoad, Begin, Tracked
  <2> HIDE DEF new
  <2> QED
    BY <1>1, <2>2, <2>3, BeginKeeps DEF StopLoad
<1>2. CASE NoProcess(c, role, orphans)
  <2> DEFINE new == [Idle EXCEPT !.at = "sweeping", !.role = role, !.rec = rec, !.orphans = orphans]
  <2>1. /\ new \in Calls /\ new.at = "sweeping" /\ new.role = role /\ new.rec = rec
        /\ new.hit = {} /\ new.tried = {} /\ new.checked = 0
    BY IdleIsCall DEF Calls, IInv, TypeOK
  <2>2. call' = [call EXCEPT ![c] = new] /\ "stop" \in Does[c] /\ rec.pid[role] = NoPid
    BY <1>2 DEF NoProcess, Begin, Tracked
  <2> HIDE DEF new
  <2> QED
    BY <1>2, <2>1, <2>2, BeginKeeps DEF NoProcess
<1> QED
  BY <1>1, <1>2

LEMMA SnapshotKeeps ==
  ASSUME IInv, NEW c \in Callers, Snapshot(c)
  PROVE  IInv'
<1> DEFINE tree == IF call[c].verdict \in {"ours", "gone"} THEN Family(Pid(c)) \ {Pid(c)} ELSE {}
           births == BirthsOf(tree)
           new == [call[c] EXCEPT !.at = "snapped", !.hit = tree, !.seen = births]
<1>1. TypeOK /\ CallOK(c) /\ call[c] \in Calls /\ call[c].at = "loaded"
  BY DEF Snapshot, At, IInv, TypeOK
<1>2. call' = [call EXCEPT ![c] = new] /\ UNCHANGED <<os, clock, exists, rec, attempted>>
  BY <1>1 DEF Snapshot, TypeOK
<1>3. tree \in SUBSET Pids
  BY DEF Family, Tree, Members
<1>4. births \in SUBSET Births
  BY <1>1, <1>3 DEF BirthsOf, Alive, TypeOK, Process
<1>5. call[c].verdict \notin {"ours", "gone"} => tree = {}
  OBVIOUS
<1> HIDE DEF tree, births
<1>6. /\ new \in Calls /\ new.at = "snapped" /\ new.hit = tree /\ new.rec = call[c].rec
      /\ new.role = call[c].role /\ new.tried = call[c].tried /\ new.checked = call[c].checked
      /\ new.verdict = call[c].verdict
  BY <1>1, <1>3, <1>4 DEF Calls
<1> HIDE DEF new
<1>7. OnlyMoves(c) /\ call'[c] = new /\ Evolves
  BY <1>1, <1>2, <1>6, NobodyMoves DEF OnlyMoves, TypeOK
<1>8. call[c].tried = {}
  BY <1>1 DEF CallOK, IInv
<1>9. GuardOK(c)' /\ SecondLookOK(c)' /\ TriedOK(c)'
  BY <1>6, <1>7, <1>8 DEF GuardOK, SecondLookOK, TriedOK, At, Looking
<1> QED
  BY <1>1, <1>2, <1>5, <1>6, <1>7, <1>8, <1>9, StopGoesOn DEF CallOK, Stopping, Sweeping, Looking

LEMMA SignalKeeps ==
  ASSUME IInv, NEW c \in Callers, Signal(c)
  PROVE  IInv'
<1> DEFINE hit == IF Discard(c) THEN {} ELSE call[c].hit
           tried == IF Confirmed(c) THEN {Born(c)} ELSE {}
           verdict == IF call[c].verdict = "unknown" THEN "unknown" ELSE "gone"
           new == [call[c] EXCEPT !.at = "signalled", !.checked = clock, !.hit = hit,
                                  !.tried = tried, !.verdict = verdict]
<1>1. /\ TypeOK /\ PastOK /\ CallOK(c) /\ call[c] \in Calls /\ call[c].at = "snapped"
      /\ clock \in 0..MaxBirth /\ clock \in Nat /\ Pid(c) \in Pids /\ Born(c) \in Births \cup {Unborn}
      /\ Born(c) <= clock
  <2>1. /\ TypeOK /\ PastOK /\ CallOK(c) /\ call[c] \in Calls /\ call[c].at = "snapped"
        /\ clock \in 0..MaxBirth /\ clock \in Nat
    BY ClockIsNat DEF Signal, At, IInv, TypeOK
  <2>2. call[c].rec \in Record /\ call[c].role \in Roles
    BY <2>1 DEF Calls
  <2> QED
    BY <2>1, <2>2 DEF CallOK, Stopping, Pid, Born, Record, Remembered
<1>2. call' = [call EXCEPT ![c] = new] /\ UNCHANGED <<clock, exists, rec, attempted>>
  BY <1>1 DEF Signal, TypeOK, Calls
<1>3. PICK P : Kill(P)
  BY DEF Signal
<1>4. /\ Evolves
      /\ \A p \in Pids : os'[p] # Free => os[p] # Free /\ os'[p].birth = os[p].birth
  BY <1>1, <1>2, <1>3, KillEvolves
<1>5. Confirmed(c) => Born(c) # Unborn /\ os[Pid(c)] # Free /\ os[Pid(c)].birth = Born(c)
  BY <1>1 DEF Confirmed, Verdict, Alive
<1>6. hit \in SUBSET Pids /\ tried \in SUBSET Births /\ verdict \in {"gone", "unknown"}
  BY <1>1, <1>5 DEF Calls
<1>7. hit # {} => Confirmed(c) \/ StillDead(c)
  BY <1>1 DEF Discard, CallOK, At
<1>8. \A b \in tried : Confirmed(c) /\ b = Born(c)
  OBVIOUS
<1> HIDE DEF hit, tried, verdict
<1>9. /\ new \in Calls /\ new.at = "signalled" /\ new.hit = hit /\ new.tried = tried
      /\ new.rec = call[c].rec /\ new.role = call[c].role /\ new.checked = clock
  BY <1>1, <1>6 DEF Calls
<1> HIDE DEF new
<1>10. OnlyMoves(c) /\ call'[c] = new
  BY <1>1, <1>2, <1>9 DEF OnlyMoves, TypeOK
<1>11. SecondLookOK(c)'
  <2> SUFFICES ASSUME hit # {}, os'[Pid(c)] # Free
               PROVE  os'[Pid(c)].ours
    BY <1>9, <1>10 DEF SecondLookOK, At, Pid, Alive
  <2>1. os[Pid(c)] # Free /\ os'[Pid(c)].birth = os[Pid(c)].birth
    BY <1>1, <1>4
  <2>2. os[Pid(c)].birth = Born(c)
    BY <1>5, <1>7, <2>1 DEF StillDead, Alive
  <2>3. os[Pid(c)].ours
    BY <1>1, <2>1, <2>2 DEF CallOK, Remembered, Alive, Born, Calls
  <2> QED
    BY <1>1, <1>4, <2>1, <2>2, <2>3, PastStays
<1>12. TriedOK(c)'
  <2> SUFFICES ASSUME NEW p \in Pids, os'[p] # Free, os'[p].birth \in tried
               PROVE  p = Pid(c) /\ os'[p].birth = Born(c)
    BY <1>9, <1>10 DEF TriedOK, Alive, Pid, Born
  <2> QED
    BY <1>1, <1>4, <1>5, <1>8 DEF TypeOK
<1>13. \A b \in tried : b <= clock
  BY <1>1, <1>8
<1>14. GuardOK(c)'
  BY <1>9, <1>10 DEF GuardOK, Looking
<1> QED
  BY <1>1, <1>2, <1>4, <1>9, <1>10, <1>11, <1>12, <1>13, <1>14, StopGoesOn
     DEF CallOK, Stopping, Sweeping, Looking

LEMMA BirthsAreOf ==
  ASSUME TypeOK, PastOK, NEW P \in SUBSET Pids
  PROVE  /\ BirthsOf(P) \in SUBSET Births
         /\ \A b \in BirthsOf(P) : b <= clock
         /\ \A p \in Pids : Alive(p) /\ os[p].birth \in BirthsOf(P) => p \in P
BY DEF BirthsOf, Alive, TypeOK, PastOK, Process

(* A stop() kills whom it will look at again. *)
LEMMA StopKills ==
  ASSUME IInv, NEW c \in Callers, call[c].at \in Stopping \cup Looking,
         NEW Q \in SUBSET Pids, NEW P, Kill(P), UNCHANGED <<clock, exists, rec, attempted>>,
         NEW new \in Calls, call' = [call EXCEPT ![c] = new],
         \/ new.at \in {"scanning", "finishing"} /\ Pid(c) # NoPid
         \/ new.at = "swept" /\ Pid(c) = NoPid,
         new.rec = call[c].rec, new.role = call[c].role, new.checked <= clock,
         call[c].hit \cup Q \subseteq new.hit, new.tried = call[c].tried \cup BirthsOf(Q)
  PROVE  IInv'
<1>1. TypeOK /\ PastOK /\ CallOK(c) /\ TriedOK(c)
  BY DEF IInv
<1>2. /\ Evolves
      /\ \A p \in Pids : os'[p] # Free => os[p] # Free /\ os'[p].birth = os[p].birth
  BY <1>1, KillEvolves
<1>3. OnlyMoves(c) /\ call'[c] = new
  BY <1>1 DEF OnlyMoves, TypeOK
<1>4. SecondLookOK(c)'
  BY <1>3 DEF SecondLookOK, At
<1>5. TriedOK(c)'
  <2> SUFFICES ASSUME NEW p \in Pids, os'[p] # Free, os'[p].birth \in new.tried
               PROVE  p \in new.hit \/ (p = Pid(c) /\ os'[p].birth = Born(c))
    BY <1>3 DEF TriedOK, Alive, Pid, Born
  <2>1. Alive(p) /\ os'[p].birth = os[p].birth
    BY <1>2 DEF Alive
  <2>2. CASE os[p].birth \in call[c].tried
    BY <1>1, <2>1, <2>2 DEF TriedOK
  <2>3. CASE os[p].birth \in BirthsOf(Q)
    BY <1>1, <2>1, <2>3, BirthsAreOf
  <2> QED
    BY <2>1, <2>2, <2>3
<1>6. \A b \in new.tried : b <= clock
  BY <1>1, BirthsAreOf DEF CallOK
<1>7. GuardOK(c)'
  BY <1>3 DEF GuardOK, Pid, Looking
<1> QED
  BY <1>2, <1>3, <1>4, <1>5, <1>6, <1>7, StopGoesOn DEF Stopping, Sweeping, Looking

LEMMA KillTreeKeeps ==
  ASSUME IInv, NEW c \in Callers, KillTree(c)
  PROVE  IInv'
<1> DEFINE Q == call[c].hit
           births == BirthsOf(Q)
           seen == {b \in call[c].seen : Living(b)}
           stage == IF call[c].orphans THEN "scanning" ELSE "finishing"
           new == [call[c] EXCEPT !.at = stage, !.tried = call[c].tried \cup births,
                                  !.checked = 0, !.seen = seen]
<1>1. TypeOK /\ PastOK /\ call[c] \in Calls /\ call[c].at = "signalled" /\ clock \in Nat /\ MaxBirth \in Nat
  BY ClockIsNat DEF KillTree, At, IInv, TypeOK
<1>2. call' = [call EXCEPT ![c] = new] /\ UNCHANGED <<clock, exists, rec, attempted>>
  BY <1>1 DEF KillTree, TypeOK
<1>3. PICK P : Kill(P)
  BY DEF KillTree
<1>4. Q \in SUBSET Pids /\ births \in SUBSET Births /\ seen \in SUBSET Births
  BY <1>1, BirthsAreOf DEF Calls
<1>5. /\ births = BirthsOf(Q) /\ Q = call[c].hit /\ stage \in {"scanning", "finishing"}
      /\ 0 \in 0..MaxBirth /\ 0 <= clock /\ call[c].at \in Stopping /\ Pid(c) # NoPid
  BY <1>1 DEF Stopping, IInv, CallOK
<1> HIDE DEF births, Q, seen, stage
<1>6. /\ new \in Calls /\ new.at = stage /\ new.hit = call[c].hit /\ new.checked = 0
      /\ new.tried = call[c].tried \cup births
      /\ new.rec = call[c].rec /\ new.role = call[c].role
  BY <1>1, <1>4, <1>5 DEF Calls
<1> HIDE DEF new
<1> QED
  BY <1>1, <1>2, <1>3, <1>4, <1>5, <1>6, StopKills

LEMMA ScanKeeps ==
  ASSUME IInv, NEW c \in Callers, Scan(c)
  PROVE  IInv'
<1>1. /\ TypeOK /\ PastOK /\ CallOK(c) /\ GuardOK(c) /\ TriedOK(c)
      /\ call[c] \in Calls /\ call[c].at = "scanning"
      /\ UNCHANGED <<os, clock, exists, rec, attempted>>
  BY DEF Scan, At, IInv, TypeOK
<1>2. PICK found \in SUBSET (Ours \ call[c].guard), complete \in BOOLEAN :
        call' = [call EXCEPT ![c].at = "found", ![c].complete = complete, ![c].aim = found]
  BY DEF Scan
<1> DEFINE new == [call[c] EXCEPT !.at = "found", !.complete = complete, !.aim = found]
<1>3. call' = [call EXCEPT ![c] = new]
  BY <1>1, <1>2 DEF TypeOK
<1>4. found \in SUBSET Pids
  BY DEF Ours
<1>5. /\ new \in Calls /\ new.at = "found" /\ new.aim = found /\ new.guard = call[c].guard
      /\ new.seen = call[c].seen /\ new.hit = call[c].hit /\ new.tried = call[c].tried
      /\ new.checked = call[c].checked /\ new.rec = call[c].rec /\ new.role = call[c].role
  BY <1>1, <1>4 DEF Calls
<1> HIDE DEF new
<1>6. OnlyMoves(c) /\ call'[c] = new /\ Evolves
  BY <1>1, <1>3, <1>5, NobodyMoves DEF OnlyMoves, TypeOK
<1>7. GuardOK(c)'
  BY <1>1, <1>5, <1>6 DEF GuardOK, Pid, Looking, At, Tracked
<1>8. SecondLookOK(c)' /\ TriedOK(c)'
  BY <1>1, <1>5, <1>6 DEF SecondLookOK, TriedOK, At, Alive, Pid, Born
<1>9. OneOperator /\ Pid(c) = NoPid =>
        \A p \in Pids : os'[p] # Free /\ os'[p].birth \in new.seen => p \in new.guard
  BY <1>1, <1>5 DEF IInv, CopyOK, At, Looking, Alive
<1> QED
  BY <1>1, <1>5, <1>6, <1>7, <1>8, <1>9, StopGoesOn DEF CallOK, Stopping, Sweeping, Looking

LEMMA KillFoundKeeps ==
  ASSUME IInv, NEW c \in Callers, KillFound(c)
  PROVE  IInv'
<1> DEFINE Q == call[c].aim
           births == BirthsOf(Q)
           stage == IF Pid(c) = NoPid THEN "swept" ELSE "finishing"
           new == [call[c] EXCEPT !.at = stage, !.hit = call[c].hit \cup Q,
                                  !.tried = call[c].tried \cup births, !.guard = {}, !.aim = {}]
<1>1. TypeOK /\ PastOK /\ CallOK(c) /\ call[c] \in Calls /\ call[c].at = "found"
  BY DEF KillFound, At, IInv, TypeOK
<1>2. call' = [call EXCEPT ![c] = new] /\ UNCHANGED <<clock, exists, rec, attempted>>
  BY <1>1 DEF KillFound, TypeOK
<1>3. PICK P : Kill(P)
  BY DEF KillFound
<1>4. Q \in SUBSET Pids /\ births \in SUBSET Births /\ births = BirthsOf(Q)
  BY <1>1, BirthsAreOf DEF Calls
<1>5. \/ stage = "finishing" /\ Pid(c) # NoPid
      \/ stage = "swept" /\ Pid(c) = NoPid
  OBVIOUS
<1> HIDE DEF births, Q, stage
<1>6. /\ new \in Calls /\ new.at = stage /\ new.hit = call[c].hit \cup Q
      /\ new.tried = call[c].tried \cup births /\ new.checked = call[c].checked
      /\ new.rec = call[c].rec /\ new.role = call[c].role
  BY <1>1, <1>4, <1>5 DEF Calls
<1> HIDE DEF new
<1>7. new.checked <= clock /\ call[c].at \in Looking
  BY <1>1, <1>6 DEF CallOK, Looking
<1> QED
  BY <1>1, <1>2, <1>3, <1>4, <1>5, <1>6, <1>7, StopKills

(* What runs of the roles on record has a number that the sweep will leave
   alone: its copy of the record knows them all. *)
LEMMA RunningIsProtected ==
  ASSUME IInv, OneOperator, NEW c \in Callers, At(c, "sweeping")
  PROVE  Running(rec) \subseteq Protected(call[c].rec)
<1>1. CopyOK(c)
  BY DEF IInv, At
<1>2. ASSUME NEW role \in Roles, Recorded(rec, role) = "ours"
      PROVE  rec.pid[role] # NoPid /\ call[c].rec.pid[role] = rec.pid[role]
  BY <1>1, <1>2 DEF CopyOK, At, Recorded, Verdict
<1> QED
  BY <1>2 DEF Running, Protected, Tracked

LEMMA ProtectKeeps ==
  ASSUME IInv, NEW c \in Callers, Protect(c)
  PROVE  IInv'
<1>1. /\ TypeOK /\ PastOK /\ CallOK(c) /\ TriedOK(c) /\ call[c] \in Calls /\ call[c].at = "sweeping"
      /\ Pid(c) = NoPid /\ UNCHANGED <<os, clock, exists, rec, attempted>>
  BY DEF Protect, At, IInv, TypeOK, CallOK, Sweeping
<1>2. CASE call' = [call EXCEPT ![c].at = "scanning", ![c].guard = Protected(call[c].rec),
                                ![c].seen = BirthsOf(Running(rec))]
  <2> DEFINE guard == Protected(call[c].rec)
             births == BirthsOf(Running(rec))
             new == [call[c] EXCEPT !.at = "scanning", !.guard = guard, !.seen = births]
  <2>1. call' = [call EXCEPT ![c] = new]
    BY <1>1, <1>2 DEF TypeOK
  <2>2. rec \in Record /\ call[c].rec \in Record
    BY <1>1 DEF TypeOK, Calls
  <2>3. guard \in SUBSET Pids /\ \A role \in Tracked(call[c].rec) : call[c].rec.pid[role] \in guard
    BY <2>2 DEF Protected, Tracked, Tree, Record
  <2>4. Running(rec) \in SUBSET Pids
    BY <2>2 DEF Running, Recorded, Verdict, Tree, Record
  <2>5. /\ births \in SUBSET Births /\ \A b \in births : b <= clock
        /\ \A p \in Pids : os[p] # Free /\ os[p].birth \in births => p \in Running(rec)
    BY <1>1, <2>4, BirthsAreOf DEF Alive
  <2>6. OneOperator => \A p \in Pids : os[p] # Free /\ os[p].birth \in births => p \in guard
    BY <1>1, <2>5, RunningIsProtected DEF At
  <2> HIDE DEF guard, births
  <2>8. /\ new \in Calls /\ new.at = "scanning" /\ new.guard = guard /\ new.seen = births
        /\ new.hit = call[c].hit /\ new.tried = call[c].tried
        /\ new.checked = call[c].checked /\ new.rec = call[c].rec /\ new.role = call[c].role
    BY <1>1, <2>3, <2>5 DEF Calls
  <2> HIDE DEF new
  <2>9. OnlyMoves(c) /\ call'[c] = new /\ Evolves
    BY <1>1, <2>1, <2>8, NobodyMoves DEF OnlyMoves, TypeOK
  <2>10. GuardOK(c)'
    BY <1>1, <2>3, <2>5, <2>8, <2>9 DEF GuardOK, Pid, Looking, At, Tracked
  <2>11. SecondLookOK(c)' /\ TriedOK(c)'
    BY <1>1, <2>8, <2>9 DEF SecondLookOK, TriedOK, At, Alive, Pid, Born
  <2> QED
    BY <1>1, <2>6, <2>8, <2>9, <2>10, <2>11, StopGoesOn DEF CallOK, Stopping, Sweeping, Looking
<1>3. ASSUME NEW complete \in BOOLEAN, NEW orphans \in BOOLEAN,
             call' = [call EXCEPT ![c] = [call[c] EXCEPT !.at = "swept", !.complete = complete,
                                                         !.orphans = orphans]]
      PROVE  IInv'
  <2> DEFINE new == [call[c] EXCEPT !.at = "swept", !.complete = complete, !.orphans = orphans]
  <2>1. call' = [call EXCEPT ![c] = new]
    BY <1>3
  <2>2. /\ new \in Calls /\ new.at = "swept" /\ new.hit = call[c].hit /\ new.tried = call[c].tried
        /\ new.checked = call[c].checked /\ new.rec = call[c].rec /\ new.role = call[c].role
    BY <1>1 DEF Calls
  <2> HIDE DEF new
  <2>3. OnlyMoves(c) /\ call'[c] = new /\ Evolves
    BY <1>1, <2>1, <2>2, NobodyMoves DEF OnlyMoves, TypeOK
  <2>4. GuardOK(c)' /\ SecondLookOK(c)' /\ TriedOK(c)'
    BY <1>1, <2>2, <2>3 DEF GuardOK, Looking, SecondLookOK, TriedOK, At, Alive, Pid, Born
  <2> QED
    BY <1>1, <2>2, <2>3, <2>4, StopGoesOn DEF CallOK, Stopping, Sweeping, Looking
<1>4. CASE call' = [call EXCEPT ![c].at = "swept", ![c].complete = FALSE]
  <2>1. call' = [call EXCEPT ![c] = [call[c] EXCEPT !.at = "swept", !.complete = FALSE]]
    BY <1>1, <1>4 DEF TypeOK
  <2>2. /\ call[c].orphans \in BOOLEAN
        /\ [call[c] EXCEPT !.at = "swept", !.complete = FALSE]
             = [call[c] EXCEPT !.at = "swept", !.complete = FALSE, !.orphans = call[c].orphans]
    BY <1>1 DEF Calls
  <2> QED
    BY <2>1, <2>2, <1>3
<1>5. CASE \E complete \in BOOLEAN :
             call' = [call EXCEPT ![c].at = "swept", ![c].complete = complete,
                                  ![c].orphans = FALSE]
  <2>1. PICK complete \in BOOLEAN :
          call' = [call EXCEPT ![c].at = "swept", ![c].complete = complete, ![c].orphans = FALSE]
    BY <1>5
  <2>2. call' = [call EXCEPT ![c] = [call[c] EXCEPT !.at = "swept", !.complete = complete,
                                                    !.orphans = FALSE]]
    BY <1>1, <2>1 DEF TypeOK
  <2> QED
    BY <2>2, <1>3
<1> QED
  BY <1>2, <1>4, <1>5 DEF Protect

-----------------------------------------------------------------------------
(* The steps that write the record.                                        *)

(* With one operator, no other call is under way while a start() or stop() is. *)
LEMMA Alone ==
  ASSUME IInv, OneOperator, NEW c \in Callers, "start" \in Does[c] \/ "stop" \in Does[c]
  PROVE  \A d \in Callers \ {c} : call[d].at = "idle"
<1> SUFFICES ASSUME NEW d \in Callers \ {c}, call[d].at # "idle" PROVE FALSE
  OBVIOUS
<1>1. call[d] \in Calls /\ CallOK(d)
  BY DEF IInv, TypeOK
<1>2. "start" \in Does[d] \/ "stop" \in Does[d]
  BY <1>1 DEF CallOK, Calls, Starting, Stopping, Sweeping, Looking
<1> QED
  BY <1>2 DEF OneOperator

(* The operation of c ends, and has written the record. *)
LEMMA SaveKeeps ==
  ASSUME IInv, NEW c \in Callers, End(c), UNCHANGED <<os, clock, exists>>,
         "start" \in Does[c] \/ "stop" \in Does[c],
         rec' \in Record, Remembered(rec'),
         attempted' \in SUBSET Births, \A b \in attempted' : b <= clock,
         OneOperator => Honest(rec.status)'
  PROVE  IInv'
<1>1. OnlyMoves(c) /\ call'[c] = Idle /\ Evolves /\ TypeOK
  BY EndMoves, NobodyMoves DEF IInv, TypeOK
<1>2. TypeOK'
  BY <1>1 DEF TypeOK, OnlyMoves, Remembered, Unborn
<1>3. PastOK'
  BY DEF IInv, PastOK, Remembered, Alive
<1>4. CallOK(c)' /\ GuardOK(c)' /\ SecondLookOK(c)' /\ TriedOK(c)'
  BY <1>1, IdleIsCall, ClockIsNat
     DEF CallOK, GuardOK, SecondLookOK, TriedOK, Remembered, At, Starting, Stopping, Sweeping, Looking, Unborn,
         Process, Births, Alive, IInv, TypeOK
<1>5. \A d \in Callers : CallOK(d)' /\ GuardOK(d)' /\ SecondLookOK(d)' /\ TriedOK(d)'
  BY <1>1, <1>4, CallerKeeps DEF IInv, OnlyMoves
<1>6. OneOperator => \A d \in Callers : call'[d].at = "idle"
  BY <1>1, Alone, IdleIsCall DEF OnlyMoves
<1> QED
  BY <1>2, <1>3, <1>5, <1>6 DEF IInv, OneOperator, At

LEMMA StartSaveKeeps ==
  ASSUME IInv, NEW c \in Callers, StartSave(c)
  PROVE  IInv'
<1>1. /\ TypeOK /\ CallOK(c) /\ call[c] \in Calls /\ call[c].at = "spawned"
      /\ attempted' = {} /\ End(c) /\ UNCHANGED <<os, clock, exists>>
  BY DEF StartSave, At, IInv, TypeOK
<1>2. PICK r0 \in Record : r0 = call[c].rec
  BY <1>1 DEF Calls
<1>3. PICK status \in Statuses : rec' = [r0 EXCEPT !.status = status]
  BY <1>2 DEF StartSave, Statuses
<1>4. rec' \in Record /\ rec'.pid = r0.pid /\ rec'.born = r0.born
  BY <1>3 DEF Record
<1>5. Remembered(rec')
  BY <1>1, <1>2, <1>4 DEF CallOK, Remembered
<1>6. "start" \in Does[c]
  BY <1>1 DEF CallOK, Starting
<1>7. Honest(rec.status)'
  BY <1>1 DEF Honest
<1> QED
  BY <1>1, <1>4, <1>5, <1>6, <1>7, SaveKeeps

LEMMA WithoutIs ==
  ASSUME NEW r \in Record, NEW roles
  PROVE  /\ Without(r, roles) \in Record /\ Without(r, roles).status = r.status
         /\ \A x \in Roles : /\ Without(r, roles).pid[x] = IF x \in roles THEN NoPid ELSE r.pid[x]
                             /\ Without(r, roles).born[x] = IF x \in roles THEN Unborn ELSE r.born[x]
BY DEF Without, Record, Births, Unborn

LEMMA WithoutRemembers ==
  ASSUME TypeOK, NEW r \in Record, NEW roles, Remembered(r)
  PROVE  Remembered(Without(r, roles))
<1>1. \A p \in Pids : Alive(p) => os[p].birth # Unborn
  BY DEF Alive, TypeOK, Process, Births, Unborn
<1> QED
  BY <1>1, WithoutIs, ClockIsNat DEF Remembered, Unborn

(* Whom the call of c has tried to kill is dead if it will not say otherwise. *)
LEMMA SaveIsHonest ==
  ASSUME IInv, NEW c \in Callers, ~At(c, "idle"), UNCHANGED os,
         attempted' = {b \in attempted \cup call[c].tried : Living(b)},
         NEW status,
         \/ status = "stop_incomplete"
         \/ /\ \A p \in call[c].hit : ~Alive(p)
            /\ Pid(c) = NoPid \/ Verdict(Pid(c), Born(c)) # "ours"
            /\ status \notin Sticky => call[c].rec.status \notin Sticky,
         OneOperator
  PROVE  Honest(status)'
<1> SUFFICES ASSUME status \notin Sticky, NEW b \in attempted'
             PROVE  ~Living(b)'
  BY DEF Honest
<1>1. /\ \A p \in call[c].hit : ~Alive(p)
      /\ Pid(c) = NoPid \/ Verdict(Pid(c), Born(c)) # "ours"
      /\ call[c].rec.status \notin Sticky
  BY DEF Sticky
<1>2. Living(b) /\ b \in attempted \cup call[c].tried
  OBVIOUS
<1>3. b \notin attempted
  BY <1>1, <1>2 DEF IInv, CopyOK, Honest
<1>4. PICK p \in Pids : Alive(p) /\ os[p].birth = b
  BY <1>2 DEF Living
<1>5. p = Pid(c) /\ os[p].birth = Born(c)
  BY <1>1, <1>2, <1>3, <1>4 DEF IInv, TriedOK
<1>6. Born(c) # Unborn /\ Pid(c) # NoPid
  BY <1>4, <1>5, LifecycleAssumption
     DEF IInv, TypeOK, Alive, Process, Births, Unborn, LifecycleAssumption
<1> QED
  BY <1>1, <1>4, <1>5, <1>6 DEF Verdict

LEMMA StopSaveKeeps ==
  ASSUME IInv, NEW c \in Callers, StopSave(c)
  PROVE  IInv'
<1>1. /\ TypeOK /\ CallOK(c) /\ call[c] \in Calls /\ call[c].at = "finishing"
      /\ attempted' = {b \in attempted \cup call[c].tried : Living(b)}
      /\ End(c) /\ UNCHANGED <<os, clock, exists>>
  BY DEF StopSave, At, IInv, TypeOK
<1>2. PICK r0 \in Record : r0 = call[c].rec
  BY <1>1 DEF Calls
<1> DEFINE left == Without(r0, {call[c].role})
           status == IF Incomplete(c) THEN "stop_incomplete"
                     ELSE IF Tracked(left) = {} /\ left.status \notin Sticky THEN "stopped"
                     ELSE left.status
<1>3. rec' = [left EXCEPT !.status = status]
  BY <1>2 DEF StopSave
<1>4. left \in Record /\ left.status = r0.status
  BY WithoutIs
<1>5. Remembered(left)
  BY <1>1, <1>2, WithoutRemembers DEF CallOK
<1>6. \/ status = "stop_incomplete"
      \/ /\ ~Incomplete(c)
         /\ status \notin Sticky => r0.status \notin Sticky
  BY <1>4
<1>7. status \in Statuses
  BY <1>4 DEF Record, Statuses
<1> HIDE DEF left, status
<1>8. rec' \in Record /\ rec'.pid = left.pid /\ rec'.born = left.born /\ rec'.status = status
  BY <1>3, <1>4, <1>7 DEF Record
<1>9. Remembered(rec')
  BY <1>5, <1>8 DEF Remembered
<1>10. "stop" \in Does[c] /\ ~At(c, "idle")
  BY <1>1 DEF CallOK, Stopping, At
<1>11. OneOperator => Honest(rec.status)'
  <2> SUFFICES ASSUME OneOperator PROVE Honest(rec.status)'
    OBVIOUS
  <2>1. ~Incomplete(c) => /\ \A p \in call[c].hit : ~Alive(p)
                          /\ Verdict(Pid(c), Born(c)) # "ours"
    BY DEF Incomplete, Survivors
  <2>2. PICK s : s = status
    OBVIOUS
  <2>3. Honest(s)'
    BY <1>1, <1>2, <1>6, <1>10, <2>1, <2>2, SaveIsHonest
  <2> QED
    BY <1>8, <2>2, <2>3 DEF Honest
<1>12. /\ attempted' \in SUBSET Births
       /\ \A b \in attempted' : b <= clock
  BY <1>1 DEF TypeOK, Calls, IInv, PastOK, CallOK
<1> QED
  BY <1>1, <1>8, <1>9, <1>10, <1>11, <1>12, SaveKeeps

LEMMA SweepSaveKeeps ==
  ASSUME IInv, NEW c \in Callers, SweepSave(c)
  PROVE  IInv'
<1>1. /\ TypeOK /\ CallOK(c) /\ call[c] \in Calls /\ call[c].at = "swept"
      /\ attempted' = {b \in attempted \cup call[c].tried : Living(b)}
      /\ End(c) /\ UNCHANGED <<os, clock, exists>>
  BY DEF SweepSave, At, IInv, TypeOK
<1>2. PICK r0 \in Record : r0 = call[c].rec
  BY <1>1 DEF Calls
<1> DEFINE incomplete == \/ \E p \in call[c].hit : Alive(p)
                         \/ call[c].orphans /\ ~call[c].complete
                         \/ Raced(c)
           status == IF incomplete THEN "stop_incomplete"
                     ELSE IF Tracked(r0) = {} /\ r0.status \notin Sticky THEN "stopped"
                     ELSE r0.status
<1>3. rec' = [r0 EXCEPT !.status = status]
  BY <1>2 DEF SweepSave
<1>4. incomplete \/ \A p \in call[c].hit : ~Alive(p)
  OBVIOUS
<1> HIDE DEF incomplete
<1>5. \/ status = "stop_incomplete"
      \/ /\ \A p \in call[c].hit : ~Alive(p)
         /\ status \notin Sticky => r0.status \notin Sticky
  BY <1>4
<1>6. status \in Statuses
  BY DEF Record, Statuses
<1> HIDE DEF status
<1>7. rec' \in Record /\ rec'.pid = r0.pid /\ rec'.born = r0.born /\ rec'.status = status
  BY <1>3, <1>6 DEF Record
<1>8. Remembered(rec')
  BY <1>1, <1>2, <1>7 DEF CallOK, Remembered
<1>9. "stop" \in Does[c] /\ ~At(c, "idle") /\ Pid(c) = NoPid
  BY <1>1 DEF CallOK, Sweeping, At
<1>10. OneOperator => Honest(rec.status)'
  <2> SUFFICES ASSUME OneOperator PROVE Honest(rec.status)'
    OBVIOUS
  <2>1. PICK s : s = status
    OBVIOUS
  <2>2. Honest(s)'
    BY <1>1, <1>2, <1>5, <1>9, <2>1, SaveIsHonest
  <2> QED
    BY <1>7, <2>1, <2>2 DEF Honest
<1>11. /\ attempted' \in SUBSET Births
       /\ \A b \in attempted' : b <= clock
  BY <1>1 DEF TypeOK, Calls, IInv, PastOK, CallOK
<1> QED
  BY <1>1, <1>7, <1>8, <1>9, <1>10, <1>11, SaveKeeps

-----------------------------------------------------------------------------
(* reconcile(), and what happens around the callers.                       *)

LEMMA ReconcileKeeps ==
  ASSUME IInv, NEW c \in Callers, Reconcile(c)
  PROVE  IInv'
<1>1. /\ TypeOK /\ PastOK /\ rec \in Record /\ Remembered(rec) /\ Evolves
      /\ UNCHANGED <<os, clock, exists, call, attempted>>
  BY NobodyMoves DEF Reconcile, IInv, TypeOK, PastOK
<1> DEFINE dead == DeadRoles(rec)
           left == Without(rec, dead)
           status == IF dead # {} /\ (IF exists THEN rec.status ELSE "orphaned") \notin Sticky
                     THEN "stopped" ELSE IF exists THEN rec.status ELSE "orphaned"
<1>2. rec' = [left EXCEPT !.status = status]
  BY DEF Reconcile
<1>3. /\ left \in Record
      /\ \A x \in Roles : /\ left.pid[x] = IF x \in dead THEN NoPid ELSE rec.pid[x]
                          /\ left.born[x] = IF x \in dead THEN Unborn ELSE rec.born[x]
  BY <1>1, WithoutIs
<1>4. Remembered(left)
  BY <1>1, WithoutRemembers
<1>5. status \in Statuses /\ (status \notin Sticky => rec.status \notin Sticky)
  BY <1>1 DEF Record, Statuses, Sticky
<1> HIDE DEF left, status, dead
<1>6. rec' \in Record /\ rec'.pid = left.pid /\ rec'.born = left.born /\ rec'.status = status
  BY <1>2, <1>3, <1>5 DEF Record
<1>7. TypeOK'
  BY <1>1, <1>4, <1>6 DEF TypeOK, Remembered, Alive
<1>8. PastOK'
  BY <1>1, <1>4, <1>6 DEF PastOK, Remembered, Alive
<1>9. \A d \in Callers : CallOK(d)' /\ GuardOK(d)' /\ SecondLookOK(d)' /\ TriedOK(d)'
  BY <1>1, CallerKeeps DEF IInv
<1>10. ASSUME OneOperator
       PROVE  Honest(rec.status)' /\ \A d \in Callers : call'[d].at # "idle" => CopyOK(d)'
  <2>1. Honest(rec.status)'
    BY <1>1, <1>5, <1>6, <1>10 DEF IInv, Honest, Living, Alive
  <2>2. ASSUME NEW d \in Callers, call[d].at # "idle"
        PROVE  CopyOK(d)'
    <3>1. CopyOK(d) /\ call[d].role \in Roles
      BY <1>1, <1>10, <2>2 DEF IInv, At, TypeOK, Calls
    <3>2. Honest(call[d].rec.status)'
      BY <1>1, <3>1 DEF CopyOK, Honest, Living, Alive
    <3>3. Recorded(rec, call[d].role) # "ours" => Recorded(rec, call[d].role)' # "ours"
      BY <1>1, <1>3, <1>6, <3>1 DEF Recorded, Verdict, Alive
    <3> QED
      BY <1>1, <1>3, <1>6, <3>1, <3>2, <3>3 DEF CopyOK, At, Pid, Alive
  <2> QED
    BY <1>1, <2>1, <2>2
<1> QED
  BY <1>1, <1>7, <1>8, <1>9, <1>10 DEF IInv, OneOperator, At

LEMMA WorldStepKeeps ==
  ASSUME IInv,
         \/ \E p, q, group \in Pids : Fork(p, q, group)
         \/ \E p \in Pids : Exit(p) \/ Stranger(p)
         \/ CheckoutDeleted
  PROVE  IInv'
<1>1. TypeOK /\ PastOK /\ clock \in Nat /\ MaxBirth \in Nat /\ exists \in BOOLEAN
  BY ClockIsNat DEF IInv, TypeOK
<1>2. ASSUME NEW p \in Pids, NEW q \in Pids, NEW group \in Pids, Fork(p, q, group)
      PROVE  IInv'
  <2> DEFINE new == [ours |-> os[p].ours, birth |-> clock + 1,
                     parent |-> os[p].birth, group |-> group]
  <2>1. /\ os' = [os EXCEPT ![q] = new] /\ clock < MaxBirth /\ clock' = clock + 1
        /\ UNCHANGED <<exists, rec, call, attempted>>
    BY <1>2 DEF Fork
  <2>2. os[p] \in Process
    BY <1>1, <1>2 DEF Fork, Alive, TypeOK
  <2>3. new \in Process /\ new.birth = clock + 1
    BY <1>1, <2>1, <2>2 DEF Process, Births
  <2> HIDE DEF new
  <2> QED
    BY <1>1, <2>1, <2>3, BirthEvolves, WorldKeeps
<1>3. ASSUME NEW p \in Pids, Stranger(p)
      PROVE  IInv'
  <2> DEFINE new == [ours |-> FALSE, birth |-> clock + 1, parent |-> Adopted, group |-> p]
  <2>1. /\ os' = [os EXCEPT ![p] = new] /\ clock < MaxBirth /\ clock' = clock + 1
        /\ UNCHANGED <<exists, rec, call, attempted>>
    BY <1>3 DEF Stranger
  <2>2. new \in Process /\ new.birth = clock + 1
    BY <1>1, <2>1 DEF Process, Births
  <2> HIDE DEF new
  <2> QED
    BY <1>1, <2>1, <2>2, BirthEvolves, WorldKeeps
<1>4. ASSUME NEW p \in Pids, Exit(p)
      PROVE  IInv'
  <2>1. Kill({p}) /\ UNCHANGED <<clock, exists, rec, call, attempted>>
    BY <1>4 DEF Exit
  <2> QED
    BY <1>1, <2>1, KillEvolves, WorldKeeps
<1>5. CASE CheckoutDeleted
  BY <1>1, <1>5, NobodyMoves, WorldKeeps DEF CheckoutDeleted
<1> QED
  BY <1>2, <1>3, <1>4, <1>5

-----------------------------------------------------------------------------
(* The invariant.                                                          *)

LEMMA StepIInv == IInv /\ [Next]_vars => IInv'
<1> SUFFICES ASSUME IInv, [Next]_vars PROVE IInv'
  OBVIOUS
<1>1. ASSUME NEW c \in Callers, Start(c) PROVE IInv'
  <2>1. ASSUME NEW role \in Roles, StartCheck(c, role) PROVE IInv'
    BY <2>1, StartCheckKeeps
  <2>2. ASSUME NEW p \in Pids, Spawn(c, p) PROVE IInv'
    BY <2>2, SpawnKeeps
  <2>3. CASE SpawnFails(c)
    BY <2>3, EndKeeps DEF SpawnFails
  <2>4. CASE StartSave(c)
    BY <2>4, StartSaveKeeps
  <2> QED
    BY <1>1, <2>1, <2>2, <2>3, <2>4 DEF Start
<1>2. ASSUME NEW c \in Callers, Stop(c) PROVE IInv'
  <2>1. ASSUME NEW role \in Roles, NEW orphans \in BOOLEAN,
               StopLoad(c, role, orphans) \/ NoProcess(c, role, orphans)
        PROVE  IInv'
    BY <2>1, StopBeginsKeeps
  <2> QED
    BY <1>2, <2>1, SnapshotKeeps, SignalKeeps, KillTreeKeeps, ScanKeeps, KillFoundKeeps,
       StopSaveKeeps, ProtectKeeps, SweepSaveKeeps DEF Stop
<1>3. ASSUME NEW c \in Callers, Reconcile(c) PROVE IInv'
  BY <1>3, ReconcileKeeps
<1>4. ASSUME NEW c \in Callers, Crash(c) PROVE IInv'
  BY <1>4, EndKeeps DEF Crash
<1>5. CASE UNCHANGED vars
  BY <1>5, NobodyMoves, WorldKeeps DEF vars, IInv, TypeOK
<1> QED
  BY <1>1, <1>2, <1>3, <1>4, <1>5, WorldStepKeeps DEF Next

LEMMA InitIInv == Init => IInv
<1> SUFFICES ASSUME Init PROVE IInv
  OBVIOUS
<1>1. 0 \in 0..MaxBirth /\ \A p \in Pids : ~Alive(p)
  BY LifecycleAssumption DEF Init, LifecycleAssumption, Alive
<1>2. TypeOK
  BY <1>1, IdleIsCall DEF Init, TypeOK, Alive
<1>3. Remembered(NoRecord)
  BY <1>1, IdleIsCall DEF Remembered, Unborn, Init
<1>4. PastOK
  BY <1>1, <1>3 DEF Init, PastOK
<1>5. ASSUME NEW c \in Callers
      PROVE  CallOK(c) /\ GuardOK(c) /\ SecondLookOK(c) /\ TriedOK(c) /\ At(c, "idle")
  <2>1. call[c] = Idle /\ clock = 0
    BY DEF Init
  <2> QED
    BY <1>3, <2>1, IdleIsCall
       DEF CallOK, GuardOK, SecondLookOK, TriedOK, At, Starting, Stopping, Sweeping, Looking
<1>6. Honest(rec.status)
  BY DEF Init, Honest
<1> QED
  BY <1>2, <1>4, <1>5, <1>6 DEF IInv

(* The inductive invariant: start times on record are those of processes of the
   environment that were born by now; each call holds, stage by stage, what its
   next step relies on; and, if nobody starts or stops beside another caller,
   every copy of the record that a call will write back is still good. *)
THEOREM LifecycleInvariant == Spec => []IInv
BY InitIInv, StepIInv, PTL DEF Spec

(* Records, calls and processes have their types, and no two live processes
   share a birth, whatever is started, stopped, reconciled or recycled. *)
THEOREM LifecycleTypeOK == Spec => []TypeOK
<1>1. IInv => TypeOK
  BY DEF IInv
<1> QED
  BY <1>1, LifecycleInvariant, PTL

-----------------------------------------------------------------------------
(* What the invariant is for.                                              *)

(* Who has begun an operation goes on with it, or dies: nobody else does. *)
LEMMA OthersLeaveAlone ==
  ASSUME IInv, [Next]_vars, NEW c \in Callers, call'[c] # call[c]
  PROVE  Start(c) \/ Stop(c) \/ Crash(c)
<1>1. TypeOK
  BY DEF IInv
<1>2. ASSUME NEW d \in Callers, d # c, Start(d)
      PROVE  call'[c] = call[c]
  <2>1. ASSUME NEW p \in Pids, Spawn(d, p) PROVE call'[c] = call[c]
    BY <1>2, <2>1, SpawnMoves DEF OnlyMoves
  <2>2. CASE ~\E p \in Pids : Spawn(d, p)
    BY <1>1, <1>2, <2>2 DEF Start, StartCheck, SpawnFails, StartSave, End, TypeOK
  <2> QED
    BY <2>1, <2>2
<1>3. ASSUME NEW d \in Callers, d # c, Stop(d)
      PROVE  call'[c] = call[c]
  <2>1. CASE \E role \in Roles, orphans \in BOOLEAN :
               StopLoad(d, role, orphans) \/ NoProcess(d, role, orphans)
    BY <1>1, <1>3, <2>1 DEF StopLoad, NoProcess, TypeOK
  <2>2. CASE Snapshot(d) \/ Signal(d) \/ KillTree(d)
    BY <1>1, <1>3, <2>2 DEF Snapshot, Signal, KillTree, TypeOK
  <2>3. CASE Scan(d) \/ KillFound(d) \/ Protect(d)
    BY <1>1, <1>3, <2>3 DEF Scan, KillFound, Protect, TypeOK
  <2>4. CASE StopSave(d) \/ SweepSave(d)
    BY <1>1, <1>3, <2>4 DEF StopSave, SweepSave, End, TypeOK
  <2> QED
    BY <1>3, <2>1, <2>2, <2>3, <2>4 DEF Stop
<1>4. ASSUME NEW d \in Callers, d # c, Reconcile(d) \/ Crash(d)
      PROVE  call'[c] = call[c]
  BY <1>1, <1>4 DEF Reconcile, Crash, End, TypeOK
<1>5. ~Reconcile(c)
  BY DEF Reconcile
<1>6. ASSUME \/ \E p, q, group \in Pids : Fork(p, q, group)
             \/ \E p \in Pids : Exit(p) \/ Stranger(p)
             \/ CheckoutDeleted
      PROVE  call' = call
  BY <1>6 DEF Fork, Exit, Stranger, CheckoutDeleted
<1>7. ~UNCHANGED vars
  BY DEF vars
<1> QED
  BY <1>2, <1>3, <1>4, <1>5, <1>6, <1>7 DEF Next

LEMMA NobodyDies ==
  ASSUME TypeOK, Kill({}), NEW p \in Pids
  PROVE  os'[p] = os[p]
BY DEF Kill

LEMMA KillSpares ==
  ASSUME TypeOK, NEW P, Kill(P), NEW p \in Pids, Alive(p), p \notin P
  PROVE  os'[p] # Free
<1>1. os[p] \in Process
  BY DEF Alive, TypeOK
<1>2. [os[p] EXCEPT !.parent = Adopted] \in Process
  BY <1>1 DEF Process, Adopted
<1> QED
  BY <1>1, <1>2, FreeAssumption DEF Kill, FreeAssumption

LEMMA StrangersSparedStep ==
  ASSUME IInv, [Next]_vars, NEW c \in Callers, call[c].at \in {"snapped", "signalled"},
         call'[c] # call[c], TakenOver(c), NEW p \in {Pid(c)} \cup Family(Pid(c))
  PROVE  os'[p] = os[p]
<1>1. TypeOK /\ CallOK(c) /\ SecondLookOK(c) /\ call[c] \in Calls
  BY DEF IInv, TypeOK
<1>2. Pid(c) \in Pids /\ p \in Pids
  BY <1>1 DEF CallOK, Stopping, Pid, Calls, Record, Family, Tree, Members
<1>3. Start(c) \/ Stop(c) \/ Crash(c)
  BY OthersLeaveAlone
<1>4. Signal(c) \/ KillTree(c) \/ Crash(c)
  BY <1>3 DEF Start, StartCheck, Spawn, SpawnFails, StartSave, Stop, StopLoad, NoProcess, Begin,
              Snapshot, Scan, KillFound, StopSave, Protect, SweepSave, At
<1>5. CASE Signal(c)
  <2>1. ~Confirmed(c)
    <3>1. Confirmed(c) => os[Pid(c)].birth = Born(c)
      BY <1>2, LifecycleAssumption DEF Confirmed, Verdict, LifecycleAssumption
    <3>2. os[Pid(c)].birth # Born(c)
      BY <1>1, <1>2 DEF TakenOver, CallOK, Remembered, Born, Calls
    <3> QED
      BY <3>1, <3>2
  <2>2. Kill({})
    <3>1. PICK P \in SUBSET (IF Confirmed(c) THEN Members(Pid(c)) ELSE {}) : Kill(P)
      BY <1>5 DEF Signal
    <3>2. P = {}
      BY <2>1, <3>1
    <3> QED
      BY <3>1, <3>2
  <2> QED
    BY <1>1, <1>2, <2>2, NobodyDies
<1>6. CASE KillTree(c)
  <2>1. call[c].hit = {}
    <3>1. At(c, "signalled") /\ Alive(Pid(c)) /\ ~os[Pid(c)].ours /\ os[Pid(c)].birth <= call[c].checked
      BY <1>6 DEF KillTree, TakenOver
    <3>2. os[Pid(c)].birth \in Births /\ call[c].checked \in 0..MaxBirth /\ MaxBirth \in Nat
      BY <1>1, <1>2, <3>1, ClockIsNat DEF TypeOK, Alive, Process, Calls
    <3> QED
      BY <1>1, <3>1, <3>2 DEF SecondLookOK, Births
  <2>2. Kill({})
    <3>1. PICK P \in SUBSET call[c].hit : Kill(P)
      BY <1>6 DEF KillTree
    <3>2. P = {}
      BY <2>1, <3>1
    <3> QED
      BY <3>1, <3>2
  <2> QED
    BY <1>1, <1>2, <2>2, NobodyDies
<1>7. CASE Crash(c)
  BY <1>7 DEF Crash
<1> QED
  BY <1>4, <1>5, <1>6, <1>7

LEMMA SiblingsSparedStep ==
  ASSUME IInv, OneOperator, [Next]_vars, NEW c \in Callers, NEW p \in Pids,
         At(c, "found"), Pid(c) = NoPid, call'[c] # call[c], Alive(p), os'[p] = Free
  PROVE  /\ os[p].birth \notin call[c].seen
         /\ \A role \in Roles : Recorded(rec, role) = "ours" => p # rec.pid[role]
<1>1. TypeOK /\ GuardOK(c) /\ CopyOK(c)
  BY DEF IInv, At
<1>2. Start(c) \/ Stop(c) \/ Crash(c)
  BY OthersLeaveAlone
<1>3. KillFound(c) \/ Crash(c)
  BY <1>2 DEF Start, StartCheck, Spawn, SpawnFails, StartSave, Stop, StopLoad, NoProcess, Begin,
              Snapshot, Signal, KillTree, Scan, StopSave, Protect, SweepSave, At
<1>4. KillFound(c)
  BY <1>3 DEF Crash, Alive
<1>5. PICK P \in SUBSET call[c].aim : Kill(P)
  BY <1>4 DEF KillFound
<1>6. p \in call[c].aim
  BY <1>1, <1>5, KillSpares
<1>7. p \notin call[c].guard
  BY <1>1, <1>6 DEF GuardOK, At, Looking
<1>8. os[p].birth \notin call[c].seen
  BY <1>1, <1>7 DEF CopyOK, At, Looking
<1>9. ASSUME NEW role \in Roles, Recorded(rec, role) = "ours"
      PROVE  p # rec.pid[role]
  <2>1. rec.pid[role] # NoPid
    BY <1>9 DEF Recorded, Verdict
  <2>2. call[c].rec.pid[role] = rec.pid[role]
    BY <1>1, <2>1 DEF CopyOK, At
  <2>3. role \in Tracked(call[c].rec)
    BY <2>1, <2>2 DEF Tracked
  <2> QED
    BY <1>1, <1>7, <2>2, <2>3 DEF GuardOK, At, Looking
<1> QED
  BY <1>8, <1>9

LEMMA NoLiveRoleForgottenStep ==
  ASSUME IInv, OneOperator, [Next]_vars, NEW role \in Roles, Recorded(rec, role) = "ours",
         rec'.pid[role] # rec.pid[role]
  PROVE  rec'.status = "stop_incomplete"
<1>1. TypeOK /\ rec.pid[role] # NoPid
  BY DEF IInv, Recorded, Verdict
<1>2. ASSUME NEW c \in Callers, ~At(c, "idle")
      PROVE  /\ call[c] \in Calls /\ call[c].rec \in Record /\ CopyOK(c)
             /\ \/ At(c, "spawned") /\ role = call[c].role
                \/ call[c].rec.pid[role] = rec.pid[role] /\ call[c].rec.born[role] = rec.born[role]
  BY <1>1, <1>2 DEF IInv, CopyOK, TypeOK, Calls
<1>3. PICK c \in Callers : StartSave(c) \/ StopSave(c) \/ SweepSave(c) \/ Reconcile(c)
  <2>1. rec' # rec
    OBVIOUS
  <2>2. PICK c \in Callers : Start(c) \/ Stop(c) \/ Reconcile(c)
    BY <2>1 DEF Next, Crash, Fork, Exit, Stranger, CheckoutDeleted, vars
  <2>3. ~Start(c) \/ StartSave(c)
    BY <2>1 DEF Start, StartCheck, Spawn, SpawnFails
  <2>4. ~Stop(c) \/ StopSave(c) \/ SweepSave(c)
    BY <2>1 DEF Stop, StopLoad, NoProcess, Snapshot, Signal, KillTree, Scan, KillFound, Protect
  <2> QED
    BY <2>2, <2>3, <2>4
<1>4. CASE StartSave(c)
  <2>1. At(c, "spawned") /\ rec'.pid = call[c].rec.pid
    BY <1>2, <1>4 DEF StartSave, At, Record
  <2>2. role = call[c].role
    BY <1>2, <2>1 DEF At
  <2> QED
    BY <1>2, <2>1, <2>2 DEF CopyOK, At, Starting
<1>5. CASE StopSave(c)
  <2>1. ~At(c, "idle") /\ ~At(c, "spawned")
    BY <1>5 DEF StopSave, At
  <2> DEFINE left == Without(call[c].rec, {call[c].role})
  <2>2. /\ rec'.pid = left.pid
        /\ Incomplete(c) => rec'.status = "stop_incomplete"
    <3>1. left \in Record
      BY <1>2, <2>1, WithoutIs
    <3> DEFINE status == IF Incomplete(c) THEN "stop_incomplete"
                         ELSE IF Tracked(left) = {} /\ left.status \notin Sticky THEN "stopped"
                         ELSE left.status
    <3>2. rec' = [left EXCEPT !.status = status]
      BY <1>5 DEF StopSave
    <3>3. Incomplete(c) => status = "stop_incomplete"
      OBVIOUS
    <3> HIDE DEF left, status
    <3> QED
      BY <3>1, <3>2, <3>3 DEF Record
  <2>3. left.pid[role] = IF role = call[c].role THEN NoPid ELSE call[c].rec.pid[role]
    BY <1>2, <2>1, WithoutIs
  <2> HIDE DEF left
  <2>4. role = call[c].role /\ Pid(c) = rec.pid[role] /\ Born(c) = rec.born[role]
    BY <1>2, <2>1, <2>2, <2>3 DEF Pid, Born
  <2>5. Incomplete(c)
    BY <2>4 DEF Incomplete, Survivors, Recorded
  <2> QED
    BY <2>2, <2>5
<1>6. CASE SweepSave(c)
  <2>1. ~At(c, "idle") /\ ~At(c, "spawned")
    BY <1>6 DEF SweepSave, At
  <2>2. rec'.pid = call[c].rec.pid
    BY <1>2, <1>6, <2>1 DEF SweepSave, Record
  <2> QED
    BY <1>2, <2>1, <2>2
<1>7. CASE Reconcile(c)
  <2> DEFINE left == Without(rec, DeadRoles(rec))
             status == IF DeadRoles(rec) # {} /\ (IF exists THEN rec.status ELSE "orphaned") \notin Sticky
                       THEN "stopped" ELSE IF exists THEN rec.status ELSE "orphaned"
  <2>1. rec' = [left EXCEPT !.status = status]
    BY <1>7 DEF Reconcile
  <2>2. left \in Record /\ (role \notin DeadRoles(rec) => left.pid[role] = rec.pid[role])
    BY <1>1, WithoutIs DEF TypeOK
  <2> HIDE DEF left, status
  <2>3. rec'.pid = left.pid
    BY <2>1, <2>2 DEF Record
  <2>4. role \notin DeadRoles(rec)
    BY DEF DeadRoles
  <2> QED
    BY <2>2, <2>3, <2>4
<1> QED
  BY <1>3, <1>4, <1>5, <1>6, <1>7

(* When the tracked number belongs to a stranger by the time of the second look,
   stop() hits neither the stranger nor its group and children. *)
THEOREM StrangersAreSpared == Spec => StrangersSpared
<1>1. IInv /\ [Next]_vars =>
        [\A c \in Callers :
           call[c].at \in {"snapped", "signalled"} /\ call'[c] # call[c] /\ TakenOver(c)
             => \A p \in {Pid(c)} \cup Family(Pid(c)) : os'[p] = os[p]]_vars
  BY StrangersSparedStep
<1> QED
  BY <1>1, LifecycleInvariant, PTL DEF Spec, StrangersSpared

(* If nobody starts or stops beside another caller, "stopped" is not on record
   while a process that a stop() has tried to kill is alive. *)
THEOREM StoppedIsHonest == ASSUME OneOperator PROVE Spec => []NoFalseStopped
<1>1. IInv => NoFalseStopped
  BY DEF IInv, NoFalseStopped, Honest, Sticky
<1> QED
  BY <1>1, LifecycleInvariant, PTL

(* If nobody starts or stops beside another caller, a role whose process runs and
   is known to be ours leaves the record only with "stop_incomplete". *)
THEOREM LiveRolesStay == ASSUME OneOperator PROVE Spec => NoLiveRoleForgotten
<1>1. IInv /\ [Next]_vars =>
        [\A role \in Roles :
           /\ Recorded(rec, role) = "ours" /\ rec'.pid[role] # rec.pid[role]
           /\ os'[rec.pid[role]] = os[rec.pid[role]]
           => rec'.status = "stop_incomplete"]_vars
  BY NoLiveRoleForgottenStep
<1> QED
  BY <1>1, LifecycleInvariant, PTL DEF Spec, NoLiveRoleForgotten

(* If nobody starts or stops beside another caller, a sweep kills neither the
   process of another role nor any that ran for one, or descended from one,
   when the sweep set out. *)
THEOREM SiblingsAreSpared == ASSUME OneOperator PROVE Spec => SiblingsSpared
<1>1. IInv /\ [Next]_vars =>
        [\A c \in Callers, p \in Pids :
           /\ At(c, "found") /\ Pid(c) = NoPid /\ call'[c] # call[c]
           /\ Alive(p) /\ os'[p] = Free
           => /\ os[p].birth \notin call[c].seen
              /\ \A role \in Roles : Recorded(rec, role) = "ours" => p # rec.pid[role]]_vars
  BY SiblingsSparedStep
<1> QED
  BY <1>1, LifecycleInvariant, PTL DEF Spec, SiblingsSpared
=============================================================================
