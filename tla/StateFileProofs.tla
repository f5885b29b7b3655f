-------------------------- MODULE StateFileProofs --------------------------
(***************************************************************************)
(* Proofs about StateFile, for any number of processes, ids and records:   *)
(* state.yaml is never torn, and it implements RecordTable.                *)
(***************************************************************************)
EXTENDS StateFile, TLAPS

LEMMA InitOK == Init => IInv
  BY FileAssumption DEF Init, IInv, TypeOK, NeverTorn, InsideOK, Tables, Empty, Stages, Writing

(* A process that is not inside, and one nothing of which changes, stay OK. *)
LEMMA FrameOK ==
  ASSUME NEW p \in Procs, InsideOK(p),
         pc'[p] = pc[p] \/ pc'[p] \in {"idle", "waiting"},
         pc'[p] \notin {"idle", "waiting"} =>
           file' = file /\ lock' = lock /\ local'[p] = local[p] /\ tmp'[p] = tmp[p]
  PROVE  InsideOK(p)'
  <1>1. CASE pc'[p] \in {"idle", "waiting"}
    BY <1>1 DEF InsideOK, Writing
  <1>2. CASE pc'[p] \notin {"idle", "waiting"}
    <2>1. /\ pc[p] \notin {"idle", "waiting"} => lock = p
          /\ pc[p] = "loaded" => local[p] = file
          /\ pc[p] \in Writing => OneOperation(file, local[p])
          /\ pc[p] = "dumped" => tmp[p] = local[p]
          /\ pc'[p] = pc[p] /\ file' = file /\ lock' = lock
          /\ local'[p] = local[p] /\ tmp'[p] = tmp[p]
      BY <1>2 DEF InsideOK
    <2>2. pc[p] \in Writing => OneOperation(file, local[p])'
      BY <2>1
    <2> QED
      BY <1>2, <2>1, <2>2 DEF InsideOK, Writing
  <1> QED
    BY <1>1, <1>2

(* While p is inside, what p does to its own variables and to the file
   concerns nobody else.                                                   *)
LEMMA OthersOK ==
  ASSUME IInv, NEW p \in Procs, pc[p] \notin {"idle", "waiting"} \/ (lock = Nobody /\ lock' = p),
         NEW q \in Procs, q # p, pc'[q] = pc[q]
  PROVE  InsideOK(q)'
  <1>1. pc[q] \in {"idle", "waiting"}
    BY FileAssumption DEF IInv, InsideOK
  <1> QED
    BY <1>1, FrameOK DEF IInv

LEMMA LeaveOK ==
  ASSUME IInv, NEW p \in Procs, pc[p] \notin {"idle", "waiting"},
         NEW how \in {"ok", "refused", "failed", "littered"}, Leave(p, how),
         file' \in Tables, tmp' \in [Procs -> Tables \cup {Torn, NoFile}]
  PROVE  IInv'
  <1>1. TypeOK'
    BY DEF Leave, IInv, TypeOK, Stages, Empty, Tables
  <1>2. NeverTorn'
    BY FileAssumption DEF NeverTorn
  <1>3. ASSUME NEW q \in Procs PROVE InsideOK(q)'
    <2>1. CASE q = p
      <3>1. pc'[p] = "idle" /\ InsideOK(p)
        BY DEF Leave, IInv, TypeOK
      <3> QED
        BY <2>1, <3>1, FrameOK
    <2>2. CASE q # p
      <3>1. pc'[q] = pc[q]
        BY <2>2 DEF Leave, IInv, TypeOK
      <3> QED
        BY <2>2, <3>1, OthersOK
    <2> QED
      BY <2>1, <2>2
  <1> QED
    BY <1>1, <1>2, <1>3 DEF IInv

LEMMA FileIsTable == IInv => file \in Tables
  BY DEF IInv, TypeOK, NeverTorn

LEMMA DoneOK ==
  ASSUME IInv, NEW p \in Procs, NEW how \in {"ok", "refused"}, Done(p, how)
  PROVE  IInv'
  BY LeaveOK, FileIsTable DEF Done, IInv, TypeOK

LEMMA ChangeOK ==
  ASSUME IInv, NEW p \in Procs, NEW t \in Tables, OneOperation(file, t), Change(p, t)
  PROVE  IInv'
  <1> USE DEF Change
  <1>1. TypeOK'
    BY DEF IInv, TypeOK, Stages
  <1>2. NeverTorn'
    BY DEF IInv, NeverTorn
  <1>3. InsideOK(p)'
    <2>1. /\ pc'[p] = "changed" /\ local'[p] = t /\ file' = file /\ lock' = lock
          /\ lock = p
      BY DEF IInv, TypeOK, InsideOK
    <2>2. OneOperation(file, local[p])'
      BY <2>1
    <2> QED
      BY <2>1, <2>2 DEF InsideOK
  <1>4. ASSUME NEW q \in Procs, q # p PROVE InsideOK(q)'
    BY <1>4, OthersOK DEF IInv, TypeOK
  <1> QED
    BY <1>1, <1>2, <1>3, <1>4 DEF IInv

(* Each operation changes its copy by one operation of RecordTable.        *)
LEMMA OperateOK == ASSUME IInv, NEW p \in Procs, Operate(p) PROVE IInv'
  <1>0. local[p] \in Tables /\ (pc[p] = "loaded" => local[p] = file)
    BY DEF IInv, TypeOK, InsideOK
  <1>1. ASSUME NEW id \in Ids, NEW r \in Recs, Add(p, id, r) \/ Update(p, id, r) PROVE IInv'
    <2>1. CASE pc[p] = "loaded" /\ Change(p, [local[p] EXCEPT ![id] = r])
      <3>1. [local[p] EXCEPT ![id] = r] \in Tables
        BY <1>0 DEF Tables
      <3>2. OneOperation(file, [local[p] EXCEPT ![id] = r])
        BY <1>0, <2>1 DEF OneOperation
      <3> QED
        BY <2>1, <3>1, <3>2, ChangeOK
    <2> QED
      BY <1>1, <2>1, DoneOK DEF Add, Update, Change
  <1>2. ASSUME NEW id \in Ids, Remove(p, id) PROVE IInv'
    <2>1. CASE pc[p] = "loaded" /\ Change(p, [local[p] EXCEPT ![id] = Absent])
      <3>1. [local[p] EXCEPT ![id] = Absent] \in Tables
        BY <1>0 DEF Tables
      <3>2. OneOperation(file, [local[p] EXCEPT ![id] = Absent])
        BY <1>0, <2>1 DEF OneOperation
      <3> QED
        BY <2>1, <3>1, <3>2, ChangeOK
    <2> QED
      BY <1>2, <2>1, DoneOK DEF Remove, Change
  <1>3. CASE Lookup(p)
    BY <1>3, DoneOK DEF Lookup
  <1>4. CASE Reconcile(p)
    <2> PICK t \in Tables : /\ Tracked(t) = Tracked(local[p])
                            /\ Done(p, "ok") \/ Change(p, t)
      BY <1>4 DEF Reconcile
    <2>1. CASE Change(p, t)
      <3>1. OneOperation(file, t)
        BY <1>0, <2>1 DEF OneOperation, Change
      <3> QED
        BY <2>1, <3>1, ChangeOK
    <2> QED
      BY <2>1, DoneOK
  <1>5. CASE Adopt(p)
    <2> PICK t \in Tables : /\ \A id \in Tracked(local[p]) : t[id] = local[p][id]
                            /\ Done(p, "ok") \/ Change(p, t)
      BY <1>5 DEF Adopt
    <2>1. CASE Change(p, t)
      <3>1. OneOperation(file, t)
        BY <1>0, <2>1 DEF OneOperation, Change
      <3> QED
        BY <2>1, <3>1, ChangeOK
    <2> QED
      BY <2>1, DoneOK
  <1> QED
    BY <1>1, <1>2, <1>3, <1>4, <1>5 DEF Operate

(* Making, filling and giving up the temporary file leave state.yaml alone. *)
LEMMA WriteOK ==
  ASSUME IInv, NEW p \in Procs, MakeTemp(p) \/ Dump(p) \/ Cleanup(p) PROVE IInv'
  <1>0. /\ pc[p] \notin {"idle", "waiting"} /\ lock = p
    BY DEF MakeTemp, Dump, Cleanup, IInv, InsideOK
  <1>1. CASE /\ pc[p] \in {"changed", "dumping"} /\ pc' \in [Procs -> Stages]
             /\ \A q \in Procs \ {p} : pc'[q] = pc[q] /\ tmp'[q] = tmp[q]
             /\ pc'[p] \in {"dumping", "dumped", "cleanup"}
             /\ pc'[p] = "dumped" => tmp'[p] = local[p]
             /\ tmp' \in [Procs -> Tables \cup {Torn, NoFile}]
             /\ outcome' = "none" /\ UNCHANGED <<file, lock, local>>
    <2>1. TypeOK'
      BY <1>1 DEF IInv, TypeOK
    <2>2. NeverTorn'
      BY <1>1 DEF IInv, NeverTorn
    <2>3. InsideOK(p)'
      <3>1. OneOperation(file, local[p])
        BY <1>1 DEF IInv, InsideOK, Writing
      <3>2. OneOperation(file, local[p])'
        BY <1>1, <3>1 DEF OneOperation, Tracked
      <3> QED
        BY <1>0, <1>1, <3>2 DEF InsideOK
    <2>4. ASSUME NEW q \in Procs, q # p PROVE InsideOK(q)'
      BY <1>0, <1>1, <2>4, OthersOK
    <2> QED
      BY <2>1, <2>2, <2>3, <2>4 DEF IInv
  <1>2. CASE /\ \E how \in {"failed", "littered"} : Leave(p, how)
             /\ file' = file /\ tmp' \in [Procs -> Tables \cup {Torn, NoFile}]
    BY <1>0, <1>2, LeaveOK, FileIsTable
  <1>3. CASE MakeTemp(p)
    <2>1. CASE Leave(p, "failed") /\ UNCHANGED <<file, tmp>>
      BY <1>2, <2>1 DEF IInv, TypeOK
    <2>2. CASE /\ tmp' = [tmp EXCEPT ![p] = Torn] /\ pc' = [pc EXCEPT ![p] = "dumping"]
               /\ outcome' = "none" /\ UNCHANGED <<file, lock, local>>
      BY <1>1, <1>3, <2>2 DEF IInv, TypeOK, MakeTemp, Stages
    <2> QED
      BY <1>3, <2>1, <2>2 DEF MakeTemp
  <1>4. CASE Dump(p)
    BY <1>1, <1>4 DEF IInv, TypeOK, Dump, Stages
  <1>5. CASE Cleanup(p)
    <2>1. Unlinked(p) \in [Procs -> Tables \cup {Torn, NoFile}]
      BY DEF Unlinked, IInv, TypeOK
    <2> QED
      BY <1>2, <1>5, <2>1 DEF Cleanup, Unlinked
  <1> QED
    BY <1>3, <1>4, <1>5

LEMMA ReplaceOK == ASSUME IInv, NEW p \in Procs, Replace(p) PROVE IInv'
  <1>0. /\ pc[p] = "dumped" /\ lock = p /\ tmp[p] = local[p] /\ local[p] \in Tables
        /\ OneOperation(file, local[p])
    BY DEF Replace, ReadyToReplace, IInv, InsideOK, Writing, TypeOK
  <1>1. CASE file' = tmp[p] /\ tmp' = [tmp EXCEPT ![p] = NoFile] /\ Leave(p, "ok")
    <2>1. file' \in Tables /\ tmp' \in [Procs -> Tables \cup {Torn, NoFile}]
      BY <1>0, <1>1 DEF IInv, TypeOK
    <2> QED
      BY <1>0, <1>1, <2>1, LeaveOK
  <1>2. CASE /\ pc' = [pc EXCEPT ![p] = "cleanup"] /\ outcome' = "none"
             /\ UNCHANGED <<file, tmp, lock, local>>
    <2>1. TypeOK'
      BY <1>2 DEF IInv, TypeOK, Stages
    <2>2. NeverTorn'
      BY <1>2 DEF IInv, NeverTorn
    <2>3. InsideOK(p)'
      <3>1. pc'[p] = "cleanup" /\ lock' = p
        BY <1>0, <1>2 DEF IInv, TypeOK
      <3> QED
        BY <3>1 DEF InsideOK, Writing
    <2>4. ASSUME NEW q \in Procs, q # p PROVE InsideOK(q)'
      BY <1>0, <1>2, <2>4, OthersOK DEF IInv, TypeOK
    <2> QED
      BY <2>1, <2>2, <2>3, <2>4 DEF IInv
  <1> QED
    BY <1>1, <1>2 DEF Replace

LEMMA LockStepOK ==
  ASSUME IInv, NEW p \in Procs, Call(p) \/ Load(p) \/ LockTimeout(p) \/ Crash(p)
  PROVE  IInv'
  <1>1. CASE Load(p)
    <2>1. TypeOK'
      BY <1>1, FileIsTable DEF Load, IInv, TypeOK, Stages
    <2>2. NeverTorn'
      BY <1>1 DEF Load, IInv, NeverTorn
    <2>3. InsideOK(p)'
      BY <1>1 DEF Load, IInv, TypeOK, InsideOK, Writing
    <2>4. ASSUME NEW q \in Procs, q # p PROVE InsideOK(q)'
      BY <1>1, <2>4, OthersOK DEF Load, LockFree, IInv, TypeOK
    <2> QED
      BY <2>1, <2>2, <2>3, <2>4 DEF IInv
  <1>2. CASE Call(p) \/ LockTimeout(p) \/ Crash(p)
    <2>1. TypeOK'
      <3>1. Empty \in Tables
        BY DEF Empty, Tables
      <3>2. CASE Call(p)
        BY <3>2 DEF Call, IInv, TypeOK, Stages
      <3>3. CASE LockTimeout(p)
        BY <3>3 DEF LockTimeout, IInv, TypeOK, Stages
      <3>4. CASE Crash(p)
        BY <3>1, <3>4 DEF Crash, IInv, TypeOK, Stages
      <3> QED
        BY <1>2, <3>2, <3>3, <3>4
    <2>2. NeverTorn'
      BY <1>2 DEF Call, LockTimeout, Crash, IInv, NeverTorn
    <2>3. ASSUME NEW q \in Procs PROVE InsideOK(q)'
      <3>1. CASE q = p
        BY <1>2, <3>1, FrameOK DEF Call, LockTimeout, Crash, IInv, TypeOK
      <3>2. CASE q # p
        <4>1. pc'[q] = pc[q] /\ file' = file /\ local'[q] = local[q] /\ tmp'[q] = tmp[q]
          BY <1>2, <3>2 DEF Call, LockTimeout, Crash, IInv, TypeOK
        <4>2. pc[q] \notin {"idle", "waiting"} => lock' = lock
          BY <1>2, <3>2 DEF Call, LockTimeout, Crash, IInv, InsideOK
        <4> QED
          BY <4>1, <4>2, FrameOK DEF IInv
      <3> QED
        BY <3>1, <3>2
    <2> QED
      BY <2>1, <2>2, <2>3 DEF IInv
  <1> QED
    BY <1>1, <1>2

LEMMA InvStep == IInv /\ [Next]_vars => IInv'
  <1> SUFFICES ASSUME IInv, [Next]_vars PROVE IInv'
    OBVIOUS
  <1>1. CASE Next
    BY <1>1, OperateOK, WriteOK, ReplaceOK, LockStepOK DEF Next, Work
  <1>2. CASE UNCHANGED vars
    <2>1. TypeOK' /\ NeverTorn'
      BY <1>2 DEF vars, IInv, TypeOK, NeverTorn
    <2>2. ASSUME NEW q \in Procs PROVE InsideOK(q)'
      BY <1>2, FrameOK DEF vars, IInv
    <2> QED
      BY <2>1, <2>2 DEF IInv
  <1> QED
    BY <1>1, <1>2

(* What a process inside the `with` block has loaded is what state.yaml still
   holds, and what it will write is one operation away from that.          *)
THEOREM StateFileInvariant == Spec => []IInv
  BY InitOK, InvStep, PTL DEF Spec

(* state.yaml is complete at every moment, whatever fails or is killed.    *)
THEOREM StateFileNeverTorn == Spec => []NeverTorn
  <1>1. IInv => NeverTorn
    BY DEF IInv
  <1> QED
    BY <1>1, StateFileInvariant, PTL

LEMMA ReplaceRefines ==
  ASSUME IInv, NEW p \in Procs, Replace(p), file' # file
  PROVE  Table!RNext
  <1>1. file' = local[p] /\ local[p] \in Tables /\ OneOperation(file, local[p])
    BY DEF Replace, ReadyToReplace, IInv, InsideOK, Writing, TypeOK
  <1> QED
    BY <1>1 DEF OneOperation, Table!RNext, Table!Add, Table!Update, Table!Remove,
       Table!Rewrite, Table!Import, Table!Tables, Tables, Table!Tracked, Tracked

LEMMA StepRefines == IInv /\ [Next]_vars => [Table!RNext]_file
  <1> SUFFICES ASSUME IInv, Next, file' # file PROVE Table!RNext
    BY DEF vars
  <1>1. ASSUME NEW p \in Procs, Call(p) \/ Load(p) \/ LockTimeout(p) \/ Crash(p) PROVE FALSE
    BY <1>1 DEF Call, Load, LockTimeout, Crash
  <1>2. ASSUME NEW p \in Procs, Operate(p) PROVE FALSE
    BY <1>2 DEF Operate, Add, Update, Remove, Lookup, Reconcile, Adopt, Done, Change
  <1>3. ASSUME NEW p \in Procs, MakeTemp(p) \/ Dump(p) \/ Cleanup(p) PROVE FALSE
    BY <1>3 DEF MakeTemp, Dump, Cleanup
  <1> QED
    BY <1>1, <1>2, <1>3, ReplaceRefines DEF Next, Work

(* Every change of state.yaml is one whole operation applied to the table
   that was there: concurrent operations are never merged or lost.         *)
THEOREM StateFileImplementsTable == Spec => ImplementsRecordTable
  <1>1. Init => Table!RInit
    BY DEF Init, Empty, Table!RInit
  <1> QED
    BY <1>1, StepRefines, StateFileInvariant, PTL DEF Spec, Table!RSpec, ImplementsRecordTable

-----------------------------------------------------------------------------
(* The temporary files.                                                    *)

(* Only a call that is writing has one. *)
Tidy == \A p \in Procs : pc[p] \notin {"dumping", "dumped", "cleanup"} => tmp[p] = NoFile

LEMMA TidyStep == IInv /\ Tidy /\ [Next]_vars => Tidy'
  <1> SUFFICES ASSUME IInv, Tidy, [Next]_vars PROVE Tidy'
    OBVIOUS
  <1> USE DEF IInv, TypeOK, Tidy
  <1>1. ASSUME NEW p \in Procs, Call(p) \/ Load(p) \/ LockTimeout(p) \/ Crash(p) PROVE Tidy'
    BY <1>1 DEF Call, Load, LockTimeout, Crash
  <1>2. ASSUME NEW p \in Procs, NEW how, Done(p, how) PROVE Tidy'
    BY <1>2 DEF Done, Leave
  <1>3. ASSUME NEW p \in Procs, NEW t, Change(p, t) PROVE Tidy'
    BY <1>3 DEF Change
  <1>4. ASSUME NEW p \in Procs, Operate(p) PROVE Tidy'
    <2>1. (\E how : Done(p, how)) \/ (\E t : Change(p, t))
      BY <1>4 DEF Operate, Add, Update, Remove, Lookup, Reconcile, Adopt
    <2> QED
      BY <1>2, <1>3, <2>1
  <1>5. ASSUME NEW p \in Procs, MakeTemp(p) \/ Dump(p) PROVE Tidy'
    BY <1>5 DEF MakeTemp, Dump, Leave
  <1>6. ASSUME NEW p \in Procs, Replace(p) \/ Cleanup(p) PROVE Tidy'
    BY <1>6 DEF Replace, ReadyToReplace, Cleanup, Unlinked, Leave
  <1>7. CASE UNCHANGED vars
    BY <1>7 DEF vars
  <1> QED
    BY <1>1, <1>4, <1>5, <1>6, <1>7 DEF Next, Work

(* Whoever ends a call with a result is inside, so it is the holder of the
   lock, and has no temporary file any more.                               *)
LEMMA ReturnsTidy ==
  ASSUME IInv, Tidy, Next, NEW p \in Procs, lock = p, outcome' \in {"ok", "refused", "failed"}
  PROVE  tmp'[p] = NoFile
  <1> PICK q \in Procs : Call(q) \/ Work(q) \/ Crash(q)
    BY DEF Next
  <1> USE DEF IInv, TypeOK
  <1>1. ~(Call(q) \/ Load(q) \/ LockTimeout(q) \/ Crash(q) \/ Dump(q))
    BY DEF Call, Load, LockTimeout, Crash, Dump
  <1>2. CASE Operate(q)
    <2>1. (\E how : Done(q, how)) \/ (\E t : Change(q, t))
      BY <1>2 DEF Operate, Add, Update, Remove, Lookup, Reconcile, Adopt
    <2>2. UNCHANGED tmp /\ pc[q] = "loaded"
      BY <2>1 DEF Done, Change
    <2> QED
      BY <2>2 DEF InsideOK, Tidy
  <1>3. CASE MakeTemp(q)
    <2>1. UNCHANGED tmp /\ pc[q] = "changed"
      BY <1>3 DEF MakeTemp
    <2> QED
      BY <2>1 DEF InsideOK, Tidy
  <1>4. CASE Replace(q) \/ Cleanup(q)
    <2>1. q = p
      BY <1>4 DEF Replace, ReadyToReplace, Cleanup, InsideOK
    <2> QED
      BY <1>4, <2>1 DEF Replace, Cleanup, Unlinked, Leave
  <1> QED
    BY <1>1, <1>2, <1>3, <1>4 DEF Work

(* A call that returns, with a result or an error, leaves no temporary file in
   the directory of state.yaml, unless the unlink itself fails.            *)
THEOREM NothingLittered == Spec => NoLitter
  <1> DEFINE Clean == \A p \in Procs : lock = p /\ outcome' \in {"ok", "refused", "failed"}
                                         => tmp'[p] = NoFile
  <1>1. Init => Tidy
    BY DEF Init, Tidy
  <1>2. IInv /\ Tidy /\ [Next]_vars => [Clean]_vars
    BY ReturnsTidy
  <1> QED
    BY <1>1, <1>2, TidyStep, StateFileInvariant, PTL DEF Spec, NoLitter
=============================================================================
