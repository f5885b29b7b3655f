------------------------ MODULE PortAllocatorProofs ------------------------
(***************************************************************************)
(* Proofs about PortAllocator, for any number of processes, environments,  *)
(* slots and ports.  The invariant IInv is preserved by every action; from *)
(* it follow NoSharedPort and that the allocator implements PortTable.     *)
(***************************************************************************)
EXTENDS PortAllocator, TLAPS

(* What is inside the `with` block, for one process.                       *)
InsideOK(p) ==
  /\ pc[p] \in {"claiming", "freeing"} => lock = p
  /\ pc[p] = "claiming" => RequestOK(p) /\ CopyOK(p) /\ TakenOK(p) /\ ChosenOK(p)
  /\ pc[p] = "freeing" => local[p] = table

LEMMA InvByProcess == IInv <=> TypeOK /\ NoSharedPort /\ \A p \in Procs : InsideOK(p)
  BY DEF IInv, HolderOK, ClaimOK, FreeOK, InsideOK

LEMMA InvByProcessNext ==
  IInv' <=> TypeOK' /\ NoSharedPort' /\ \A p \in Procs : InsideOK(p)'
  BY DEF IInv, HolderOK, ClaimOK, FreeOK, InsideOK

LEMMA InitOK == Init => IInv
  BY PortAssumption DEF Init, IInv, TypeOK, NoSharedPort, HolderOK, ClaimOK, FreeOK,
     Entry, Outcomes, EmptyTable, NoPins

LEMMA KeyType ==
  ASSUME NEW p \in Procs, owner[p] \in Owners, NEW s \in Slots
  PROVE  Key(p, s) \in Keys
  BY DEF Key, Keys

(* A process whose own variables, the table and the lock stay as they are
   stays as it is.                                                         *)
LEMMA FrameOK ==
  ASSUME NEW p \in Procs, InsideOK(p),
         pc'[p] = pc[p] \/ pc'[p] \in {"idle", "waiting"},
         pc'[p] \in {"claiming", "freeing"} =>
           /\ table' = table /\ lock' = lock
           /\ owner'[p] = owner[p] /\ slots'[p] = slots[p] /\ pins'[p] = pins[p]
           /\ local'[p] = local[p] /\ taken'[p] = taken[p] /\ done'[p] = done[p]
  PROVE  InsideOK(p)'
  <1>1. CASE pc'[p] \notin {"claiming", "freeing"}
    BY <1>1 DEF InsideOK
  <1>2. CASE pc'[p] = "freeing"
    BY <1>2 DEF InsideOK
  <1>3. CASE pc'[p] = "claiming"
    <2>0. /\ pc[p] = "claiming" /\ lock = p
          /\ RequestOK(p) /\ CopyOK(p) /\ TakenOK(p) /\ ChosenOK(p)
      BY <1>3 DEF InsideOK
    <2>1. /\ Pinned(p)' = Pinned(p)
          /\ ForeignPorts(owner[p], slots[p])' = ForeignPorts(owner[p], slots[p])
          /\ \A s : Key(p, s)' = Key(p, s)
      BY <1>3 DEF Pinned, ForeignPorts, Key
    <2>2. RequestOK(p)'
      BY <1>3, <2>0, <2>1 DEF RequestOK
    <2>3. CopyOK(p)'
      BY <1>3, <2>0, <2>1 DEF CopyOK
    <2>4. TakenOK(p)'
      BY <1>3, <2>0, <2>1 DEF TakenOK
    <2>5. ChosenOK(p)'
      BY <1>3, <2>0, <2>1 DEF ChosenOK
    <2> QED
      BY <1>3, <2>0, <2>2, <2>3, <2>4, <2>5 DEF InsideOK
  <1> QED
    BY <1>1, <1>2, <1>3

(* The process that leaves is idle again; nobody else was inside.          *)
LEMMA ForgetType ==
  ASSUME TypeOK, NEW p \in Procs, Forget(p)
  PROVE  /\ pc' \in [Procs -> {"idle", "waiting", "claiming", "freeing"}]
         /\ owner' \in [Procs -> Owners \cup {Nobody}]
         /\ slots' \in [Procs -> SUBSET Slots]
         /\ pins' \in [Procs -> [Slots -> Entry]]
         /\ drop' \in [Procs -> SUBSET Keys]
         /\ local' \in [Procs -> [Keys -> Entry]]
         /\ taken' \in [Procs -> SUBSET Ports]
         /\ done' \in [Procs -> SUBSET Slots]
  BY DEF Forget, NoPins, EmptyTable, TypeOK, Entry

LEMMA ForgetInside ==
  ASSUME TypeOK, NEW p \in Procs, Forget(p), \A q \in Procs : InsideOK(q),
         \/ table' = table /\ lock' = lock
         \/ lock = p
  PROVE  \A q \in Procs : InsideOK(q)'
  <1> SUFFICES ASSUME NEW q \in Procs PROVE InsideOK(q)'
    OBVIOUS
  <1>1. pc'[p] = "idle"
    BY DEF Forget, TypeOK
  <1>2. CASE q = p
    BY <1>1, <1>2, FrameOK
  <1>3. CASE q # p
    <2>1. /\ pc'[q] = pc[q] /\ owner'[q] = owner[q] /\ slots'[q] = slots[q]
          /\ pins'[q] = pins[q] /\ local'[q] = local[q] /\ taken'[q] = taken[q]
          /\ done'[q] = done[q]
      BY <1>3 DEF Forget, TypeOK
    <2>2. pc[q] \in {"claiming", "freeing"} => lock = q
      BY DEF InsideOK
    <2>3. pc'[q] \in {"claiming", "freeing"} => table' = table /\ lock' = lock
      BY <1>3, <2>1, <2>2
    <2> QED
      BY <2>1, <2>3, FrameOK
  <1> QED
    BY <1>2, <1>3

(* Taking the lock and loading the table.                                  *)
LEMMA BeginAllocateOK ==
  ASSUME IInv, NEW p \in Procs, NEW o \in Owners, NEW S \in SUBSET Slots,
         NEW q \in UniquePins(S), BeginAllocate(p, o, S, q)
  PROVE  IInv'
  <1> USE InvByProcess DEF TypeOK, BeginAllocate, Enter
  <1>1. ForeignPorts(o, S) \in SUBSET Ports
    BY DEF ForeignPorts, Entry
  <1>2. q \in [Slots -> Entry]
    BY DEF UniquePins
  <1>3. TypeOK'
    BY <1>1, <1>2 DEF Outcomes
  <1>4. NoSharedPort'
    BY DEF NoSharedPort
  <1>5. ASSUME NEW r \in Procs, r # p PROVE InsideOK(r)'
    <2>1. pc'[r] = pc[r] /\ pc[r] \notin {"claiming", "freeing"}
      BY <1>5, PortAssumption DEF InsideOK, LockFree
    <2> QED
      BY <2>1, FrameOK
  <1>6. InsideOK(p)'
    <2>1. /\ pc'[p] = "claiming" /\ lock' = p /\ table' = table /\ local'[p] = table
          /\ owner'[p] = o /\ slots'[p] = S /\ pins'[p] = q /\ done'[p] = {}
          /\ taken'[p] = ForeignPorts(o, S)
      OBVIOUS
    <2>2. ForeignPorts(o, S)' = ForeignPorts(o, S)
      BY DEF ForeignPorts
    <2>3. RequestOK(p)'
      BY <2>1 DEF RequestOK, Pinned
    <2>4. CopyOK(p)'
      BY <2>1 DEF CopyOK
    <2>5. TakenOK(p)'
      BY <2>1, <2>2 DEF TakenOK, ForeignPorts
    <2>6. ChosenOK(p)'
      BY <2>1 DEF ChosenOK
    <2> QED
      BY <2>1, <2>3, <2>4, <2>5, <2>6 DEF InsideOK
  <1> QED
    BY <1>3, <1>4, <1>5, <1>6, InvByProcessNext

LEMMA BeginFreeOK ==
  ASSUME IInv, NEW p \in Procs, NEW K \in SUBSET Keys, BeginFree(p, K)
  PROVE  IInv'
  <1> USE InvByProcess DEF TypeOK, BeginFree, Enter
  <1>1. TypeOK'
    BY DEF Outcomes
  <1>2. NoSharedPort'
    BY DEF NoSharedPort
  <1>3. ASSUME NEW r \in Procs, r # p PROVE InsideOK(r)'
    <2>1. pc'[r] = pc[r] /\ pc[r] \notin {"claiming", "freeing"}
      BY <1>3, PortAssumption DEF InsideOK, LockFree
    <2> QED
      BY <2>1, FrameOK
  <1>4. InsideOK(p)'
    BY DEF InsideOK
  <1> QED
    BY <1>1, <1>2, <1>3, <1>4, InvByProcessNext

(* Pass 1 and pass 2 choose ports nobody else has.                         *)
LEMMA ChooseOK ==
  ASSUME IInv, NEW p \in Procs, NEW s \in slots[p] \ done[p], NEW port \in Ports,
         pc[p] = "claiming", Choose(p, s, port),
         port \notin ForeignPorts(owner[p], slots[p]),
         \A t \in done[p] : local[p][Key(p, t)] # port,
         s \in Pinned(p) => port = pins[p][s],
         s \notin Pinned(p) => Pinned(p) \subseteq done[p],
         s \in Pinned(p) => done[p] \subseteq Pinned(p)
  PROVE  IInv'
  <1> USE InvByProcess
  <1>0. /\ lock = p /\ owner[p] \in Owners /\ s \in Slots
        /\ RequestOK(p) /\ CopyOK(p) /\ TakenOK(p) /\ ChosenOK(p)
    BY DEF InsideOK, RequestOK, TypeOK
  <1>1. Key(p, s) \in Keys
    BY <1>0, KeyType
  <1>2. TypeOK'
    BY <1>0, <1>1 DEF TypeOK, Choose, request, Entry, Outcomes
  <1>3. NoSharedPort'
    BY DEF NoSharedPort, Choose
  <1>4. ASSUME NEW r \in Procs, r # p PROVE InsideOK(r)'
    <2>1. pc'[r] = pc[r] /\ pc[r] \notin {"claiming", "freeing"}
      BY <1>0, <1>4 DEF InsideOK, Choose, TypeOK
    <2> QED
      BY <2>1, FrameOK
  <1>5. InsideOK(p)'
    <2>1. /\ pc' = pc /\ lock' = lock /\ table' = table /\ owner' = owner
          /\ slots' = slots /\ pins' = pins
          /\ done'[p] = done[p] \cup {s} /\ taken'[p] = taken[p] \cup {port}
          /\ local'[p] = [local[p] EXCEPT ![Key(p, s)] = port]
      BY DEF Choose, request, TypeOK
    <2>2. /\ local'[p][Key(p, s)] = port
          /\ \A k \in Keys : k # Key(p, s) => local'[p][k] = local[p][k]
      BY <1>1, <2>1 DEF TypeOK
    <2>3. \A t \in done[p] : Key(p, t) \in Keys /\ Key(p, t) # Key(p, s)
      BY <1>0, KeyType DEF RequestOK, Key, TypeOK
    <2>4. \A t \in done[p] : local'[p][Key(p, t)] = local[p][Key(p, t)]
      BY <2>2, <2>3
    <2>5. /\ Pinned(p)' = Pinned(p)
          /\ ForeignPorts(owner[p], slots[p])' = ForeignPorts(owner[p], slots[p])
          /\ \A t \in Slots : Key(p, t)' = Key(p, t)
      BY <2>1 DEF Pinned, ForeignPorts, Key
    <2>6. RequestOK(p)'
      BY <1>0, <2>1, <2>5 DEF RequestOK
    <2>7. CopyOK(p)'
      BY <1>0, <2>1, <2>2 DEF CopyOK, Key
    <2>8. TakenOK(p)'
      BY <1>0, <2>1, <2>2, <2>4, <2>5 DEF TakenOK, Key
    <2>9. ChosenOK(p)'
      BY <1>0, <2>1, <2>2, <2>4, <2>5 DEF ChosenOK, Key
    <2> QED
      BY <1>0, <2>1, <2>6, <2>7, <2>8, <2>9 DEF InsideOK
  <1> QED
    BY <1>2, <1>3, <1>4, <1>5, InvByProcessNext

LEMMA RefuseOK ==
  ASSUME IInv, NEW p \in Procs, pc[p] = "claiming", NEW how \in Outcomes, Refuse(p, how)
  PROVE  IInv'
  <1> USE InvByProcess DEF Refuse, Leave
  <1>1. lock = p
    BY DEF InsideOK
  <1>2. TypeOK'
    BY ForgetType DEF TypeOK
  <1>3. NoSharedPort'
    BY DEF NoSharedPort
  <1>4. \A q \in Procs : InsideOK(q)'
    BY <1>1, ForgetInside
  <1> QED
    BY <1>2, <1>3, <1>4, InvByProcessNext

LEMMA ClaimPinOK ==
  ASSUME IInv, NEW p \in Procs, NEW s \in Slots, ClaimPin(p, s)
  PROVE  IInv'
  <1>0. /\ pc[p] = "claiming" /\ s \in slots[p] \ done[p] /\ s \in Pinned(p)
        /\ pins[p][s] \in Ports
        /\ RequestOK(p) /\ CopyOK(p) /\ TakenOK(p) /\ ChosenOK(p)
    BY InvByProcess DEF ClaimPin, Pinned, InsideOK, TypeOK, Entry
  <1>1. done[p] \subseteq Pinned(p)
    BY <1>0 DEF RequestOK
  <1>2. \A t \in done[p] : local[p][Key(p, t)] # pins[p][s]
    <2> SUFFICES ASSUME NEW t \in done[p] PROVE local[p][Key(p, t)] # pins[p][s]
      OBVIOUS
    <2>1. t \in Pinned(p) /\ t \in slots[p] /\ t # s
      BY <1>0, <1>1 DEF Pinned
    <2>2. local[p][Key(p, t)] = pins[p][t]
      BY <1>0, <2>1 DEF ChosenOK
    <2>3. pins[p][t] # pins[p][s]
      BY <1>0, <2>1 DEF RequestOK, UniquePins, Pinned
    <2> QED
      BY <2>2, <2>3
  <1>3. CASE HoldsPin(p, s) /\ KeepPin(p, s)
    <2>1. owner[p] \in Owners /\ Key(p, s) \in Keys
      BY <1>0, KeyType DEF RequestOK
    <2>2. \A t \in done[p] : Key(p, s) # Key(p, t)
      BY <1>0 DEF Key
    <2>3. table[Key(p, s)] = pins[p][s]
      BY <1>0, <1>3, <2>1, <2>2 DEF CopyOK, HoldsPin
    <2>4. Key(p, s) \in {owner[p]} \X slots[p]
      BY <1>0 DEF Key
    <2>5. pins[p][s] \notin ForeignPorts(owner[p], slots[p])
      BY <1>0, <2>1, <2>3, <2>4, PortAssumption DEF ForeignPorts, IInv, NoSharedPort
    <2> QED
      BY <1>0, <1>1, <1>2, <1>3, <2>5, ChooseOK DEF KeepPin
  <1>4. CASE pins[p][s] \notin taken[p] \cup busy /\ Choose(p, s, pins[p][s])
    <2>1. pins[p][s] \notin ForeignPorts(owner[p], slots[p])
      BY <1>0, <1>4 DEF TakenOK
    <2> QED
      BY <1>0, <1>1, <1>2, <1>4, <2>1, ChooseOK
  <1>5. CASE Refuse(p, "taken") \/ Refuse(p, "in_use")
    BY <1>0, <1>5, RefuseOK DEF Outcomes
  <1> QED
    BY <1>3, <1>4, <1>5 DEF ClaimPin

LEMMA ClaimAutoOK ==
  ASSUME IInv, NEW p \in Procs, NEW s \in Slots, ClaimAuto(p, s)
  PROVE  IInv'
  <1>0. /\ pc[p] = "claiming" /\ s \in slots[p] \ done[p] /\ s \notin Pinned(p)
        /\ Pinned(p) \subseteq done[p]
        /\ TakenOK(p)
    BY InvByProcess DEF ClaimAuto, InsideOK, PinsClaimed
  <1>1. ASSUME NEW port \in Candidates(p), Choose(p, s, port) PROVE IInv'
    <2>1. port \in Ports /\ port \notin taken[p]
      BY PortAssumption DEF Candidates
    <2>2. port \notin ForeignPorts(owner[p], slots[p])
      BY <1>0, <2>1 DEF TakenOK
    <2>3. \A t \in done[p] : local[p][Key(p, t)] # port
      BY <1>0, <2>1 DEF TakenOK
    <2> QED
      BY <1>0, <1>1, <2>1, <2>2, <2>3, ChooseOK
  <1>2. CASE Refuse(p, "exhausted")
    BY <1>0, <1>2, RefuseOK DEF Outcomes
  <1> QED
    BY <1>1, <1>2 DEF ClaimAuto

(* The copy a finished claim writes back has no port twice.                *)
LEMMA FullCopy ==
  ASSUME IInv, NEW p \in Procs, pc[p] = "claiming", done[p] = slots[p]
  PROVE  \A k, l \in Keys :
           local[p][k] = local[p][l] /\ local[p][k] # NoPort => k = l
  <1>0. /\ owner[p] \in Owners /\ CopyOK(p) /\ ChosenOK(p) /\ NoSharedPort
        /\ slots[p] \subseteq Slots
    BY InvByProcess DEF InsideOK, RequestOK, TypeOK
  <1>1. ASSUME NEW k \in Keys, k \notin Own(p) PROVE local[p][k] = table[k]
    <2>1. \A s \in done[p] : k # Key(p, s)
      BY <1>1 DEF Own, Key
    <2> QED
      BY <1>0, <2>1 DEF CopyOK
  <1>2. ASSUME NEW k \in Own(p)
        PROVE \E s \in done[p] : k = Key(p, s)
    BY DEF Own, Key
  <1>3. ASSUME NEW k \in Own(p), NEW l \in Keys, l \notin Own(p), local[p][l] # NoPort
        PROVE local[p][k] # local[p][l]
    <2>1. local[p][l] \in ForeignPorts(owner[p], slots[p])
      BY <1>1, <1>3 DEF ForeignPorts, Own
    <2>2. local[p][k] \notin ForeignPorts(owner[p], slots[p])
      BY <1>0, <1>2 DEF ChosenOK
    <2> QED
      BY <2>1, <2>2
  <1> SUFFICES ASSUME NEW k \in Keys, NEW l \in Keys,
                      local[p][k] = local[p][l], local[p][k] # NoPort
               PROVE k = l
    OBVIOUS
  <1>4. CASE k \notin Own(p) /\ l \notin Own(p)
    BY <1>0, <1>1, <1>4 DEF NoSharedPort
  <1>5. CASE k \in Own(p) /\ l \in Own(p)
    BY <1>0, <1>2, <1>5 DEF ChosenOK
  <1> QED
    BY <1>3, <1>4, <1>5

LEMMA SaveClaimOK ==
  ASSUME IInv, NEW p \in Procs, SaveClaim(p)
  PROVE  IInv'
  <1> USE InvByProcess DEF SaveClaim, Leave, AllChosen
  <1>1. lock = p
    BY DEF InsideOK
  <1>2. TypeOK'
    BY ForgetType DEF TypeOK, Outcomes
  <1>3. NoSharedPort'
    BY FullCopy DEF NoSharedPort
  <1>4. \A q \in Procs : InsideOK(q)'
    BY <1>1, ForgetInside
  <1> QED
    BY <1>2, <1>3, <1>4, InvByProcessNext

LEMMA SaveFreeOK ==
  ASSUME IInv, NEW p \in Procs, SaveFree(p)
  PROVE  IInv'
  <1> USE InvByProcess DEF SaveFree, Leave
  <1>1. lock = p /\ local[p] = table
    BY DEF InsideOK
  <1>2. TypeOK'
    BY <1>1, ForgetType DEF TypeOK, Outcomes, Entry
  <1>3. NoSharedPort'
    BY <1>1 DEF NoSharedPort
  <1>4. \A q \in Procs : InsideOK(q)'
    BY <1>1, ForgetInside
  <1> QED
    BY <1>2, <1>3, <1>4, InvByProcessNext

LEMMA CallOK == ASSUME IInv, NEW p \in Procs, Call(p) PROVE IInv'
  <1> USE InvByProcess DEF Call, request, work
  <1>1. TypeOK'
    BY DEF TypeOK, Outcomes
  <1>2. NoSharedPort'
    BY DEF NoSharedPort
  <1>3. ASSUME NEW q \in Procs PROVE InsideOK(q)'
    BY FrameOK DEF TypeOK
  <1> QED
    BY <1>1, <1>2, <1>3, InvByProcessNext

LEMMA LockTimeoutOK == ASSUME IInv, NEW p \in Procs, LockTimeout(p) PROVE IInv'
  <1> USE InvByProcess DEF LockTimeout
  <1>1. TypeOK'
    BY ForgetType DEF TypeOK, Outcomes
  <1>2. NoSharedPort'
    BY DEF NoSharedPort
  <1>3. \A q \in Procs : InsideOK(q)'
    BY ForgetInside
  <1> QED
    BY <1>1, <1>2, <1>3, InvByProcessNext

LEMMA CrashOK == ASSUME IInv, NEW p \in Procs, Crash(p) PROVE IInv'
  <1> USE InvByProcess DEF Crash
  <1>1. TypeOK'
    BY ForgetType DEF TypeOK, Outcomes
  <1>2. NoSharedPort'
    BY DEF NoSharedPort
  <1>3. \A q \in Procs : InsideOK(q)'
    BY ForgetInside
  <1> QED
    BY <1>1, <1>2, <1>3, InvByProcessNext

LEMMA ListenOK == ASSUME IInv, NEW port \in Ports, Listen(port) PROVE IInv'
  <1> USE InvByProcess DEF Listen, request, work
  <1>1. TypeOK'
    BY DEF TypeOK, Outcomes
  <1>2. NoSharedPort'
    BY DEF NoSharedPort
  <1>3. ASSUME NEW q \in Procs PROVE InsideOK(q)'
    BY FrameOK
  <1> QED
    BY <1>1, <1>2, <1>3, InvByProcessNext

LEMMA StutterOK == ASSUME IInv, UNCHANGED vars PROVE IInv'
  <1> USE InvByProcess DEF vars
  <1>1. TypeOK'
    BY DEF TypeOK
  <1>2. NoSharedPort'
    BY DEF NoSharedPort
  <1>3. ASSUME NEW q \in Procs PROVE InsideOK(q)'
    BY FrameOK
  <1> QED
    BY <1>1, <1>2, <1>3, InvByProcessNext

LEMMA InvStep == IInv /\ [Next]_vars => IInv'
  <1> SUFFICES ASSUME IInv, [Next]_vars PROVE IInv'
    OBVIOUS
  <1>1. ASSUME NEW p \in Procs, Call(p) \/ Crash(p) PROVE IInv'
    BY <1>1, CallOK, CrashOK
  <1>2. ASSUME NEW p \in Procs, Begin(p) PROVE IInv'
    <2>1. ASSUME NEW o \in Owners, NEW S \in SUBSET Slots, NEW q \in UniquePins(S),
                 BeginAllocate(p, o, S, q)
          PROVE IInv'
      BY <2>1, BeginAllocateOK
    <2>2. ASSUME NEW o \in Owners, NEW S \in SUBSET Slots, BeginRelease(p, o, S)
          PROVE IInv'
      BY <2>2, BeginFreeOK DEF BeginRelease, Keys
    <2>3. ASSUME NEW survivors \in SUBSET Owners, NEW stale \in SUBSET Slots,
                 BeginSweep(p, survivors, stale)
          PROVE IInv'
      BY <2>3, BeginFreeOK DEF BeginSweep, Keys
    <2> QED
      BY <1>2, <2>1, <2>2, <2>3 DEF Begin
  <1>3. ASSUME NEW p \in Procs, Work(p) PROVE IInv'
    BY <1>2, <1>3, LockTimeoutOK, SaveClaimOK, SaveFreeOK, ClaimPinOK, ClaimAutoOK DEF Work
  <1>4. ASSUME NEW port \in Ports, Listen(port) PROVE IInv'
    BY <1>4, ListenOK
  <1>5. CASE Next
    BY <1>1, <1>3, <1>4, <1>5 DEF Next
  <1>6. CASE UNCHANGED vars
    BY <1>6, StutterOK
  <1> QED
    BY <1>5, <1>6

(* The allocator's inductive invariant holds in every reachable state: a
   claim in progress never has another key's port in its copy.             *)
THEOREM AllocatorInvariant == Spec => []IInv
  BY InitOK, InvStep, PTL DEF Spec

(* ports.yaml is well-formed and never gives one port to two keys, however
   many processes claim, release, sweep and die around it.                 *)
THEOREM PortsNeverShared == Spec => [](TypeOK /\ NoSharedPort)
  <1>1. IInv => TypeOK /\ NoSharedPort
    BY DEF IInv
  <1> QED
    BY <1>1, AllocatorInvariant, PTL

-----------------------------------------------------------------------------
(* Refinement: the only steps that change ports.yaml are the save of a claim,
   which is a Claim of PortTable, and the save of a release or a sweep.    *)

LEMMA SaveClaimIsClaim ==
  ASSUME IInv, NEW p \in Procs, SaveClaim(p)
  PROVE  Table!Claim(owner[p], slots[p])
  <1>0. /\ pc[p] = "claiming" /\ done[p] = slots[p] /\ table' = local[p]
        /\ owner[p] \in Owners /\ slots[p] \subseteq Slots
        /\ CopyOK(p) /\ TakenOK(p) /\ ChosenOK(p) /\ TypeOK
    BY InvByProcess DEF SaveClaim, AllChosen, InsideOK, RequestOK, TypeOK
  <1> DEFINE grant == [s \in slots[p] |-> local[p][Key(p, s)]]
  <1>1. grant \in [slots[p] -> Ports]
    BY <1>0 DEF TakenOK, TypeOK
  <1>2. Table!Injective(grant, slots[p])
    BY <1>0 DEF Table!Injective, ChosenOK
  <1>3. ForeignPorts(owner[p], slots[p]) =
          Table!Held(Table!Keys \ Table!OwnKeys(owner[p], slots[p]))
    BY DEF ForeignPorts, Table!Held, Table!Keys, Table!OwnKeys, Keys
  <1>4. \A s \in slots[p] :
          grant[s] \notin Table!Held(Table!Keys \ Table!OwnKeys(owner[p], slots[p]))
    BY <1>0, <1>3 DEF ChosenOK
  <1>5. table' = [k \in Table!Keys |->
                    IF k \in Table!OwnKeys(owner[p], slots[p]) THEN grant[k[2]] ELSE table[k]]
    <2>1. ASSUME NEW k \in Keys, k \in Own(p) PROVE table'[k] = grant[k[2]]
      <3>1. k[2] \in slots[p] /\ k = Key(p, k[2])
        BY <2>1 DEF Own, Key
      <3> QED
        BY <1>0, <3>1
    <2>2. ASSUME NEW k \in Keys, k \notin Own(p) PROVE table'[k] = table[k]
      <3>1. \A s \in done[p] : k # Key(p, s)
        BY <1>0, <2>2 DEF Own, Key
      <3> QED
        BY <1>0, <3>1 DEF CopyOK
    <2>3. table' \in [Keys -> Entry]
      BY <1>0 DEF TypeOK
    <2> HIDE DEF grant
    <2>4. Table!Keys = Keys /\ Table!OwnKeys(owner[p], slots[p]) = Own(p)
      BY DEF Table!Keys, Keys, Table!OwnKeys, Own
    <2> QED
      BY <2>1, <2>2, <2>3, <2>4
  <1> QED
    BY <1>1, <1>2, <1>4, <1>5 DEF Table!Claim

LEMMA SaveFreeIsFree ==
  ASSUME IInv, NEW p \in Procs, SaveFree(p)
  PROVE  Table!Free(drop[p])
  BY InvByProcess DEF SaveFree, InsideOK, Table!Free, Table!Keys, Keys

LEMMA StepRefines == IInv /\ [Next]_vars => [Table!TNext]_table
  <1> SUFFICES ASSUME IInv, [Next]_vars PROVE [Table!TNext]_table
    OBVIOUS
  <1>1. ASSUME NEW p \in Procs, SaveClaim(p) PROVE Table!TNext
    <2>1. owner[p] \in Owners /\ slots[p] \in SUBSET Slots
      BY <1>1, InvByProcess DEF SaveClaim, InsideOK, RequestOK, TypeOK
    <2> QED
      BY <1>1, <2>1, SaveClaimIsClaim DEF Table!TNext
  <1>2. ASSUME NEW p \in Procs, SaveFree(p) PROVE Table!TNext
    <2>1. drop[p] \in SUBSET Table!Keys
      BY DEF IInv, TypeOK, Table!Keys, Keys
    <2> QED
      BY <1>2, <2>1, SaveFreeIsFree DEF Table!TNext
  <1>3. ASSUME NEW p \in Procs, Begin(p) PROVE UNCHANGED table
    BY <1>3 DEF Begin, BeginAllocate, BeginRelease, BeginSweep, BeginFree, Enter
  <1>4. ASSUME NEW p \in Procs, NEW s \in Slots, ClaimPin(p, s) \/ ClaimAuto(p, s)
        PROVE UNCHANGED table
    BY <1>4 DEF ClaimPin, ClaimAuto, KeepPin, Choose, Refuse
  <1>5. ASSUME NEW p \in Procs, Call(p) \/ Crash(p) \/ LockTimeout(p) PROVE UNCHANGED table
    BY <1>5 DEF Call, Crash, LockTimeout
  <1>6. ASSUME NEW port \in Ports, Listen(port) PROVE UNCHANGED table
    BY <1>6 DEF Listen
  <1>7. CASE UNCHANGED vars
    BY <1>7 DEF vars
  <1> QED
    BY <1>1, <1>2, <1>3, <1>4, <1>5, <1>6, <1>7 DEF Next, Work

(* PortAllocator implements PortTable: a call that fails, times out or dies
   half-way leaves ports.yaml untouched, one that succeeds grants every
   requested slot at once and changes nobody else's entry.                 *)
THEOREM AllocatorImplementsTable == Spec => ImplementsPortTable
  <1>1. Init => Table!TInit
    BY DEF Init, Table!TInit, EmptyTable, Keys, Table!Keys
  <1> QED
    BY <1>1, StepRefines, AllocatorInvariant, PTL DEF Spec, Table!TSpec, ImplementsPortTable

-----------------------------------------------------------------------------
(* A refusal is never the claim's own doing.                               *)

LEMMA RefusalStep ==
  IInv /\ [Next]_vars =>
    \A p \in Procs :
      /\ outcome' = "taken" /\ lock = p /\ ~UNCHANGED vars =>
           \E s \in Pinned(p) : pins[p][s] \in ForeignPorts(owner[p], slots[p])
      /\ outcome' = "in_use" /\ lock = p /\ ~UNCHANGED vars =>
           \E s \in Pinned(p) : pins[p][s] \in busy /\ table[Key(p, s)] # pins[p][s]
  <1> SUFFICES ASSUME IInv, Next, NEW p \in Procs, lock = p,
                      outcome' \in {"taken", "in_use"}
               PROVE  /\ outcome' = "taken" =>
                           \E s \in Pinned(p) : pins[p][s] \in ForeignPorts(owner[p], slots[p])
                      /\ outcome' = "in_use" =>
                           \E s \in Pinned(p) : pins[p][s] \in busy /\ table[Key(p, s)] # pins[p][s]
    OBVIOUS
  <1>1. ASSUME NEW q \in Procs, Begin(q) PROVE FALSE
    BY <1>1 DEF Begin, BeginAllocate, BeginRelease, BeginSweep, BeginFree, Enter
  <1>2. ASSUME NEW q \in Procs, Call(q) \/ Crash(q) \/ LockTimeout(q) \/ SaveClaim(q) \/ SaveFree(q)
        PROVE FALSE
    BY <1>2 DEF Call, Crash, LockTimeout, SaveClaim, SaveFree, Leave
  <1>3. ASSUME NEW port \in Ports, Listen(port) PROVE FALSE
    BY <1>3 DEF Listen
  <1>4. ASSUME NEW q \in Procs, NEW s \in Slots, ClaimAuto(q, s) PROVE FALSE
    BY <1>4 DEF ClaimAuto, Choose, Refuse, Leave
  <1>5. PICK q \in Procs, s \in Slots : ClaimPin(q, s)
    BY <1>1, <1>2, <1>3, <1>4 DEF Next, Work
  <1>6. /\ pc[q] = "claiming" /\ s \in Pinned(q) \ done[q] /\ ~HoldsPin(q, s)
        /\ outcome' = "taken" => pins[q][s] \in taken[q]
        /\ outcome' = "in_use" => pins[q][s] \in busy
    BY <1>5 DEF ClaimPin, KeepPin, Choose, Refuse, Leave
  <1>7. q = p /\ RequestOK(p) /\ CopyOK(p) /\ TakenOK(p) /\ ChosenOK(p) /\ s \in slots[p]
    BY <1>6, InvByProcess DEF InsideOK, Pinned
  <1>8. \A t \in done[p] : local[p][Key(p, t)] # pins[p][s]
    <2> SUFFICES ASSUME NEW t \in done[p] PROVE local[p][Key(p, t)] # pins[p][s]
      OBVIOUS
    <2>1. t \in Pinned(p) /\ t \in slots[p] /\ t # s
      BY <1>6, <1>7 DEF RequestOK, Pinned
    <2> QED
      BY <1>6, <1>7, <2>1 DEF ChosenOK, RequestOK, UniquePins, Pinned
  <1>9. outcome' = "taken" => pins[p][s] \in ForeignPorts(owner[p], slots[p])
    BY <1>6, <1>7, <1>8 DEF TakenOK
  <1>10. table[Key(p, s)] # pins[p][s]
    <2>1. Key(p, s) \in Keys /\ \A t \in done[p] : Key(p, s) # Key(p, t)
      BY <1>6, <1>7, KeyType DEF RequestOK, Key
    <2> QED
      BY <1>6, <1>7, <2>1 DEF CopyOK, HoldsPin
  <1> QED
    BY <1>6, <1>7, <1>9, <1>10

(* A pin is refused as "taken" only when another key of ports.yaml has it, as
   "in_use" only when the slot does not hold it yet.                       *)
THEOREM RefusalsNameTrueReasons == Spec => RefusalsAreTrue
  <1>1. IInv /\ [Next]_vars =>
          [\A p \in Procs :
             /\ outcome' = "taken" /\ lock = p =>
                  \E s \in Pinned(p) : pins[p][s] \in ForeignPorts(owner[p], slots[p])
             /\ outcome' = "in_use" /\ lock = p =>
                  \E s \in Pinned(p) : pins[p][s] \in busy /\ table[Key(p, s)] # pins[p][s]]_vars
    BY RefusalStep
  <1> QED
    BY <1>1, AllocatorInvariant, PTL DEF Spec, RefusalsAreTrue
=============================================================================
