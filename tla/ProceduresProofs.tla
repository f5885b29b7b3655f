-------------------------- MODULE ProceduresProofs --------------------------
(***************************************************************************)
(* Proofs about the small procedures - the setup runner, the division of   *)
(* the timeout of a stop, the repair of branch names, the variants - and,  *)
(* from them and from the proofs of the larger ones, that the procedures   *)
(* keep their invariants side by side, as module MCProcedures runs them.   *)
(***************************************************************************)
EXTENDS MCProcedures, TeardownProofs, SearchProofs, PluginInstallProofs, TLAPS

-----------------------------------------------------------------------------
(* Setup: the steps of a contract, for any number of them.               *)

(* The steps behind the runner have succeeded and hold no pipe, those before
   it have not begun.                                                      *)
BehindOK == \A i \in Index : i < step =>
              log[i] = "zero" /\ shell[i] = "zero" /\ child[i] # "piped"
AheadOK == \A i \in Index : i > step \/ (i = step /\ runner.at = "ready") =>
             log[i] = "none" /\ shell[i] = "none"
HereOK ==
  /\ runner.at \in {"waiting", "draining", "failed"} => step \in Index
  /\ runner.at = "waiting" => shell[step] # "killed" /\ shell[step] # "none"
  /\ runner.at = "failed" => log[step] \in {"nonzero", "timeout"}
RunnerInv == RunnerTypeOK /\ BehindOK /\ AheadOK /\ HereOK

LEMMA RunnerInvInit == RunnerInit => RunnerInv
BY StepsAssumption
   DEF RunnerInit, RunnerInv, RunnerTypeOK, BehindOK, AheadOK, HereOK, Index, step,
       StepsAssumption

LEMMA RunnerInvStep == RunnerInv /\ [RunnerNext]_runnerVars => RunnerInv'
<1> SUFFICES ASSUME RunnerInv, [RunnerNext]_runnerVars PROVE RunnerInv'
  OBVIOUS
<1> USE StepsAssumption
    DEF RunnerInv, RunnerTypeOK, BehindOK, AheadOK, HereOK, Index, step, StepsAssumption
<1>1. CASE SpawnShell
  <2>1. /\ runner.at = "ready" /\ step \in Index
        /\ shell' = [shell EXCEPT ![step] = "running"]
        /\ runner' = [runner EXCEPT !.at = "waiting"]
        /\ UNCHANGED <<child, log>>
    BY <1>1 DEF SpawnShell
  <2>2. runner'.at = "waiting" /\ runner'.step = step /\ runner'.limit = runner.limit
    BY <2>1
  <2>3. RunnerTypeOK'
    BY <2>1
  <2>4. BehindOK'
    BY <2>1, <2>2
  <2>5. AheadOK'
    BY <2>1, <2>2
  <2>6. HereOK'
    BY <2>1, <2>2
  <2> QED
    BY <2>3, <2>4, <2>5, <2>6
<1>2. CASE SpawnFails
  BY <1>2 DEF SpawnFails
<1>3. CASE EndRun
  BY <1>3 DEF EndRun
<1>4. CASE Communicate
  <2>1. CASE shell[step] = "zero"
    <3>1. /\ runner.at = "waiting" /\ child[step] # "piped" /\ step \in Index
          /\ log' = [log EXCEPT ![step] = "zero"]
          /\ runner' = [runner EXCEPT !.at = "ready", !.step = step + 1]
          /\ UNCHANGED <<shell, child>>
      BY <1>4, <2>1 DEF Communicate, PipesClosed, ShellOver
    <3>2. runner'.at = "ready" /\ runner'.step = step + 1 /\ runner'.limit = runner.limit
      BY <3>1
    <3>3. RunnerTypeOK'
      <4>1. step + 1 \in 1..Steps + 1
        BY <3>1
      <4>2. runner' \in [at: {"ready", "waiting", "draining", "ok", "failed", "raised"},
                         step: 1..Steps + 1, limit: BOOLEAN]
        BY <3>1, <4>1
      <4>3. log' \in [Index -> {"none", "zero", "nonzero", "timeout"}]
        BY <3>1
      <4> QED
        BY <3>1, <4>2, <4>3
    <3>4. BehindOK'
      BY <2>1, <3>1, <3>2
    <3>5. AheadOK'
      BY <3>1, <3>2
    <3>6. HereOK'
      BY <3>2
    <3> QED
      BY <3>3, <3>4, <3>5, <3>6
  <2>2. CASE shell[step] # "zero"
    BY <1>4, <2>2 DEF Communicate, PipesClosed, ShellOver
  <2> QED
    BY <2>1, <2>2
<1>5. CASE TimesOut
  BY <1>5 DEF TimesOut
<1>6. CASE Drained
  BY <1>6 DEF Drained, DrainOver
<1>7. CASE LogFails
  BY <1>7 DEF LogFails, DrainOver
<1>8. ASSUME NEW i \in Index, NEW kind \in {"piped", "detached"}, Start(i, kind)
      PROVE  RunnerInv'
  BY <1>8 DEF Start
<1>9. ASSUME NEW i \in Index, NEW code \in {"zero", "nonzero"}, Exit(i, code)
      PROVE  RunnerInv'
  BY <1>9 DEF Exit
<1>10. ASSUME NEW i \in Index, ChildEnds(i) PROVE RunnerInv'
  BY <1>10 DEF ChildEnds
<1>11. CASE UNCHANGED runnerVars
  BY <1>11 DEF runnerVars
<1> HIDE DEF RunnerInv, RunnerTypeOK, BehindOK, AheadOK, HereOK, Index, step
<1> QED
  BY <1>1, <1>2, <1>3, <1>4, <1>5, <1>6, <1>7, <1>8, <1>9, <1>10, <1>11
     DEF RunnerNext, RunnerStep

LEMMA RunnerInvariant == RunnerSpec => []RunnerInv
<1> QED
  BY RunnerInvInit, RunnerInvStep, PTL DEF RunnerSpec

(* The variables of a run keep their types. *)
THEOREM RunnerTypeCorrect == RunnerSpec => []RunnerTypeOK
<1> QED
  BY RunnerInvariant, PTL DEF RunnerInv

(* A step starts only after everything that holds the pipes of an earlier one
   has ended.                                                              *)
THEOREM StepsAreSequential == RunnerSpec => []StepsDoNotOverlap
<1>1. RunnerInv => StepsDoNotOverlap
  BY StepsAssumption
     DEF RunnerInv, RunnerTypeOK, BehindOK, HereOK, StepsDoNotOverlap, Index, step,
         StepsAssumption
<1> QED
  BY <1>1, RunnerInvariant, PTL

(* The logs tell which steps succeeded, which one failed and how, and that no
   later one was begun.                                                    *)
THEOREM LogsAreTrue == RunnerSpec => []LogsTell
<1>1. RunnerInv => LogsTell
  BY DEF RunnerInv, RunnerTypeOK, BehindOK, AheadOK, HereOK, LogsTell, step
<1> QED
  BY <1>1, RunnerInvariant, PTL

(* One step after the other, each with its own log. *)
THEOREM RunsStepByStep == RunnerSpec => []StepByStep
BY StepsAreSequential, LogsAreTrue, PTL DEF StepByStep

-----------------------------------------------------------------------------
(* Stop: the steps of stop() stay within the timeout and none is starved, for
   every timeout that is a number of tenths, every length of a second, every lag.*)

(* The shares: what is left to the wait and the floors fits into the whole,
   and no floor is more than its share.                                    *)
LEMMA Shares ==
  ASSUME BudgetTypeOK
  PROVE  /\ tenth \in Nat /\ Whole \in Nat
         /\ TreeFloor \in Nat /\ TreeFloor <= tenth
         /\ ScanFloor \in Nat /\ ScanFloor <= 3 * tenth
         /\ OrphanFloor \in Nat /\ OrphanFloor <= ScanFloor
         /\ PrimaryCap = 6 * tenth
         /\ SweepBudget \in Nat /\ SweepBudget <= Whole
         /\ ProtectBudget \in Nat /\ ProtectBudget <= SweepBudget
         /\ timeout.orphans => ProtectBudget <= 5 * tenth /\ SweepBudget = Whole
<1>1. tenth \in Nat /\ timeout.orphans \in BOOLEAN
  BY BudgetAssumption DEF BudgetTypeOK, BudgetAssumption, tenth
<1>2. Second \in Nat
  BY BudgetAssumption DEF BudgetAssumption
<1>3. Whole \in Nat /\ Whole = 10 * tenth
  BY <1>1 DEF Whole
<1>4. TreeFloor \in Nat /\ TreeFloor <= tenth
  BY <1>1, <1>2 DEF TreeFloor, Least
<1>5. ScanFloor \in Nat /\ ScanFloor <= 3 * tenth
  BY <1>1, <1>2 DEF ScanFloor, Least
<1>6. OrphanFloor \in Nat /\ OrphanFloor <= ScanFloor
  BY <1>5 DEF OrphanFloor
<1>7. PrimaryCap = 6 * tenth
  BY <1>1, <1>3, <1>4, <1>5, <1>6 DEF PrimaryCap, Least, Most
<1>8. /\ SweepBudget \in Nat /\ SweepBudget <= Whole
      /\ timeout.orphans => SweepBudget = Whole
  BY <1>1, <1>3, <1>5 DEF SweepBudget
<1>9. /\ ProtectBudget \in Nat /\ ProtectBudget <= SweepBudget
      /\ timeout.orphans => ProtectBudget <= 5 * tenth
  BY <1>1, <1>2, <1>3, <1>5, <1>8 DEF ProtectBudget, SweepBudget, Least
<1> QED
  BY <1>1, <1>3, <1>4, <1>5, <1>6, <1>7, <1>8, <1>9

(* What each step is granted at a time. *)
LEMMA Grants ==
  ASSUME BudgetTypeOK, NEW t \in Nat
  PROVE  /\ WaitGrant(t) \in Nat /\ WaitGrant(t) <= PrimaryCap
         /\ WaitGrant(t) >= 6 * tenth - t
         /\ TreeGrant(t) \in Nat
         /\ TreeGrant(t) = TreeFloor \/ t + TreeGrant(t) = Whole - OrphanFloor
         /\ TreeGrant(t) >= TreeFloor
         /\ OrphanGrant(t) \in Nat
         /\ OrphanGrant(t) = OrphanFloor \/ t + OrphanGrant(t) = Whole
         /\ OrphanGrant(t) >= OrphanFloor
         /\ ScanGrant(t) \in Nat
         /\ ScanGrant(t) = 0 \/ t + ScanGrant(t) = SweepBudget
         /\ ScanGrant(t) >= SweepBudget - t
<1>1. /\ WaitGrant(t) \in Nat /\ WaitGrant(t) <= PrimaryCap
      /\ WaitGrant(t) >= 6 * tenth - t
  BY Shares DEF WaitGrant, Least, Most, Whole
<1>2. /\ TreeGrant(t) \in Nat /\ TreeGrant(t) >= TreeFloor
      /\ TreeGrant(t) = TreeFloor \/ t + TreeGrant(t) = Whole - OrphanFloor
  BY Shares DEF TreeGrant, Most
<1>3. /\ OrphanGrant(t) \in Nat /\ OrphanGrant(t) >= OrphanFloor
      /\ OrphanGrant(t) = OrphanFloor \/ t + OrphanGrant(t) = Whole
  BY Shares DEF OrphanGrant, Most
<1>4. /\ ScanGrant(t) \in Nat /\ ScanGrant(t) >= SweepBudget - t
      /\ ScanGrant(t) = 0 \/ t + ScanGrant(t) = SweepBudget
  BY Shares DEF ScanGrant, Most
<1> QED
  BY <1>1, <1>2, <1>3, <1>4

LEMMA SameShares ==
  ASSUME UNCHANGED timeout
  PROVE  /\ tenth' = tenth /\ Whole' = Whole /\ OrphanFloor' = OrphanFloor
         /\ PrimaryCap' = PrimaryCap /\ SweepBudget' = SweepBudget
         /\ ProtectBudget' = ProtectBudget
BY DEF tenth, Whole, OrphanFloor, ScanFloor, TreeFloor, PrimaryCap, SweepBudget, ProtectBudget

-----------------------------------------------------------------------------
(* The invariant is inductive as it stands: each step has a limit of its own.
   What is added is what a step has to expect of the time it starts at.    *)
BudgetInv == BudgetTypeOK /\ StopsInTime /\ NobodyStarved

LEMMA BudgetStart == BudgetInit => BudgetInv
<1> SUFFICES ASSUME BudgetInit PROVE BudgetInv
  OBVIOUS
<1>1. BudgetTypeOK
  BY DEF BudgetInit, BudgetTypeOK
<1>2. StopsInTime /\ NobodyStarved
  BY DEF BudgetInit, StopsInTime, NobodyStarved, Limit
<1> QED
  BY <1>1, <1>2 DEF BudgetInv

LEMMA BudgetStep == BudgetInv /\ [BudgetNext]_budgetVars => BudgetInv'
<1> SUFFICES ASSUME BudgetInv, [BudgetNext]_budgetVars PROVE BudgetInv'
  OBVIOUS
<1>0. BudgetTypeOK /\ StopsInTime
  BY DEF BudgetInv
<1>1. Lag \in Nat /\ Second \in Nat
  BY BudgetAssumption DEF BudgetAssumption
<1>2. ASSUME NEW used \in 0..granted, NEW beyond \in 0..Lag,
             now' = now + used + beyond, late' = late + beyond
      PROVE  /\ now' \in Nat /\ late' \in Nat /\ late' >= late
             /\ now' <= Limit + late'
             /\ now <= late => now' - used <= late'
  <2>1. Limit \in Int
    BY <1>0, Shares DEF Limit
  <2> QED
    BY <1>0, <1>1, <1>2, <2>1 DEF BudgetTypeOK, StopsInTime
<1>3. CASE Snapshot
  <2>1. CASE Take("wait") /\ granted' = WaitGrant(now')
    <3>1. PICK used \in 0..granted, beyond \in 0..Lag :
            /\ now' = now + used + beyond /\ late' = late + beyond
            /\ granted' = WaitGrant(now') /\ at' = "wait" /\ UNCHANGED timeout
      BY <2>1 DEF Take
    <3>2. now' \in Nat /\ late' \in Nat /\ now' <= late'
      BY <1>2, <1>3, <3>1, Shares, <1>0 DEF Snapshot, Limit, BudgetTypeOK
    <3>3. granted' \in Nat /\ granted' <= PrimaryCap /\ granted' >= 6 * tenth - now'
      BY <1>0, <3>1, <3>2, Grants
    <3> QED
      BY <1>0, <3>1, <3>2, <3>3, Shares, SameShares
         DEF BudgetInv, BudgetTypeOK, StopsInTime, NobodyStarved, Limit
  <2>2. CASE Take("tree") /\ granted' = TreeGrant(now')
    <3>1. PICK used \in 0..granted, beyond \in 0..Lag :
            /\ now' = now + used + beyond /\ late' = late + beyond
            /\ granted' = TreeGrant(now') /\ at' = "tree" /\ UNCHANGED timeout
      BY <2>2 DEF Take
    <3>2. now' \in Nat /\ late' \in Nat /\ now' <= late'
      BY <1>2, <1>3, <3>1, Shares, <1>0 DEF Snapshot, Limit, BudgetTypeOK
    <3>3. /\ granted' \in Nat /\ granted' >= TreeFloor
          /\ granted' = TreeFloor \/ now' + granted' = Whole - OrphanFloor
      BY <1>0, <3>1, <3>2, Grants
    <3>4. TreeFloor + OrphanFloor <= Whole
      BY <1>0, Shares DEF Whole
    <3>5. TreeFloor = Least(Second, tenth)'
      BY <3>1, SameShares DEF TreeFloor
    <3> QED
      BY <1>0, <3>1, <3>2, <3>3, <3>4, <3>5, Shares, SameShares
         DEF BudgetInv, BudgetTypeOK, StopsInTime, NobodyStarved, Limit
  <2> QED
    BY <1>3, <2>1, <2>2 DEF Snapshot
<1>4. CASE AwaitPrimary
  <2>1. PICK used \in 0..granted, beyond \in 0..Lag :
          /\ now' = now + used + beyond /\ late' = late + beyond
          /\ granted' = TreeGrant(now') /\ at' = "tree" /\ UNCHANGED timeout
    BY <1>4 DEF AwaitPrimary, Take
  <2>2. now' \in Nat /\ late' \in Nat /\ now' <= PrimaryCap + late'
    BY <1>2, <1>4, <2>1 DEF AwaitPrimary, Limit
  <2>3. /\ granted' \in Nat /\ granted' >= TreeFloor
        /\ granted' = TreeFloor \/ now' + granted' = Whole - OrphanFloor
    BY <1>0, <2>1, <2>2, Grants
  <2>4. PrimaryCap + TreeFloor + OrphanFloor <= Whole
    BY <1>0, Shares DEF Whole
  <2>5. TreeFloor = Least(Second, tenth)'
    BY <2>1, SameShares DEF TreeFloor
  <2> QED
    BY <1>0, <2>1, <2>2, <2>3, <2>4, <2>5, Shares, SameShares
       DEF BudgetInv, BudgetTypeOK, StopsInTime, NobodyStarved, Limit
<1>5. CASE KillTree
  <2>1. CASE timeout.orphans
    <3>1. PICK used \in 0..granted, beyond \in 0..Lag :
            /\ now' = now + used + beyond /\ late' = late + beyond
            /\ granted' = OrphanGrant(now') /\ at' = "orphans" /\ UNCHANGED timeout
      BY <1>5, <2>1 DEF KillTree, Take
    <3>2. now' \in Nat /\ late' \in Nat /\ now' <= Whole - OrphanFloor + late'
      BY <1>2, <1>5, <3>1 DEF KillTree, Limit
    <3>3. /\ granted' \in Nat /\ granted' >= OrphanFloor
          /\ granted' = OrphanFloor \/ now' + granted' = Whole
      BY <1>0, <3>1, <3>2, Grants
    <3>4. OrphanFloor = Least(3 * Second, 3 * tenth)'
      BY <2>1, <3>1, SameShares DEF OrphanFloor, ScanFloor
    <3> QED
      BY <1>0, <3>1, <3>2, <3>3, <3>4, Shares, SameShares
         DEF BudgetInv, BudgetTypeOK, StopsInTime, NobodyStarved, Limit
  <2>2. CASE ~timeout.orphans
    <3>1. PICK used \in 0..granted, beyond \in 0..Lag :
            /\ now' = now + used + beyond /\ late' = late + beyond
            /\ granted' = 0 /\ at' = "done" /\ UNCHANGED timeout
      BY <1>5, <2>2 DEF KillTree, Take
    <3>2. now' \in Nat /\ late' \in Nat /\ now' <= Whole - OrphanFloor + late'
      BY <1>2, <1>5, <3>1 DEF KillTree, Limit
    <3> QED
      BY <1>0, <3>1, <3>2, Shares, SameShares
         DEF BudgetInv, BudgetTypeOK, StopsInTime, NobodyStarved, Limit
  <2> QED
    BY <2>1, <2>2
<1>6. CASE ScanOrphans
  <2>1. PICK used \in 0..granted, beyond \in 0..Lag :
          /\ now' = now + used + beyond /\ late' = late + beyond
          /\ granted' = 0 /\ at' = "done" /\ UNCHANGED timeout
    BY <1>6 DEF ScanOrphans, Take
  <2>2. now' \in Nat /\ late' \in Nat /\ now' <= Whole + late'
    BY <1>2, <1>6, <2>1 DEF ScanOrphans, Limit
  <2> QED
    BY <1>0, <2>1, <2>2, Shares, SameShares
       DEF BudgetInv, BudgetTypeOK, StopsInTime, NobodyStarved, Limit
<1>7. CASE BeginSweep
  <2>1. now <= late
    BY <1>0, <1>7 DEF BeginSweep, StopsInTime, Limit, BudgetTypeOK
  <2> QED
    BY <1>0, <1>7, <2>1, Shares, SameShares
       DEF BeginSweep, BudgetInv, BudgetTypeOK, StopsInTime, NobodyStarved, Limit
<1>8. CASE Protect
  <2>1. CASE Take("scan") /\ granted' = ScanGrant(now')
    <3>1. PICK used \in 0..granted, beyond \in 0..Lag :
            /\ now' = now + used + beyond /\ late' = late + beyond
            /\ granted' = ScanGrant(now') /\ at' = "scan" /\ UNCHANGED timeout
      BY <2>1 DEF Take
    <3>2. now' \in Nat /\ late' \in Nat /\ now' <= ProtectBudget + late'
      BY <1>2, <1>8, <3>1 DEF Protect, Limit
    <3>3. /\ granted' \in Nat /\ granted' >= SweepBudget - now'
          /\ granted' = 0 \/ now' + granted' = SweepBudget
      BY <1>0, <3>1, <3>2, Grants
    <3> QED
      BY <1>0, <3>1, <3>2, <3>3, Shares, SameShares
         DEF BudgetInv, BudgetTypeOK, StopsInTime, NobodyStarved, Limit, Whole
  <2>2. CASE Take("done") /\ granted' = 0
    <3>1. PICK used \in 0..granted, beyond \in 0..Lag :
            /\ now' = now + used + beyond /\ late' = late + beyond
            /\ granted' = 0 /\ at' = "done" /\ UNCHANGED timeout
      BY <2>2 DEF Take
    <3>2. now' \in Nat /\ late' \in Nat /\ now' <= ProtectBudget + late'
      BY <1>2, <1>8, <3>1 DEF Protect, Limit
    <3> QED
      BY <1>0, <3>1, <3>2, Shares, SameShares
         DEF BudgetInv, BudgetTypeOK, StopsInTime, NobodyStarved, Limit
  <2> QED
    BY <1>8, <2>1, <2>2 DEF Protect
<1>9. CASE ScanSwept
  <2>1. PICK used \in 0..granted, beyond \in 0..Lag :
          /\ now' = now + used + beyond /\ late' = late + beyond
          /\ granted' = 0 /\ at' = "done" /\ UNCHANGED timeout
    BY <1>9 DEF ScanSwept, Take
  <2>2. now' \in Nat /\ late' \in Nat /\ now' <= SweepBudget + late'
    BY <1>2, <1>9, <2>1 DEF ScanSwept, Limit
  <2> QED
    BY <1>0, <2>1, <2>2, Shares, SameShares
       DEF BudgetInv, BudgetTypeOK, StopsInTime, NobodyStarved, Limit
<1>10. CASE UNCHANGED budgetVars
  <2>1. BudgetTypeOK'
    BY <1>0, <1>10 DEF budgetVars, BudgetTypeOK
  <2>2. Limit' = Limit /\ tenth' = tenth
    BY <1>10, SameShares DEF budgetVars, Limit
  <2> QED
    BY <1>10, <2>1, <2>2 DEF BudgetInv, budgetVars, StopsInTime, NobodyStarved
<1> QED
  BY <1>3, <1>4, <1>5, <1>6, <1>7, <1>8, <1>9, <1>10 DEF BudgetNext

-----------------------------------------------------------------------------
(* The types of the division of a timeout. *)
THEOREM BudgetTypeCorrect == BudgetSpec => []BudgetTypeOK
<1>1. BudgetInv => BudgetTypeOK
  BY DEF BudgetInv
<1> QED
  BY <1>1, BudgetStart, BudgetStep, PTL DEF BudgetSpec

(* stop() and the sweep stay within the timeout but for what a step takes
   beyond its grant, whatever the timeout is.                              *)
THEOREM StopStaysInTime == BudgetSpec => []StopsInTime
<1>1. BudgetInv => StopsInTime
  BY DEF BudgetInv
<1> QED
  BY <1>1, BudgetStart, BudgetStep, PTL DEF BudgetSpec

(* No step of stop() is starved by those before it. *)
THEOREM NobodyIsStarved == BudgetSpec => []NobodyStarved
<1>1. BudgetInv => NobodyStarved
  BY DEF BudgetInv
<1> QED
  BY <1>1, BudgetStart, BudgetStep, PTL DEF BudgetSpec

(* The shares add up and nobody is starved. *)
THEOREM TimeIsAlwaysShared == BudgetSpec => []TimeIsShared
BY StopStaysInTime, NobodyIsStarved, PTL DEF TimeIsShared

-----------------------------------------------------------------------------
(* The repair of branch names: for any number of records, repositories,
   names, reconciles and changes.                                        *)

(* A wrong spelling belongs to one branch, so whatever git said, the name that
   a heal stores spells the branch that the old one spelled.               *)
LEMMA RepairKeepsBranch ==
  ASSUME NEW b \in Heard, NEW stored \in Spellings(b), NEW said, Repairs(stored, said)
  PROVE  said \in Spellings(b)
<1>1. <<stored, said>> \in Garbles /\ stored \in Garbled
  BY HealAssumption DEF Repairs
<1>2. stored # b
  BY <1>1, HealAssumption DEF Heard
<1>3. <<stored, b>> \in Garbles
  BY <1>2 DEF Spellings
<1>4. said = b
  BY <1>1, <1>3, HealAssumption
<1> QED
  BY <1>4 DEF Spellings

HealInv == HealTypeOK /\ OwnershipKept

LEMMA HealInvInit ==
  ASSUME HealInit
  PROVE  HealInv
<1> USE HealAssumption DEF HealInit
<1>1. Idle \in Healer
  BY DEF Idle, Healer, StoredRecord, NoRecord, Names, Heard
<1>2. table \in [Ids -> StoredRecord] /\ live \in [Ids -> Heard]
  <2>1. {TRUE} \subseteq BOOLEAN /\ {0} \subseteq 0..MaxChanges
    OBVIOUS
  <2>2. ASSUME NEW r \in [tracked: {TRUE}, branch: Names, rest: {0}]
        PROVE  r \in StoredRecord
    <3>1. r.tracked \in BOOLEAN /\ r.branch \in Names /\ r.rest \in 0..MaxChanges
      BY <2>1
    <3>2. r = [tracked |-> r.tracked, branch |-> r.branch, rest |-> r.rest]
      OBVIOUS
    <3> QED
      BY <3>1, <3>2, Zenon DEF StoredRecord
  <2> QED
    BY <2>2
<1>3. \A h \in Healers : healer[h].todo \cap healer[h].answered = {}
  BY DEF Idle
<1> QED
  BY <1>1, <1>2, <1>3 DEF HealInv, HealTypeOK, OwnershipKept

(* What a reconcile goes through before it writes keeps the invariant. *)
LEMMA AskingKeepsInv ==
  ASSUME HealInv, NEW h \in Healers, UNCHANGED <<table, live, created>>,
         UNCHANGED changes \/ Change, NEW new \in Healer, new.todo \cap new.answered = {},
         healer' = [healer EXCEPT ![h] = new]
  PROVE  HealInv'
<1>1. healer' \in [Healers -> Healer]
  BY DEF HealInv, HealTypeOK
<1>2. \A g \in Healers : healer'[g].todo \cap healer'[g].answered = {}
  BY DEF HealInv, HealTypeOK
<1>3. changes' \in 0..MaxChanges
  BY HealAssumption DEF HealInv, HealTypeOK, Change
<1> QED
  BY <1>1, <1>2, <1>3 DEF HealInv, HealTypeOK, OwnershipKept

LEMMA IdleIsHealer ==
  Idle \in Healer /\ Idle.todo \cap Idle.answered = {}
BY HealAssumption DEF Idle, Healer, StoredRecord, NoRecord, Names, Heard

(* A healed record spells its branch, and differs from the fresh one in the
   spelling only.                                                          *)
LEMMA HealedRecord ==
  ASSUME HealInv, NEW h \in Healers, NEW id \in Ids
  PROVE  /\ Healed(h, id) \in StoredRecord
         /\ Healed(h, id).branch \in Spellings(created[id])
         /\ Healed(h, id).tracked = table[id].tracked
         /\ Healed(h, id).rest = table[id].rest
<1> DEFINE said == healer[h].heard[id]
<1>1. table[id] \in StoredRecord /\ table[id].branch \in Spellings(created[id])
  BY DEF HealInv, HealTypeOK, OwnershipKept
<1>2. said \in Heard /\ created[id] \in Heard
  BY DEF HealInv, HealTypeOK, Healer
<1>3. CASE Healed(h, id) = table[id]
  BY <1>1, <1>3
<1>4. CASE /\ Healed(h, id) = [table[id] EXCEPT !.branch = said]
           /\ Repairs(table[id].branch, said)
  <2>1. said \in Spellings(created[id])
    BY <1>1, <1>2, <1>4, RepairKeepsBranch
  <2> QED
    BY <1>1, <1>2, <1>4, <2>1 DEF StoredRecord, Names
<1> QED
  BY <1>3, <1>4 DEF Healed, Reloaded

LEMMA HealStepKeepsInv ==
  ASSUME HealInv, NEW h \in Healers, HealStep(h)
  PROVE  HealInv'
<1> USE HealAssumption
<1>1. healer[h] \in Healer /\ healer[h].todo \cap healer[h].answered = {}
  BY DEF HealInv, HealTypeOK
<1>2. CASE Suspect(h)
  <2> DEFINE new == [Idle EXCEPT !.at = "asking", !.records = table,
                       !.todo = {RepoOf[id] : id \in Candidates(table)}]
  <2>1. new \in Healer
    <3>1. {RepoOf[id] : id \in Candidates(table)} \in SUBSET Repos
      BY DEF Candidates
    <3>2. table \in [Ids -> StoredRecord]
      BY DEF HealInv, HealTypeOK
    <3> QED
      BY <3>1, <3>2, IdleIsHealer DEF Healer
  <2>2. new.todo \cap new.answered = {}
    BY DEF Idle
  <2> QED
    BY <1>2, <2>1, <2>2, AskingKeepsInv DEF Suspect
<1>3. CASE \E r \in Repos : AskGit(h, r)
  <2>1. PICK r \in Repos : AskGit(h, r)
    BY <1>3
  <2> DEFINE new == [healer[h] EXCEPT
                       !.todo = @ \ {r}, !.answered = @ \cup {r},
                       !.heard = [id \in Ids |-> IF RepoOf[id] = r THEN live[id] ELSE @[id]]]
  <2>2. new \in Healer
    BY <1>1 DEF Healer, HealInv, HealTypeOK
  <2>3. new.todo \cap new.answered = {}
    BY <1>1 DEF Healer
  <2>4. healer' = [healer EXCEPT ![h] = new]
    BY <2>1, <1>1 DEF AskGit, Healer, HealInv, HealTypeOK
  <2> QED
    BY <2>1, <2>2, <2>3, <2>4, AskingKeepsInv DEF AskGit
<1>4. CASE \E r \in Repos : GitFails(h, r)
  <2>1. PICK r \in Repos : GitFails(h, r)
    BY <1>4
  <2> DEFINE new == [healer[h] EXCEPT !.todo = @ \ {r}]
  <2>2. new \in Healer /\ new.todo \cap new.answered = {}
    BY <1>1 DEF Healer
  <2>3. healer' = [healer EXCEPT ![h] = new]
    BY <2>1 DEF GitFails, HealInv, HealTypeOK
  <2> QED
    BY <2>1, <2>2, <2>3, AskingKeepsInv DEF GitFails, Failing
<1>5. CASE NothingToHeal(h) \/ HealFails(h)
  BY <1>5, IdleIsHealer, AskingKeepsInv DEF NothingToHeal, HealFails
<1>6. CASE Heal(h)
  <2>1. table' \in [Ids -> StoredRecord]
    BY <1>6, HealedRecord DEF Heal
  <2>2. \A id \in Ids : table'[id].branch \in Spellings(created'[id])
    BY <1>6, HealedRecord DEF Heal
  <2>3. healer' \in [Healers -> Healer]
    BY <1>6, IdleIsHealer DEF Heal, HealInv, HealTypeOK
  <2>4. \A g \in Healers : healer'[g].todo \cap healer'[g].answered = {}
    BY <1>6, IdleIsHealer DEF Heal, HealInv, HealTypeOK
  <2> QED
    BY <1>6, <2>1, <2>2, <2>3, <2>4 DEF Heal, HealInv, HealTypeOK, OwnershipKept
<1> QED
  BY <1>2, <1>3, <1>4, <1>5, <1>6 DEF HealStep

(* Users and other operations store a spelling of the same branch, or a record
   that is made for the branch it names.                                   *)
LEMMA OtherKeepsInv ==
  ASSUME HealInv, NEW id \in Ids, Other(id)
  PROVE  HealInv'
<1> USE HealAssumption DEF HealInv, HealTypeOK, OwnershipKept, Change
<1>1. Change => changes' \in 0..MaxChanges
  OBVIOUS
<1>2. CASE Switch(id)
  BY <1>2 DEF Switch
<1>3. CASE WriteBack(id)
  <2>1. PICK spelling \in Spellings(table[id].branch) :
          table' = [table EXCEPT ![id].branch = spelling, ![id].rest = changes']
    BY <1>3 DEF WriteBack
  <2>2. created[id] \in Heard /\ table[id].branch \in Spellings(created[id])
    OBVIOUS
  <2>3. spelling \in Spellings(created[id]) /\ spelling \in Names
    BY <2>2 DEF Spellings, Heard, Names
  <2>4. changes' \in 0..MaxChanges
    BY <1>1, <1>3 DEF WriteBack
  <2>5. [table[id] EXCEPT !.branch = spelling, !.rest = changes'] \in StoredRecord
    BY <2>3, <2>4 DEF StoredRecord
  <2>6. table' = [table EXCEPT ![id] =
                    [table[id] EXCEPT !.branch = spelling, !.rest = changes']]
    BY <2>1 DEF StoredRecord
  <2>7. table' \in [Ids -> StoredRecord]
    BY <2>5, <2>6
  <2>8. \A i \in Ids : table'[i].branch \in Spellings(created[i])
    BY <2>3, <2>6 DEF StoredRecord
  <2> QED
    BY <1>3, <2>4, <2>7, <2>8 DEF WriteBack
<1>4. CASE Forget(id)
  <2>1. table' \in [Ids -> StoredRecord] /\ live' \in [Ids -> Heard]
    BY <1>4 DEF Forget, StoredRecord, Heard
  <2>2. \A i \in Ids : table'[i].branch = table[i].branch
    BY <1>4 DEF Forget, StoredRecord
  <2> QED
    BY <1>1, <1>4, <2>1, <2>2 DEF Forget
<1>5. CASE CreateAgain(id)
  <2>1. PICK b \in Branches :
          /\ table' = [table EXCEPT ![id] = [tracked |-> TRUE, branch |-> b, rest |-> changes']]
          /\ live' = [live EXCEPT ![id] = b]
          /\ created' = [created EXCEPT ![id] = b]
    BY <1>5 DEF CreateAgain
  <2>2. table' \in [Ids -> StoredRecord] /\ live' \in [Ids -> Heard] /\ created' \in [Ids -> Heard]
    BY <1>1, <1>5, <2>1 DEF CreateAgain, StoredRecord, Names, Heard
  <2>3. \A i \in Ids : table'[i].branch \in Spellings(created'[i])
    BY <2>1 DEF Spellings
  <2> QED
    BY <1>1, <1>5, <2>2, <2>3 DEF CreateAgain
<1> QED
  BY <1>2, <1>3, <1>4, <1>5 DEF Other

LEMMA HealInvStep ==
  ASSUME HealInv, [HealNext]_healVars
  PROVE  HealInv'
<1>1. CASE UNCHANGED healVars
  BY <1>1 DEF healVars, HealInv, HealTypeOK, OwnershipKept
<1>2. CASE HealNext
  BY <1>2, HealStepKeepsInv, OtherKeepsInv DEF HealNext
<1> QED
  BY <1>1, <1>2

LEMMA HealInvariant == HealSpec => []HealInv
<1> QED
  BY HealInvInit, HealInvStep, PTL DEF HealSpec

(* The variables of the repair stay in their types. *)
THEOREM HealTypeCorrect == HealSpec => []HealTypeOK
<1>1. HealInv => HealTypeOK
  BY DEF HealInv
<1> QED
  BY <1>1, HealInvariant, PTL

(* A stored branch is, at any time, a spelling of the branch that the record
   was made for: reconcile() never hands remove() a branch of the user's.  *)
THEOREM HealKeepsOwnership == HealSpec => []OwnershipKept
<1>1. HealInv => OwnershipKept
  BY DEF HealInv
<1> QED
  BY <1>1, HealInvariant, PTL

(* What others saved while git was asked survives the heal. *)
THEOREM HealLoses == HealSpec => HealLosesNothing
<1> DEFINE Kept == healer' # healer =>
             \A id \in Ids : table'[id].tracked = table[id].tracked
                                /\ table'[id].rest = table[id].rest
<1>1. HealInv /\ [HealNext]_healVars => [Kept]_healVars
  <2> SUFFICES ASSUME HealInv, HealNext, healer' # healer
               PROVE  \A id \in Ids : table'[id].tracked = table[id].tracked
                                         /\ table'[id].rest = table[id].rest
    OBVIOUS
  <2>1. PICK h \in Healers : HealStep(h)
    BY DEF HealNext, Other, Switch, WriteBack, Forget, CreateAgain
  <2>2. CASE Heal(h)
    BY <2>2, HealedRecord DEF Heal
  <2>3. CASE UNCHANGED table
    BY <2>3
  <2> QED
    BY <2>1, <2>2, <2>3 DEF HealStep, Suspect, AskGit, GitFails, NothingToHeal, HealFails
<1> QED
  BY <1>1, HealInvariant, PTL DEF HealSpec, HealLosesNothing

-----------------------------------------------------------------------------
(* Variants: for any roles, names and length of a contract.              *)

(* A contract is a sequence, and a name is the name of one step at most. *)
LEMMA ContractShape ==
  ASSUME NEW s \in Contracts
  PROVE  /\ s \in [1..Len(s) -> MaybeNamed] /\ Len(s) \in Nat
         /\ \A i, j \in DOMAIN s : s[i] = s[j] => i = j \/ s[i] = NoName
<1>1. PICK n \in 0..MaxSteps : s \in [1..n -> MaybeNamed]
  BY DEF Contracts
<1>2. n \in Nat
  BY VariantAssumption
<1>3. Len(s) = n
  BY <1>1, <1>2
<1> QED
  BY <1>1, <1>2, <1>3 DEF Contracts

(* Whatever is selected is one step, and is selected exactly when the variant
   is on offer.                                                            *)
LEMMA SelectsOne ==
  ASSUME NEW s \in Contracts, NEW variant \in StepNames
  PROVE  variant \in Available(s) <=> \E i \in DOMAIN s : Selected(s, variant) = {i}
<1> USE VariantAssumption
<1>1. CASE Named(s, variant) # {}
  <2>1. PICK i \in DOMAIN s : s[i] = variant
    BY <1>1 DEF Named
  <2>2. Named(s, variant) = {i}
    BY <2>1, ContractShape DEF Named
  <2> QED
    BY <1>1, <2>1, <2>2 DEF Selected, Available
<1>2. CASE Named(s, variant) = {} /\ variant # Default
  BY <1>2 DEF Selected, Available
<1>3. CASE Named(s, variant) = {} /\ variant = Default /\ Lone(s) # {}
  <2>1. PICK i \in DOMAIN s : Named(s, NoName) = {i}
    BY <1>3 DEF Lone
  <2>2. Lone(s) = {i}
    BY <2>1 DEF Lone
  <2> QED
    BY <1>3, <2>1, <2>2 DEF Selected, Available, DefaultReachable
<1>4. CASE Named(s, variant) = {} /\ variant = Default /\ Lone(s) = {} /\ Len(s) = 1
  <2>1. DOMAIN s = {1}
    BY <1>4, ContractShape
  <2> QED
    BY <1>4, <2>1 DEF Selected, Available, DefaultReachable
<1>5. CASE Named(s, variant) = {} /\ variant = Default /\ Lone(s) = {} /\ Len(s) # 1
  BY <1>5 DEF Selected, Available, DefaultReachable
<1> QED
  BY <1>1, <1>2, <1>3, <1>4, <1>5

(* The variant of a tracked role is the one its start() went by. *)
RecordedAsStarted ==
  \A role \in pids :
    /\ startedBy[role].asked \in StepNames
    /\ variants[role] = NameOf(startedBy[role].step, startedBy[role].asked)

VariantInv == VariantTypeOK /\ RecordedAsStarted

LEMMA VariantInvInit ==
  ASSUME VariantInit
  PROVE  VariantInv
BY DEF VariantInit, VariantInv, VariantTypeOK, RecordedAsStarted, MaybeNamed

LEMMA StartKeepsInv ==
  ASSUME VariantInv, NEW role \in Roles, NEW variant \in StepNames, StartRole(role, variant)
  PROVE  VariantInv'
<1> USE DEF VariantInv, VariantTypeOK, RecordedAsStarted
<1>1. PICK i \in Selected(steps, variant) :
        /\ variants' = [variants EXCEPT ![role] = NameOf(steps[i], variant)]
        /\ startedBy' = [startedBy EXCEPT ![role] = [step |-> steps[i], asked |-> variant]]
  BY DEF StartRole
<1>2. i \in DOMAIN steps
  BY <1>1 DEF Selected, Named, Lone
<1>3. steps[i] \in MaybeNamed
  BY <1>2, ContractShape
<1>4. NameOf(steps[i], variant) \in MaybeNamed /\ variant \in MaybeNamed
  BY <1>3 DEF NameOf, MaybeNamed
<1>5. /\ pids' = pids \cup {role} /\ running' = running \cup {role}
      /\ ready' = FALSE /\ UNCHANGED <<steps, stopping>>
  BY DEF StartRole
<1>6. VariantTypeOK'
  BY <1>1, <1>3, <1>4, <1>5
<1>7. RecordedAsStarted'
  BY <1>1, <1>5
<1> QED
  BY <1>6, <1>7

LEMMA OtherCallsKeepInv ==
  ASSUME VariantInv,
         \/ \E variant \in StepNames : StopVariant(variant)
         \/ \E role \in Roles : StopRole(role) \/ ProcessDies(role)
         \/ StartNothing \/ EndStop \/ SweepDead \/ EditContract
  PROVE  VariantInv'
<1> USE DEF VariantInv, VariantTypeOK, RecordedAsStarted
<1>1. CASE \E variant \in StepNames : StopVariant(variant)
  BY <1>1 DEF StopVariant
<1>2. CASE \E role \in Roles : StopRole(role) \/ ProcessDies(role)
  BY <1>2 DEF StopRole, ProcessDies
<1>3. CASE EndStop
  BY <1>3 DEF EndStop, MaybeNamed
<1>4. CASE SweepDead
  BY <1>4 DEF SweepDead, MaybeNamed
<1>5. CASE EditContract
  BY <1>5 DEF EditContract
<1>6. CASE StartNothing
  BY <1>6 DEF StartNothing
<1> QED
  BY <1>1, <1>2, <1>3, <1>4, <1>5, <1>6

LEMMA VariantInvStep ==
  ASSUME VariantInv, [VariantNext]_variantVars
  PROVE  VariantInv'
<1>1. CASE UNCHANGED variantVars
  BY <1>1 DEF variantVars, VariantInv, VariantTypeOK, RecordedAsStarted
<1>2. CASE VariantNext
  BY <1>2, StartKeepsInv, OtherCallsKeepInv DEF VariantNext
<1> QED
  BY <1>1, <1>2

LEMMA VariantInvariant == VariantSpec => []VariantInv
<1> QED
  BY VariantInvInit, VariantInvStep, PTL DEF VariantSpec

(* The record keeps a variant for no role that it does not track (#104). *)
THEOREM VariantTypeCorrect == VariantSpec => []VariantTypeOK
<1>1. VariantInv => VariantTypeOK
  BY DEF VariantInv
<1> QED
  BY <1>1, VariantInvariant, PTL

(* The listing and start() agree on every contract the loader lets through. *)
THEOREM OffersAreStartable == VariantSpec => []OfferedIsStartable
<1>1. VariantInv => OfferedIsStartable
  BY SelectsOne DEF VariantInv, VariantTypeOK, OfferedIsStartable
<1> QED
  BY <1>1, VariantInvariant, PTL

(* stop(variant=v) is about the roles started as v and no others. *)
THEOREM VariantsReachTheirRoles == VariantSpec => []VariantReaches
<1>1. VariantInv => VariantReaches
  <2> SUFFICES ASSUME VariantInv, NEW variant \in StepNames, NEW role \in Roles
               PROVE  variants[role] = variant <=>
                        /\ role \in pids
                        /\ LET by == startedBy[role]
                           IN variant = IF by.step \in StepNames THEN by.step ELSE by.asked
    BY DEF VariantReaches, Matches, VariantInv, VariantTypeOK
  <2>1. CASE role \notin pids
    BY <2>1, VariantAssumption DEF VariantInv, VariantTypeOK
  <2>2. CASE role \in pids
    <3>1. variants[role] = NameOf(startedBy[role].step, startedBy[role].asked)
      BY <2>2 DEF VariantInv, RecordedAsStarted
    <3>2. startedBy[role].step \in StepNames <=> startedBy[role].step # NoName
      BY VariantAssumption DEF VariantInv, VariantTypeOK, MaybeNamed
    <3> QED
      BY <2>2, <3>1, <3>2 DEF NameOf
  <2> QED
    BY <2>1, <2>2
<1> QED
  BY <1>1, VariantInvariant, PTL

(* Listings, start() and stop() agree on variants. *)
THEOREM VariantsAlwaysAgree == VariantSpec => []VariantsAgree
BY OffersAreStartable, VariantsReachTheirRoles, PTL DEF VariantsAgree

-----------------------------------------------------------------------------
(* The procedures side by side: each sees its own specification.           *)

LEMMA EachStarts ==
  MCInit => /\ RemovalInit /\ ScanInit /\ DiscoveryInit /\ PluginInit
            /\ RunnerInit /\ BudgetInit /\ HealInit /\ VariantInit
BY DEF MCInit

(* The step of one procedure is a step of it or leaves it at rest. *)
LEMMA EachSteps ==
  [MCNext]_allVars => /\ [RemovalNext]_removalVars /\ [ScanNext]_scanVars
                      /\ [DiscoveryNext]_lookVars /\ [PluginNext]_pluginVars
                      /\ [RunnerNext]_runnerVars /\ [BudgetNext]_budgetVars
                      /\ [HealNext]_healVars /\ [VariantNext]_variantVars
<1>1. Removal => /\ RemovalNext /\ UNCHANGED <<scanVars, lookVars, pluginVars, runnerVars,
                                               budgetVars, healVars, variantVars>>
  BY DEF Removal, Only
<1>2. HandleScanning => /\ ScanNext /\ UNCHANGED <<removalVars, lookVars, pluginVars, runnerVars,
                                                   budgetVars, healVars, variantVars>>
  BY DEF HandleScanning, Only
<1>3. Discovering => /\ DiscoveryNext /\ UNCHANGED <<removalVars, scanVars, pluginVars, runnerVars,
                                                     budgetVars, healVars, variantVars>>
  BY DEF Discovering, Only
<1>4. Installing => /\ PluginNext /\ UNCHANGED <<removalVars, scanVars, lookVars, runnerVars,
                                                 budgetVars, healVars, variantVars>>
  BY DEF Installing, Only
<1>5. SettingUp => /\ RunnerNext /\ UNCHANGED <<removalVars, scanVars, lookVars, pluginVars,
                                                budgetVars, healVars, variantVars>>
  BY DEF SettingUp, Only
<1>6. Dividing => /\ BudgetNext /\ UNCHANGED <<removalVars, scanVars, lookVars, pluginVars,
                                               runnerVars, healVars, variantVars>>
  BY DEF Dividing, Only
<1>7. Healing => /\ HealNext /\ UNCHANGED <<removalVars, scanVars, lookVars, pluginVars,
                                            runnerVars, budgetVars, variantVars>>
  BY DEF Healing, Only
<1>8. Resolving => /\ VariantNext /\ UNCHANGED <<removalVars, scanVars, lookVars, pluginVars,
                                                 runnerVars, budgetVars, healVars>>
  BY DEF Resolving, Only
<1>9. UNCHANGED allVars => UNCHANGED <<removalVars, scanVars, lookVars, pluginVars, runnerVars,
                                       budgetVars, healVars, variantVars>>
  BY DEF allVars
<1> QED
  BY <1>1, <1>2, <1>3, <1>4, <1>5, <1>6, <1>7, <1>8, <1>9 DEF MCNext

(* A program whose procedures take steps one after the other shows each of
   them a behaviour of its own specification: what is proved of a procedure
   alone holds among the others.                                           *)
THEOREM EachKeepsItsOwn ==
  MCSpec => /\ RemovalSpec /\ ScanSpec /\ DiscoverySpec /\ PluginSpec
            /\ RunnerSpec /\ BudgetSpec /\ HealSpec /\ VariantSpec
BY EachStarts, EachSteps, PTL DEF MCSpec, RemovalSpec, ScanSpec, DiscoverySpec, PluginSpec,
                                  RunnerSpec, BudgetSpec, HealSpec, VariantSpec

(* The types of all procedures, and the inductive invariants of the handle
   scan and of the search for blockers.                                    *)
THEOREM ProceduresInvariant == MCSpec => []ProceduresInv
BY EachKeepsItsOwn, RemovalTypeCorrect, ScanInvariant, DiscoveryInvariant, PluginTypeCorrect,
   RunnerTypeCorrect, BudgetTypeCorrect, HealTypeCorrect, VariantTypeCorrect, PTL
   DEF ProceduresInv

(* A search for blockers, or a scan of the handle table, that says it is
   complete has looked at all that it had to look at.                      *)
THEOREM CompleteIsAlwaysTrue == MCSpec => []CompleteIsTrue
BY EachKeepsItsOwn, CompleteScansLooked, CompleteSearchIsTrue, PTL DEF CompleteIsTrue
=============================================================================
