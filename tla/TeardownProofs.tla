--------------------------- MODULE TeardownProofs ---------------------------
(***************************************************************************)
(* Proofs about module Teardown, for any number of mischiefs: the types,   *)
(* that the teardown: steps succeed once between two starts, that they     *)
(* spare a tree seen dirty, and that the phases keep RemovalPromise.       *)
(***************************************************************************)
EXTENDS Teardown, TLAPS

-----------------------------------------------------------------------------
(* Helpers.                                                                *)

LEMMA LeftoversAreTrees ==
  ASSUME NEW t \in Trees \cup {"empty"}
  PROVE  Leftovers(t) \subseteq Trees \cup {"empty"}
BY DEF Leftovers, Trees

LEMMA ProbeTells ==
  ASSUME RemovalTypeOK
  PROVE  Probe \subseteq {"clean", "dirt"}
BY DEF RemovalTypeOK, Attempt, Probe

LEMMA GoTyped ==
  ASSUME RemovalTypeOK, NEW p \in Phases, Go(p)
  PROVE  attempt' \in Attempt
BY DEF RemovalTypeOK, Go, Attempt

LEMMA GiveUpTyped == GiveUp => attempt' \in Attempt
BY DEF GiveUp, NoAttempt, Attempt, Phases

LEMMA StepsTyped ==
  ASSUME RemovalTypeOK, NEW ok \in BOOLEAN, NEW now \in BOOLEAN, NEW p \in Phases,
         StepsDone(ok, now, p)
  PROVE  RemovalTypeOK'
<1>1. attempt' \in Attempt
  BY DEF StepsDone, RemovalTypeOK, Attempt
<1>2. past' \in Past
  <2>1. (attempt.absent /\ past.late) \in BOOLEAN
    BY DEF RemovalTypeOK, Attempt, Past
  <2>2. past \in Past
    BY DEF RemovalTypeOK
  <2>3. PICK late \in BOOLEAN :
          past' = [past EXCEPT !.runs = IF ok THEN @ + 1 ELSE @, !.tried = TRUE, !.late = late]
    BY <2>1, Zenon DEF StepsDone
  <2>4. (IF ok THEN past.runs + 1 ELSE past.runs) \in Nat
    BY <2>2 DEF Past
  <2> QED
    BY <2>2, <2>3, <2>4 DEF Past
<1>3. checkout' \in Trees
  BY DEF StepsDone, RemovalTypeOK, Trees
<1> QED
  BY <1>1, <1>2, <1>3 DEF StepsDone, RemovalTypeOK, storeVars

LEMMA TypeInit == RemovalInit => RemovalTypeOK
<1> SUFFICES ASSUME RemovalInit PROVE RemovalTypeOK
  OBVIOUS
<1>1. attempt \in Attempt
  BY DEF RemovalInit, NoAttempt, Attempt, Phases
<1>2. past \in Past
  BY DEF RemovalInit, Past
<1>3. mischief \in 0..MaxMischief
  BY MischiefAssumption DEF RemovalInit, MischiefAssumption
<1> QED
  BY <1>1, <1>2, <1>3 DEF RemovalInit, RemovalTypeOK, Trees

-----------------------------------------------------------------------------
(* The inductive invariant.                                                *)

Early == {"stopping", "gate", "steps", "marking", "dirt"}
Staging == {"stage", "rename", "diagnose", "again"}

(* What UndoStaging puts back is a tree, hence not an empty directory. *)
UndoOK == Phase("undo") => RemnantPresent

(* The steps that have succeeded are known, except those whose marker was
   lost and those whose marker is about to be saved.                       *)
OnceOK ==
  /\ past.runs <= 1 + past.unsaved
  /\ ~Phase("marking") /\ ~ran => past.runs <= past.unsaved
  /\ attempt.at \in {"stopping", "gate", "steps"} => attempt.ran = ran

TriedOK ==
  /\ ran \/ Phase("marking") => past.tried
  /\ withSteps /\ attempt.at \notin {"idle", "stopping", "gate", "steps"} => past.tried

DropOK == Phase("drop") => ~reserved

(* An unforced attempt has looked before it runs the steps, and again before
   it stages the tree, unless there was nothing to look at.                *)
MemoOK ==
  /\ attempt.at \in {"idle", "stopping", "gate"} => attempt.memo = "none"
  /\ Phase("steps") /\ ~attempt.force /\ withSteps => attempt.memo = "clean"
  /\ attempt.at \in Staging /\ ~attempt.force => attempt.absent \/ attempt.memo = "clean"

(* Uncommitted work that is there nevertheless came later or was not seen. *)
WorkOK ==
  /\ attempt.memo = "clean" /\ checkout = "work" => past.late \/ past.blind
  /\ ~Phase("idle") /\ attempt.absent /\ ~attempt.force /\ OriginalPresent => past.late
  /\ attempt.at \in Early /\ remnant = "work" => past.remnant
  /\ attempt.at \notin Early \cup {"idle", "undo"} /\ ~attempt.force /\ remnant = "work" =>
       past.remnant \/ past.late \/ past.blind

RemovalInv == UndoOK /\ OnceOK /\ TriedOK /\ DropOK /\ MemoOK /\ WorkOK

-----------------------------------------------------------------------------
(* The types are preserved.                                                *)

LEMMA TypeRemover ==
  ASSUME RemovalTypeOK, RemovalInv, Remover
  PROVE  RemovalTypeOK'
<1> USE DEF RemovalTypeOK, Phases, Trees, Phase, diskVars, storeVars, RemnantPresent,
            OriginalPresent
<1>1. CASE StopProcesses
  BY <1>1, GoTyped DEF StopProcesses
<1>2. CASE GateB
  <2>1. CASE attempt.force \/ ~withSteps
    BY <1>2, <2>1, GoTyped DEF GateB
  <2>2. CASE ~(attempt.force \/ ~withSteps)
    <3>1. PICK seen \in Probe :
            /\ Looked(seen)
            /\ IF seen = "dirt" THEN GiveUp
               ELSE attempt' = [attempt EXCEPT !.at = "steps", !.memo = seen]
      BY <1>2, <2>2 DEF GateB
    <3>2. past' \in Past
      BY <3>1 DEF Looked, Past
    <3>3. CASE seen = "dirt"
      BY <1>2, <3>1, <3>2, <3>3, GiveUpTyped DEF GateB
    <3>4. CASE seen = "clean"
      <4>1. attempt' \in Attempt
        BY <3>1, <3>4 DEF Attempt
      <4> QED
        BY <1>2, <3>2, <4>1 DEF GateB
    <3> QED
      BY <3>3, <3>4, ProbeTells
  <2> QED
    BY <2>1, <2>2
<1>3. CASE SkipSteps
  BY <1>3, GoTyped DEF SkipSteps
<1>4. CASE RunSteps
  BY <1>4, StepsTyped DEF RunSteps
<1>5. CASE StepsFail
  BY <1>5, StepsTyped DEF StepsFail
<1>6. CASE Mark
  BY <1>6, GoTyped DEF Mark
<1>7. CASE MarkFails
  <2>1. past' \in Past
    BY <1>7 DEF MarkFails, Past
  <2> QED
    BY <1>7, <2>1, GoTyped, MischiefAssumption DEF MarkFails, Mischief, MischiefAssumption
<1>8. CASE DirtGateOpen
  <2>1. past' \in Past
    BY <1>8 DEF DirtGateOpen, Looked, Past
  <2>2. attempt' \in Attempt
    BY <1>8 DEF DirtGateOpen, Go, Attempt
  <2> QED
    BY <1>8, <2>1, <2>2 DEF DirtGateOpen
<1>9. CASE DirtGateProbes
  <2>1. CASE MayStage /\ Stage /\ Go("undo")
    BY <1>9, <2>1, GoTyped DEF DirtGateProbes, MayStage, Stage
  <2>2. CASE GiveUp /\ UNCHANGED diskVars
    BY <1>9, <2>2, GiveUpTyped DEF DirtGateProbes
  <2> QED
    BY <1>9, <2>1, <2>2 DEF DirtGateProbes
<1>10. CASE UndoStaging
  <2>1. CASE UNCHANGED diskVars
    BY <1>10, <2>1, GiveUpTyped DEF UndoStaging
  <2>2. CASE ~OriginalPresent /\ checkout' = remnant /\ remnant' = "absent"
    BY <1>10, <2>2, GiveUpTyped DEF UndoStaging, RemovalInv, UndoOK
  <2> QED
    BY <1>10, <2>1, <2>2 DEF UndoStaging
<1>11. CASE NothingToStage
  BY <1>11, GoTyped DEF NothingToStage
<1>12. CASE OnlyRemnant
  <2>1. CASE attempt.force
    BY <1>12, <2>1, GoTyped, LeftoversAreTrees DEF OnlyRemnant
  <2>2. CASE ~attempt.force
    BY <1>12, <2>2, GiveUpTyped DEF OnlyRemnant
  <2> QED
    BY <2>1, <2>2
<1>13. CASE PreClean
  BY <1>13, GoTyped, LeftoversAreTrees DEF PreClean
<1>14. CASE Rename
  BY <1>14, GoTyped DEF Rename, MayStage, Stage
<1>15. CASE RenameFails
  BY <1>15, GoTyped DEF RenameFails, NotRenamed
<1>16. CASE Diagnose
  BY <1>16, GoTyped DEF Diagnose, NotRenamed
<1>17. CASE DeleteTree
  <2>1. attempt' \in Attempt
    BY <1>17, GoTyped DEF DeleteTree
  <2>2. remnant' \in Trees \cup {"empty"}
    BY <1>17, LeftoversAreTrees DEF DeleteTree
  <2> QED
    BY <1>17, <2>1, <2>2 DEF DeleteTree
<1>18. CASE Residual
  BY <1>18, GoTyped DEF Residual
<1>19. CASE FinalGuard
  <2>1. attempt' \in Attempt
    BY <1>19, GoTyped, GiveUpTyped DEF FinalGuard
  <2> QED
    BY <1>19, <2>1 DEF FinalGuard
<1>20. CASE ReleasePorts
  BY <1>20, GoTyped DEF ReleasePorts
<1>21. CASE DropRecord
  BY <1>21, GiveUpTyped DEF DropRecord
<1> QED
  BY <1>1, <1>2, <1>3, <1>4, <1>5, <1>6, <1>7, <1>8, <1>9, <1>10, <1>11, <1>12, <1>13,
     <1>14, <1>15, <1>16, <1>17, <1>18, <1>19, <1>20, <1>21 DEF Remover

LEMMA TypeOthers ==
  ASSUME RemovalTypeOK, Others
  PROVE  RemovalTypeOK'
<1> USE DEF RemovalTypeOK, Trees, diskVars, storeVars, RemnantPresent, OriginalPresent
<1>1. CASE Crash
  <2>1. past' \in Past
    BY <1>1 DEF Crash, Past
  <2> QED
    BY <1>1, <2>1, GiveUpTyped, MischiefAssumption DEF Crash, Mischief, MischiefAssumption
<1>2. CASE Restart
  <2>1. past' \in Past
    BY <1>2 DEF Restart, Past
  <2> QED
    <3>1. mischief' \in 0..MaxMischief
      BY <1>2, MischiefAssumption DEF Restart, Mischief, MischiefAssumption
    <3> QED
      BY <1>2, <2>1, <3>1 DEF Restart, Processes
<1>3. TooLate \in BOOLEAN
  BY DEF TooLate, Attempt
<1>4. CASE Edit
  <2>1. past' \in Past
    BY <1>3, <1>4 DEF Edit, Past
  <2> QED
    BY <1>4, <2>1 DEF Edit
<1>5. CASE Recreate
  <2>1. past' \in Past
    BY <1>3, <1>5 DEF Recreate, Past
  <2> QED
    BY <1>5, <2>1, MischiefAssumption DEF Recreate, Mischief, MischiefAssumption
<1>6. CASE Commit
  BY <1>6 DEF Commit
<1>7. CASE DeleteByHand
  BY <1>7 DEF DeleteByHand
<1>8. CASE RestoreByHand
  BY <1>8 DEF RestoreByHand
<1>9. CASE Hold
  BY <1>9, MischiefAssumption DEF Hold, Mischief, MischiefAssumption, Processes
<1>10. CASE \E p \in Processes : LetGo(p)
  BY <1>10 DEF LetGo
<1> QED
  BY <1>1, <1>2, <1>4, <1>5, <1>6, <1>7, <1>8, <1>9, <1>10 DEF Others

LEMMA TypeBegin ==
  ASSUME RemovalTypeOK, NEW force \in BOOLEAN, NEW kill \in BOOLEAN, Begin(force, kill)
  PROVE  RemovalTypeOK'
<1>1. attempt' \in Attempt
  <2>1. TargetAbsent(force) \in BOOLEAN
    BY DEF TargetAbsent, OriginalPresent, RemnantPresent
  <2> QED
    BY <2>1 DEF RemovalTypeOK, Begin, NoAttempt, Attempt, Phases
<1>2. past' \in Past
  <2>1. RemnantPresent \in BOOLEAN
    BY DEF RemnantPresent
  <2> QED
    BY <2>1 DEF RemovalTypeOK, Begin, Past
<1> QED
  BY <1>1, <1>2 DEF RemovalTypeOK, Begin, diskVars, storeVars

LEMMA TypeStep == RemovalTypeOK /\ RemovalInv /\ [RemovalNext]_removalVars => RemovalTypeOK'
<1>1. ASSUME RemovalTypeOK, UNCHANGED removalVars PROVE RemovalTypeOK'
  BY <1>1 DEF RemovalTypeOK, removalVars, diskVars, storeVars
<1> QED
  BY <1>1, TypeRemover, TypeOthers, TypeBegin DEF RemovalNext

-----------------------------------------------------------------------------
(* The invariant is preserved.                                             *)

LEMMA GoFields ==
  ASSUME RemovalTypeOK, NEW p \in Phases, Go(p)
  PROVE  /\ attempt'.at = p /\ attempt'.force = attempt.force
         /\ attempt'.absent = attempt.absent /\ attempt'.ran = attempt.ran
         /\ attempt'.memo = attempt.memo
BY DEF RemovalTypeOK, Go, Attempt

LEMMA GiveUpFields == GiveUp => attempt'.at = "idle" /\ attempt'.memo = "none"
BY DEF GiveUp, NoAttempt

LEMMA InvInit == RemovalInit => RemovalInv
BY DEF RemovalInit, NoAttempt, RemovalInv, UndoOK, OnceOK, TriedOK, DropOK, MemoOK, WorkOK,
       Phase, Early, Staging

LEMMA InvRemover ==
  ASSUME RemovalTypeOK, RemovalInv, Remover
  PROVE  RemovalInv'
<1> USE DEF RemovalInv, UndoOK, OnceOK, TriedOK, DropOK, MemoOK, WorkOK, Phase, Early, Staging,
            Phases, diskVars, storeVars, RemnantPresent, OriginalPresent
<1>0. past \in Past /\ attempt \in Attempt /\ checkout \in Trees
      /\ remnant \in Trees \cup {"empty"}
  BY DEF RemovalTypeOK
<1>1. CASE StopProcesses
  BY <1>0, <1>1, GoFields, GiveUpFields DEF StopProcesses
<1>2. CASE GateB
  <2>1. CASE attempt.force \/ ~withSteps
    BY <1>0, <1>2, <2>1, GoFields DEF GateB
  <2>2. CASE ~(attempt.force \/ ~withSteps)
    <3>1. PICK seen \in Probe :
            /\ Looked(seen)
            /\ IF seen = "dirt" THEN GiveUp
               ELSE attempt' = [attempt EXCEPT !.at = "steps", !.memo = seen]
      BY <1>2, <2>2 DEF GateB
    <3>2. past' = [past EXCEPT !.blind = past.blind \/ (/\ attempt.memo = "none"
                                                         /\ checkout = "work" /\ seen = "clean")]
      BY <3>1 DEF Looked
    <3>3. CASE seen = "dirt"
      BY <1>0, <1>2, <3>1, <3>2, <3>3, GiveUpFields DEF GateB, Past
    <3>4. CASE seen = "clean"
      <4>1. past'.late = past.late /\ past'.runs = past.runs /\ past'.unsaved = past.unsaved
            /\ past'.tried = past.tried /\ past'.remnant = past.remnant
            /\ (past.blind \/ checkout = "work" => past'.blind)
        <5>1. attempt.memo = "none"
          BY <1>0, <1>2 DEF GateB
        <5> QED
          BY <1>0, <3>2, <3>4, <5>1 DEF Past
      <4>2. attempt'.at = "steps" /\ attempt'.memo = "clean" /\ attempt'.force = attempt.force
            /\ attempt'.absent = attempt.absent /\ attempt'.ran = attempt.ran
        BY <1>0, <3>1, <3>4 DEF Attempt
      <4> QED
        BY <1>0, <1>2, <4>1, <4>2 DEF GateB
    <3> QED
      BY <3>3, <3>4, ProbeTells
  <2> QED
    BY <2>1, <2>2
<1>3. CASE SkipSteps
  BY <1>0, <1>3, GoFields, GiveUpFields DEF SkipSteps
<1>4. CASE RunSteps
  BY <1>0, <1>4, GoFields, GiveUpFields DEF RunSteps, StepsDone, Past, Attempt
<1>5. CASE StepsFail
  BY <1>0, <1>5, GoFields, GiveUpFields DEF StepsFail, StepsDone, Past, Attempt
<1>6. CASE Mark
  BY <1>0, <1>6, GoFields, GiveUpFields DEF Mark
<1>7. CASE MarkFails
  BY <1>0, <1>7, GoFields, GiveUpFields DEF MarkFails, Past
<1>8. CASE DirtGateOpen
  BY <1>0, <1>8, GoFields, GiveUpFields DEF DirtGateOpen, Looked, Attempt, Past, Go, Probe
<1>9. CASE DirtGateProbes
  BY <1>0, <1>9, GoFields, GiveUpFields DEF DirtGateProbes, MayStage, Stage, Trees
<1>10. CASE UndoStaging
  BY <1>0, <1>10, GoFields, GiveUpFields DEF UndoStaging
<1>11. CASE NothingToStage
  BY <1>0, <1>11, GoFields, GiveUpFields DEF NothingToStage
<1>12. CASE OnlyRemnant
  BY <1>0, <1>12, GoFields, GiveUpFields DEF OnlyRemnant, Leftovers
<1>13. CASE PreClean
  BY <1>0, <1>13, GoFields, GiveUpFields DEF PreClean, Leftovers
<1>14. CASE Rename
  BY <1>0, <1>14, GoFields, GiveUpFields DEF Rename, MayStage, Stage, Trees
<1>15. CASE RenameFails
  BY <1>0, <1>15, GoFields, GiveUpFields DEF RenameFails, NotRenamed
<1>16. CASE Diagnose
  BY <1>0, <1>16, GoFields, GiveUpFields DEF Diagnose, NotRenamed
<1>17. CASE DeleteTree
  BY <1>0, <1>17, GoFields, GiveUpFields DEF DeleteTree, Leftovers
<1>18. CASE Residual
  BY <1>0, <1>18, GoFields, GiveUpFields DEF Residual
<1>19. CASE FinalGuard
  BY <1>0, <1>19, GoFields, GiveUpFields DEF FinalGuard
<1>20. CASE ReleasePorts
  BY <1>0, <1>20, GoFields, GiveUpFields DEF ReleasePorts
<1>21. CASE DropRecord
  BY <1>0, <1>21, GoFields, GiveUpFields DEF DropRecord
<1> QED
  BY <1>1, <1>2, <1>3, <1>4, <1>5, <1>6, <1>7, <1>8, <1>9, <1>10, <1>11, <1>12, <1>13,
     <1>14, <1>15, <1>16, <1>17, <1>18, <1>19, <1>20, <1>21 DEF Remover

LEMMA InvOthers ==
  ASSUME RemovalTypeOK, RemovalInv, Others
  PROVE  RemovalInv'
<1> USE DEF RemovalInv, UndoOK, OnceOK, TriedOK, DropOK, MemoOK, WorkOK, Phase, Early, Staging,
            diskVars, storeVars, RemnantPresent, OriginalPresent
<1>0. past \in Past /\ attempt \in Attempt /\ checkout \in Trees
      /\ remnant \in Trees \cup {"empty"}
  BY DEF RemovalTypeOK
<1>1. CASE Crash
  BY <1>0, <1>1, GiveUpFields DEF Crash, Past
<1>2. CASE Restart
  BY <1>0, <1>2 DEF Restart, Past
<1>3. CASE Edit
  <2>1. past' = [past EXCEPT !.late = past.late \/ TooLate]
    BY <1>3 DEF Edit
  <2>2. past'.runs = past.runs /\ past'.unsaved = past.unsaved /\ past'.tried = past.tried
        /\ past'.blind = past.blind /\ past'.remnant = past.remnant
        /\ (past.late \/ TooLate => past'.late)
    BY <1>0, <2>1 DEF Past
  <2> QED
    BY <1>0, <1>3, <2>2 DEF Edit, TooLate
<1>4. CASE Recreate
  <2>1. past' = [past EXCEPT !.late = past.late \/ TooLate]
    BY <1>4 DEF Recreate
  <2>2. past'.runs = past.runs /\ past'.unsaved = past.unsaved /\ past'.tried = past.tried
        /\ past'.blind = past.blind /\ past'.remnant = past.remnant
        /\ (past.late \/ TooLate => past'.late)
    BY <1>0, <2>1 DEF Past
  <2> QED
    BY <1>0, <1>4, <2>2 DEF Recreate, TooLate
<1>5. CASE Commit
  BY <1>0, <1>5 DEF Commit
<1>6. CASE DeleteByHand
  BY <1>0, <1>6 DEF DeleteByHand
<1>7. CASE RestoreByHand
  BY <1>0, <1>7 DEF RestoreByHand
<1>8. CASE Hold
  BY <1>0, <1>8 DEF Hold
<1>9. CASE \E p \in Processes : LetGo(p)
  BY <1>0, <1>9 DEF LetGo
<1> QED
  BY <1>1, <1>2, <1>3, <1>4, <1>5, <1>6, <1>7, <1>8, <1>9 DEF Others

LEMMA InvBegin ==
  ASSUME RemovalTypeOK, RemovalInv, NEW force \in BOOLEAN, NEW kill \in BOOLEAN,
         Begin(force, kill)
  PROVE  RemovalInv'
<1> USE DEF RemovalInv, UndoOK, OnceOK, TriedOK, DropOK, MemoOK, WorkOK, Phase, Early, Staging,
            diskVars, storeVars, RemnantPresent, OriginalPresent
<1>0. past \in Past /\ remnant \in Trees \cup {"empty"}
  BY DEF RemovalTypeOK
<1>1. past' = [past EXCEPT !.late = FALSE, !.blind = FALSE, !.remnant = RemnantPresent]
  BY DEF Begin
<1>2. /\ attempt'.at = "stopping" /\ attempt'.memo = "none" /\ attempt'.ran = ran
      /\ attempt'.force = force /\ attempt'.absent = TargetAbsent(force)
  BY DEF Begin, NoAttempt
<1> QED
  BY <1>0, <1>1, <1>2 DEF Begin, Past, TargetAbsent

LEMMA InvStep == RemovalTypeOK /\ RemovalInv /\ [RemovalNext]_removalVars => RemovalInv'
<1>1. ASSUME RemovalInv, UNCHANGED removalVars PROVE RemovalInv'
  BY <1>1 DEF RemovalInv, UndoOK, OnceOK, TriedOK, DropOK, MemoOK, WorkOK, Phase, Early, Staging,
              removalVars, diskVars, storeVars, RemnantPresent, OriginalPresent
<1> QED
  BY <1>1, InvRemover, InvOthers, InvBegin DEF RemovalNext

-----------------------------------------------------------------------------
(* The theorems.                                                           *)

(* Every variable of a removal keeps its type, however many attempts, crashes
   and restarts there are.                                                 *)
THEOREM RemovalTypeCorrect == RemovalSpec => []RemovalTypeOK
<1> QED
  BY TypeInit, InvInit, TypeStep, InvStep, PTL DEF RemovalSpec

LEMMA Invariants == RemovalSpec => [](RemovalTypeOK /\ RemovalInv)
<1> QED
  BY TypeInit, InvInit, TypeStep, InvStep, PTL DEF RemovalSpec

(* The teardown: steps succeed once between two starts of an environment,
   unless their marker could not be saved, and no removal goes on to release
   the ports without having tried them.                                    *)
THEOREM StepsRunOnce == RemovalSpec => []StepsOncePerLife
<1>1. RemovalInv => StepsOncePerLife
  BY DEF RemovalInv, OnceOK, TriedOK, StepsOncePerLife, Phase
<1> QED
  BY <1>1, Invariants, PTL

(* Without force, the steps do not run in a tree that was seen dirty. *)
THEOREM StepsSpare == RemovalSpec => StepsSpareDirtyTree
<1>1. ASSUME RemovalTypeOK, RemovalInv, [RemovalNext]_removalVars,
             past'.runs > past.runs
      PROVE  attempt.force \/ checkout = "plain" \/ past.late \/ past.blind
  <2> USE DEF Past, diskVars, storeVars
  <2>0. past \in Past
    BY <1>1 DEF RemovalTypeOK
  <2>1. ~(UNCHANGED past)
    BY <1>1, <2>0
  <2>2. RunSteps
    <3>1. CASE Remover
      <4>1. ASSUME NEW seen, Looked(seen) PROVE FALSE
        <5>1. past' = [past EXCEPT !.blind = past.blind \/ (/\ attempt.memo = "none"
                                                             /\ checkout = "work" /\ seen = "clean")]
          BY <4>1 DEF Looked
        <5> QED
          BY <1>1, <2>0, <5>1
      <4>2. ~GateB /\ ~DirtGateOpen
        BY <2>1, <4>1 DEF GateB, DirtGateOpen
      <4>3. ASSUME StepsFail PROVE FALSE
        <5>1. past' = [past EXCEPT !.runs = past.runs, !.tried = TRUE,
                                   !.late = attempt.absent /\ past.late]
          BY <4>3 DEF StepsFail, StepsDone
        <5> QED
          BY <1>1, <2>0, <5>1
      <4>4. ASSUME MarkFails PROVE FALSE
        BY <1>1, <2>0, <4>4 DEF MarkFails
      <4> QED
        BY <2>1, <3>1, <4>2, <4>3, <4>4
           DEF Remover, StopProcesses, SkipSteps, Mark, DirtGateProbes, UndoStaging,
               NothingToStage, OnlyRemnant, PreClean, Rename, RenameFails, Diagnose, DeleteTree,
               Residual, FinalGuard, ReleasePorts, DropRecord
    <3>2. CASE Others
      <4>1. ~Crash /\ ~Edit /\ ~Recreate
        BY <1>1, <2>0 DEF Crash, Edit, Recreate
      <4>2. ASSUME Restart PROVE FALSE
        <5>1. past'.runs = 0
          BY <2>0, <4>2 DEF Restart
        <5> QED
          BY <1>1, <2>0, <5>1
      <4> QED
        BY <2>1, <3>2, <4>1, <4>2
           DEF Others, Commit, DeleteByHand, RestoreByHand, Hold, LetGo
    <3>3. CASE \E force, kill \in BOOLEAN : Begin(force, kill)
      <4>1. past'.runs = past.runs
        BY <2>0, <3>3 DEF Begin
      <4> QED
        BY <1>1, <2>0, <4>1
    <3> QED
      BY <1>1, <2>1, <3>1, <3>2, <3>3 DEF RemovalNext, removalVars
  <2> QED
    <3>1. checkout \in {"plain", "work"} /\ Phase("steps") /\ withSteps
      BY <1>1, <2>2 DEF RunSteps, StepsDone, OriginalPresent, RemovalTypeOK, Trees
    <3>2. attempt.force \/ attempt.memo = "clean"
      BY <1>1, <3>1 DEF RemovalInv, MemoOK
    <3> QED
      BY <1>1, <3>1, <3>2 DEF RemovalInv, WorkOK
<1> QED
  BY <1>1, Invariants, PTL DEF RemovalSpec, StepsSpareDirtyTree

(* An unforced attempt loses no uncommitted work that it had a chance to see. *)
THEOREM UnsavedWork == RemovalSpec => UnsavedWorkSurvives
<1>1. ASSUME RemovalTypeOK, RemovalInv, [RemovalNext]_removalVars, attempt' # attempt
      PROVE  /\ checkout = "work" /\ checkout' # "work" => Excused \/ remnant' = "work"
             /\ remnant = "work" /\ remnant' # "work" =>
                  Excused \/ past.remnant \/ checkout' = "work"
  <2> USE DEF diskVars, storeVars, Excused
  <2>1. ASSUME checkout = "work", checkout' # "work" PROVE remnant' = "work"
    <3>1. Remover \/ Others \/ \E force, kill \in BOOLEAN : Begin(force, kill)
      BY <1>1 DEF RemovalNext, removalVars
    <3>2. CASE Remover
      BY <2>1, <3>2
         DEF Remover, StopProcesses, GateB, SkipSteps, RunSteps, StepsFail, StepsDone, Mark,
             MarkFails, DirtGateOpen, DirtGateProbes, UndoStaging, NothingToStage, OnlyRemnant,
             PreClean, Rename, RenameFails, Diagnose, DeleteTree, Residual, FinalGuard,
             ReleasePorts, DropRecord, Stage, OriginalPresent
    <3>3. CASE Others
      BY <1>1, <2>1, <3>3
         DEF Others, Crash, Restart, Edit, Recreate, Commit, DeleteByHand, RestoreByHand, Hold,
             LetGo
    <3> QED
      BY <2>1, <3>1, <3>2, <3>3 DEF Begin
  <2>2. ASSUME remnant = "work", remnant' # "work"
        PROVE  Excused \/ past.remnant \/ checkout' = "work"
    <3>1. OnlyRemnant \/ PreClean \/ DeleteTree \/ UndoStaging
      <4>1. Remover
        BY <1>1, <2>2
           DEF RemovalNext, removalVars, Others, Crash, Restart, Edit, Recreate, Commit,
               DeleteByHand, RestoreByHand, Hold, LetGo, Begin
      <4>2. ~DirtGateProbes /\ ~Rename
        BY <2>2 DEF DirtGateProbes, Rename, MayStage, RemnantPresent
      <4> QED
        BY <2>2, <4>1, <4>2
           DEF Remover, StopProcesses, GateB, SkipSteps, RunSteps, StepsFail, StepsDone, Mark,
               MarkFails, DirtGateOpen, NothingToStage, RenameFails, Diagnose, Residual,
               FinalGuard, ReleasePorts, DropRecord
    <3>2. CASE UndoStaging
      BY <2>2, <3>2 DEF UndoStaging
    <3>3. CASE OnlyRemnant \/ PreClean \/ DeleteTree
      BY <1>1, <2>2, <3>3
         DEF OnlyRemnant, PreClean, DeleteTree, RemovalInv, WorkOK, Phase, Early
    <3> QED
      BY <3>1, <3>2, <3>3
  <2> QED
    BY <2>1, <2>2
<1> QED
  BY <1>1, Invariants, PTL DEF RemovalSpec, UnsavedWorkSurvives

(* Module Teardown implements module RemovalPromise: ports are freed only after
   the tree was seen gone, the record is dropped only after that.          *)
THEOREM KeepsPromise == RemovalSpec => ImplementsPromise
<1> USE DEF Promise!vars, Phase, OriginalPresent, RemnantPresent
<1>1. RemovalInit => Promise!Init
  BY DEF RemovalInit, Promise!Init, NoAttempt
<1>2. ASSUME RemovalTypeOK, RemovalInv, [RemovalNext]_removalVars
      PROVE  [Promise!Next]_Promise!vars
  <2> USE DEF diskVars, storeVars
  <2> DEFINE Seen == attempt.at \in {"release", "drop"}
  <2>1. CASE FinalGuard
    BY <1>2, <2>1, GoFields, GiveUpFields
       DEF FinalGuard, Promise!Next, Promise!Look, Phases
  <2>2. CASE ReleasePorts
    BY <1>2, <2>2, GoFields DEF ReleasePorts, Promise!Next, Promise!Free, Phases
  <2>3. CASE DropRecord
    BY <1>2, <2>3, GiveUpFields
       DEF DropRecord, RemovalInv, DropOK, Promise!Next, Promise!Drop
  <2>4. CASE Crash
    BY <2>4, GiveUpFields DEF Crash, Promise!Next, Promise!GiveUp
  <2>5. CASE Remover /\ ~FinalGuard /\ ~ReleasePorts /\ ~DropRecord
    <3>1. ~Seen /\ UNCHANGED <<reserved, tracked>>
      BY <2>5
         DEF Remover, StopProcesses, GateB, SkipSteps, RunSteps, StepsFail, StepsDone, Mark,
             MarkFails, DirtGateOpen, DirtGateProbes, UndoStaging, NothingToStage, OnlyRemnant,
             PreClean, Rename, RenameFails, Diagnose, DeleteTree, Residual
    <3>2. ~Seen'
      <4>1. attempt'.at \notin {"release", "drop"}
        <5> USE GoFields, GiveUpFields DEF Phases
        <5>1. CASE StopProcesses \/ SkipSteps \/ Mark \/ MarkFails \/ DirtGateProbes
                   \/ UndoStaging \/ NothingToStage \/ OnlyRemnant \/ PreClean \/ Rename
                   \/ RenameFails \/ Diagnose \/ DeleteTree \/ Residual
          BY <1>2, <5>1
             DEF StopProcesses, SkipSteps, Mark, MarkFails, DirtGateProbes, UndoStaging,
                 NothingToStage, OnlyRemnant, PreClean, Rename, RenameFails, NotRenamed,
                 Diagnose, DeleteTree, Residual
        <5>2. CASE GateB
          BY <1>2, <5>2 DEF GateB, RemovalTypeOK, Attempt
        <5>3. CASE RunSteps \/ StepsFail \/ DirtGateOpen
          BY <1>2, <5>3 DEF RunSteps, StepsFail, StepsDone, DirtGateOpen, RemovalTypeOK, Attempt
        <5> QED
          BY <2>5, <5>1, <5>2, <5>3 DEF Remover
      <4> QED
        BY <4>1
    <3> QED
      BY <3>1, <3>2 DEF Promise!Next, Promise!Touch
  <2>6. CASE Others /\ ~Crash
    BY <2>6
       DEF Others, Restart, Edit, Recreate, Commit, DeleteByHand, RestoreByHand, Hold, LetGo,
           Promise!Next, Promise!Touch
  <2>7. CASE \E force, kill \in BOOLEAN : Begin(force, kill)
    BY <2>7 DEF Begin, NoAttempt, Promise!Next, Promise!Touch
  <2>8. CASE UNCHANGED removalVars
    BY <2>8 DEF removalVars
  <2> QED
    BY <1>2, <2>1, <2>2, <2>3, <2>4, <2>5, <2>6, <2>7, <2>8 DEF RemovalNext, Others, Remover
<1> QED
  BY <1>1, <1>2, Invariants, PTL DEF RemovalSpec, ImplementsPromise, Promise!Spec

(* Without force, unsaved work is neither torn down nor lost. *)
THEOREM WorkIsRespected == RemovalSpec => WorkRespected
BY StepsSpare, UnsavedWork DEF WorkRespected
=============================================================================
