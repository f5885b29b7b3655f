------------------------------ MODULE Teardown ------------------------------
(***************************************************************************)
(* core/teardown.py: one removal attempt after another on one environment, *)
(* phase by phase, and the end of WorktreeManager.remove() that drops the  *)
(* record.  Around it: users who edit, delete or restore the checkout,     *)
(* processes that hold it open, crashes, a later start().                  *)
(*                                                                         *)
(* A rename to `<path>.removing` decides whether somebody holds the tree.  *)
(* It fails on Windows when somebody does and never does on POSIX; both    *)
(* outcomes are possible here.  One remover at a time.                     *)
(***************************************************************************)
EXTENDS Naturals

CONSTANT MaxMischief     \* bound on crashes, failed saves, arrivals and restarts

ASSUME MischiefAssumption == MaxMischief \in Nat

VARIABLES checkout,      \* what is at record.path
          remnant,       \* what is at `<path>.removing`
          holders,       \* the processes that hold either open
          withSteps,     \* the contract has teardown: steps
          ran,           \* teardown_ran in state.yaml
          reserved,      \* ports.yaml has the ports
          tracked,       \* state.yaml has the record
          attempt,       \* the removal in progress: _TeardownContext
          past,          \* history: see Past
          mischief

diskVars == <<checkout, remnant>>
storeVars == <<ran, reserved, tracked>>
removalVars == <<diskVars, holders, withSteps, storeVars, attempt, past, mischief>>

Processes == {"role", "other"}            \* one that start() spawned, and a stranger
Trees == {"absent", "plain", "work"}      \* work: has uncommitted changes
Phases == {"idle", "stopping", "gate", "steps", "marking", "dirt", "undo", "stage",
           "rename", "diagnose", "again", "delete", "residual", "guard", "release", "drop"}

Attempt == [at: Phases, force: BOOLEAN, kill: BOOLEAN, absent: BOOLEAN, ran: BOOLEAN,
            memo: {"none", "clean", "dirt"}]

(* Since the last start(): runs of the steps, those whose marker was never
   saved, whether they were tried.  Of this attempt: whether the tree was
   edited after the last look at it, whether a look told nothing, whether
   a remnant was there at the beginning.                                   *)
Past == [runs: Nat, unsaved: Nat, tried: BOOLEAN, late: BOOLEAN, blind: BOOLEAN,
         remnant: BOOLEAN]

NoAttempt == [at |-> "idle", force |-> FALSE, kill |-> FALSE, absent |-> FALSE,
              ran |-> FALSE, memo |-> "none"]

RemovalTypeOK ==
  /\ checkout \in Trees
  /\ remnant \in Trees \cup {"empty"}
  /\ holders \in SUBSET Processes
  /\ withSteps \in BOOLEAN
  /\ ran \in BOOLEAN /\ reserved \in BOOLEAN /\ tracked \in BOOLEAN
  /\ attempt \in Attempt
  /\ past \in Past
  /\ mischief \in 0..MaxMischief

RemovalInit ==
  /\ checkout \in Trees
  /\ remnant = "absent"
  /\ holders \in SUBSET Processes
  /\ withSteps \in BOOLEAN
  /\ ran = FALSE /\ reserved = TRUE /\ tracked = TRUE
  /\ attempt = NoAttempt
  /\ past = [runs |-> 0, unsaved |-> 0, tried |-> FALSE, late |-> FALSE, blind |-> FALSE,
             remnant |-> FALSE]
  /\ mischief = 0

-----------------------------------------------------------------------------
(* Helpers.                                                                *)

Phase(p) == attempt.at = p
Go(p) == attempt' = [attempt EXCEPT !.at = p]
GiveUp == attempt' = NoAttempt
Mischief == mischief < MaxMischief /\ mischief' = mischief + 1

(* `.removing` counts when it is a directory with something in it. *)
RemnantPresent == remnant \in {"plain", "work"}
OriginalPresent == checkout # "absent"

(* _target_is_absent *)
TargetAbsent(force) == ~OriginalPresent /\ (force \/ ~RemnantPresent)

(* The memoised git status: a fresh one may be inconclusive, and then says
   no more than a clean one.                                               *)
Probe ==
  IF attempt.memo # "none" THEN {attempt.memo}
  ELSE IF checkout = "work" THEN {"dirt", "clean"} ELSE {"clean"}
Looked(seen) ==
  past' = [past EXCEPT !.blind = @ \/ (attempt.memo = "none" /\ checkout = "work" /\ seen = "clean")]

(* os.rename(record.path, staged): what forbids it on some platform. *)
MayStage == OriginalPresent /\ ~RemnantPresent
MustStage == MayStage /\ remnant = "absent" /\ holders = {}
Stage == remnant' = checkout /\ checkout' = "absent"

(* _delete_tree_ladder: what may be left of a tree. *)
Leftovers(t) ==
  IF holders = {} THEN {"absent"}
  ELSE {"absent", "empty", t} \cup IF t = "work" THEN {"plain"} ELSE {}

-----------------------------------------------------------------------------
(* The attempt, phase by phase.                                            *)

Begin(force, kill) ==
  /\ Phase("idle") /\ tracked
  /\ attempt' = [NoAttempt EXCEPT !.at = "stopping", !.force = force, !.kill = kill,
                                  !.absent = TargetAbsent(force), !.ran = ran]
  /\ past' = [past EXCEPT !.late = FALSE, !.blind = FALSE, !.remnant = RemnantPresent]
  /\ UNCHANGED <<diskVars, holders, withSteps, storeVars, mischief>>

(* lifecycle.stop for every role, then the stop: steps; neither can block. *)
StopProcesses ==
  /\ Phase("stopping")
  /\ holders' \in SUBSET holders
  /\ Go("gate")
  /\ UNCHANGED <<diskVars, withSteps, storeVars, past, mischief>>

GateB ==
  /\ Phase("gate")
  /\ IF attempt.force \/ ~withSteps THEN Go("steps") /\ UNCHANGED past
     ELSE \E seen \in Probe :
            /\ Looked(seen)
            /\ IF seen = "dirt" THEN GiveUp
               ELSE attempt' = [attempt EXCEPT !.at = "steps", !.memo = seen]
  /\ UNCHANGED <<diskVars, holders, withSteps, storeVars, mischief>>

SkipSteps ==
  /\ Phase("steps")
  /\ ~withSteps \/ attempt.ran
  /\ Go("dirt")
  /\ UNCHANGED <<diskVars, holders, withSteps, storeVars, past, mischief>>

(* Whatever becomes of them, the steps may leave changes in the tree, and
   the next look at it is a fresh one.                                     *)
Faulty_StepsDone(ok, ranNow, phase) ==
  /\ Phase("steps")
  /\ withSteps /\ ~attempt.ran
  /\ ok => OriginalPresent
  /\ checkout' \in {checkout} \cup IF OriginalPresent THEN {"work"} ELSE {}
  /\ attempt' = [attempt EXCEPT !.at = phase, !.ran = ranNow]
  /\ past' = [past EXCEPT !.runs = IF ok THEN @ + 1 ELSE @, !.tried = TRUE,
                          !.late = attempt.absent /\ @]
  /\ UNCHANGED <<remnant, holders, withSteps, storeVars, mischief>>
StepsDone(ok, ranNow, phase) ==
  /\ Phase("steps")
  /\ withSteps /\ ~attempt.ran
  /\ ok => OriginalPresent
  /\ checkout' \in {checkout} \cup IF OriginalPresent THEN {"work"} ELSE {}
  /\ attempt' = [attempt EXCEPT !.at = phase, !.ran = ranNow, !.memo = "none"]
  /\ past' = [past EXCEPT !.runs = IF ok THEN @ + 1 ELSE @, !.tried = TRUE,
                          !.late = attempt.absent /\ @]
  /\ UNCHANGED <<remnant, holders, withSteps, storeVars, mischief>>
RunSteps == StepsDone(TRUE, TRUE, "marking")
StepsFail == StepsDone(FALSE, FALSE, "dirt")

Faulty_Mark ==
  /\ Phase("marking")
  /\ Go("dirt")
  /\ UNCHANGED <<diskVars, holders, withSteps, storeVars, past, mischief>>
Mark ==
  /\ Phase("marking")
  /\ ran' = TRUE
  /\ Go("dirt")
  /\ UNCHANGED <<diskVars, holders, withSteps, reserved, tracked, past, mischief>>

MarkFails ==
  /\ Phase("marking")
  /\ Mischief
  /\ past' = [past EXCEPT !.unsaved = @ + 1]
  /\ Go("dirt")
  /\ UNCHANGED <<diskVars, holders, withSteps, storeVars>>

DirtGateOpen ==
  /\ Phase("dirt")
  /\ \/ /\ attempt.force \/ attempt.absent
        /\ Go("stage") /\ UNCHANGED past
     \/ /\ ~attempt.force /\ ~attempt.absent /\ "clean" \in Probe
        /\ Looked("clean")
        /\ attempt' = [attempt EXCEPT !.at = "stage", !.memo = "clean"]
  /\ UNCHANGED <<diskVars, holders, withSteps, storeVars, mischief>>

(* Dirty: a rename to and fro tells whether the tree is locked as well. *)
DirtGateProbes ==
  /\ Phase("dirt")
  /\ ~attempt.force /\ ~attempt.absent /\ "dirt" \in Probe
  /\ \/ MayStage /\ Stage /\ Go("undo")
     \/ ~MustStage /\ GiveUp /\ UNCHANGED diskVars           \* WorktreeRemovalBlockedError
  /\ UNCHANGED <<holders, withSteps, storeVars, past, mischief>>

(* DirtyWorktreeError, with staged=True if the tree cannot be put back. *)
UndoStaging ==
  /\ Phase("undo")
  /\ \/ ~OriginalPresent /\ checkout' = remnant /\ remnant' = "absent"
     \/ (OriginalPresent \/ holders # {}) /\ UNCHANGED diskVars
  /\ GiveUp
  /\ UNCHANGED <<holders, withSteps, storeVars, past, mischief>>

NothingToStage ==
  /\ Phase("stage") /\ ~OriginalPresent /\ ~RemnantPresent
  /\ Go("guard")
  /\ UNCHANGED <<diskVars, holders, withSteps, storeVars, past, mischief>>

Faulty_OnlyRemnant ==
  /\ Phase("stage") /\ ~OriginalPresent /\ RemnantPresent
  /\ GiveUp
  /\ UNCHANGED <<diskVars, holders, withSteps, storeVars, past, mischief>>
OnlyRemnant ==
  /\ Phase("stage") /\ ~OriginalPresent /\ RemnantPresent
  /\ IF attempt.force THEN remnant' \in Leftovers(remnant) /\ Go("guard")
     ELSE GiveUp /\ UNCHANGED remnant                        \* DirtyWorktreeError(staged=True)
  /\ UNCHANGED <<checkout, holders, withSteps, storeVars, past, mischief>>

(* A remnant next to a checkout is cleared before the checkout is staged. *)
PreClean ==
  /\ Phase("stage") /\ OriginalPresent
  /\ remnant' \in IF RemnantPresent THEN Leftovers(remnant) ELSE {remnant}
  /\ Go("rename")
  /\ UNCHANGED <<checkout, holders, withSteps, storeVars, past, mischief>>

Rename ==
  /\ Phase("rename") \/ Phase("again")
  /\ MayStage
  /\ Stage
  /\ Go("delete")
  /\ UNCHANGED <<holders, withSteps, storeVars, past, mischief>>

(* Even then the ladder is tried on whatever has the staged name. *)
NotRenamed == Go(IF remnant = "absent" THEN "guard" ELSE "delete")

RenameFails ==
  /\ ~MustStage
  /\ \/ Phase("rename") /\ Go("diagnose")
     \/ Phase("again") /\ NotRenamed
  /\ UNCHANGED <<diskVars, holders, withSteps, storeVars, past, mischief>>

(* Tier 1 knows the process start() spawned, tier 2 finds some of those that
   hold the tree (the code looks for them where the tree would have gone); with
   kill_blocking_processes they die, the rename is tried again.            *)
Diagnose ==
  /\ Phase("diagnose")
  /\ \/ attempt.kill /\ holders # {}
        /\ holders' \in SUBSET holders
        /\ Go("again")
     \/ NotRenamed /\ UNCHANGED holders
  /\ UNCHANGED <<diskVars, withSteps, storeVars, past, mischief>>

DeleteTree ==
  /\ Phase("delete")
  /\ remnant' \in Leftovers(remnant)
  /\ Go(IF remnant' \in {"plain", "work"} THEN "residual" ELSE "guard")
  /\ UNCHANGED <<checkout, holders, withSteps, storeVars, past, mischief>>

(* What is left is looked at again and again, and its holders are killed if
   that is allowed, but nothing more is deleted.                           *)
Residual ==
  /\ Phase("residual")
  /\ holders' \in IF attempt.kill THEN SUBSET holders ELSE {holders}
  /\ Go("guard")
  /\ UNCHANGED <<diskVars, withSteps, storeVars, past, mischief>>

Faulty_FinalGuard ==
  /\ Phase("guard")
  /\ IF OriginalPresent THEN GiveUp ELSE Go("release")
  /\ UNCHANGED <<diskVars, holders, withSteps, storeVars, past, mischief>>
FinalGuard ==
  /\ Phase("guard")
  /\ IF OriginalPresent \/ RemnantPresent THEN GiveUp        \* WorktreeDirLockedError
     ELSE Go("release")
  /\ UNCHANGED <<diskVars, holders, withSteps, storeVars, past, mischief>>

ReleasePorts ==
  /\ Phase("release")
  /\ reserved' = FALSE
  /\ Go("drop")
  /\ UNCHANGED <<diskVars, holders, withSteps, ran, tracked, past, mischief>>

DropRecord ==
  /\ Phase("drop")
  /\ tracked' = FALSE
  /\ GiveUp
  /\ UNCHANGED <<diskVars, holders, withSteps, ran, reserved, past, mischief>>

Crash ==
  /\ ~Phase("idle")
  /\ Mischief
  /\ GiveUp
  /\ past' = [past EXCEPT !.unsaved = IF Phase("marking") THEN @ + 1 ELSE @]
  /\ UNCHANGED <<diskVars, holders, withSteps, storeVars>>

-----------------------------------------------------------------------------
(* The others.                                                             *)

(* start() of a stopped environment: its next removal runs the steps again. *)
Restart ==
  /\ Phase("idle") /\ tracked /\ OriginalPresent
  /\ Mischief
  /\ ran' = FALSE
  /\ holders' = holders \cup {"role"}
  /\ past' = [past EXCEPT !.runs = 0, !.unsaved = 0, !.tried = FALSE]
  /\ UNCHANGED <<diskVars, withSteps, reserved, tracked, attempt>>

(* Too late to be seen: after the probe, or where none is made. *)
TooLate == ~Phase("idle") /\ (attempt.memo # "none" \/ attempt.absent \/ Phase("undo"))

Edit ==
  /\ checkout = "plain"
  /\ checkout' = "work"
  /\ past' = [past EXCEPT !.late = @ \/ TooLate]
  /\ UNCHANGED <<remnant, holders, withSteps, storeVars, attempt, mischief>>

Recreate ==
  /\ ~OriginalPresent
  /\ Mischief
  /\ checkout' \in {"plain", "work"}
  /\ past' = [past EXCEPT !.late = @ \/ TooLate]
  /\ UNCHANGED <<remnant, holders, withSteps, storeVars, attempt>>

Commit ==
  /\ checkout = "work"
  /\ checkout' = "plain"
  /\ UNCHANGED <<remnant, holders, withSteps, storeVars, attempt, past, mischief>>

DeleteByHand ==
  /\ checkout' = "absent"
  /\ UNCHANGED <<remnant, holders, withSteps, storeVars, attempt, past, mischief>>

RestoreByHand ==
  /\ Phase("idle") /\ ~OriginalPresent /\ RemnantPresent
  /\ checkout' = remnant /\ remnant' = "absent"
  /\ UNCHANGED <<holders, withSteps, storeVars, attempt, past, mischief>>

Hold ==
  /\ Mischief
  /\ holders' = holders \cup {"other"}
  /\ UNCHANGED <<diskVars, withSteps, storeVars, attempt, past>>

LetGo(p) ==
  /\ p \in holders
  /\ holders' = holders \ {p}
  /\ UNCHANGED <<diskVars, withSteps, storeVars, attempt, past, mischief>>

Remover ==
  \/ StopProcesses \/ GateB \/ SkipSteps \/ RunSteps \/ StepsFail \/ Mark \/ MarkFails
  \/ DirtGateOpen \/ DirtGateProbes \/ UndoStaging
  \/ NothingToStage \/ OnlyRemnant \/ PreClean \/ Rename \/ RenameFails \/ Diagnose
  \/ DeleteTree \/ Residual \/ FinalGuard \/ ReleasePorts \/ DropRecord
Others ==
  \/ Crash \/ Restart \/ Edit \/ Recreate \/ Commit \/ DeleteByHand \/ RestoreByHand
  \/ Hold \/ \E p \in Processes : LetGo(p)
RemovalNext == Remover \/ Others \/ \E force, kill \in BOOLEAN : Begin(force, kill)

RemovalSpec == RemovalInit /\ [][RemovalNext]_removalVars

(* A phase that runs goes on; a holder lets go some time; the caller does not
   give up on a forced removal.                                            *)
RemovalFairness ==
  /\ WF_removalVars(Remover)
  /\ \A p \in Processes : WF_removalVars(LetGo(p))
  /\ SF_removalVars(Begin(TRUE, TRUE))

-----------------------------------------------------------------------------
(* Properties.                                                             *)

(* The steps succeed once between two start()s, however often the removal is
   tried, unless their marker could not be saved; and no removal completes
   without having tried them.  The marker teardown_ran (#126).             *)
StepsOncePerLife ==
  /\ past.runs <= 1 + past.unsaved
  /\ Phase("release") /\ withSteps => past.tried

(* Without force the steps run in no tree that a look has shown dirty: gate B
   (#117), and its memo.                                                   *)
StepsSpareDirtyTree ==
  [][past'.runs > past.runs =>
       attempt.force \/ checkout = "plain" \/ past.late \/ past.blind]_removalVars

Excused == attempt.force \/ past.late \/ past.blind

(* No step of an unforced attempt loses uncommitted work that it had a chance
   to see, be it the user's or the teardown: steps' own.  Left out: edits
   after the last git status, one that told nothing, and the remnants of
   RemnantNeverDestroyed.                                                  *)
UnsavedWorkSurvives ==
  [][attempt' # attempt =>
       /\ checkout = "work" /\ checkout' # "work" => Excused \/ remnant' = "work"
       /\ remnant = "work" /\ remnant' # "work" =>
            Excused \/ past.remnant \/ checkout' = "work"]_removalVars

(* Without force, unsaved work is neither torn down nor lost. *)
WorkRespected == StepsSpareDirtyTree /\ UnsavedWorkSurvives

(* A remnant that an unforced attempt finds is not destroyed by it, as
   README.md:435-438 has it.                                               *)
RemnantNeverDestroyed ==
  [][attempt' # attempt /\ past.remnant /\ ~attempt.force /\ RemnantPresent
       => RemnantPresent']_removalVars

(* The phases keep the promise of remove() to its callers. *)
Promise == INSTANCE RemovalPromise
             WITH there <- OriginalPresent \/ RemnantPresent,
                  seenGone <- attempt.at \in {"release", "drop"}
ImplementsPromise == Promise!Spec

(* Whatever has gone wrong, the caller who insists gets rid of it. *)
RemovedInTheEnd == ~Phase("idle") ~> ~tracked
=============================================================================
