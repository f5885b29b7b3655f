----------------------------- MODULE StopBudget -----------------------------
(***************************************************************************)
(* core/process_lifecycle.py: how stop() divides its timeout between its   *)
(* steps (_compute_stop_budget), and the sweep of a role without a process *)
(* (_sweep_untracked_orphans) between its two.  A step may take longer     *)
(* than it was granted: a poll tick, a kill, a process table that is slow. *)
(*                                                                         *)
(* The timeout is ten times a tenth, so that every share is a number.      *)
(***************************************************************************)
EXTENDS Integers

CONSTANTS Second,        \* a second, in the unit of time
          Tenths,        \* a tenth of each timeout
          Lag            \* bound on what one step takes beyond its grant

ASSUME BudgetAssumption == Second \in Nat /\ Tenths \subseteq Nat /\ Lag \in Nat

VARIABLES timeout,       \* [tenth, orphans]: the arguments of the call
          at,            \* the step that is next
          now,           \* the time since the call
          granted,       \* what that step may take
          late           \* history: what steps took beyond that, and the snapshot

budgetVars == <<timeout, at, now, granted, late>>

Least(a, b) == IF a <= b THEN a ELSE b
Most(a, b) == IF a >= b THEN a ELSE b

BudgetTypeOK ==
  /\ timeout \in [tenth: Tenths, orphans: BOOLEAN]
  /\ at \in {"snapshot", "wait", "tree", "orphans", "sweep", "protect", "scan", "done"}
  /\ now \in Nat /\ granted \in Nat /\ late \in Nat

BudgetInit ==
  /\ timeout \in [tenth: Tenths, orphans: BOOLEAN]
  /\ at \in {"snapshot", "sweep"}
  /\ now = 0 /\ granted = 0 /\ late = 0

-----------------------------------------------------------------------------
(* _compute_stop_budget, in its two uses.                                  *)

tenth == timeout.tenth
Whole == 10 * tenth
TreeFloor == Least(Second, tenth)
ScanFloor == Least(3 * Second, 3 * tenth)
OrphanFloor == IF timeout.orphans THEN ScanFloor ELSE 0
PrimaryCap == Most(0, Least(6 * tenth, Whole - (TreeFloor + OrphanFloor)))

WaitGrant(t) == Most(0, Least(Whole - t, PrimaryCap))
Faulty_TreeGrant(t) == Most(0, Whole - t - OrphanFloor)
TreeGrant(t) == Most(TreeFloor, Whole - t - OrphanFloor)
OrphanGrant(t) == Most(OrphanFloor, Whole - t)

(* Of a role without a process: its sweep, and the part of it in which the
   processes of the other roles are found.                                 *)
SweepBudget == IF timeout.orphans THEN Whole ELSE ScanFloor
ProtectBudget ==
  IF timeout.orphans THEN Least(SweepBudget, Least(10 * Second, 5 * tenth)) ELSE ScanFloor

ScanGrant(t) == Most(0, SweepBudget - t)

(* The step ends, having taken what it was granted, or less, or more. *)
Take(next) ==
  \E used \in 0..granted, beyond \in 0..Lag :
    /\ now' = now + used + beyond
    /\ late' = late + beyond
    /\ at' = next
    /\ UNCHANGED timeout

-----------------------------------------------------------------------------
(* The primary process is alive, and is waited for, or is not. *)
Snapshot ==
  /\ at = "snapshot"
  /\ \/ Take("wait") /\ granted' = WaitGrant(now')
     \/ Take("tree") /\ granted' = TreeGrant(now')

AwaitPrimary == at = "wait" /\ Take("tree") /\ granted' = TreeGrant(now')

KillTree ==
  /\ at = "tree"
  /\ IF timeout.orphans THEN Take("orphans") /\ granted' = OrphanGrant(now')
     ELSE Take("done") /\ granted' = 0

ScanOrphans == at = "orphans" /\ Take("done") /\ granted' = 0

BeginSweep ==
  /\ at = "sweep" /\ tenth > 0
  /\ at' = "protect" /\ granted' = ProtectBudget
  /\ UNCHANGED <<timeout, now, late>>

(* No scan without knowing all that must be spared. *)
Protect ==
  /\ at = "protect"
  /\ \/ Take("scan") /\ granted' = ScanGrant(now')
     \/ Take("done") /\ granted' = 0

ScanSwept == at = "scan" /\ Take("done") /\ granted' = 0

BudgetNext ==
  Snapshot \/ AwaitPrimary \/ KillTree \/ ScanOrphans \/ BeginSweep \/ Protect \/ ScanSwept

BudgetSpec == BudgetInit /\ [][BudgetNext]_budgetVars

-----------------------------------------------------------------------------
(* Properties.                                                             *)

(* When each step must be over. *)
Limit ==
  CASE at \in {"snapshot", "sweep"} -> 0
    [] at = "wait" -> PrimaryCap
    [] at = "tree" -> Whole - OrphanFloor
    [] at = "protect" -> ProtectBudget
    [] at = "scan" -> SweepBudget
    [] OTHER -> Whole

(* The steps share the timeout: the grants never lead past the point that
   leaves the later steps their floors, nor past the timeout in the end, but
   for what some step took beyond its grant (#95, #165).                   *)
StopsInTime == now + granted <= Limit + late

(* However long the earlier steps took, no later one is starved: the tree kill
   and the orphan scan get their floors, and the wait, or the scan of a sweep,
   loses no more than others took beyond their grants (#95).               *)
NobodyStarved ==
  /\ at = "tree" => granted >= Least(Second, tenth)
  /\ at = "orphans" => granted >= Least(3 * Second, 3 * tenth)
  /\ at = "wait" => granted >= 6 * tenth - late
  /\ at = "scan" /\ timeout.orphans => granted >= 5 * tenth - late

(* The shares of a timeout add up, and none of them is at another's expense. *)
TimeIsShared == StopsInTime /\ NobodyStarved
=============================================================================
