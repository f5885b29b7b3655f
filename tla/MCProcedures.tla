---------------------------- MODULE MCProcedures ----------------------------
(***************************************************************************)
(* Eight procedures that share no state with each other: a behaviour runs  *)
(* one of them, and the others stay at rest.                               *)
(***************************************************************************)
EXTENDS Teardown, HandleScan, Discovery, PluginInstall, SetupRunner, StopBudget,
        BranchHeal, StartVariants, TLC

CONSTANTS host, parent, pid, kid, o1, o2,
          FileType,      \* the type index of both objects
          i1, i2, r1, r2, umlaut, plain, garbled

VARIABLE which           \* the procedure that runs

allVars ==
  <<removalVars, scanVars, lookVars, pluginVars, runnerVars, budgetVars, healVars,
    variantVars, which>>

MCTypeOf == (o1 :> FileType) @@ (o2 :> FileType)
MCHolderOf == (o1 :> pid) @@ (o2 :> pid)
MCParent == (host :> parent) @@ (parent :> NoParent) @@ (pid :> NoParent) @@ (kid :> pid)
MCRepoOf == (i1 :> r1) @@ (i2 :> r2)
MCGarbles == {<<garbled, umlaut>>}
(* What would show the calling process does not matter; one pass that shows its
   parent is enough.                                                       *)
MCViews ==
  {v \in [Pids -> {{}, {"cwd"}, {"cmdline", "handle"}}] :
     v[host] = {} /\ v[parent] \in {{}, {"cwd"}}}

(* One of the initial states of each. *)
RemovalAtRest == checkout = "plain" /\ holders = {} /\ withSteps = FALSE
DiscoveryAtRest == views = [p \in Pids |-> {}] /\ windows = FALSE /\ protect = {}
PluginAtRest ==
  registry = {} /\ valid = {}
    /\ job = [c \in Installers |-> NewJob(CHOOSE w \in Worktrees : TRUE)]
RunnerAtRest == runner = [at |-> "ready", step |-> 1, limit |-> TRUE]
BudgetAtRest == timeout = [tenth |-> 0, orphans |-> FALSE] /\ at = "snapshot"
HealAtRest == created = [id \in Ids |-> plain]
VariantsAtRest == steps = <<>>

(* Worktrees are interchangeable, so that the first call may be for any of them. *)
MCInit ==
  /\ which \in {"removal", "scan", "discovery", "plugin", "runner", "budget", "heal", "variants"}
  /\ which # "removal" => RemovalAtRest
  /\ which # "discovery" => DiscoveryAtRest
  /\ which # "plugin" => PluginAtRest
  /\ which # "runner" => RunnerAtRest
  /\ which # "budget" => BudgetAtRest
  /\ which # "heal" => HealAtRest
  /\ which # "variants" => VariantsAtRest
  /\ RemovalInit /\ ScanInit /\ DiscoveryInit /\ PluginInit /\ RunnerInit /\ BudgetInit /\ HealInit
  /\ VariantInit
  /\ job[CHOOSE c \in Installers : TRUE].worktree = CHOOSE w \in Worktrees : TRUE

(* Only the variables of one procedure change. *)
Only(procedure) ==
  /\ which = procedure /\ which' = which
  /\ procedure # "removal" => UNCHANGED removalVars
  /\ procedure # "scan" => UNCHANGED scanVars
  /\ procedure # "discovery" => UNCHANGED lookVars
  /\ procedure # "plugin" => UNCHANGED pluginVars
  /\ procedure # "runner" => UNCHANGED runnerVars
  /\ procedure # "budget" => UNCHANGED budgetVars
  /\ procedure # "heal" => UNCHANGED healVars
  /\ procedure # "variants" => UNCHANGED variantVars

Removal == Only("removal") /\ RemovalNext
HandleScanning == Only("scan") /\ ScanNext
Discovering == Only("discovery") /\ DiscoveryNext
Installing == Only("plugin") /\ PluginNext
SettingUp == Only("runner") /\ RunnerNext
Dividing == Only("budget") /\ BudgetNext
Healing == Only("heal") /\ HealNext
Resolving == Only("variants") /\ VariantNext

MCNext ==
  Removal \/ HandleScanning \/ Discovering \/ Installing \/ SettingUp \/ Dividing \/ Healing
    \/ Resolving

(* The fairness of a procedure binds the behaviours that run it. *)
MCFairness ==
  /\ WF_removalVars(which = "removal" /\ Remover)
  /\ \A p \in Processes : WF_removalVars(which = "removal" /\ LetGo(p))
  /\ SF_removalVars(which = "removal" /\ Begin(TRUE, TRUE))
  /\ WF_runnerVars(which = "runner" /\ RunnerStep)
  /\ \A h \in Healers : WF_healVars(which = "heal" /\ HealStep(h))

MCSpec == MCInit /\ [][MCNext]_allVars /\ MCFairness

-----------------------------------------------------------------------------
(* Properties of several procedures.                                       *)

ProceduresInv ==
  /\ RemovalTypeOK /\ ScanInv /\ LookInv /\ PluginTypeOK
  /\ RunnerTypeOK /\ BudgetTypeOK /\ HealTypeOK /\ VariantTypeOK

(* A search for blockers that says it is complete is: a stop() that relies on
   it says "stopped", a removal goes on.                                   *)
CompleteIsTrue == CompleteScanLooked /\ CompleteMeansAll
=============================================================================
