---------------------------- MODULE StartVariants ----------------------------
(***************************************************************************)
(* core/manager.py: which start: step a variant selects, which variants a  *)
(* listing offers (available_variants), and which role stop(variant=...)   *)
(* means, while the contract is edited, processes die and reconcile() runs.*)
(*                                                                         *)
(* One record and one caller; two callers at once are in module Lifecycle. *)
(***************************************************************************)
EXTENDS Naturals, Sequences

CONSTANTS Roles,
          StepNames,     \* the names that steps have and callers ask for
          Default,       \* "default", one of them
          NoName,        \* a step without a name, a role without a variant
          MaxSteps       \* bound on the start: steps of a contract

ASSUME VariantAssumption ==
  Default \in StepNames /\ NoName \notin StepNames /\ MaxSteps \in Nat

VARIABLES steps,         \* the names of the start: steps in the contract file
          pids,          \* the roles that have a process in the record
          variants,      \* record.variants
          running,       \* the roles whose process is alive
          stopping,      \* the role that the stop() in progress has resolved
          ready,         \* record.status is "ready": a start() had nothing to start
          startedBy      \* history: the step of each role and what was asked for

variantVars == <<steps, pids, variants, running, stopping, ready, startedBy>>

MaybeNamed == StepNames \cup {NoName}

(* The loader refuses two steps of one name. *)
Contracts ==
  {s \in UNION {[1..n -> MaybeNamed] : n \in 0..MaxSteps} :
     \A i, j \in DOMAIN s : s[i] = s[j] => i = j \/ s[i] = NoName}

VariantTypeOK ==
  /\ steps \in Contracts
  /\ running \subseteq pids /\ pids \subseteq Roles
  /\ variants \in [Roles -> MaybeNamed]
  /\ \A role \in Roles \ pids : variants[role] = NoName      \* #104
  /\ stopping \subseteq Roles /\ ready \in BOOLEAN
  /\ startedBy \in [Roles -> [step: MaybeNamed, asked: MaybeNamed]]

VariantInit ==
  /\ steps \in Contracts
  /\ pids = {} /\ running = {} /\ stopping = {} /\ ready = FALSE
  /\ variants = [role \in Roles |-> NoName]
  /\ startedBy = [role \in Roles |-> [step |-> NoName, asked |-> NoName]]

-----------------------------------------------------------------------------
(* The two readings of a contract.                                         *)

Named(s, variant) == {i \in DOMAIN s : s[i] = variant}
Lone(s) == {i \in DOMAIN s : Named(s, NoName) = {i}}

(* start(): the name, else the lone unnamed step, else the lone step. *)
Selected(s, variant) ==
  IF Named(s, variant) # {} THEN Named(s, variant)
  ELSE IF variant # Default THEN {}
  ELSE IF Lone(s) # {} THEN Lone(s)
  ELSE IF Len(s) = 1 THEN DOMAIN s ELSE {}

DefaultReachable(s) == Lone(s) # {} \/ Len(s) = 1
Available(s) ==
  {variant \in StepNames : Named(s, variant) # {}}
    \cup IF DefaultReachable(s) THEN {Default} ELSE {}

-----------------------------------------------------------------------------
(* The calls.                                                              *)

Faulty_NameOf(step, asked) == asked
NameOf(step, asked) == IF step = NoName THEN asked ELSE step

StartRole(role, variant) ==
  /\ stopping = {} /\ role \notin running
  /\ \E i \in Selected(steps, variant) :
       /\ variants' = [variants EXCEPT ![role] = NameOf(steps[i], variant)]
       /\ startedBy' = [startedBy EXCEPT ![role] = [step |-> steps[i], asked |-> variant]]
  /\ pids' = pids \cup {role}
  /\ running' = running \cup {role}
  /\ ready' = FALSE
  /\ UNCHANGED <<steps, stopping>>

(* A contract without start: steps: whatever the variant, nothing is started. *)
StartNothing ==
  /\ stopping = {} /\ steps = <<>>
  /\ ready' = TRUE
  /\ UNCHANGED <<steps, pids, variants, running, stopping, startedBy>>

Matches(variant) == {role \in Roles : variants[role] = variant}

(* No match, or more than one, is an error. *)
StopVariant(variant) ==
  /\ stopping = {}
  /\ \E role \in Roles : Matches(variant) = {role} /\ stopping' = {role}
  /\ UNCHANGED <<steps, pids, variants, running, ready, startedBy>>

StopRole(role) ==
  /\ stopping = {}
  /\ stopping' = {role}
  /\ UNCHANGED <<steps, pids, variants, running, ready, startedBy>>

(* After the stop: steps. *)
EndStop ==
  /\ stopping # {}
  /\ pids' = pids \ stopping
  /\ running' = running \ stopping
  /\ variants' = [role \in Roles |-> IF role \in stopping THEN NoName ELSE variants[role]]
  /\ stopping' = {}
  /\ ready' \in {FALSE, ready /\ pids \ stopping # {}}
  /\ UNCHANGED <<steps, startedBy>>

ProcessDies(role) ==
  /\ role \in running
  /\ running' = running \ {role}
  /\ UNCHANGED <<steps, pids, variants, stopping, ready, startedBy>>

Faulty_SweepDead ==
  /\ pids' = running
  /\ ready' = (ready /\ pids = running)
  /\ UNCHANGED <<steps, variants, running, stopping, startedBy>>
SweepDead ==
  /\ pids' = running
  /\ variants' = [role \in Roles |-> IF role \in pids \ running THEN NoName ELSE variants[role]]
  /\ ready' = (ready /\ pids = running)
  /\ UNCHANGED <<steps, running, stopping, startedBy>>

EditContract ==
  /\ steps' \in Contracts
  /\ UNCHANGED <<pids, variants, running, stopping, ready, startedBy>>

VariantNext ==
  \/ \E role \in Roles, variant \in StepNames : StartRole(role, variant)
  \/ \E variant \in StepNames : StopVariant(variant)
  \/ \E role \in Roles : StopRole(role) \/ ProcessDies(role)
  \/ StartNothing \/ EndStop \/ SweepDead \/ EditContract

VariantSpec == VariantInit /\ [][VariantNext]_variantVars

-----------------------------------------------------------------------------
(* Properties.                                                             *)

(* What a listing offers is what selects a step in start(), and what selects
   one selects just one: available_variants repeats the three tiers of start()
   by other means (#131, #112).  A contract without steps offers nothing, and
   start() takes any variant of it, to start nothing.                      *)
OfferedIsStartable ==
  \A variant \in StepNames :
    variant \in Available(steps) <=> \E i \in DOMAIN steps : Selected(steps, variant) = {i}

(* stop(variant=v) is about the tracked roles that were started as v and no
   others, whatever died, was swept, restarted or edited since: the name of
   the step, or what was asked for if it has none (#104, #112).            *)
VariantReaches ==
  \A variant \in StepNames :
    Matches(variant) =
      {role \in pids : LET by == startedBy[role]
                       IN variant = IF by.step \in StepNames THEN by.step ELSE by.asked}

(* A variant means one thing: to a listing, to start() and to stop(). *)
VariantsAgree == OfferedIsStartable /\ VariantReaches
=============================================================================
