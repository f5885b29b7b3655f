---------------------------- MODULE SetupRunner -----------------------------
(***************************************************************************)
(* setup/runner.py: one call of SetupRunner.run(), which gives the steps   *)
(* of a contract to shells, one after another.  A shell may leave children *)
(* behind that outlive it and hold its output pipes; communicate() waits   *)
(* for the end of the pipes, the kill after a time-out reaches the shell   *)
(* only.                                                                   *)
(***************************************************************************)
EXTENDS Naturals

CONSTANT Steps           \* the number of steps

ASSUME StepsAssumption == Steps \in Nat

VARIABLES runner,        \* the call
          shell,         \* the shell of each step
          child,         \* what each shell has started
          log            \* the log file of each step

runnerVars == <<runner, shell, child, log>>

Index == 1..Steps

(* limit: _resolve_setup_timeout gives a number, or None: wait for ever. *)
RunnerTypeOK ==
  /\ runner \in [at: {"ready", "waiting", "draining", "ok", "failed", "raised"},
                 step: 1..Steps + 1, limit: BOOLEAN]
  /\ shell \in [Index -> {"none", "running", "zero", "nonzero", "killed"}]
  /\ child \in [Index -> {"none", "piped", "detached", "gone"}]
  /\ log \in [Index -> {"none", "zero", "nonzero", "timeout"}]

RunnerInit ==
  /\ \E limit \in BOOLEAN : runner = [at |-> "ready", step |-> 1, limit |-> limit]
  /\ shell = [i \in Index |-> "none"]
  /\ child = [i \in Index |-> "none"]
  /\ log = [i \in Index |-> "none"]

-----------------------------------------------------------------------------
step == runner.step
ShellOver == shell[step] # "running"
PipesClosed == ShellOver /\ child[step] # "piped"

(* run(): the next step, or the end. *)
SpawnShell ==
  /\ runner.at = "ready" /\ step <= Steps
  /\ shell' = [shell EXCEPT ![step] = "running"]
  /\ runner' = [runner EXCEPT !.at = "waiting"]
  /\ UNCHANGED <<child, log>>

(* RunLineExpansionError or an OSError: there is no process and no log. *)
SpawnFails ==
  /\ runner.at = "ready" /\ step <= Steps
  /\ runner' = [runner EXCEPT !.at = "raised"]
  /\ UNCHANGED <<shell, child, log>>

EndRun ==
  /\ runner.at = "ready" /\ step > Steps
  /\ runner' = [runner EXCEPT !.at = "ok"]
  /\ UNCHANGED <<shell, child, log>>

(* _invoke(): communicate() returns at the end of the output. *)
Faulty_Communicate ==
  /\ runner.at = "waiting" /\ ShellOver
  /\ log' = [log EXCEPT ![step] = shell[step]]
  /\ runner' = IF shell[step] = "zero"
               THEN [runner EXCEPT !.at = "ready", !.step = @ + 1]
               ELSE [runner EXCEPT !.at = "failed"]
  /\ UNCHANGED <<shell, child>>
Communicate ==
  /\ runner.at = "waiting" /\ PipesClosed
  /\ log' = [log EXCEPT ![step] = shell[step]]
  /\ runner' = IF shell[step] = "zero"
               THEN [runner EXCEPT !.at = "ready", !.step = @ + 1]
               ELSE [runner EXCEPT !.at = "failed"]
  /\ UNCHANGED <<shell, child>>

(* It may also be that the shell has just ended, or that it has long ended and
   a child still holds the pipes.                                          *)
TimesOut ==
  /\ runner.at = "waiting" /\ runner.limit
  /\ shell' = [shell EXCEPT ![step] = IF @ = "running" THEN "killed" ELSE @]
  /\ runner' = [runner EXCEPT !.at = "draining"]
  /\ UNCHANGED <<child, log>>

(* The second communicate() ends after 5 s at the latest. *)
Faulty_DrainOver == runner.at = "draining" /\ PipesClosed
DrainOver == runner.at = "draining"

Drained ==
  /\ DrainOver
  /\ log' = [log EXCEPT ![step] = "timeout"]
  /\ runner' = [runner EXCEPT !.at = "failed"]
  /\ UNCHANGED <<shell, child>>

LogFails ==
  /\ DrainOver \/ (runner.at = "waiting" /\ PipesClosed)
  /\ runner' = [runner EXCEPT !.at = "raised"]
  /\ UNCHANGED <<shell, child, log>>

-----------------------------------------------------------------------------
(* The processes.                                                          *)

Start(i, kind) ==
  /\ shell[i] = "running" /\ child[i] = "none"
  /\ child' = [child EXCEPT ![i] = kind]
  /\ UNCHANGED <<runner, shell, log>>

Exit(i, code) ==
  /\ shell[i] = "running"
  /\ shell' = [shell EXCEPT ![i] = code]
  /\ UNCHANGED <<runner, child, log>>

ChildEnds(i) ==
  /\ child[i] \in {"piped", "detached"}
  /\ child' = [child EXCEPT ![i] = "gone"]
  /\ UNCHANGED <<runner, shell, log>>

RunnerStep ==
  SpawnShell \/ SpawnFails \/ EndRun \/ Communicate \/ TimesOut \/ Drained \/ LogFails
RunnerNext ==
  \/ RunnerStep
  \/ \E i \in Index : \/ \E kind \in {"piped", "detached"} : Start(i, kind)
                      \/ \E code \in {"zero", "nonzero"} : Exit(i, code)
                      \/ ChildEnds(i)

RunnerSpec == RunnerInit /\ [][RunnerNext]_runnerVars

(* The runner's own thread goes on, and a limit is reached; nothing is assumed
   of the processes.                                                       *)
RunnerFairness == WF_runnerVars(RunnerStep)

-----------------------------------------------------------------------------
(* Properties.                                                             *)

(* A step starts when nothing that could still write to the output of an
   earlier one is alive; only what has detached itself runs beside it.     *)
StepsDoNotOverlap ==
  runner.at = "waiting" =>
    \A i \in 1..(step - 1) : shell[i] # "running" /\ child[i] # "piped"

(* The logs tell what happened: of the steps before the one that ended the
   run a success, of that one the failure that SetupFailedError names, of
   the later ones nothing, and they have not been started.                 *)
LogsTell ==
  /\ \A i \in Index : i < step => log[i] = "zero"
  /\ \A i \in Index : i > step => log[i] = "none" /\ shell[i] = "none"
  /\ runner.at = "failed" => log[step] \in {"nonzero", "timeout"}

(* One step after the other, and each with its own log. *)
StepByStep == StepsDoNotOverlap /\ LogsTell

(* With a limit the run ends, even if neither a shell nor what it has started
   ever does (the drain after the kill is bounded, too).                   *)
RunEnds ==
  runner.limit /\ runner.at # "ready" ~> runner.at \in {"ok", "failed", "raised"}
=============================================================================
