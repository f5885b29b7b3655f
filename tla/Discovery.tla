----------------------------- MODULE Discovery ------------------------------
(***************************************************************************)
(* core/process_lifecycle.py: one call of _kill_blocking_processes, which  *)
(* looks for the processes that are inside a checkout                      *)
(* (_find_blocking_processes) and kills them with their descendants.       *)
(* Nothing runs beside a pass that it shares state with, so a pass is one  *)
(* step, which may run out of time anywhere; every read of a process may   *)
(* hang and is then given up (module HandleScan has the threads).          *)
(***************************************************************************)
EXTENDS FiniteSets, Naturals

CONSTANTS Pids, Host,    \* processes, and the one that makes the call
          Parent,        \* the parent of each; NoParent if it has none
          NoParent,
          Views          \* the passes that may show each of them to be inside

VARIABLES views,         \* the passes that would show a process to be inside
          windows,       \* the platform has the passes 1b and 1c
          protect,       \* exclude_pids
          stage,
          excluded, found, unresponsive, tags,
          signalled,     \* the processes that have been killed
          refused,       \* history: the system would not name the ancestors
          cut            \* history: whose tree of descendants was not read in full

lookVars == <<views, windows, protect, stage, excluded, found, unresponsive, tags, signalled,
              refused, cut>>

Passes == {"cwd", "cmdline", "handle"}

ASSUME DiscoveryAssumption == Host \in Pids /\ Views \subseteq [Pids -> SUBSET Passes]

DiscoveryTypeOK ==
  /\ views \in [Pids -> SUBSET Passes]
  /\ windows \in BOOLEAN /\ refused \in BOOLEAN
  /\ protect \in SUBSET Pids
  /\ stage \in {"start", "walk", "cwd", "cmdline", "unresponsive", "handle", "lineage", "signal",
                "done"}
  /\ excluded \in SUBSET Pids /\ found \in SUBSET Pids
  /\ unresponsive \in SUBSET Pids /\ signalled \in SUBSET Pids /\ cut \in SUBSET Pids
  /\ tags \in SUBSET {"unresponsive", "cwd", "cmdline", "handle_scan", "lineage"}

DiscoveryInit ==
  /\ views \in Views
  /\ windows \in BOOLEAN
  /\ protect \in {P \in SUBSET (Pids \ {Host}) : Cardinality(P) <= 1}
  /\ stage = "start"
  /\ excluded = {} /\ found = {} /\ unresponsive = {} /\ tags = {} /\ signalled = {}
  /\ refused = FALSE /\ cut = {}

-----------------------------------------------------------------------------
(* Closed under Parent, downwards and upwards.                             *)
Under(P) ==
  {q \in Pids : \A S \in SUBSET Pids :
     P \subseteq S /\ (\A r \in Pids : Parent[r] \in S => r \in S) => q \in S} \ P
Ancestors(p) == {q \in Pids : p \in Under({q})}

Showing(pass, P) == {p \in P : pass \in views[p]}

Call ==
  /\ stage = "start"
  /\ stage' = "walk"
  /\ UNCHANGED <<views, windows, protect, excluded, found, unresponsive, tags, signalled, refused, cut>>

(* Who must never be touched is known before anybody is looked at; when the
   walk hangs there is no search.  An answer like AccessDenied ends it too. *)
WalkHangs ==
  /\ stage = "walk"
  /\ tags' = {"unresponsive"}
  /\ stage' = "done"
  /\ UNCHANGED <<views, windows, protect, excluded, found, unresponsive, signalled, refused, cut>>

WalkEnds ==
  /\ stage = "walk"
  /\ refused' \in BOOLEAN
  /\ excluded' = {Host} \cup protect \cup IF refused' THEN {} ELSE Ancestors(Host)
  /\ stage' = "cwd"
  /\ UNCHANGED <<views, windows, protect, found, unresponsive, tags, signalled, cut>>

(* One pass reads the processes of `in` until time is up; some reads hang. *)
Pass(pass, in, next) ==
  /\ stage = pass
  /\ \E looked \in SUBSET in, hung \in SUBSET in :
       /\ hung \subseteq looked
       /\ found' = found \cup Showing(pass, looked \ hung)
       /\ unresponsive' = unresponsive \cup hung
       /\ tags' \in {tags \cup {pass}} \cup IF looked = in THEN {tags} ELSE {}
  /\ stage' = next
  /\ UNCHANGED <<views, windows, protect, excluded, signalled, refused, cut>>

CwdPass == Pass("cwd", Pids \ excluded, IF windows THEN "cmdline" ELSE "unresponsive")
CmdlinePass == Pass("cmdline", Pids \ (excluded \cup found \cup unresponsive), "unresponsive")

TagUnresponsive ==
  /\ stage = "unresponsive"
  /\ tags' = IF unresponsive = {} THEN tags ELSE tags \cup {"unresponsive"}
  /\ stage' = IF windows THEN "handle" ELSE "lineage"
  /\ UNCHANGED <<views, windows, protect, excluded, found, unresponsive, signalled, refused, cut>>

(* _win_handle_holders: all of them, or some and a tag. *)
HandlePass ==
  /\ stage = "handle"
  /\ \E holders \in SUBSET Showing("handle", Pids \ excluded) :
       /\ found' = found \cup holders
       /\ tags' \in {tags \cup {"handle_scan"}} \cup
                    IF holders = Showing("handle", Pids \ excluded) THEN {tags} ELSE {}
  /\ stage' = "lineage"
  /\ UNCHANGED <<views, windows, protect, excluded, unresponsive, signalled, refused, cut>>

(* The descendants of what was found, as far as time allows.  _process_tree
   never names the calling process, nor its ancestors if the system tells them;
   a tree above _MAX_TREE_NODES, or one that cannot be read, is cut with no more
   than a line in the log.                                                 *)
Faulty_Lineage ==
  /\ stage = "lineage"
  /\ \E walked \in SUBSET found : \E partly \in SUBSET walked :
       /\ found' = found \cup (Under(walked \ partly) \ {Host})
       /\ tags' = IF walked = found THEN tags ELSE tags \cup {"lineage"}
       /\ cut' = partly
  /\ stage' = "signal"
  /\ UNCHANGED <<views, windows, protect, excluded, unresponsive, signalled, refused>>
Lineage ==
  /\ stage = "lineage"
  /\ \E walked \in SUBSET found, spared \in SUBSET Ancestors(Host) : \E partly \in SUBSET walked :
       \E some \in SUBSET Under(partly) :
         /\ found' = found \cup ((Under(walked \ partly) \cup some) \ (protect \cup {Host} \cup spared))
         /\ tags' = IF walked = found THEN tags ELSE tags \cup {"lineage"}
         /\ cut' = partly
  /\ stage' = "signal"
  /\ UNCHANGED <<views, windows, protect, excluded, unresponsive, signalled, refused>>

(* Without time, a signal that cannot be delivered becomes a kill. *)
SignalAll ==
  /\ stage = "signal"
  /\ signalled' = found
  /\ stage' = "done"
  /\ UNCHANGED <<views, windows, protect, excluded, found, unresponsive, tags, refused, cut>>

DiscoveryNext ==
  \/ Call \/ WalkHangs \/ WalkEnds \/ CwdPass \/ CmdlinePass \/ TagUnresponsive
  \/ HandlePass \/ Lineage \/ SignalAll

DiscoverySpec == DiscoveryInit /\ [][DiscoveryNext]_lookVars

-----------------------------------------------------------------------------
(* Properties.                                                             *)

(* A call that says it is complete has killed every process that a pass of
   this platform would show, with its descendants, except those it must not
   touch and what is cut off a tree of descendants that is too large or cannot
   be read: no time-out and no read that hung goes untold (#95, #148).     *)
CompleteMeansAll ==
  LET shown == UNION {Showing(pass, Pids \ excluded) :
                        pass \in IF windows THEN Passes ELSE {"cwd"}}
  IN stage = "done" /\ tags = {} =>
       shown \cup (Under(shown \ cut) \ (protect \cup {Host} \cup Ancestors(Host))) \subseteq signalled

(* The calling process is never killed; nor are its ancestors, unless the system
   refused to name them, nor a protected process: through no pass, as nobody's
   descendant, however the walk of the ancestors ends.                     *)
HostSpared ==
  /\ Host \notin signalled
  /\ \A p \in signalled : Host \in Under({p}) => refused
ProtectedSpared == signalled \cap protect = {}

(* Nobody is killed but who is in the way. *)
OnlyBlockersKilled == HostSpared /\ ProtectedSpared

-----------------------------------------------------------------------------
(* The inductive invariant behind the safety properties.                   *)

Before == {"start", "walk"}
HostLine == {Host} \cup Ancestors(Host)
Shown == UNION {Showing(pass, Pids \ excluded) : pass \in IF windows THEN Passes ELSE {"cwd"}}

(* The exclusions are known before anybody is looked at, and nobody who must
   not be touched is ever among those who are found.                       *)
ExclusionsOK ==
  /\ stage \in Before => found = {} /\ signalled = {} /\ unresponsive = {} /\ tags = {}
  /\ stage \notin Before \cup {"done"} =>
       {Host} \cup protect \cup (IF refused THEN {} ELSE Ancestors(Host)) \subseteq excluded
  /\ found \cap (protect \cup {Host}) = {} /\ (refused \/ found \cap HostLine = {})
  /\ Host \notin protect

(* What a pass that is not tagged would show has been found or has not answered,
   which a tag will tell.                                                  *)
CoverOK ==
  /\ stage \notin Before \cup {"cwd", "done"} /\ "cwd" \notin tags =>
       Showing("cwd", Pids \ excluded) \subseteq found \cup unresponsive
  /\ windows /\ stage \in {"unresponsive", "handle", "lineage"} /\ "cmdline" \notin tags =>
       Showing("cmdline", Pids \ excluded) \subseteq found \cup unresponsive
  /\ stage \in {"handle", "lineage"} /\ "unresponsive" \notin tags => unresponsive = {}
  /\ windows /\ stage = "lineage" /\ "handle_scan" \notin tags =>
       Showing("handle", Pids \ excluded) \subseteq found
  /\ stage = "signal" /\ tags = {} =>
       Shown \cup (Under(Shown \ cut) \ (protect \cup HostLine)) \subseteq found

LookInv ==
  DiscoveryTypeOK /\ ExclusionsOK /\ CoverOK /\ OnlyBlockersKilled /\ CompleteMeansAll
=============================================================================
