---------------------------- MODULE SearchProofs ----------------------------
(***************************************************************************)
(* Proofs about the search for blockers: for any processes, passes and     *)
(* exclusions (module Discovery), and for any numbers of threads, objects  *)
(* and query workers (module HandleScan).                                  *)
(***************************************************************************)
EXTENDS HandleScan, Discovery, FiniteSetTheorems, TLAPS

-----------------------------------------------------------------------------
(* Descendants.                                                            *)

LEMMA UnderGrows ==
  ASSUME NEW P, NEW Q \in SUBSET Pids, P \subseteq Q
  PROVE  Under(P) \subseteq Q \cup Under(Q)
BY DEF Under

(* The host and its ancestors descend from nobody else. *)
LEMMA HostLineIsAbove ==
  ASSUME NEW W \in SUBSET Pids, W \cap HostLine = {}
  PROVE  Under(W) \cap HostLine = {}
<1> DEFINE S == Pids \ HostLine
<1>1. ASSUME NEW r \in Pids, Parent[r] \in S
      PROVE  r \in S
  <2> SUFFICES ASSUME r \in HostLine PROVE FALSE
    OBVIOUS
  <2>1. r = Host \/ Host \in Under({r})
    BY DEF HostLine, Ancestors
  <2>2. ASSUME NEW T \in SUBSET Pids, {Parent[r]} \subseteq T,
               \A x \in Pids : Parent[x] \in T => x \in T
        PROVE  Host \in T
    BY <2>1, <2>2 DEF Under
  <2>3. Host # Parent[r] /\ Host \in Pids /\ Parent[r] \in Pids
    BY <1>1, DiscoveryAssumption DEF HostLine, DiscoveryAssumption
  <2>4. Host \in Under({Parent[r]})
    BY <2>2, <2>3 DEF Under
  <2> QED
    BY <1>1, <2>3, <2>4 DEF HostLine, Ancestors
<1>2. W \subseteq S
  OBVIOUS
<1>3. Under(W) \subseteq S
  <2> HIDE DEF S
  <2>1. S \in SUBSET Pids
    BY DEF S
  <2> QED
    BY <1>1, <1>2, <2>1 DEF Under
<1> QED
  BY <1>3

-----------------------------------------------------------------------------
(* Discovery: one lemma for each kind of step.                             *)

LEMMA LookInit == DiscoveryInit => LookInv
<1> SUFFICES ASSUME DiscoveryInit PROVE LookInv
  OBVIOUS
<1>1. DiscoveryTypeOK
  BY DiscoveryAssumption DEF DiscoveryInit, DiscoveryTypeOK, DiscoveryAssumption
<1>2. ExclusionsOK /\ CoverOK
  BY DEF DiscoveryInit, ExclusionsOK, CoverOK, Before
<1>3. OnlyBlockersKilled /\ CompleteMeansAll
  BY DEF DiscoveryInit, OnlyBlockersKilled, HostSpared, ProtectedSpared, CompleteMeansAll
<1> QED
  BY <1>1, <1>2, <1>3 DEF LookInv

(* A step that neither kills nor ends the search. *)
LEMMA OnTheWay ==
  ASSUME LookInv, stage' # "done", UNCHANGED <<windows, views, protect, signalled, refused>>
  PROVE  OnlyBlockersKilled' /\ CompleteMeansAll'
BY DEF LookInv, OnlyBlockersKilled, HostSpared, ProtectedSpared, CompleteMeansAll, Under

LEMMA BeforeKeeps == LookInv /\ (Call \/ WalkHangs \/ WalkEnds) => LookInv'
<1> SUFFICES ASSUME LookInv, Call \/ WalkHangs \/ WalkEnds PROVE LookInv'
  OBVIOUS
<1>1. /\ DiscoveryTypeOK /\ stage \in Before /\ found = {} /\ signalled = {} /\ unresponsive = {}
      /\ tags = {} /\ Host \notin protect
  BY DEF LookInv, ExclusionsOK, Before, Call, WalkHangs, WalkEnds
<1>2. CASE Call
  BY <1>1, <1>2 DEF Call, LookInv, DiscoveryTypeOK, ExclusionsOK, CoverOK, Before, OnlyBlockersKilled,
                    HostSpared, ProtectedSpared, CompleteMeansAll
<1>3. CASE WalkHangs
  BY <1>1, <1>3 DEF WalkHangs, LookInv, DiscoveryTypeOK, ExclusionsOK, CoverOK, Before, OnlyBlockersKilled,
                    HostSpared, ProtectedSpared, CompleteMeansAll
<1>4. CASE WalkEnds
  <2>1. DiscoveryTypeOK'
    BY <1>1, <1>4, DiscoveryAssumption DEF WalkEnds, DiscoveryTypeOK, Ancestors, DiscoveryAssumption
  <2>2. ExclusionsOK' /\ CoverOK'
    BY <1>1, <1>4 DEF WalkEnds, ExclusionsOK, CoverOK, Before, Ancestors, Under
  <2>3. OnlyBlockersKilled' /\ CompleteMeansAll'
    BY <1>1, <1>4 DEF WalkEnds, OnlyBlockersKilled, HostSpared, ProtectedSpared, CompleteMeansAll
  <2> QED
    BY <2>1, <2>2, <2>3 DEF LookInv
<1> QED
  BY <1>2, <1>3, <1>4

(* What is found beside the exclusions is not to be spared. *)
LEMMA FoundOutside ==
  ASSUME LookInv, stage \notin Before \cup {"done"}, NEW more \in SUBSET (Pids \ excluded),
         UNCHANGED <<protect, refused, excluded>>, found' = found \cup more,
         stage' \notin Before
  PROVE  ExclusionsOK'
<1>1. ExclusionsOK
  BY DEF LookInv
<1>2. more \cap protect = {} /\ (refused \/ more \cap HostLine = {})
  BY <1>1 DEF ExclusionsOK, HostLine
<1>3. HostLine' = HostLine
  BY DEF HostLine, Ancestors, Under
<1> QED
  BY <1>1, <1>2, <1>3 DEF ExclusionsOK

LEMMA CwdPassKeeps == LookInv /\ CwdPass => LookInv'
<1> SUFFICES ASSUME LookInv, CwdPass PROVE LookInv'
  OBVIOUS
<1>1. PICK looked \in SUBSET (Pids \ excluded), hung \in SUBSET (Pids \ excluded) :
        /\ found' = found \cup Showing("cwd", looked \ hung)
        /\ unresponsive' = unresponsive \cup hung
        /\ tags' \in {tags \cup {"cwd"}} \cup IF looked = Pids \ excluded THEN {tags} ELSE {}
  BY DEF CwdPass, Pass
<1>2. /\ stage = "cwd" /\ stage' = IF windows THEN "cmdline" ELSE "unresponsive"
      /\ UNCHANGED <<views, windows, protect, excluded, signalled, refused, cut>> /\ DiscoveryTypeOK
  BY DEF CwdPass, Pass, LookInv
<1>3. Showing("cwd", looked \ hung) \in SUBSET (Pids \ excluded)
  BY DEF Showing
<1>4. DiscoveryTypeOK'
  BY <1>1, <1>2, <1>3 DEF DiscoveryTypeOK
<1>5. ExclusionsOK'
  BY <1>1, <1>2, <1>3, FoundOutside DEF Before
<1>6. CoverOK'
  BY <1>1, <1>2 DEF CoverOK, Before, Showing
<1>7. OnlyBlockersKilled' /\ CompleteMeansAll'
  BY <1>2, OnTheWay
<1> QED
  BY <1>4, <1>5, <1>6, <1>7 DEF LookInv

LEMMA CmdlinePassKeeps == LookInv /\ CmdlinePass => LookInv'
<1> SUFFICES ASSUME LookInv, CmdlinePass PROVE LookInv'
  OBVIOUS
<1> DEFINE in == Pids \ (excluded \cup found \cup unresponsive)
<1>1. PICK looked \in SUBSET in, hung \in SUBSET in :
        /\ found' = found \cup Showing("cmdline", looked \ hung)
        /\ unresponsive' = unresponsive \cup hung
        /\ tags' \in {tags \cup {"cmdline"}} \cup IF looked = in THEN {tags} ELSE {}
  BY DEF CmdlinePass, Pass
<1>2. /\ stage = "cmdline" /\ stage' = "unresponsive"
      /\ UNCHANGED <<views, windows, protect, excluded, signalled, refused, cut>>
      /\ DiscoveryTypeOK /\ CoverOK
  BY DEF CmdlinePass, Pass, LookInv
<1>3. Showing("cmdline", looked \ hung) \in SUBSET (Pids \ excluded)
  BY DEF Showing
<1>4. DiscoveryTypeOK'
  BY <1>1, <1>2, <1>3 DEF DiscoveryTypeOK
<1>5. ExclusionsOK'
  BY <1>1, <1>2, <1>3, FoundOutside DEF Before
<1>6. CoverOK'
  <2>1. "cwd" \notin tags' =>
          Showing("cwd", Pids \ excluded') \subseteq found' \cup unresponsive'
    BY <1>1, <1>2 DEF CoverOK, Before
  <2>2. "cmdline" \notin tags' =>
          Showing("cmdline", Pids \ excluded') \subseteq found' \cup unresponsive'
    BY <1>1, <1>2 DEF Showing
  <2> QED
    BY <1>2, <2>1, <2>2 DEF CoverOK, Showing
<1>7. OnlyBlockersKilled' /\ CompleteMeansAll'
  BY <1>2, OnTheWay
<1> QED
  BY <1>4, <1>5, <1>6, <1>7 DEF LookInv

LEMMA TagUnresponsiveKeeps == LookInv /\ TagUnresponsive => LookInv'
<1> SUFFICES ASSUME LookInv, TagUnresponsive PROVE LookInv'
  OBVIOUS
<1>1. /\ stage = "unresponsive" /\ stage' \in {"handle", "lineage"}
      /\ windows => stage' = "handle"
      /\ tags' = IF unresponsive = {} THEN tags ELSE tags \cup {"unresponsive"}
      /\ UNCHANGED <<views, windows, protect, excluded, found, unresponsive, signalled, refused, cut>>
      /\ DiscoveryTypeOK /\ CoverOK
  BY DEF TagUnresponsive, LookInv
<1>2. DiscoveryTypeOK'
  BY <1>1 DEF DiscoveryTypeOK
<1>3. found' = found \cup {}
  BY <1>1
<1>4. ExclusionsOK'
  BY <1>1, <1>3, FoundOutside DEF Before
<1>5. CoverOK'
  BY <1>1 DEF CoverOK, Before, Showing
<1>6. OnlyBlockersKilled' /\ CompleteMeansAll'
  BY <1>1, OnTheWay
<1> QED
  BY <1>2, <1>4, <1>5, <1>6 DEF LookInv

LEMMA HandlePassKeeps == LookInv /\ HandlePass => LookInv'
<1> SUFFICES ASSUME LookInv, HandlePass PROVE LookInv'
  OBVIOUS
<1>1. PICK holders \in SUBSET Showing("handle", Pids \ excluded) :
        /\ found' = found \cup holders
        /\ tags' \in {tags \cup {"handle_scan"}} \cup
                     IF holders = Showing("handle", Pids \ excluded) THEN {tags} ELSE {}
  BY DEF HandlePass
<1>2. /\ stage = "handle" /\ stage' = "lineage"
      /\ UNCHANGED <<views, windows, protect, excluded, unresponsive, signalled, refused, cut>>
      /\ DiscoveryTypeOK /\ CoverOK
  BY DEF HandlePass, LookInv
<1>3. holders \in SUBSET (Pids \ excluded)
  BY DEF Showing
<1>4. DiscoveryTypeOK'
  BY <1>1, <1>2, <1>3 DEF DiscoveryTypeOK
<1>5. ExclusionsOK'
  BY <1>1, <1>2, <1>3, FoundOutside DEF Before
<1>6. CoverOK'
  <2>1. "handle_scan" \notin tags' => Showing("handle", Pids \ excluded') \subseteq found'
    BY <1>1, <1>2 DEF Showing
  <2>2. /\ "cwd" \notin tags' => Showing("cwd", Pids \ excluded') \subseteq found' \cup unresponsive'
        /\ windows' /\ "cmdline" \notin tags' =>
             Showing("cmdline", Pids \ excluded') \subseteq found' \cup unresponsive'
        /\ "unresponsive" \notin tags' => unresponsive' = {}
    BY <1>1, <1>2 DEF CoverOK, Before
  <2> QED
    BY <1>2, <2>1, <2>2 DEF CoverOK, Showing
<1>7. OnlyBlockersKilled' /\ CompleteMeansAll'
  BY <1>2, OnTheWay
<1> QED
  BY <1>4, <1>5, <1>6, <1>7 DEF LookInv

LEMMA LineageKeeps == LookInv /\ Lineage => LookInv'
<1> SUFFICES ASSUME LookInv, Lineage PROVE LookInv'
  OBVIOUS
<1> DEFINE Reads(walked, spared, partly, some) ==
      /\ found' = found \cup ((Under(walked \ partly) \cup some)
                                 \ (protect \cup {Host} \cup spared))
      /\ tags' = IF walked = found THEN tags ELSE tags \cup {"lineage"}
      /\ cut' = partly
<1>1. PICK walked \in SUBSET found, spared \in SUBSET Ancestors(Host) :
        \E partly \in SUBSET walked : \E some \in SUBSET Under(partly) :
          Reads(walked, spared, partly, some)
  BY DEF Lineage
<1>9. PICK partly \in SUBSET walked : \E some \in SUBSET Under(partly) :
        Reads(walked, spared, partly, some)
  BY <1>1
<1>2. PICK some \in SUBSET Under(partly) :
        /\ found' = found \cup ((Under(walked \ partly) \cup some)
                                   \ (protect \cup {Host} \cup spared))
        /\ tags' = IF walked = found THEN tags ELSE tags \cup {"lineage"}
        /\ cut' = partly
  BY <1>9
<1>3. /\ stage = "lineage" /\ stage' = "signal"
      /\ UNCHANGED <<views, windows, protect, excluded, unresponsive, signalled, refused>>
      /\ DiscoveryTypeOK /\ CoverOK /\ ExclusionsOK
  BY DEF Lineage, LookInv
<1> DEFINE trees == Under(walked \ partly) \cup some
<1>4. /\ found \in SUBSET Pids /\ walked \in SUBSET Pids /\ partly \in SUBSET Pids
      /\ Under(walked \ partly) \in SUBSET Pids /\ some \in SUBSET Pids
  BY <1>3 DEF DiscoveryTypeOK, Under
<1>5. DiscoveryTypeOK'
  BY <1>2, <1>3, <1>4 DEF DiscoveryTypeOK
<1>6. ExclusionsOK'
  <2>1. refused \/ trees \cap HostLine = {}
    <3> SUFFICES ASSUME ~refused PROVE trees \cap HostLine = {}
      OBVIOUS
    <3>1. (walked \ partly) \cap HostLine = {} /\ partly \cap HostLine = {}
      BY <1>3 DEF ExclusionsOK
    <3>2. Under(walked \ partly) \cap HostLine = {} /\ Under(partly) \cap HostLine = {}
      BY <1>4, <3>1, HostLineIsAbove
    <3> QED
      BY <3>2
  <2>2. HostLine' = HostLine
    BY DEF HostLine, Ancestors, Under
  <2> QED
    BY <1>2, <1>3, <2>1, <2>2 DEF ExclusionsOK, Before
<1>7. CoverOK'
  <2>6. Shown' = Shown
    BY <1>3 DEF Shown, Showing
  <2>5. "cwd" \notin tags' => Showing("cwd", Pids \ excluded)' \subseteq found' \cup unresponsive'
    BY <1>2, <1>3 DEF CoverOK, Before, Showing
  <2>7. /\ Under(Shown \ cut)' = Under(Shown \ partly)
        /\ (protect \cup HostLine)' = protect \cup HostLine
    BY <1>2, <1>3, <2>6 DEF Under, HostLine, Ancestors
  <2> SUFFICES ASSUME tags' = {}
               PROVE  Shown \cup (Under(Shown \ partly) \ (protect \cup HostLine)) \subseteq found'
    BY <1>3, <2>6, <2>5, <2>7 DEF CoverOK, Before
  <2>1. tags = {} /\ walked = found
    BY <1>2
  <2>2. ASSUME NEW pass \in IF windows THEN Passes ELSE {"cwd"}
        PROVE  Showing(pass, Pids \ excluded) \subseteq found
    BY <1>3, <2>1 DEF CoverOK, Before, Passes
  <2>3. Shown \subseteq found
    BY <2>2 DEF Shown
  <2>4. Under(Shown \ partly) \subseteq (found \ partly) \cup Under(found \ partly)
    BY <1>4, <2>3, UnderGrows
  <2> QED
    BY <1>2, <2>1, <2>3, <2>4 DEF HostLine
<1>8. OnlyBlockersKilled' /\ CompleteMeansAll'
  BY <1>3, OnTheWay
<1> QED
  BY <1>5, <1>6, <1>7, <1>8 DEF LookInv

LEMMA SignalAllKeeps == LookInv /\ SignalAll => LookInv'
<1> SUFFICES ASSUME LookInv, SignalAll PROVE LookInv'
  OBVIOUS
<1>1. /\ stage = "signal" /\ stage' = "done" /\ signalled' = found
      /\ UNCHANGED <<views, windows, protect, excluded, found, unresponsive, tags, refused, cut>>
      /\ DiscoveryTypeOK /\ ExclusionsOK /\ CoverOK
  BY DEF SignalAll, LookInv
<1>2. DiscoveryTypeOK' /\ CoverOK'
  BY <1>1 DEF DiscoveryTypeOK, CoverOK, Before
<1>3. HostLine' = HostLine
  BY DEF HostLine, Ancestors, Under
<1>4. ExclusionsOK'
  BY <1>1, <1>3 DEF ExclusionsOK, Before
<1>5. OnlyBlockersKilled'
  <2>1. found \in SUBSET Pids
    BY <1>1 DEF DiscoveryTypeOK
  <2>2. \A p \in found : Host \in Under({p}) => refused
    BY <1>1, <2>1 DEF ExclusionsOK, HostLine, Ancestors
  <2> QED
    BY <1>1, <2>2 DEF OnlyBlockersKilled, HostSpared, ProtectedSpared, ExclusionsOK, Under
<1>6. CompleteMeansAll'
  <2>1. tags = {} =>
          Shown \cup (Under(Shown \ cut) \ (protect \cup HostLine)) \subseteq signalled'
    BY <1>1 DEF CoverOK
  <2> QED
    BY <1>1, <2>1 DEF CompleteMeansAll, Shown, Showing, Under, HostLine, Ancestors
<1> QED
  BY <1>2, <1>4, <1>5, <1>6 DEF LookInv

LEMMA LookStep == LookInv /\ [DiscoveryNext]_lookVars => LookInv'
<1>1. LookInv /\ UNCHANGED lookVars => LookInv'
  BY DEF lookVars, LookInv, DiscoveryTypeOK, ExclusionsOK, CoverOK, OnlyBlockersKilled, HostSpared,
         ProtectedSpared, CompleteMeansAll, HostLine, Ancestors, Under, Showing, Shown
<1> QED
  BY <1>1, BeforeKeeps, CwdPassKeeps, CmdlinePassKeeps, TagUnresponsiveKeeps, HandlePassKeeps,
     LineageKeeps, SignalAllKeeps DEF DiscoveryNext

(* The inductive invariant of the discovery: exclusions come before looks, and
   what an untagged pass would show has been found. *)
THEOREM DiscoveryInvariant == DiscoverySpec => []LookInv
BY LookInit, LookStep, PTL DEF DiscoverySpec

(* Neither the host, a protected process nor an ancestor of the host is killed,
   whatever the processes, but for ancestors that the system refuses to name. *)
THEOREM OnlyBlockersAreKilled == DiscoverySpec => []OnlyBlockersKilled
<1>1. LookInv => OnlyBlockersKilled
  BY DEF LookInv
<1> QED
  BY <1>1, DiscoveryInvariant, PTL

(* A search without tags has killed all that its passes would show, with what
   _process_tree tells of their descendants, for any processes and any passes
   that fail; a tree that is cut, which no tag tells, is excepted. *)
THEOREM CompleteSearchIsTrue == DiscoverySpec => []CompleteMeansAll
<1>1. LookInv => CompleteMeansAll
  BY DEF LookInv
<1> QED
  BY <1>1, DiscoveryInvariant, PTL

-----------------------------------------------------------------------------
(* Handle scan: the sets that are counted.                                 *)

Askers == {c \in Threads : Asking(c)}
StuckScans == {w \in Stuck : worker[w].for = "scan"}
ScanWorkers == {w \in Alive : worker[w].for = "scan"}
Inside == {"admitted", "picking", "type", "name", "retired"}

LEMMA SetsAreFinite ==
  /\ \A S \in SUBSET Workers : IsFiniteSet(S) /\ Cardinality(S) \in Nat
  /\ \A S \in SUBSET Threads : IsFiniteSet(S) /\ Cardinality(S) \in Nat
<1>1. IsFiniteSet(Workers)
  BY FS_Interval, ScanAssumption DEF Workers, ScanAssumption
<1>2. IsFiniteSet(Threads)
  BY ScanAssumption DEF ScanAssumption
<1> QED
  BY <1>1, <1>2, FS_Subset, FS_CardinalityType

LEMMA CountsAre ==
  /\ Stuck \in SUBSET Workers /\ StuckScans \in SUBSET Workers /\ ScanWorkers \in SUBSET Workers
  /\ Askers \in SUBSET Threads /\ StuckScans \subseteq Stuck
  /\ NothingLeaks <=> /\ slots = Cardinality(Stuck)
                      /\ duplicates = Cardinality(Askers) + Cardinality(StuckScans)
  /\ ScanThreadsBounded <=> Cardinality(ScanWorkers) <= MaxWedged
<1>1. Askers = {c \in Threads : Doing(c, "type") \/ Doing(c, "name")}
  BY DEF Askers, Asking
<1>2. /\ Stuck \in SUBSET Workers /\ StuckScans \in SUBSET Workers /\ ScanWorkers \in SUBSET Workers
      /\ Askers \in SUBSET Threads /\ StuckScans \subseteq Stuck
  BY DEF Stuck, StuckScans, ScanWorkers, Alive, Askers
<1>3. NothingLeaks <=> /\ slots = Cardinality(Stuck)
                       /\ duplicates = Cardinality(Askers) + Cardinality(StuckScans)
  BY <1>1, Zenon DEF NothingLeaks, SlotsExact, HandlesAccounted, StuckScans
<1>4. ScanThreadsBounded <=> Cardinality(ScanWorkers) <= MaxWedged
  BY Zenon DEF ScanThreadsBounded, ScanWorkers
<1> QED
  BY <1>2, <1>3, <1>4

LEMMA CountsWillBe ==
  /\ Stuck' \in SUBSET Workers /\ StuckScans' \in SUBSET Workers /\ ScanWorkers' \in SUBSET Workers
  /\ Askers' \in SUBSET Threads
  /\ NothingLeaks' <=> /\ slots' = Cardinality(Stuck')
                       /\ duplicates' = Cardinality(Askers') + Cardinality(StuckScans')
  /\ ScanThreadsBounded' <=> Cardinality(ScanWorkers') <= MaxWedged
<1>1. \A c \in Threads : Asking(c)' <=> Doing(c, "type")' \/ Doing(c, "name")'
  BY DEF Asking
<1>2. /\ Stuck' \in SUBSET Workers /\ StuckScans' \in SUBSET Workers /\ ScanWorkers' \in SUBSET Workers
      /\ Askers' \in SUBSET Threads
  BY DEF Stuck, StuckScans, ScanWorkers, Alive, Askers
<1>3. Askers' = {c \in Threads : Doing(c, "type")' \/ Doing(c, "name")'}
  BY <1>1 DEF Askers
<1>4. NothingLeaks' <=> /\ slots' = Cardinality(Stuck')
                        /\ duplicates' = Cardinality(Askers') + Cardinality(StuckScans')
  BY <1>3, Zenon DEF NothingLeaks, SlotsExact, HandlesAccounted, StuckScans
<1>5. ScanThreadsBounded' <=> Cardinality(ScanWorkers') <= MaxWedged
  BY Zenon DEF ScanThreadsBounded, ScanWorkers
<1> QED
  BY <1>2, <1>4, <1>5

(* How many they are after a step: one more, one less, or as many. *)
LEMMA OneMore ==
  ASSUME NEW S \in (SUBSET Workers) \cup (SUBSET Threads), NEW x, x \notin S
  PROVE  Cardinality(S \cup {x}) = Cardinality(S) + 1
<1>1. IsFiniteSet(S)
  BY SetsAreFinite
<1> QED
  BY <1>1, FS_AddElement

LEMMA OneLess ==
  ASSUME NEW S \in (SUBSET Workers) \cup (SUBSET Threads), NEW x \in S
  PROVE  Cardinality(S \ {x}) = Cardinality(S) - 1
<1>1. IsFiniteSet(S)
  BY SetsAreFinite
<1> QED
  BY <1>1, FS_RemoveElement

LEMMA NotMore ==
  ASSUME NEW S \in SUBSET Workers, NEW T \in SUBSET S
  PROVE  Cardinality(T) <= Cardinality(S) /\ Cardinality(T) \in Nat /\ Cardinality(S) \in Nat
<1>1. IsFiniteSet(S) /\ T \in SUBSET Workers
  BY SetsAreFinite
<1> QED
  BY <1>1, FS_Subset, SetsAreFinite

(* What a scan remembers it remembers, or has evicted. *)
LEMMA RememberRecalls ==
  ASSUME known \in Seq(Objects), evicted \in SUBSET Objects, NEW o \in Objects, Remember(o)
  PROVE  /\ known' \in Seq(Objects) /\ evicted' \in SUBSET Objects
         /\ \A x \in Objects : Recalled(x) => Recalled(x)'
         /\ Recalled(o)' /\ evicted \subseteq evicted'
<1> DEFINE longer == IF Known(o) THEN known ELSE Append(known, o)
<1>1. longer \in Seq(Objects) /\ Len(longer) \in Nat
  OBVIOUS
<1>2. \A x \in Objects : Known(x) \/ x = o => \E i \in 1..Len(longer) : longer[i] = x
  <2>1. CASE Known(o)
    BY <2>1 DEF Known
  <2>2. CASE ~Known(o)
    <3>1. /\ longer = Append(known, o) /\ Len(known) \in Nat /\ Len(longer) = Len(known) + 1
          /\ longer[Len(longer)] = o /\ \A i \in 1..Len(known) : longer[i] = known[i]
      BY <2>2
    <3> HIDE DEF longer
    <3> QED
      BY <3>1 DEF Known
  <2> QED
    BY <2>1, <2>2
<1>3. \/ Len(longer) > MaxKnown /\ known' = Tail(longer) /\ evicted' = evicted \cup {Head(longer)}
      \/ known' = longer /\ evicted' = evicted
  BY DEF Remember
<1> HIDE DEF longer
<1>4. CASE known' = longer /\ evicted' = evicted
  BY <1>1, <1>2, <1>4 DEF Recalled, Known
<1>5. CASE Len(longer) > MaxKnown /\ known' = Tail(longer) /\ evicted' = evicted \cup {Head(longer)}
  <2>1. Len(longer) > 0
    BY <1>1, <1>5, ScanAssumption DEF ScanAssumption
  <2>2. /\ Tail(longer) \in Seq(Objects) /\ Len(Tail(longer)) = Len(longer) - 1
        /\ Head(longer) = longer[1] /\ Head(longer) \in Objects
        /\ \A i \in 1..Len(Tail(longer)) : Tail(longer)[i] = longer[i + 1]
    BY <1>1, <2>1
  <2>3. \A i \in 1..Len(longer) :
          longer[i] = Head(longer) \/ \E j \in 1..Len(Tail(longer)) : Tail(longer)[j] = longer[i]
    <3> SUFFICES ASSUME NEW i \in 1..Len(longer), i # 1
                 PROVE  \E j \in 1..Len(Tail(longer)) : Tail(longer)[j] = longer[i]
      BY <2>2
    <3>1. i - 1 \in 1..Len(Tail(longer)) /\ (i - 1) + 1 = i
      BY <1>1, <2>2
    <3> QED
      BY <2>2, <3>1
  <2>4. ASSUME NEW x \in Objects, Known(x) \/ x = o
        PROVE  x \in evicted' \/ \E j \in 1..Len(known') : known'[j] = x
    <3>1. PICK i \in 1..Len(longer) : longer[i] = x
      BY <1>2, <2>4
    <3> QED
      BY <1>5, <2>3, <3>1
  <2> QED
    BY <1>5, <2>2, <2>4 DEF Recalled, Known
<1> QED
  BY <1>3, <1>4, <1>5

-----------------------------------------------------------------------------
(* Handle scan: what holds of who does not move.                           *)

LEMMA RecalledStays ==
  ASSUME UNCHANGED <<known, evicted>>, NEW o
  PROVE  Recalled(o)' <=> Recalled(o)
BY DEF Recalled, Known

(* LookedOK of what a thread is doing. *)
Looks(s) ==
  /\ "type_unresolved" \notin s.tags => \A t \in Types : s.type[t] # "suppressed"
  /\ s.tags = {} /\ s.at \notin {"idle", "calling"} =>
       \A o \in Objects :
         \/ o \in s.todo \cup s.settled
         \/ Recalled(o)
         \/ s.at \in {"type", "name"} /\ o = s.object
  /\ s.at = "done" => s.todo = {}

LEMMA LookedIs ==
  ASSUME NEW c \in Threads
  PROVE  LookedOK(c) <=> Looks(scan[c])
BY DEF LookedOK, Looks, Asking, Doing

LEMMA LookedThen ==
  ASSUME NEW c \in Threads, NEW new, scan'[c] = new, Looks(new),
         \A o \in Objects : Recalled(o) => Recalled(o)'
  PROVE  LookedOK(c)'
BY DEF LookedOK, Looks, Asking, Doing

(* A thread c takes a step, with workers W. *)
LEMMA ThreadKeeps ==
  ASSUME ScanInv, NEW c \in Threads, NEW new \in Scan, scan' = [scan EXCEPT ![c] = new],
         NEW W \in SUBSET Workers, worker' \in [Workers -> Worker],
         \A v \in Workers \ W : worker'[v] = worker[v],
         lock = c \/ (UNCHANGED <<persistent, known>> /\ (NobodyRetired => persistent \notin W)),
         lock' \in Threads \cup {Nobody}, lock' = lock \/ lock \in {c, Nobody},
         new.at \in Inside => lock' = c,
         persistent' \in Workers \cup {Nobody},
         known' \in Seq(Objects), evicted' \in SUBSET Objects,
         \A o \in Objects : Recalled(o) => Recalled(o)',
         \A d \in Threads \ {c} : Doing(d, "calling") =>
            /\ scan[d].worker \notin W
            /\ new.at = "calling" => scan[d].worker # new.worker,
         HoldingsOK(c)', LookedOK(c)', SharedWorkerOK', StuckOK', NothingLeaks', ThreadsBounded'
  PROVE  ScanInv'
<1>1. /\ scan \in [Threads -> Scan] /\ scan' \in [Threads -> Scan] /\ scan'[c] = new
      /\ \A d \in Threads \ {c} : scan'[d] = scan[d]
  BY DEF ScanInv, ScanTypeOK
<1>2. slots' \in Nat /\ duplicates' \in Nat
  <2>1. /\ slots' = Cardinality(Stuck')
        /\ duplicates' = Cardinality(Askers') + Cardinality(StuckScans')
    BY CountsWillBe
  <2> QED
    BY <2>1, CountsWillBe, SetsAreFinite
<1>3. ScanTypeOK'
  BY <1>1, <1>2 DEF ScanTypeOK
<1>4. ScanLockOK'
  BY <1>1, ScanAssumption DEF ScanInv, ScanLockOK, Inside, ScanAssumption
<1>5. ASSUME NEW d \in Threads \ {c}
      PROVE  HoldingsOK(d)' /\ LookedOK(d)'
  <2>1. HoldingsOK(d) /\ LookedOK(d) /\ scan'[d] = scan[d] /\ scan[d] \in Scan
    BY <1>1 DEF ScanInv
  <2>2. LookedOK(d)'
    BY <2>1, LookedIs, LookedThen
  <2>3. Doing(d, "picking") \/ Asking(d) =>
          /\ UNCHANGED <<persistent, known>>
          /\ persistent # Nobody => worker'[persistent] = worker[persistent]
    <3>1. (Doing(d, "picking") \/ Asking(d)) => lock = d /\ NobodyRetired
      BY DEF ScanInv, ScanLockOK, Doing, Asking, NobodyRetired
    <3> QED
      BY <3>1 DEF ScanInv, ScanTypeOK
  <2>4. Doing(d, "calling") => worker'[scan[d].worker] = worker[scan[d].worker]
    BY <2>1 DEF HoldingsOK
  <2>5. ASSUME Doing(d, "calling"), NEW e \in Threads \ {d}, Doing(e, "calling")'
        PROVE  scan'[e].worker # scan[d].worker
    BY <1>1, <2>1, <2>5 DEF HoldingsOK, Doing
  <2>6. HoldingsOK(d)'
    BY <2>1, <2>3, <2>4, <2>5 DEF HoldingsOK, Doing, Asking, Known
  <2> QED
    BY <2>2, <2>6
<1> QED
  BY <1>3, <1>4, <1>5 DEF ScanInv

-----------------------------------------------------------------------------
(* Handle scan: the steps of a thread that leave the workers alone.        *)

LEMMA OnlyTheThread ==
  ASSUME ScanInv, NEW c \in Threads, NEW new \in Scan, scan' = [scan EXCEPT ![c] = new],
         UNCHANGED <<persistent, worker, slots, known, duplicates, evicted>>,
         scan[c].at \notin {"type", "name", "retired", "calling"},
         new.at \notin {"type", "name", "retired", "calling"},
         lock' \in Threads \cup {Nobody}, lock' = lock \/ lock \in {c, Nobody},
         new.at \in Inside => lock' = c,
         new.at = "picking" => new.worker = persistent /\ persistent # Nobody,
         Looks(new)
  PROVE  ScanInv'
<1>1. /\ ScanTypeOK /\ SharedWorkerOK /\ StuckOK /\ NothingLeaks /\ ThreadsBounded
      /\ scan \in [Threads -> Scan] /\ scan'[c] = new /\ \A d \in Threads \ {c} : scan'[d] = scan[d]
  BY DEF ScanInv, ScanTypeOK
<1>2. \A d \in Threads : /\ Doing(d, "type")' <=> Doing(d, "type")
                         /\ Doing(d, "name")' <=> Doing(d, "name")
                         /\ Doing(d, "retired")' <=> Doing(d, "retired")
                         /\ Asking(d)' <=> Asking(d)
  BY <1>1 DEF Doing, Asking
<1>3. HoldingsOK(c)' /\ LookedOK(c)'
  <2>1. HoldingsOK(c)'
    BY <1>1 DEF HoldingsOK, Doing, Asking
  <2> QED
    BY <1>1, <2>1, RecalledStays, LookedThen
<1>4. SharedWorkerOK'
  BY <1>1, <1>2 DEF SharedWorkerOK, NobodyRetired, Serving
<1>5. StuckOK'
  BY <1>1 DEF StuckOK, Stuck, Recalled, Known
<1>6. /\ Askers' = Askers /\ Stuck' = Stuck /\ StuckScans' = StuckScans /\ ScanWorkers' = ScanWorkers
  BY <1>2 DEF Askers, Stuck, StuckScans, ScanWorkers, Alive
<1>7. NothingLeaks'
  BY <1>1, <1>6, CountsAre, CountsWillBe
<1>8. ThreadsBounded'
  <2>1. ScanThreadsBounded'
    BY <1>1, <1>6, CountsAre, CountsWillBe DEF ThreadsBounded
  <2>2. OneThreadPerObject'
    BY <1>1, <1>6 DEF ThreadsBounded, OneThreadPerObject
  <2> QED
    BY <2>1, <2>2 DEF ThreadsBounded
<1>9. \A o \in Objects : Recalled(o) => Recalled(o)'
  BY DEF Recalled, Known
<1> DEFINE W == {}
<1>10. W \in SUBSET Workers /\ (\A v \in Workers \ W : worker'[v] = worker[v]) /\ persistent \notin W
  OBVIOUS
<1>11. /\ worker' \in [Workers -> Worker] /\ persistent' \in Workers \cup {Nobody}
       /\ known' \in Seq(Objects) /\ evicted' \in SUBSET Objects
       /\ \A d \in Threads \ {c} : Doing(d, "calling") =>
            /\ scan[d].worker \notin W
            /\ new.at = "calling" => scan[d].worker # new.worker
  BY <1>1 DEF ScanTypeOK
<1> HIDE DEF W
<1> QED
  BY <1>3, <1>4, <1>5, <1>7, <1>8, <1>9, <1>10, <1>11, ThreadKeeps

(* What a scan that ends hands out. *)
LEMMA NoScanIs ==
  /\ NoScan \in Scan /\ NoScan.at = "idle" /\ NoScan.settled = {} /\ NoScan.tags = {}
  /\ NoScan.worker = Nobody /\ NoScan.object = Nobody /\ NoScan.todo = {}
  /\ \A t \in Types : NoScan.type[t] = "unset"
  /\ Looks(NoScan)
BY DEF NoScan, Scan, Looks

LEMMA FinishGives ==
  ASSUME ScanInv, NEW c \in Threads, NEW more, more \subseteq {"busy", "capped", "truncated"},
         more # {} \/ (Doing(c, "picking") /\ scan[c].todo = {}),
         Finish(c, more)
  PROVE  \E new \in Scan : scan' = [scan EXCEPT ![c] = new] /\ new.at = "done" /\ Looks(new)
<1> DEFINE all == scan[c].tags \cup more
           new == [NoScan EXCEPT !.at = "done", !.tags = all,
                                 !.settled = IF all = {} THEN scan[c].settled ELSE {}]
<1>1. scan[c] \in Scan /\ Looks(scan[c])
  BY LookedIs DEF ScanInv, ScanTypeOK
<1>2. /\ new \in Scan /\ new.at = "done" /\ new.tags = scan[c].tags \cup more
      /\ new.tags = {} => new.settled = scan[c].settled
      /\ new.type = NoScan.type /\ new.todo = {}
  BY <1>1, NoScanIs DEF Scan
<1>3. scan' = [scan EXCEPT ![c] = new]
  BY DEF Finish
<1> HIDE DEF new
<1>4. \A t \in Types : new.type[t] # "suppressed"
  BY <1>2, NoScanIs
<1>5. ASSUME new.tags = {}, NEW o \in Objects
      PROVE  o \in new.settled \/ Recalled(o)
  BY <1>1, <1>2, <1>5 DEF Looks, Doing
<1> QED
  BY <1>2, <1>3, <1>4, <1>5 DEF Looks

LEMMA ScanBusyKeeps ==
  ASSUME ScanInv, NEW c \in Threads, ScanBusy(c)
  PROVE  ScanInv'
<1>1. PICK new \in Scan :
        scan' = [scan EXCEPT ![c] = new] /\ new.at = "done" /\ Looks(new)
  BY FinishGives DEF ScanBusy
<1>2. /\ UNCHANGED <<lock, persistent, worker, slots, known, duplicates, evicted>>
      /\ scan[c].at = "idle" /\ lock \in Threads \cup {Nobody}
  BY DEF ScanBusy, Doing, ScanInv, ScanTypeOK
<1> QED
  BY <1>1, <1>2, OnlyTheThread DEF Inside

LEMMA LockScanKeeps ==
  ASSUME ScanInv, NEW c \in Threads, LockScan(c)
  PROVE  ScanInv'
<1> DEFINE new == [NoScan EXCEPT !.at = "admitted", !.todo = Objects]
<1>1. /\ new \in Scan /\ new.at = "admitted" /\ new.todo = Objects /\ new.type = NoScan.type
  BY NoScanIs DEF Scan
<1>2. /\ scan' = [scan EXCEPT ![c] = new] /\ scan[c].at = "idle" /\ lock = Nobody /\ lock' = c
      /\ UNCHANGED <<persistent, worker, slots, known, duplicates, evicted>>
  BY DEF LockScan, Doing
<1> HIDE DEF new
<1>3. Looks(new)
  BY <1>1, NoScanIs DEF Looks
<1> QED
  BY <1>1, <1>2, <1>3, OnlyTheThread

(* A scan settles some objects, and leaves others that have wedged a query or
   are of a type that was given up.                                        *)
LEMMA SkipKeeps ==
  ASSUME ScanInv, NEW c \in Threads, Doing(c, "picking"), NEW skipped \in SUBSET Objects,
         NEW settled \in SUBSET Objects,
         scan' = [scan EXCEPT ![c].todo = scan[c].todo \ skipped,
                              ![c].settled = scan[c].settled \cup settled],
         UNCHANGED <<lock, persistent, worker, slots, known, duplicates, evicted>>,
         \A x \in skipped \ settled : Known(x) \/ scan[c].type[TypeOf[x]] = "suppressed"
  PROVE  ScanInv'
<1> DEFINE new == [scan[c] EXCEPT !.todo = scan[c].todo \ skipped,
                                  !.settled = scan[c].settled \cup settled]
<1>1. /\ scan \in [Threads -> Scan] /\ scan[c] \in Scan /\ Looks(scan[c]) /\ HoldingsOK(c)
      /\ scan[c].at = "picking" /\ lock = c
  BY LookedIs DEF Doing, ScanInv, ScanTypeOK, ScanLockOK
<1>2. scan' = [scan EXCEPT ![c] = new]
  BY <1>1 DEF Scan
<1>3. /\ new \in Scan /\ new.at = "picking" /\ new.tags = scan[c].tags
      /\ new.todo = scan[c].todo \ skipped /\ new.settled = scan[c].settled \cup settled
      /\ new.type = scan[c].type /\ new.worker = scan[c].worker
  BY <1>1 DEF Scan
<1> HIDE DEF new
<1>4. Looks(new)
  <2>1. "type_unresolved" \notin new.tags => \A t \in Types : new.type[t] # "suppressed"
    BY <1>1, <1>3 DEF Looks
  <2>2. ASSUME new.tags = {}, NEW x \in Objects
        PROVE  x \in new.todo \cup new.settled \/ Recalled(x)
    <3>1. x \in scan[c].todo \cup scan[c].settled \/ Recalled(x)
      BY <1>1, <1>3, <2>2 DEF Looks
    <3>2. scan[c].type[TypeOf[x]] # "suppressed"
      BY <1>3, <2>1, <2>2 DEF Types
    <3>3. x \in skipped \ settled => Recalled(x)
      BY <3>2 DEF Recalled
    <3> QED
      BY <1>3, <3>1, <3>3
  <2> QED
    BY <1>3, <2>1, <2>2 DEF Looks
<1>5. new.worker = persistent /\ persistent # Nobody
  BY <1>1, <1>3 DEF HoldingsOK, Doing
<1> QED
  BY <1>1, <1>2, <1>3, <1>4, <1>5, OnlyTheThread

LEMMA DeniedKeeps ==
  ASSUME ScanInv, NEW c \in Threads, NEW p, Denied(c, p)
  PROVE  ScanInv'
<1>1. Held(p) \in SUBSET Objects /\ scan[c] \in Scan /\ scan \in [Threads -> Scan]
  BY DEF Held, ScanInv, ScanTypeOK
<1>2. scan' = [scan EXCEPT ![c].todo = scan[c].todo \ Held(p),
                           ![c].settled = scan[c].settled \cup Held(p)]
  BY <1>1 DEF Denied, Scan
<1>3. /\ Doing(c, "picking")
      /\ UNCHANGED <<lock, persistent, worker, slots, known, duplicates, evicted>>
  BY DEF Denied
<1> QED
  BY <1>1, <1>2, <1>3, SkipKeeps

LEMMA PassOverKeeps ==
  ASSUME ScanInv, NEW c \in Threads, NEW o \in Objects, PassOver(c, o) \/ NotDuplicated(c, o)
  PROVE  ScanInv'
<1>1. scan[c] \in Scan /\ scan \in [Threads -> Scan]
  BY DEF ScanInv, ScanTypeOK
<1>2. CASE NotDuplicated(c, o)
  <2> DEFINE settled == {o}
  <2>1. scan' = [scan EXCEPT ![c].todo = scan[c].todo \ {o},
                             ![c].settled = scan[c].settled \cup settled]
    BY <1>1, <1>2 DEF NotDuplicated, Scan
  <2>2. /\ settled \in SUBSET Objects
        /\ \A x \in {o} \ settled : Known(x) \/ scan[c].type[TypeOf[x]] = "suppressed"
    OBVIOUS
  <2> HIDE DEF settled
  <2>3. /\ Doing(c, "picking") /\ {o} \in SUBSET Objects
        /\ UNCHANGED <<lock, persistent, worker, slots, known, duplicates, evicted>>
    BY <1>2 DEF NotDuplicated
  <2> QED
    BY <2>1, <2>2, <2>3, SkipKeeps
<1>3. CASE PassOver(c, o)
  <2> DEFINE settled == IF scan[c].type[TypeOf[o]] = "suppressed" \/ Known(o) THEN {} ELSE {o}
  <2>1. scan' = [scan EXCEPT ![c].todo = scan[c].todo \ {o},
                             ![c].settled = scan[c].settled \cup settled]
    BY <1>1, <1>3 DEF PassOver, Scan
  <2>2. /\ settled \in SUBSET Objects
        /\ \A x \in {o} \ settled : Known(x) \/ scan[c].type[TypeOf[x]] = "suppressed"
    OBVIOUS
  <2> HIDE DEF settled
  <2>3. /\ Doing(c, "picking") /\ {o} \in SUBSET Objects
        /\ UNCHANGED <<lock, persistent, worker, slots, known, duplicates, evicted>>
    BY <1>3 DEF PassOver
  <2> QED
    BY <2>1, <2>2, <2>3, SkipKeeps
<1> QED
  BY <1>2, <1>3

LEMMA EndScanKeeps ==
  ASSUME ScanInv, NEW c \in Threads, EndScan(c)
  PROVE  ScanInv'
<1>1. PICK new \in Scan :
        scan' = [scan EXCEPT ![c] = new] /\ new.at = "done" /\ Looks(new)
  BY FinishGives DEF EndScan
<1>2. /\ UNCHANGED <<persistent, worker, slots, known, duplicates, evicted>>
      /\ scan[c].at = "picking" /\ lock = c /\ lock' = Nobody
  BY DEF EndScan, Doing, ScanInv, ScanLockOK
<1> QED
  BY <1>1, <1>2, OnlyTheThread DEF Inside

LEMMA ReturnKeeps ==
  ASSUME ScanInv, NEW c \in Threads, Return(c)
  PROVE  ScanInv'
<1>1. /\ UNCHANGED <<lock, persistent, worker, slots, known, duplicates, evicted>>
      /\ scan[c].at = "done" /\ lock \in Threads \cup {Nobody} /\ scan' = [scan EXCEPT ![c] = NoScan]
  BY DEF Return, Doing, ScanInv, ScanTypeOK
<1> QED
  BY <1>1, NoScanIs, OnlyTheThread DEF Inside

-----------------------------------------------------------------------------
(* Handle scan: the steps that make a worker serve or rest.                *)

LEMMA StuckStays ==
  ASSUME ScanInv, NEW w \in Workers, NEW new \in Worker, worker' = [worker EXCEPT ![w] = new],
         worker[w].state # "wedged", new.state # "wedged", UNCHANGED <<known, evicted>>,
         new.for = "call" => new.object = Nobody
  PROVE  /\ worker' \in [Workers -> Worker] /\ worker'[w] = new
         /\ \A v \in Workers \ {w} : worker'[v] = worker[v]
         /\ Stuck' = Stuck /\ StuckScans' = StuckScans
         /\ StuckOK' /\ OneThreadPerObject'
<1>1. /\ worker \in [Workers -> Worker] /\ StuckOK /\ OneThreadPerObject
      /\ worker' \in [Workers -> Worker] /\ worker'[w] = new
      /\ \A v \in Workers \ {w} : worker'[v] = worker[v]
  BY DEF ScanInv, ScanTypeOK, ThreadsBounded
<1>2. Stuck' = Stuck /\ w \notin Stuck
  BY <1>1 DEF Stuck
<1>3. StuckScans' = StuckScans
  BY <1>1, <1>2 DEF StuckScans
<1>4. StuckOK'
  BY <1>1, <1>2 DEF StuckOK, Recalled, Known
<1>5. \A v \in Stuck : worker'[v] = worker[v]
  BY <1>1, <1>2 DEF Stuck
<1>6. OneThreadPerObject'
  BY <1>1, <1>2, <1>5 DEF OneThreadPerObject
<1> QED
  BY <1>1, <1>2, <1>3, <1>4, <1>6

(* The thread that has the lock is alone inside. *)
LEMMA AloneInside ==
  ASSUME ScanInv, NEW c \in Threads, lock = c, NEW d \in Threads \ {c}
  PROVE  scan[d].at \notin Inside /\ ~Asking(d) /\ ~Doing(d, "retired") /\ ~Doing(d, "picking")
BY DEF ScanInv, ScanLockOK, Inside, Asking, Doing

LEMMA CallersServed ==
  ASSUME ScanInv, NEW d \in Threads, Doing(d, "calling")
  PROVE  /\ scan[d].worker \in Workers /\ worker[scan[d].worker].for = "call"
         /\ worker[scan[d].worker].state \in {"busy", "answered"}
BY DEF ScanInv, HoldingsOK

(* A scan goes on with its worker. *)
LEMMA ServingKeeps ==
  ASSUME ScanInv, NEW c \in Threads, scan[c].at \in {"picking", "type", "name"},
         NEW new \in Scan, scan' = [scan EXCEPT ![c] = new],
         NEW next \in Worker, worker' = [worker EXCEPT ![persistent] = next],
         UNCHANGED <<lock, persistent, slots, known, evicted>>,
         next.for = "scan", new.worker = persistent,
         \/ new.at = "picking" /\ next.state = "parked"
         \/ /\ new.at \in {"type", "name"} /\ next.state = "busy"
            /\ new.object \in Objects /\ ~Known(new.object) /\ next.object = new.object,
         Looks(new),
         \/ duplicates' = duplicates /\ scan[c].at # "picking" /\ new.at # "picking"
         \/ duplicates' = duplicates + 1 /\ scan[c].at = "picking" /\ new.at # "picking"
         \/ duplicates' = duplicates - 1 /\ scan[c].at # "picking" /\ new.at = "picking"
  PROVE  ScanInv'
<1>1. /\ ScanTypeOK /\ SharedWorkerOK /\ HoldingsOK(c) /\ NothingLeaks /\ ThreadsBounded
      /\ scan \in [Threads -> Scan] /\ scan'[c] = new /\ \A d \in Threads \ {c} : scan'[d] = scan[d]
  BY DEF ScanInv, ScanTypeOK
<1>2. lock = c /\ persistent \in Workers
  BY <1>1 DEF ScanInv, ScanLockOK, ScanTypeOK, HoldingsOK, Doing, Asking
<1>3. NobodyRetired /\ NobodyRetired'
  BY <1>1, <1>2, AloneInside DEF NobodyRetired, Doing
<1>4. Serving(persistent) /\ worker[persistent].for = "scan" /\ worker[persistent].state # "wedged"
  BY <1>1, <1>2, <1>3, ScanAssumption DEF SharedWorkerOK, Serving, ScanAssumption
<1>5. /\ worker' \in [Workers -> Worker] /\ worker'[persistent] = next
      /\ \A v \in Workers \ {persistent} : worker'[v] = worker[v]
      /\ Stuck' = Stuck /\ StuckScans' = StuckScans
      /\ StuckOK' /\ OneThreadPerObject'
  BY <1>2, <1>4, StuckStays
<1>6. ScanWorkers' = ScanWorkers
  BY <1>2, <1>4, <1>5 DEF ScanWorkers, Alive, Serving
<1>7. ThreadsBounded'
  BY <1>1, <1>5, <1>6, CountsAre, CountsWillBe DEF ThreadsBounded
<1>8. /\ \A d \in Threads \ {c} : ~Asking(d) /\ ~Asking(d)'
      /\ Asking(c) <=> scan[c].at # "picking"
      /\ Asking(c)' <=> new.at # "picking"
  BY <1>1, <1>2, AloneInside DEF Asking, Doing
<1>9. SharedWorkerOK'
  BY <1>1, <1>2, <1>3, <1>5, <1>8 DEF SharedWorkerOK, Serving
<1>10. HoldingsOK(c)' /\ LookedOK(c)'
  <2>1. LookedOK(c)'
    BY <1>1, RecalledStays, LookedThen
  <2>2. HoldingsOK(c)'
    BY <1>1, <1>2, <1>5, ScanAssumption DEF HoldingsOK, Doing, Asking, Known, ScanAssumption
  <2> QED
    BY <2>1, <2>2
<1>11. NothingLeaks'
  <2>1. Cardinality(Askers) \in Nat /\ Cardinality(StuckScans) \in Nat
    BY CountsAre, SetsAreFinite
  <2>2. CASE duplicates' = duplicates /\ scan[c].at # "picking" /\ new.at # "picking"
    <3>1. Askers' = Askers
      BY <1>8, <2>2 DEF Askers
    <3> QED
      BY <1>1, <1>5, <2>2, <3>1, CountsAre, CountsWillBe
  <2>3. CASE duplicates' = duplicates + 1 /\ scan[c].at = "picking" /\ new.at # "picking"
    <3>1. Askers' = Askers \cup {c} /\ c \notin Askers
      BY <1>8, <2>3 DEF Askers
    <3>2. Cardinality(Askers') = Cardinality(Askers) + 1
      BY <3>1, CountsAre, OneMore
    <3> QED
      BY <1>1, <1>5, <2>1, <2>3, <3>2, CountsAre, CountsWillBe
  <2>4. CASE duplicates' = duplicates - 1 /\ scan[c].at # "picking" /\ new.at = "picking"
    <3>1. Askers' = Askers \ {c} /\ c \in Askers
      BY <1>8, <2>4 DEF Askers
    <3>2. Cardinality(Askers') = Cardinality(Askers) - 1
      BY <3>1, CountsAre, OneLess
    <3> QED
      BY <1>1, <1>5, <2>1, <2>4, <3>2, CountsAre, CountsWillBe
  <2> QED
    BY <2>2, <2>3, <2>4
<1> DEFINE W == {persistent}
<1>12. /\ W \in SUBSET Workers /\ \A v \in Workers \ W : worker'[v] = worker[v]
       /\ \A d \in Threads \ {c} : Doing(d, "calling") => scan[d].worker \notin W
       /\ new.at # "calling"
  BY <1>2, <1>4, <1>5, CallersServed
<1>13. /\ lock' \in Threads \cup {Nobody} /\ lock' = c /\ persistent' \in Workers \cup {Nobody}
       /\ known' \in Seq(Objects) /\ evicted' \in SUBSET Objects
       /\ \A o \in Objects : Recalled(o) => Recalled(o)'
  BY <1>1, <1>2, RecalledStays DEF ScanTypeOK
<1> HIDE DEF W
<1> QED
  BY <1>2, <1>5, <1>7, <1>9, <1>10, <1>11, <1>12, <1>13, ThreadKeeps

(* A scan gets a new worker, when there is none. *)
LEMMA FreshKeeps ==
  ASSUME ScanInv, NEW c \in Threads, lock = c, scan[c].at \in {"admitted", "retired"},
         \A v \in Workers : ~(Serving(v) /\ worker[v].for = "scan"), SlotAvailable,
         NEW w \in Workers, Fresh(w), persistent' = w, worker' = [worker EXCEPT ![w] = Parked],
         scan' = [scan EXCEPT ![c].at = "picking", ![c].worker = w],
         UNCHANGED <<lock, slots, known, duplicates, evicted>>
  PROVE  ScanInv'
<1> DEFINE new == [scan[c] EXCEPT !.at = "picking", !.worker = w]
<1>1. /\ ScanTypeOK /\ SharedWorkerOK /\ Looks(scan[c]) /\ NothingLeaks /\ ThreadsBounded
      /\ scan \in [Threads -> Scan] /\ scan[c] \in Scan /\ worker \in [Workers -> Worker]
  BY LookedIs DEF ScanInv, ScanTypeOK
<1>2. /\ new \in Scan /\ new.at = "picking" /\ new.worker = w /\ new.settled = scan[c].settled
      /\ new.type = scan[c].type /\ new.tags = scan[c].tags /\ new.todo = scan[c].todo
  BY <1>1 DEF Scan
<1>3. scan' = [scan EXCEPT ![c] = new]
  BY <1>1
<1> HIDE DEF new
<1>4. scan'[c] = new /\ \A d \in Threads \ {c} : scan'[d] = scan[d]
  BY <1>1, <1>3
<1>5. /\ Parked \in Worker /\ Parked.state = "parked" /\ Parked.for = "scan"
      /\ worker[w].state = "none"
  BY <1>1 DEF Parked, NoWorker, Worker, Fresh, Alive
<1>6. /\ worker' \in [Workers -> Worker] /\ worker'[w] = Parked
      /\ \A v \in Workers \ {w} : worker'[v] = worker[v]
      /\ Stuck' = Stuck /\ StuckScans' = StuckScans
      /\ StuckOK' /\ OneThreadPerObject'
  BY <1>5, StuckStays
<1>7. \A d \in Threads : ~Asking(d) /\ ~Asking(d)' /\ ~Doing(d, "retired")'
  <2>1. ~Asking(c) /\ ~Asking(c)' /\ ~Doing(c, "retired")'
    BY <1>2, <1>4 DEF Asking, Doing
  <2>2. \A d \in Threads \ {c} : ~Asking(d) /\ ~Doing(d, "retired")
    BY AloneInside
  <2> QED
    BY <1>4, <2>1, <2>2 DEF Asking, Doing
<1>8. ThreadsBounded'
  <2>1. ScanWorkers \subseteq Stuck
    BY <1>1 DEF ScanWorkers, Alive, Stuck, Serving, Worker
  <2>2. Cardinality(ScanWorkers) <= slots /\ Cardinality(ScanWorkers) \in Nat /\ slots \in Nat
    BY <1>1, <2>1, CountsAre, NotMore DEF ScanTypeOK
  <2>3. ScanWorkers' = ScanWorkers \cup {w} /\ w \notin ScanWorkers
    BY <1>5, <1>6 DEF ScanWorkers, Alive
  <2>4. Cardinality(ScanWorkers') = Cardinality(ScanWorkers) + 1
    BY <2>3, CountsAre, OneMore
  <2>5. Cardinality(ScanWorkers') <= MaxWedged
    BY <2>2, <2>4, ScanAssumption DEF SlotAvailable, ScanAssumption
  <2> QED
    BY <1>6, <2>5, CountsWillBe DEF ThreadsBounded
<1>9. NothingLeaks'
  <2>1. Askers' = Askers
    BY <1>7 DEF Askers
  <2> QED
    BY <1>1, <1>6, <2>1, CountsAre, CountsWillBe
<1>10. SharedWorkerOK'
  BY <1>5, <1>6, <1>7 DEF SharedWorkerOK, Serving, NobodyRetired
<1>11. HoldingsOK(c)' /\ LookedOK(c)'
  <2>1. LookedOK(c)'
    <3>1. Looks(new)
      BY <1>1, <1>2 DEF Looks
    <3> QED
      BY <1>4, <3>1, RecalledStays, LookedThen
  <2>2. HoldingsOK(c)'
    BY <1>2, <1>4, ScanAssumption DEF HoldingsOK, Doing, Asking, ScanAssumption
  <2> QED
    BY <2>1, <2>2
<1> DEFINE W == {w}
<1>12. /\ W \in SUBSET Workers /\ \A v \in Workers \ W : worker'[v] = worker[v]
       /\ \A d \in Threads \ {c} : Doing(d, "calling") => scan[d].worker \notin W
       /\ new.at # "calling"
  BY <1>2, <1>5, <1>6, CallersServed
<1>13. /\ lock' \in Threads \cup {Nobody} /\ lock' = c /\ persistent' \in Workers \cup {Nobody}
       /\ known' \in Seq(Objects) /\ evicted' \in SUBSET Objects
       /\ \A o \in Objects : Recalled(o) => Recalled(o)'
  BY <1>1, RecalledStays DEF ScanTypeOK
<1> HIDE DEF W
<1> QED
  BY <1>2, <1>3, <1>6, <1>8, <1>9, <1>10, <1>11, <1>12, <1>13, ThreadKeeps

LEMMA AdmitKeeps ==
  ASSUME ScanInv, NEW c \in Threads, Admit(c)
  PROVE  ScanInv'
<1>1. /\ ScanTypeOK /\ SharedWorkerOK /\ Looks(scan[c]) /\ scan \in [Threads -> Scan] /\ scan[c] \in Scan
      /\ scan[c].at = "admitted" /\ lock = c /\ UNCHANGED <<slots, known, duplicates, evicted>>
  BY LookedIs DEF Admit, Doing, ScanInv, ScanTypeOK, ScanLockOK
<1>2. CASE /\ persistent # Nobody
           /\ scan' = [scan EXCEPT ![c].at = "picking", ![c].worker = persistent]
           /\ UNCHANGED <<persistent, worker, lock>>
  <2> DEFINE new == [scan[c] EXCEPT !.at = "picking", !.worker = persistent]
  <2>1. /\ new \in Scan /\ new.at = "picking" /\ new.worker = persistent /\ new.settled = scan[c].settled
        /\ new.type = scan[c].type /\ new.tags = scan[c].tags /\ new.todo = scan[c].todo
    BY <1>1, <1>2 DEF Scan, ScanTypeOK
  <2>2. scan' = [scan EXCEPT ![c] = new]
    BY <1>1, <1>2
  <2> HIDE DEF new
  <2>3. Looks(new)
    BY <1>1, <2>1 DEF Looks
  <2> QED
    BY <1>1, <1>2, <2>1, <2>2, <2>3, OnlyTheThread
<1>3. CASE /\ persistent = Nobody /\ SlotAvailable
           /\ \E w \in Workers :
                /\ Fresh(w)
                /\ persistent' = w
                /\ worker' = [worker EXCEPT ![w] = Parked]
                /\ scan' = [scan EXCEPT ![c].at = "picking", ![c].worker = w]
           /\ UNCHANGED lock
  <2>1. \A v \in Workers : ~(Serving(v) /\ worker[v].for = "scan")
    BY <1>1, <1>3, ScanAssumption DEF SharedWorkerOK, ScanAssumption
  <2> QED
    BY <1>1, <1>3, <2>1, FreshKeeps
<1>4. CASE /\ persistent = Nobody /\ ~SlotAvailable
           /\ Finish(c, {"capped"})
           /\ lock' = Nobody
           /\ UNCHANGED <<persistent, worker>>
  <2>1. PICK new \in Scan :
        scan' = [scan EXCEPT ![c] = new] /\ new.at = "done" /\ Looks(new)
    BY <1>4, FinishGives
  <2> QED
    BY <1>1, <1>4, <2>1, OnlyTheThread DEF Inside
<1> QED
  BY <1>2, <1>3, <1>4, Zenon DEF Admit

(* What a thread that is inside a scan holds. *)
LEMMA Scanning ==
  ASSUME ScanInv, NEW c \in Threads, scan[c].at \in {"picking", "type", "name"}
  PROVE  /\ ScanTypeOK /\ SharedWorkerOK /\ HoldingsOK(c) /\ Looks(scan[c])
         /\ scan \in [Threads -> Scan] /\ scan[c] \in Scan /\ worker \in [Workers -> Worker]
         /\ lock = c /\ scan[c].worker = persistent /\ persistent \in Workers
         /\ worker[persistent] \in Worker /\ worker[persistent].for = "scan"
         /\ worker[persistent].state \in {"parked", "busy", "answered"}
         /\ scan[c].at # "picking" => scan[c].object \in Objects /\ ~Known(scan[c].object)
                                      /\ worker[persistent].object = scan[c].object
<1>1. /\ ScanTypeOK /\ SharedWorkerOK /\ HoldingsOK(c) /\ Looks(scan[c]) /\ lock = c
      /\ scan \in [Threads -> Scan] /\ scan[c] \in Scan /\ worker \in [Workers -> Worker]
  BY LookedIs DEF ScanInv, ScanTypeOK, ScanLockOK
<1>2. /\ scan[c].worker = persistent /\ persistent \in Workers
      /\ scan[c].at # "picking" => scan[c].object \in Objects /\ ~Known(scan[c].object)
                                   /\ worker[persistent].object = scan[c].object
  BY <1>1 DEF HoldingsOK, Doing, Asking, ScanTypeOK
<1>3. NobodyRetired
  BY <1>1, AloneInside DEF NobodyRetired, Doing
<1> QED
  BY <1>1, <1>2, <1>3, ScanAssumption DEF SharedWorkerOK, Serving, ScanAssumption

LEMMA QueryKeeps ==
  ASSUME ScanInv, NEW c \in Threads, NEW o \in Objects, Query(c, o)
  PROVE  ScanInv'
<1> DEFINE asks == IF scan[c].type[TypeOf[o]] = "unset" THEN "type" ELSE "name"
           new == [scan[c] EXCEPT !.at = asks, !.todo = scan[c].todo \ {o}, !.object = o]
           next == [state |-> "busy", for |-> "scan", object |-> o]
<1>1. scan[c].at = "picking"
  BY DEF Query, Doing
<1>2. /\ Looks(scan[c]) /\ scan \in [Threads -> Scan] /\ scan[c] \in Scan /\ scan[c].worker = persistent
  BY <1>1, Scanning
<1>3. /\ new \in Scan /\ new.at \in {"type", "name"} /\ new.object = o /\ new.worker = persistent
      /\ new.settled = scan[c].settled /\ new.type = scan[c].type /\ new.tags = scan[c].tags
      /\ new.todo = scan[c].todo \ {o}
  BY <1>2 DEF Scan
<1>4. scan' = [scan EXCEPT ![c] = new]
  BY <1>2 DEF Query
<1>5. /\ next \in Worker /\ next.state = "busy" /\ next.for = "scan" /\ next.object = o
      /\ worker' = [worker EXCEPT ![persistent] = next]
  BY <1>2 DEF Query, Ask, Worker
<1>6. /\ UNCHANGED <<lock, persistent, slots, known, evicted>> /\ ~Known(o)
      /\ duplicates' = duplicates + 1
  BY DEF Query
<1> HIDE DEF new, next, asks
<1>7. Looks(new)
  BY <1>1, <1>2, <1>3 DEF Looks
<1> QED
  BY <1>1, <1>3, <1>4, <1>5, <1>6, <1>7, ServingKeeps

LEMMA ParkedIs == Parked \in Worker /\ Parked.state = "parked" /\ Parked.for = "scan"
BY DEF Parked, NoWorker, Worker

LEMMA TypeKnownKeeps ==
  ASSUME ScanInv, NEW c \in Threads, TypeKnown(c)
  PROVE  ScanInv'
<1> DEFINE o == scan[c].object
<1>1. scan[c].at = "type"
  BY DEF TypeKnown, Doing
<1>2. /\ Looks(scan[c]) /\ scan \in [Threads -> Scan] /\ scan[c] \in Scan /\ scan[c].worker = persistent
      /\ o \in Objects /\ ~Known(o) /\ UNCHANGED <<lock, persistent, slots, known, evicted>>
  BY <1>1, Scanning DEF TypeKnown
<1>3. TypeOf[o] \in Types
  BY <1>2 DEF Types
<1>4. CASE /\ scan' = [scan EXCEPT ![c].at = "name", ![c].type[TypeOf[o]] = "file"]
           /\ Ask(scan[c].worker, "scan", o)
           /\ UNCHANGED duplicates
  <2> DEFINE types == [scan[c].type EXCEPT ![TypeOf[o]] = "file"]
             new == [scan[c] EXCEPT !.at = "name", !.type = types]
             next == [state |-> "busy", for |-> "scan", object |-> o]
  <2>1. /\ types \in [Types -> {"unset", "file", "other", "unnamed", "suppressed"}]
        /\ \A t \in Types : types[t] = "suppressed" => scan[c].type[t] = "suppressed"
    BY <1>2, <1>3 DEF Scan
  <2>2. scan' = [scan EXCEPT ![c] = new]
    BY <1>2, <1>4 DEF Scan
  <2> HIDE DEF types
  <2>3. /\ new \in Scan /\ new.at = "name" /\ new.object = o /\ new.worker = persistent
        /\ new.settled = scan[c].settled /\ new.type = types /\ new.tags = scan[c].tags
        /\ new.todo = scan[c].todo
    BY <1>2, <2>1 DEF Scan
  <2>4. /\ next \in Worker /\ next.state = "busy" /\ next.for = "scan" /\ next.object = o
        /\ worker' = [worker EXCEPT ![persistent] = next]
    BY <1>2, <1>4 DEF Ask, Worker
  <2> HIDE DEF new, next
  <2>5. Looks(new)
    BY <1>1, <1>2, <2>1, <2>3 DEF Looks
  <2> QED
    BY <1>1, <1>2, <1>4, <2>2, <2>3, <2>4, <2>5, ServingKeeps
<1>5. ASSUME NEW type \in {"other", "unnamed"},
             scan' = [scan EXCEPT ![c].at = "picking", ![c].type[TypeOf[o]] = type,
                                  ![c].object = Nobody, ![c].settled = @ \cup {o}],
             worker' = [worker EXCEPT ![scan[c].worker] = Parked],
             duplicates' = duplicates - 1
      PROVE  ScanInv'
  <2> DEFINE types == [scan[c].type EXCEPT ![TypeOf[o]] = type]
             new == [scan[c] EXCEPT !.at = "picking", !.type = types, !.object = Nobody,
                                    !.settled = scan[c].settled \cup {o}]
  <2>1. /\ types \in [Types -> {"unset", "file", "other", "unnamed", "suppressed"}]
        /\ \A t \in Types : types[t] = "suppressed" => scan[c].type[t] = "suppressed"
    BY <1>2, <1>3, <1>5 DEF Scan
  <2>2. scan' = [scan EXCEPT ![c] = new]
    BY <1>2, <1>5 DEF Scan
  <2> HIDE DEF types
  <2>3. /\ new \in Scan /\ new.at = "picking" /\ new.worker = persistent
        /\ new.settled = scan[c].settled \cup {o} /\ new.type = types /\ new.tags = scan[c].tags
        /\ new.todo = scan[c].todo
    BY <1>2, <2>1 DEF Scan
  <2> HIDE DEF new
  <2>4. Looks(new)
    BY <1>1, <1>2, <2>1, <2>3 DEF Looks
  <2> QED
    BY <1>1, <1>2, <1>5, <2>2, <2>3, <2>4, ParkedIs, ServingKeeps
<1>6. CASE /\ \E type \in {"other", "unnamed"} :
                scan' = [scan EXCEPT ![c].at = "picking", ![c].type[TypeOf[o]] = type,
                                     ![c].object = Nobody, ![c].settled = @ \cup {o}]
           /\ worker' = [worker EXCEPT ![scan[c].worker] = Parked]
           /\ duplicates' = duplicates - 1
  BY <1>5, <1>6
<1> QED
  BY <1>4, <1>6, Zenon DEF TypeKnown

LEMMA NameKnownKeeps ==
  ASSUME ScanInv, NEW c \in Threads, NameKnown(c)
  PROVE  ScanInv'
<1>o. PICK o : o = scan[c].object
  OBVIOUS
<1>1. scan[c].at = "name"
  BY DEF NameKnown, Doing
<1>2. /\ Looks(scan[c]) /\ scan \in [Threads -> Scan] /\ scan[c] \in Scan /\ scan[c].worker = persistent
      /\ UNCHANGED <<lock, persistent, slots, known, evicted>> /\ duplicates' = duplicates - 1
      /\ worker' = [worker EXCEPT ![persistent] = Parked] /\ o \in Objects
  BY <1>1, <1>o, Scanning DEF NameKnown
<1>3. PICK gone \in SUBSET Objects, told \in SUBSET Objects :
        /\ o \in told /\ gone \subseteq told
        /\ scan' = [scan EXCEPT ![c].at = "picking", ![c].object = Nobody,
                                ![c].todo = scan[c].todo \ gone,
                                ![c].settled = scan[c].settled \cup told]
  <2>1. CASE scan' = [scan EXCEPT ![c].at = "picking", ![c].object = Nobody,
                                  ![c].settled = scan[c].settled \cup {o}]
    <3>1. [scan[c] EXCEPT !.at = "picking", !.object = Nobody, !.settled = scan[c].settled \cup {o}]
          = [scan[c] EXCEPT !.at = "picking", !.object = Nobody, !.todo = scan[c].todo \ {},
                            !.settled = scan[c].settled \cup {o}]
      <4>1. scan[c].todo \ {} = scan[c].todo
        OBVIOUS
      <4> QED
        BY <1>2, <4>1 DEF Scan
    <3>2. scan' = [scan EXCEPT ![c].at = "picking", ![c].object = Nobody,
                               ![c].todo = scan[c].todo \ {}, ![c].settled = scan[c].settled \cup {o}]
      BY <1>2, <2>1, <3>1
    <3> QED
      BY <1>2, <3>2
  <2>2. CASE scan' = [scan EXCEPT ![c].at = "picking", ![c].object = Nobody,
                                  ![c].todo = scan[c].todo \ Held(HolderOf[o]),
                                  ![c].settled = scan[c].settled \cup Held(HolderOf[o])]
    <3>1. Held(HolderOf[o]) \in SUBSET Objects /\ o \in Held(HolderOf[o])
      BY <1>2 DEF Held
    <3> QED
      BY <2>2, <3>1
  <2> QED
    BY <1>2, <1>o, <2>1, <2>2 DEF NameKnown, Scan
<1> DEFINE new == [scan[c] EXCEPT !.at = "picking", !.object = Nobody,
                                  !.todo = scan[c].todo \ gone,
                                  !.settled = scan[c].settled \cup told]
<1>4. scan' = [scan EXCEPT ![c] = new]
  BY <1>2, <1>3 DEF Scan
<1>5. /\ new \in Scan /\ new.at = "picking" /\ new.worker = persistent
      /\ new.todo = scan[c].todo \ gone /\ new.settled = scan[c].settled \cup told
      /\ new.type = scan[c].type /\ new.tags = scan[c].tags
  BY <1>2 DEF Scan
<1> HIDE DEF new
<1>6. Looks(new)
  BY <1>1, <1>2, <1>3, <1>5, <1>o DEF Looks
<1> QED
  BY <1>1, <1>2, <1>4, <1>5, <1>6, ParkedIs, ServingKeeps

LEMMA ReplaceKeeps ==
  ASSUME ScanInv, NEW c \in Threads, Replace(c)
  PROVE  ScanInv'
<1>1. /\ SharedWorkerOK /\ scan[c].at = "retired" /\ lock = c /\ SlotAvailable /\ ~NobodyRetired
      /\ UNCHANGED <<lock, slots, known, duplicates, evicted>>
  BY DEF Replace, Doing, ScanInv, ScanLockOK, NobodyRetired
<1>2. \A v \in Workers : ~(Serving(v) /\ worker[v].for = "scan")
  BY <1>1 DEF SharedWorkerOK
<1>3. PICK w \in Workers :
        /\ Fresh(w)
        /\ persistent' = w
        /\ worker' = [worker EXCEPT ![w] = Parked]
        /\ scan' = [scan EXCEPT ![c].at = "picking", ![c].worker = w]
  BY DEF Replace
<1> QED
  BY <1>1, <1>2, <1>3, FreshKeeps

LEMMA StopCappedKeeps ==
  ASSUME ScanInv, NEW c \in Threads, StopCapped(c)
  PROVE  ScanInv'
<1>1. /\ ScanTypeOK /\ SharedWorkerOK /\ StuckOK /\ NothingLeaks /\ ThreadsBounded
      /\ scan \in [Threads -> Scan] /\ scan[c].at = "retired" /\ lock = c
      /\ persistent' = Nobody /\ lock' = Nobody
      /\ UNCHANGED <<worker, slots, known, duplicates, evicted>> /\ ~NobodyRetired
  BY DEF StopCapped, Doing, ScanInv, ScanTypeOK, ScanLockOK, NobodyRetired
<1>2. PICK new \in Scan :
        scan' = [scan EXCEPT ![c] = new] /\ new.at = "done" /\ Looks(new)
  BY FinishGives DEF StopCapped
<1>3. scan'[c] = new /\ \A d \in Threads \ {c} : scan'[d] = scan[d]
  BY <1>1, <1>2
<1>4. HoldingsOK(c)' /\ LookedOK(c)'
  <2>1. HoldingsOK(c)'
    BY <1>1, <1>2, <1>3 DEF HoldingsOK, Doing, Asking
  <2> QED
    BY <1>1, <1>2, <1>3, <2>1, RecalledStays, LookedThen
<1>5. SharedWorkerOK'
  BY <1>1 DEF SharedWorkerOK, Serving
<1>6. StuckOK'
  BY <1>1 DEF StuckOK, Stuck, Recalled, Known
<1>7. \A d \in Threads : Asking(d)' <=> Asking(d)
  BY <1>1, <1>2, <1>3 DEF Asking, Doing
<1>8. Askers' = Askers /\ Stuck' = Stuck /\ StuckScans' = StuckScans /\ ScanWorkers' = ScanWorkers
  BY <1>1, <1>7 DEF Askers, Stuck, StuckScans, ScanWorkers, Alive
<1>9. NothingLeaks' /\ ScanThreadsBounded'
  BY <1>1, <1>8, CountsAre, CountsWillBe DEF ThreadsBounded
<1>10. ThreadsBounded'
  BY <1>1, <1>8, <1>9 DEF ThreadsBounded, OneThreadPerObject
<1> DEFINE W == {}
<1>11. /\ W \in SUBSET Workers /\ (\A v \in Workers \ W : worker'[v] = worker[v])
       /\ \A d \in Threads \ {c} : Doing(d, "calling") => scan[d].worker \notin W
  BY <1>1
<1>12. /\ worker' \in [Workers -> Worker] /\ new.at \notin Inside /\ new.at # "calling"
       /\ known' \in Seq(Objects) /\ evicted' \in SUBSET Objects
       /\ \A o \in Objects : Recalled(o) => Recalled(o)'
  BY <1>1, <1>2, RecalledStays DEF ScanTypeOK, Inside
<1> HIDE DEF W
<1> QED
  BY <1>1, <1>2, <1>4, <1>5, <1>6, <1>9, <1>10, <1>11, <1>12, ThreadKeeps

-----------------------------------------------------------------------------
(* Handle scan: the steps that lose a worker, or get it back.              *)

(* A worker is stuck in the question it has been asked. *)
LEMMA RetireSticks ==
  ASSUME ScanInv, NEW w \in Workers, Retire(w), evicted' \in SUBSET Objects, evicted \subseteq evicted',
         \A o \in Objects : Recalled(o) => Recalled(o)',
         NEW q, q = worker[w].object,
         worker[w].for = "scan" => q \in Objects /\ ~Known(q) /\ Recalled(q)'
  PROVE  /\ worker' \in [Workers -> Worker] /\ worker[w].state = "busy"
         /\ worker'[w].state = "wedged" /\ worker'[w].for = worker[w].for
         /\ \A v \in Workers \ {w} : worker'[v] = worker[v]
         /\ slots' = Cardinality(Stuck')
         /\ StuckScans' = IF worker[w].for = "scan" THEN StuckScans \cup {w} ELSE StuckScans
         /\ w \notin StuckScans
         /\ StuckOK' /\ ThreadsBounded'
<1>1. /\ worker \in [Workers -> Worker] /\ worker[w] \in Worker /\ StuckOK /\ ThreadsBounded
      /\ NothingLeaks /\ worker[w].state = "busy" /\ slots' = slots + 1
      /\ worker' = [worker EXCEPT ![w].state = "wedged"]
  BY DEF ScanInv, ScanTypeOK, Retire
<1> DEFINE next == [worker[w] EXCEPT !.state = "wedged"]
<1>2. /\ next \in Worker /\ next.state = "wedged" /\ next.for = worker[w].for
      /\ next.object = worker[w].object
  BY <1>1 DEF Worker
<1>3. worker' = [worker EXCEPT ![w] = next]
  BY <1>1
<1> HIDE DEF next
<1>4. /\ worker' \in [Workers -> Worker] /\ worker'[w] = next
      /\ \A v \in Workers \ {w} : worker'[v] = worker[v]
  BY <1>1, <1>2, <1>3
<1>5. Stuck' = Stuck \cup {w} /\ w \notin Stuck
  BY <1>1, <1>2, <1>4 DEF Stuck
<1>6. slots' = Cardinality(Stuck')
  BY <1>1, <1>5, CountsAre, OneMore
<1>8. \A v \in Stuck : worker'[v] = worker[v]
  BY <1>4, <1>5 DEF Stuck
<1>7. /\ StuckScans' = IF worker[w].for = "scan" THEN StuckScans \cup {w} ELSE StuckScans
      /\ w \notin StuckScans
  <2>1. StuckScans' = {v \in Stuck \cup {w} : worker'[v].for = "scan"}
    BY <1>5 DEF StuckScans
  <2>2. worker'[w].for = worker[w].for
    BY <1>2, <1>4
  <2> QED
    BY <1>5, <1>8, <2>1, <2>2 DEF StuckScans
<1>9. StuckOK'
  <2>1. ASSUME NEW v \in Workers, NEW x, x = worker'[v].object
        PROVE  /\ worker'[v].for = "call" => x = Nobody
               /\ (v \in Stuck' /\ worker'[v].for = "scan") => (x \in Objects /\ Recalled(x)')
    <3>1. CASE v = w
      <4>1. worker'[v].for = worker[w].for /\ x = q
        BY <1>2, <1>4, <2>1, <3>1
      <4> QED
        BY <1>1, <4>1 DEF StuckOK
    <3>2. CASE v # w
      <4>1. /\ worker'[v] = worker[v] /\ (v \in Stuck' <=> v \in Stuck)
        BY <1>4, <1>5, <3>2
      <4>2. /\ worker[v].for = "call" => x = Nobody
            /\ (v \in Stuck /\ worker[v].for = "scan") => (x \in Objects /\ Recalled(x))
        BY <1>1, <2>1, <4>1 DEF StuckOK, Recalled, Known
      <4> QED
        BY <4>1, <4>2
    <3> QED
      BY <3>1, <3>2
  <2> QED
    BY <2>1 DEF StuckOK, Recalled, Known
<1>10. OneThreadPerObject'
  <2> SUFFICES ASSUME NEW u \in Stuck', NEW v \in Stuck', worker'[u].for = "scan",
                      worker'[u].object = worker'[v].object, u # v
               PROVE  worker'[u].object \in evicted'
    BY DEF OneThreadPerObject
  <2>1. CASE u \in Stuck /\ v \in Stuck
    BY <1>1, <1>8, <2>1 DEF ThreadsBounded, OneThreadPerObject
  <2>2. CASE u = w
    <3>1. v \in Stuck /\ v \in Workers /\ worker'[v] = worker[v] /\ worker[v] \in Worker
      BY <1>1, <1>5, <1>8, <2>2 DEF Stuck
    <3>2. q \in Objects /\ worker[v].object = q /\ ~Known(q)
      BY <1>2, <1>4, <2>2, <3>1
    <3>3. worker[v].for = "scan"
      BY <1>1, <3>1, <3>2, ScanAssumption DEF StuckOK, Worker, ScanAssumption
    <3> QED
      BY <1>1, <1>2, <1>4, <2>2, <3>1, <3>2, <3>3 DEF StuckOK, Recalled
  <2>3. CASE u # w /\ v = w
    <3>1. u \in Stuck /\ u \in Workers /\ worker'[u] = worker[u]
      BY <1>5, <1>8, <2>3 DEF Stuck
    <3>2. worker[u].object = q /\ worker[u].object \in Objects /\ Recalled(worker[u].object)
      BY <1>1, <1>2, <1>4, <2>3, <3>1 DEF StuckOK
    <3>3. worker[w].for = "scan"
      BY <1>1, <3>2, ScanAssumption DEF StuckOK, Worker, ScanAssumption
    <3> QED
      BY <3>1, <3>2, <3>3 DEF Recalled
  <2> QED
    BY <1>5, <2>1, <2>2, <2>3
<1>11. ScanThreadsBounded'
  <2>1. ScanWorkers' = ScanWorkers
    BY <1>1, <1>2, <1>4 DEF ScanWorkers, Alive
  <2> QED
    BY <1>1, <2>1, CountsAre, CountsWillBe DEF ThreadsBounded
<1> QED
  BY <1>1, <1>2, <1>4, <1>6, <1>7, <1>9, <1>10, <1>11 DEF ThreadsBounded

LEMMA GiveUpQueryKeeps ==
  ASSUME ScanInv, NEW c \in Threads, GiveUpQuery(c)
  PROVE  ScanInv'
<1>o. PICK o : o = scan[c].object
  OBVIOUS
<1> DEFINE type == IF Doing(c, "type") THEN "suppressed" ELSE scan[c].type[TypeOf[o]]
           types == [scan[c].type EXCEPT ![TypeOf[o]] = type]
           marks == IF Doing(c, "type") THEN scan[c].tags \cup {"type_unresolved"} ELSE scan[c].tags
           capped == slots + 1 >= MaxWedged
           new == [scan[c] EXCEPT !.at = "retired", !.object = Nobody, !.capped = capped,
                                  !.type = types, !.tags = marks]
<1>1. scan[c].at \in {"type", "name"}
  BY DEF GiveUpQuery, Doing
<1>2. /\ ScanTypeOK /\ SharedWorkerOK /\ Looks(scan[c]) /\ NothingLeaks
      /\ scan \in [Threads -> Scan] /\ scan[c] \in Scan
      /\ scan[c].worker = persistent /\ persistent \in Workers /\ lock = c
      /\ o \in Objects /\ ~Known(o) /\ worker[persistent].object = o
      /\ worker[persistent].for = "scan"
      /\ UNCHANGED <<lock, persistent, duplicates>>
  BY <1>1, <1>o, Scanning DEF GiveUpQuery, ScanInv
<1>3. Retire(persistent) /\ Remember(o)
  BY <1>2, <1>o DEF GiveUpQuery
<1>4. /\ known' \in Seq(Objects) /\ evicted' \in SUBSET Objects
      /\ \A x \in Objects : Recalled(x) => Recalled(x)'
      /\ Recalled(o)' /\ evicted \subseteq evicted'
  BY <1>2, <1>3, RememberRecalls DEF ScanTypeOK
<1>5. /\ worker' \in [Workers -> Worker] /\ worker[persistent].state = "busy"
      /\ worker'[persistent].state = "wedged"
      /\ \A v \in Workers \ {persistent} : worker'[v] = worker[v]
      /\ slots' = Cardinality(Stuck')
      /\ StuckScans' = StuckScans \cup {persistent} /\ persistent \notin StuckScans
      /\ StuckOK' /\ ThreadsBounded'
  <2>1. PICK w \in Workers : w = persistent
    BY <1>2
  <2> QED
    BY <1>2, <1>3, <1>4, <2>1, RetireSticks
<1>6. /\ types \in [Types -> {"unset", "file", "other", "unnamed", "suppressed"}]
      /\ marks \in SUBSET {"busy", "capped", "truncated", "type_unresolved"}
      /\ "type_unresolved" \notin marks =>
           "type_unresolved" \notin scan[c].tags /\ types = scan[c].type
      /\ marks = {} => scan[c].tags = {}
  <2>1. TypeOf[o] \in Types
    BY <1>2 DEF Types
  <2>2. type \in {"unset", "file", "other", "unnamed", "suppressed"}
    BY <1>2, <2>1 DEF Scan
  <2> QED
    BY <1>2, <2>1, <2>2 DEF Scan
<1>7. scan' = [scan EXCEPT ![c] = new]
  BY <1>2, <1>o DEF GiveUpQuery, Scan
<1> HIDE DEF types, marks, type
<1>8. capped \in BOOLEAN
  OBVIOUS
<1> HIDE DEF capped
<1>9. /\ new \in Scan /\ new.at = "retired" /\ new.settled = scan[c].settled
      /\ new.type = types /\ new.tags = marks /\ new.todo = scan[c].todo
  BY <1>2, <1>6, <1>8 DEF Scan
<1> HIDE DEF new
<1>10. scan'[c] = new /\ \A d \in Threads \ {c} : scan'[d] = scan[d]
  BY <1>2, <1>7
<1>11. LookedOK(c)'
  <2>1. "type_unresolved" \notin new.tags => \A t \in Types : new.type[t] # "suppressed"
    BY <1>2, <1>6, <1>9 DEF Looks
  <2>2. ASSUME new.tags = {}, NEW x \in Objects
        PROVE  x \in new.todo \cup new.settled \/ Recalled(x)'
    <3>1. scan[c].tags = {}
      BY <1>6, <1>9, <2>2
    <3>2. x \in scan[c].todo \cup scan[c].settled \/ Recalled(x) \/ x = o
      BY <1>1, <1>2, <1>o, <3>1, <2>2 DEF Looks
    <3> QED
      BY <1>4, <1>9, <3>2
  <2> QED
    BY <1>9, <1>10, <2>1, <2>2 DEF LookedOK, Doing
<1>12. HoldingsOK(c)'
  BY <1>9, <1>10 DEF HoldingsOK, Doing, Asking
<1>13. ~NobodyRetired'
  BY <1>9, <1>10 DEF NobodyRetired, Doing
<1>14. SharedWorkerOK'
  BY <1>2, <1>5, <1>13 DEF SharedWorkerOK, Serving
<1>15. NothingLeaks'
  <2>1. \A d \in Threads \ {c} : Asking(d)' <=> Asking(d)
    BY <1>10 DEF Asking, Doing
  <2>2. Askers' = Askers \ {c} /\ c \in Askers
    BY <1>1, <1>9, <1>10, <2>1 DEF Askers, Asking, Doing
  <2>3. Cardinality(Askers') = Cardinality(Askers) - 1 /\ Cardinality(Askers) \in Nat
    BY <2>2, CountsAre, OneLess, SetsAreFinite
  <2>4. Cardinality(StuckScans') = Cardinality(StuckScans) + 1 /\ Cardinality(StuckScans) \in Nat
    BY <1>5, CountsAre, OneMore, SetsAreFinite
  <2> QED
    BY <1>2, <1>5, <2>3, <2>4, CountsAre, CountsWillBe
<1> DEFINE W == {persistent}
<1>16. /\ W \in SUBSET Workers /\ (\A v \in Workers \ W : worker'[v] = worker[v])
       /\ \A d \in Threads \ {c} : Doing(d, "calling") => scan[d].worker \notin W
       /\ new.at # "calling" /\ lock' \in Threads \cup {Nobody} /\ lock' = c
       /\ persistent' \in Workers \cup {Nobody}
  BY <1>2, <1>5, <1>9, CallersServed
<1> HIDE DEF W
<1> QED
  BY <1>2, <1>4, <1>5, <1>7, <1>9, <1>11, <1>12, <1>14, <1>15, <1>16, ThreadKeeps

(* A bounded call begins or ends, and leaves the scans alone. *)
LEMMA CallKeeps ==
  ASSUME ScanInv, NEW c \in Threads, scan[c].at \in {"idle", "calling"},
         NEW new \in Scan, new.at \in {"idle", "calling"}, scan' = [scan EXCEPT ![c] = new],
         NEW w \in Workers, worker' \in [Workers -> Worker],
         \A v \in Workers \ {w} : worker'[v] = worker[v],
         worker[w].state = "none" \/ worker[w].for = "call",
         worker'[w].state = "none" \/ worker'[w].for = "call",
         UNCHANGED <<lock, persistent, known, duplicates, evicted>>,
         \A d \in Threads \ {c} : Doing(d, "calling") => scan[d].worker # w,
         new.at = "calling" => new.worker = w,
         slots' = Cardinality(Stuck'), StuckScans' = StuckScans,
         HoldingsOK(c)', LookedOK(c)', StuckOK', ThreadsBounded'
  PROVE  ScanInv'
<1>1. /\ ScanTypeOK /\ SharedWorkerOK /\ NothingLeaks
      /\ scan \in [Threads -> Scan] /\ scan'[c] = new /\ \A d \in Threads \ {c} : scan'[d] = scan[d]
  BY DEF ScanInv, ScanTypeOK
<1>2. \A d \in Threads : /\ Asking(d)' <=> Asking(d)
                         /\ Doing(d, "retired")' <=> Doing(d, "retired")
  BY <1>1 DEF Asking, Doing
<1>3. NobodyRetired => persistent # w
  BY <1>1, ScanAssumption DEF SharedWorkerOK, Serving, ScanAssumption
<1>4. SharedWorkerOK'
  BY <1>1, <1>2, <1>3 DEF SharedWorkerOK, Serving, NobodyRetired, ScanTypeOK
<1>5. NothingLeaks'
  <2>1. Askers' = Askers
    BY <1>2 DEF Askers
  <2> QED
    BY <1>1, <2>1, CountsAre, CountsWillBe
<1> DEFINE W == {w}
<1>6. /\ W \in SUBSET Workers /\ (\A v \in Workers \ W : worker'[v] = worker[v])
      /\ NobodyRetired => persistent \notin W
      /\ \A d \in Threads \ {c} : Doing(d, "calling") =>
            /\ scan[d].worker \notin W
            /\ new.at = "calling" => scan[d].worker # new.worker
  BY <1>3
<1>7. /\ lock' \in Threads \cup {Nobody} /\ lock' = lock /\ new.at \notin Inside
      /\ persistent' \in Workers \cup {Nobody}
      /\ known' \in Seq(Objects) /\ evicted' \in SUBSET Objects
      /\ \A o \in Objects : Recalled(o) => Recalled(o)'
  BY <1>1, RecalledStays DEF ScanTypeOK, Inside
<1> HIDE DEF W
<1> QED
  BY <1>4, <1>5, <1>6, <1>7, ThreadKeeps

(* Fewer scan threads are alive, if any. *)
LEMMA FewerThreads ==
  ASSUME ScanInv, ScanWorkers' \subseteq ScanWorkers, OneThreadPerObject'
  PROVE  ThreadsBounded'
<1>1. Cardinality(ScanWorkers) <= MaxWedged
  BY CountsAre DEF ScanInv, ThreadsBounded
<1>2. Cardinality(ScanWorkers') <= MaxWedged
  BY <1>1, CountsAre, NotMore, ScanAssumption DEF ScanAssumption
<1> QED
  BY <1>2, CountsWillBe DEF ThreadsBounded

LEMMA BoundedCallKeeps ==
  ASSUME ScanInv, NEW c \in Threads, NEW w \in Workers, BoundedCall(c, w)
  PROVE  ScanInv'
<1> DEFINE new == [scan[c] EXCEPT !.at = "calling", !.worker = w]
           next == [state |-> "busy", for |-> "call", object |-> Nobody]
<1>1. /\ scan \in [Threads -> Scan] /\ scan[c] \in Scan /\ Looks(scan[c]) /\ NothingLeaks
      /\ scan[c].at = "idle" /\ worker[w].state = "none"
      /\ worker' = [worker EXCEPT ![w] = next]
      /\ UNCHANGED <<lock, persistent, slots, known, duplicates, evicted>>
  BY LookedIs DEF BoundedCall, Doing, Fresh, Alive, Ask, ScanInv, ScanTypeOK
<1>2. scan' = [scan EXCEPT ![c] = new]
  BY <1>1 DEF BoundedCall
<1>3. /\ new \in Scan /\ new.at = "calling" /\ new.worker = w
      /\ new.type = scan[c].type /\ new.tags = scan[c].tags
  BY <1>1 DEF Scan
<1>4. next \in Worker /\ next.state = "busy" /\ next.for = "call" /\ next.object = Nobody
  BY DEF Worker
<1> HIDE DEF new, next
<1>5. /\ worker' \in [Workers -> Worker] /\ worker'[w] = next
      /\ \A v \in Workers \ {w} : worker'[v] = worker[v]
      /\ Stuck' = Stuck /\ StuckScans' = StuckScans
      /\ StuckOK' /\ OneThreadPerObject'
  BY <1>1, <1>4, StuckStays
<1>6. scan'[c] = new /\ \A d \in Threads \ {c} : scan'[d] = scan[d]
  BY <1>1, <1>2
<1>7. \A d \in Threads \ {c} : Doing(d, "calling") => scan[d].worker # w
  BY <1>1, CallersServed
<1>8. HoldingsOK(c)'
  BY <1>3, <1>4, <1>5, <1>6, <1>7 DEF HoldingsOK, Doing, Asking
<1>9. LookedOK(c)'
  <2>1. Looks(new)
    BY <1>1, <1>3 DEF Looks
  <2> QED
    BY <1>1, <1>6, <2>1, RecalledStays, LookedThen
<1>10. ScanWorkers' \subseteq ScanWorkers
  BY <1>4, <1>5 DEF ScanWorkers, Alive
<1>11. slots' = Cardinality(Stuck')
  BY <1>1, <1>5, CountsAre
<1>12. ThreadsBounded'
  BY <1>5, <1>10, FewerThreads
<1>13. /\ scan[c].at \in {"idle", "calling"} /\ new.at \in {"idle", "calling"}
       /\ worker[w].state = "none" \/ worker[w].for = "call"
       /\ worker'[w].state = "none" \/ worker'[w].for = "call"
       /\ new.at = "calling" => new.worker = w
       /\ StuckScans' = StuckScans /\ StuckOK' /\ worker' \in [Workers -> Worker]
       /\ \A v \in Workers \ {w} : worker'[v] = worker[v]
       /\ UNCHANGED <<lock, persistent, known, duplicates, evicted>>
  BY <1>1, <1>3, <1>4, <1>5
<1>14. new \in Scan
  BY <1>3
<1> QED
  BY <1>2, <1>7, <1>8, <1>9, <1>11, <1>12, <1>13, <1>14, CallKeeps

LEMMA CallReturnsKeeps ==
  ASSUME ScanInv, NEW c \in Threads, CallReturns(c)
  PROVE  ScanInv'
<1> DEFINE w == scan[c].worker
<1>1. /\ NothingLeaks /\ HoldingsOK(c) /\ scan \in [Threads -> Scan] /\ scan[c].at = "calling"
      /\ worker' = [worker EXCEPT ![w] = NoWorker] /\ scan' = [scan EXCEPT ![c] = NoScan]
      /\ UNCHANGED <<lock, persistent, slots, known, duplicates, evicted>>
  BY DEF CallReturns, Doing, ScanInv, ScanTypeOK
<1>2. /\ w \in Workers /\ worker[w].for = "call" /\ worker[w].state # "wedged"
      /\ \A d \in Threads \ {c} : Doing(d, "calling") => scan[d].worker # w
  BY <1>1 DEF HoldingsOK, Doing
<1> HIDE DEF w
<1>3. NoWorker \in Worker /\ NoWorker.state = "none" /\ NoWorker.for = "scan"
  BY DEF NoWorker, Worker
<1>4. /\ worker' \in [Workers -> Worker] /\ worker'[w] = NoWorker
      /\ \A v \in Workers \ {w} : worker'[v] = worker[v]
      /\ Stuck' = Stuck /\ StuckScans' = StuckScans
      /\ StuckOK' /\ OneThreadPerObject'
  BY <1>1, <1>2, <1>3, StuckStays
<1>5. HoldingsOK(c)' /\ LookedOK(c)'
  <2>1. scan'[c] = NoScan
    BY <1>1
  <2> QED
    BY <2>1, NoScanIs DEF HoldingsOK, LookedOK, Doing, Asking
<1>6. ScanWorkers' \subseteq ScanWorkers
  BY <1>3, <1>4 DEF ScanWorkers, Alive
<1>7. slots' = Cardinality(Stuck')
  BY <1>1, <1>4, CountsAre
<1> QED
  BY <1>1, <1>2, <1>3, <1>4, <1>5, <1>6, <1>7, NoScanIs, FewerThreads, CallKeeps

LEMMA GiveUpCallKeeps ==
  ASSUME ScanInv, NEW c \in Threads, GiveUpCall(c)
  PROVE  ScanInv'
<1> DEFINE w == scan[c].worker
<1>1. /\ HoldingsOK(c) /\ scan \in [Threads -> Scan] /\ scan[c].at = "calling"
      /\ Retire(w) /\ scan' = [scan EXCEPT ![c] = NoScan] /\ evicted \in SUBSET Objects
      /\ UNCHANGED <<lock, persistent, known, duplicates, evicted>>
  BY DEF GiveUpCall, Doing, ScanInv, ScanTypeOK
<1>2. /\ w \in Workers /\ worker[w].for = "call"
      /\ \A d \in Threads \ {c} : Doing(d, "calling") => scan[d].worker # w
  BY <1>1 DEF HoldingsOK, Doing
<1> HIDE DEF w
<1>3. \A o \in Objects : Recalled(o) => Recalled(o)'
  BY <1>1, RecalledStays
<1>4. /\ worker' \in [Workers -> Worker] /\ worker'[w].for = "call"
      /\ \A v \in Workers \ {w} : worker'[v] = worker[v]
      /\ slots' = Cardinality(Stuck') /\ StuckScans' = StuckScans
      /\ StuckOK' /\ ThreadsBounded'
  BY <1>1, <1>2, <1>3, RetireSticks
<1>5. HoldingsOK(c)' /\ LookedOK(c)'
  <2>1. scan'[c] = NoScan
    BY <1>1
  <2> QED
    BY <2>1, NoScanIs DEF HoldingsOK, LookedOK, Doing, Asking
<1> QED
  BY <1>1, <1>2, <1>4, <1>5, NoScanIs, CallKeeps

-----------------------------------------------------------------------------
(* Handle scan: what the query threads do by themselves.                   *)

LEMMA AnswerKeeps ==
  ASSUME ScanInv, NEW w \in Workers, Answer(w)
  PROVE  ScanInv'
<1> DEFINE next == [worker[w] EXCEPT !.state = "answered"]
<1>1. /\ ScanTypeOK /\ ScanLockOK /\ SharedWorkerOK /\ StuckOK /\ NothingLeaks /\ ThreadsBounded
      /\ worker \in [Workers -> Worker] /\ worker[w] \in Worker /\ worker[w].state = "busy"
      /\ worker' = [worker EXCEPT ![w].state = "answered"]
      /\ UNCHANGED <<lock, persistent, slots, known, duplicates, scan, evicted>>
  BY DEF Answer, ScanInv, ScanTypeOK
<1>2. /\ next \in Worker /\ next.state = "answered" /\ next.for = worker[w].for
      /\ next.object = worker[w].object /\ worker' = [worker EXCEPT ![w] = next]
  BY <1>1 DEF Worker
<1> HIDE DEF next
<1>3. /\ worker' \in [Workers -> Worker] /\ worker'[w] = next
      /\ \A v \in Workers \ {w} : worker'[v] = worker[v]
      /\ Stuck' = Stuck /\ StuckScans' = StuckScans
      /\ StuckOK' /\ OneThreadPerObject'
  BY <1>1, <1>2, StuckStays DEF StuckOK
<1>4. ScanTypeOK' /\ ScanLockOK'
  BY <1>1, <1>3 DEF ScanTypeOK, ScanLockOK
<1>5. \A d \in Threads : /\ Asking(d)' <=> Asking(d)
                         /\ Doing(d, "retired")' <=> Doing(d, "retired")
  BY <1>1 DEF Asking, Doing
<1>6. \A v \in Workers : /\ worker'[v].for = worker[v].for /\ worker'[v].object = worker[v].object
                         /\ worker[v].state # "busy" => worker'[v].state = worker[v].state
                         /\ worker[v].state = "busy" => worker'[v].state \in {"busy", "answered"}
  BY <1>1, <1>2, <1>3
<1>7. SharedWorkerOK'
  <2>1. \A v \in Workers : Serving(v)' <=> Serving(v)
    BY <1>6 DEF Serving
  <2>2. NobodyRetired' <=> NobodyRetired
    BY <1>5 DEF NobodyRetired
  <2>3. persistent # Nobody => persistent \in Workers
    BY <1>1 DEF ScanTypeOK
  <2> QED
    BY <1>1, <1>5, <1>6, <2>1, <2>2, <2>3 DEF SharedWorkerOK, Serving
<1>8. ASSUME NEW c \in Threads
      PROVE  HoldingsOK(c)' /\ LookedOK(c)'
  <2>1. HoldingsOK(c) /\ LookedOK(c) /\ (persistent # Nobody => persistent \in Workers)
    BY <1>1 DEF ScanInv, ScanTypeOK
  <2>2. LookedOK(c)'
    BY <1>1, <2>1 DEF LookedOK, Recalled, Known, Asking, Doing
  <2>3. HoldingsOK(c)'
    BY <1>1, <1>6, <2>1 DEF HoldingsOK, Doing, Asking, Known
  <2> QED
    BY <2>2, <2>3
<1>9. ScanWorkers' \subseteq ScanWorkers
  BY <1>6 DEF ScanWorkers, Alive
<1>10. ThreadsBounded'
  BY <1>3, <1>9, FewerThreads
<1>11. NothingLeaks'
  <2>1. Askers' = Askers
    BY <1>5 DEF Askers
  <2> QED
    BY <1>1, <1>3, <2>1, CountsAre, CountsWillBe
<1> QED
  BY <1>3, <1>4, <1>7, <1>8, <1>10, <1>11 DEF ScanInv

LEMMA StragglerKeeps ==
  ASSUME ScanInv, NEW w \in Workers, Straggler(w)
  PROVE  ScanInv'
<1>1. /\ ScanTypeOK /\ ScanLockOK /\ SharedWorkerOK /\ StuckOK /\ NothingLeaks /\ ThreadsBounded
      /\ worker \in [Workers -> Worker] /\ worker[w].state = "wedged"
      /\ worker' = [worker EXCEPT ![w] = NoWorker]
      /\ slots' = slots - 1
      /\ duplicates' = IF worker[w].for = "scan" THEN duplicates - 1 ELSE duplicates
      /\ UNCHANGED <<lock, persistent, known, scan, evicted>>
  BY DEF Straggler, ScanInv, ScanTypeOK
<1>2. NoWorker \in Worker /\ NoWorker.state = "none" /\ NoWorker.for = "scan"
  BY DEF NoWorker, Worker
<1>3. /\ worker' \in [Workers -> Worker] /\ worker'[w] = NoWorker
      /\ \A v \in Workers \ {w} : worker'[v] = worker[v]
  BY <1>1, <1>2
<1>4. Stuck' = Stuck \ {w} /\ w \in Stuck
  BY <1>1, <1>2, <1>3 DEF Stuck
<1>5. \A v \in Stuck' : v \in Stuck /\ worker'[v] = worker[v]
  BY <1>3, <1>4 DEF Stuck
<1>6. slots' = Cardinality(Stuck')
  BY <1>1, <1>4, CountsAre, OneLess
<1>7. StuckScans' = StuckScans \ {w} /\ (w \in StuckScans <=> worker[w].for = "scan")
  BY <1>4, <1>5 DEF StuckScans
<1>8. \A d \in Threads : /\ Asking(d)' <=> Asking(d)
                         /\ Doing(d, "retired")' <=> Doing(d, "retired")
  BY <1>1 DEF Asking, Doing
<1>9. Cardinality(Askers) \in Nat /\ Cardinality(StuckScans) \in Nat /\ Cardinality(Stuck) \in Nat
      /\ Cardinality(StuckScans') \in Nat /\ Cardinality(Stuck') \in Nat
  BY CountsAre, CountsWillBe, SetsAreFinite
<1>10. duplicates' = Cardinality(Askers') + Cardinality(StuckScans')
  <2>1. Askers' = Askers
    BY <1>8 DEF Askers
  <2>2. CASE worker[w].for = "scan"
    <3>1. Cardinality(StuckScans') = Cardinality(StuckScans) - 1
      BY <1>7, <2>2, CountsAre, OneLess
    <3> QED
      BY <1>1, <1>9, <2>1, <2>2, <3>1, CountsAre
  <2>3. CASE worker[w].for # "scan"
    <3>1. StuckScans' = StuckScans
      BY <1>7, <2>3
    <3> QED
      BY <1>1, <2>1, <2>3, <3>1, CountsAre
  <2> QED
    BY <2>2, <2>3
<1>11. NothingLeaks'
  BY <1>6, <1>10, CountsWillBe
<1>12. ScanTypeOK'
  <2>1. Cardinality(Askers') \in Nat
    BY CountsWillBe, SetsAreFinite
  <2> QED
    BY <1>1, <1>3, <1>6, <1>9, <1>10, <2>1 DEF ScanTypeOK
<1>13. ScanLockOK'
  BY <1>1 DEF ScanLockOK
<1>14. SharedWorkerOK'
  <2>1. \A v \in Workers : v # w => (Serving(v)' <=> Serving(v))
    BY <1>3 DEF Serving
  <2>2. ~Serving(w) /\ ~Serving(w)'
    BY <1>1, <1>2, <1>3 DEF Serving
  <2>3. NobodyRetired' <=> NobodyRetired
    BY <1>8 DEF NobodyRetired
  <2>4. persistent # Nobody => persistent \in Workers
    BY <1>1 DEF ScanTypeOK
  <2> QED
    BY <1>1, <1>3, <1>8, <2>1, <2>2, <2>3, <2>4 DEF SharedWorkerOK, Serving
<1>15. ASSUME NEW c \in Threads
       PROVE  HoldingsOK(c)' /\ LookedOK(c)'
  <2>1. HoldingsOK(c) /\ LookedOK(c) /\ (persistent # Nobody => persistent \in Workers)
    BY <1>1 DEF ScanInv, ScanTypeOK
  <2>2. LookedOK(c)'
    BY <1>1, <2>1 DEF LookedOK, Recalled, Known, Asking, Doing
  <2>3. HoldingsOK(c)'
    BY <1>1, <1>3, <2>1 DEF HoldingsOK, Doing, Asking, Known
  <2> QED
    BY <2>2, <2>3
<1>16. StuckOK'
  <2>1. ASSUME NEW v \in Workers \ {w}
        PROVE  /\ worker'[v].for = "call" => worker'[v].object = Nobody
               /\ (v \in Stuck' /\ worker'[v].for = "scan") =>
                    (worker[v].object \in Objects /\ Recalled(worker[v].object))
    BY <1>1, <1>3, <1>5 DEF StuckOK
  <2> QED
    BY <1>1, <1>2, <1>3, <1>4, <2>1 DEF StuckOK, Recalled, Known
<1>17. OneThreadPerObject'
  BY <1>1, <1>5 DEF ThreadsBounded, OneThreadPerObject
<1>18. ThreadsBounded'
  <2>1. ScanWorkers' \subseteq ScanWorkers
    BY <1>2, <1>3 DEF ScanWorkers, Alive
  <2> QED
    BY <1>17, <2>1, FewerThreads
<1> QED
  BY <1>11, <1>12, <1>13, <1>14, <1>15, <1>16, <1>18 DEF ScanInv

-----------------------------------------------------------------------------
(* Handle scan: the theorems.                                              *)

LEMMA ScanStarts == ScanInit => ScanInv
<1> SUFFICES ASSUME ScanInit PROVE ScanInv
  OBVIOUS
<1>1. NoWorker \in Worker /\ NoWorker.state = "none" /\ NoWorker.for = "scan"
  BY DEF NoWorker, Worker
<1>2. /\ \A w \in Workers : worker[w] = NoWorker
      /\ \A c \in Threads : scan[c] = NoScan
  BY DEF ScanInit
<1>3. ScanTypeOK
  BY <1>1, NoScanIs DEF ScanInit, ScanTypeOK
<1>4. ScanLockOK /\ SharedWorkerOK /\ StuckOK
  BY <1>1, <1>2, NoScanIs DEF ScanInit, ScanLockOK, SharedWorkerOK, StuckOK, Stuck, Serving
<1>5. \A c \in Threads : HoldingsOK(c) /\ LookedOK(c)
  BY <1>2, NoScanIs DEF HoldingsOK, LookedOK, Doing, Asking
<1>6. Stuck = {} /\ StuckScans = {} /\ ScanWorkers = {} /\ Askers = {}
  BY <1>1, <1>2, NoScanIs DEF Stuck, StuckScans, ScanWorkers, Alive, Askers, Asking, Doing
<1>7. Cardinality({}) = 0
  BY FS_EmptySet
<1>8. NothingLeaks /\ ThreadsBounded
  <2>1. NothingLeaks
    BY <1>6, <1>7, CountsAre DEF ScanInit
  <2>2. ScanThreadsBounded
    BY <1>6, <1>7, CountsAre, ScanAssumption DEF ScanAssumption
  <2>3. OneThreadPerObject
    BY <1>6 DEF OneThreadPerObject
  <2> QED
    BY <2>1, <2>2, <2>3 DEF ThreadsBounded
<1> QED
  BY <1>3, <1>4, <1>5, <1>8 DEF ScanInv

LEMMA ScanStepKeeps ==
  ASSUME ScanInv, NEW c \in Threads, ScanStep(c)
  PROVE  ScanInv'
<1>1. CASE ScanBusy(c) \/ LockScan(c) \/ Admit(c)
  BY <1>1, ScanBusyKeeps, LockScanKeeps, AdmitKeeps
<1>2. CASE \/ \E p \in Holders : Denied(c, p)
           \/ \E o \in Objects : PassOver(c, o) \/ NotDuplicated(c, o) \/ Query(c, o)
  BY <1>2, DeniedKeeps, PassOverKeeps, QueryKeeps
<1>3. CASE TypeKnown(c) \/ NameKnown(c) \/ GiveUpQuery(c)
  BY <1>3, TypeKnownKeeps, NameKnownKeeps, GiveUpQueryKeeps
<1>4. CASE Replace(c) \/ StopCapped(c) \/ EndScan(c) \/ Return(c)
  BY <1>4, ReplaceKeeps, StopCappedKeeps, EndScanKeeps, ReturnKeeps
<1>5. CASE CallReturns(c) \/ GiveUpCall(c) \/ \E w \in Workers : BoundedCall(c, w)
  BY <1>5, CallReturnsKeeps, GiveUpCallKeeps, BoundedCallKeeps
<1> QED
  BY <1>1, <1>2, <1>3, <1>4, <1>5 DEF ScanStep

LEMMA ScanKeeps == ScanInv /\ [ScanNext]_scanVars => ScanInv'
<1> SUFFICES ASSUME ScanInv, [ScanNext]_scanVars
             PROVE  ScanInv'
  OBVIOUS
<1>1. ASSUME NEW c \in Threads, ScanStep(c)
      PROVE  ScanInv'
  BY <1>1, ScanStepKeeps
<1>2. ASSUME NEW w \in Workers, Answer(w) \/ Straggler(w)
      PROVE  ScanInv'
  BY <1>2, AnswerKeeps, StragglerKeeps
<1>3. CASE UNCHANGED scanVars
  BY <1>3 DEF scanVars, ScanInv, ScanTypeOK, ScanLockOK, SharedWorkerOK, NobodyRetired, Serving,
              StuckOK, Stuck, Recalled, Known, HoldingsOK, LookedOK, Asking, Doing, NothingLeaks,
              SlotsExact, HandlesAccounted, ThreadsBounded, ScanThreadsBounded, Alive,
              OneThreadPerObject
<1> QED
  BY <1>1, <1>2, <1>3 DEF ScanNext

(* The scans keep their inductive invariant: types, who has the lock, whom the
   shared worker serves, what a thread holds, what a stuck worker remembers. *)
THEOREM ScanInvariant == ScanSpec => []ScanInv
<1> QED
  BY ScanStarts, ScanKeeps, PTL DEF ScanSpec

(* Whatever the number of threads, objects and late answers: each slot and
   each duplicated handle that a query takes is given back exactly once.   *)
THEOREM NothingIsLeaked == ScanSpec => []NothingLeaks
<1>1. ScanInv => NothingLeaks
  BY DEF ScanInv
<1> QED
  BY <1>1, ScanInvariant, PTL

(* The query threads of scans never exceed the cap, and an object that is
   still remembered has not wedged a second one.                           *)
THEOREM ThreadsStayBounded == ScanSpec => []ThreadsBounded
<1>1. ScanInv => ThreadsBounded
  BY DEF ScanInv
<1> QED
  BY <1>1, ScanInvariant, PTL

(* A scan that says it is complete has settled every object but those that
   wedged a query themselves: it has an answer about it, or the system refused
   one, which it does not tell.                                            *)
THEOREM CompleteScansLooked == ScanSpec => []CompleteScanLooked
<1>1. ScanInv => CompleteScanLooked
  <2> SUFFICES ASSUME ScanInv, NEW c \in Threads, Doing(c, "done"), scan[c].tags = {},
                      NEW o \in Objects
               PROVE  o \in scan[c].settled \/ Known(o) \/ o \in evicted
    BY DEF CompleteScanLooked
  <2>1. o \in scan[c].settled \/ Recalled(o)
    BY DEF ScanInv, LookedOK, Doing, Asking
  <2> QED
    BY <2>1 DEF Recalled
<1> QED
  BY <1>1, ScanInvariant, PTL
=============================================================================
