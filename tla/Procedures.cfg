SPECIFICATION MCSpec
CONSTANTS
  MaxMischief = 2
  Threads = {t1, t2}  Callers = {t2}  MaxThreads = 3  Objects = {o1, o2}  TypeOf <- MCTypeOf
  HolderOf <- MCHolderOf
  MaxWedged = 2  MaxKnown = 1  Nobody = Nobody  o1 = o1  o2 = o2  FileType = FileType
  Pids = {host, parent, pid, kid}  Host = host  Parent <- MCParent  NoParent = NoParent
  Views <- MCViews  host = host  parent = parent  pid = pid  kid = kid
  Installers = {c1, c2}  Worktrees = {w1, w2}  Main = Main  Keys = {k1}  Paths = {p1}
  NoOne = NoOne
  Steps = 3
  Second = 2  Tenths = {0, 1, 2, 3, 4}  Lag = 2
  Ids = {i1, i2}  Repos = {r1, r2}  RepoOf <- MCRepoOf  Branches = {umlaut, plain}
  Garbled = {garbled}  Garbles <- MCGarbles  Ascii = {plain}  NoBranch = NoBranch
  Answering = {r1}  Healers = {h1}  MaxChanges = 2
  i1 = i1  i2 = i2  r1 = r1  r2 = r2  umlaut = umlaut  plain = plain  garbled = garbled
  Roles = {main, db}  StepNames = {default, web}  Default = default  NoName = NoName
  MaxSteps = 3
INVARIANTS
  ProceduresInv
  StepsOncePerLife NothingLeaks ThreadsBounded OnlyBlockersKilled CompleteIsTrue
  RegistryExact StepByStep TimeIsShared OwnershipKept VariantsAgree
PROPERTIES
  WorkRespected ImplementsPromise RemovedInTheEnd ClonesLoseNothing RunEnds HealLosesNothing
  HealedInTheEnd
CHECK_DEADLOCK FALSE
