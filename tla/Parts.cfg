SPECIFICATION PartsSpec
CONSTANTS
  Tracees = {t1, t2, t3}
  Trees <- MCTrees
  Configs <- MCConfigs
  Sources <- MCSources
  HostMounts <- MCHostMounts
  Targets <- MCTargets
  Pivots <- MCPivots
  Renames <- MCRenames
  Failing = FALSE
  MaxSteps = 4
  MaxSymlinks = 4
  Procs = {p1, p2, p3}
  First = p1
  Requests = {"traceme", "attach", "options", "cont", "syscall", "detach", "kill"}
  MaxCalls = 4
  MaxSignals = 1
  IdxMod = 4
  GenMod = 8
  MaxObjects = 3
  MaxRemovals = 3
  Arches = {arm64, x86_64}
  ARCH_ARM64 = arm64
  MaxTaps = 2
  Memory = {1, 2, 3, 4}
  Top = 0
  MaxAllocs = 5
  Users = {u1, u2}
  Ids = {0, 1, 2}
  FileCalls <- MCFileCalls
  MaxIdCalls = 3
  MaxIdMixed = 1
  MaxFileCalls = 3
  GuestNames = {a, b, c}
  Contents = {x, y}
  NoContent = NoContent
  Linkers = {p, q}
  RenameFlags = {"none", "noreplace", "exchange"}
  Careless = {}
  MaxSuffix = 3
  CountBase = 5
  MaxLinkCalls = 6
  Files <- MCFiles
  Width <- MCWidth
  PageSize = 16
  WordSize = 8
  StackTop = 4096
  ExecBase = 256
  InterpBase = 512
  MaxShebangs = 4
  Guests = {g1, g2}
  Boot = g1
  Commands <- MCCommands
  Sizes = {17}
  Racing = FALSE
  MaxLoadCalls = 5
  MaxReply = 30
  RoomFor = 13
  SpareFor = 3
  HeadSize = 4
  DoneSize = 3
  ErrorSize = 4
  MaxSeen = 4
  NetUsers = {n1, n2}
  NetRoot = n1
  Fds = {0, 1, 2}
  Sockets = {1, 2}
  MaxFakeFds = 2
  Loose = {}
  MaxNetCalls = 6
  UserIds = {"n1", "main1"}
  MadeUpIds <- MCMadeUpIds
  MainId = "main"
  Slips = {}
  MaxTerminals = 3
INVARIANTS
  PartsTypeOK LookupIsRight EmulationShows NamesFollow AlgorithmsAgree PtraceesKept
  NoEventMissed RootFaked LinksKept ProgramsAndHeaps NetlinkActs SessionsKept
  LookupIsExact RunningIsRegistered EveryVmWasAskedFor
PROPERTIES OwnersDecide ActsAsHardLinks
CHECK_DEADLOCK FALSE
