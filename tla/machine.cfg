CONSTANTS
  Parts = {"database", "backups", "rotation", "shell", "tokens", "connect", "accounts", "drafts", "routes", "desk"}
  Restores = 2
  Works = 2
  DbFaults = 2
  Files = 3
  Days = 1
  Writes = 2
  Imports = 1
  Swaps = 1
  BackupFaults = 1
  Daily = 7
  Weekly = 4
  WeekLen = 7
  Monthly = 3
  MonthLen = 30
  Ages = {0, 6, 7, 13, 14, 34, 35, 64, 124, 125}
  Clicks = 4
  Refreshers = {r1, r2}
  Companies = {"A", "B"}
  Grants = 3
  TokenFaults = 2
  Attempts = 3
  Realms = {"A", "B"}
  Orgs = {"x"}
  RealOrgs = {"x"}
  Callers = {"queue", "approve"}
  Connects = 2
  Toggles = 2
  MaxWritten = 1
  Requests = {"w"}
  Texts = {"a", "b"}
  DraftFaults = {"lost", "create refused", "read", "crash"}
  DraftTroubles = 2
  MaxReplies = 2
  MaxCopies = 3
  Numbers = {1}
  Strays = {2}
  MaxExcs = 3
  MaxFlights = 2
SPECIFICATION Spec
INVARIANTS
  TypeOK
  HistoryKept
  SameInstall
  RotationPolicy
  RoutesAgree
  ReconnectHolds
  AccountsHold
  DraftsHold
  DeskHolds
PROPERTIES
  LastOneStays
  RestoresAtOnce
CHECK_DEADLOCK FALSE
