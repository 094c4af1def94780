CONSTANTS
  Parts = {"database", "shell", "tokens", "connect", "jobs", "posting", "documents"}
  Restores = 1
  Works = 1
  DbFaults = 2
  Files = 1
  Days = 0
  Writes = 1
  Imports = 0
  Swaps = 0
  BackupFaults = 0
  Daily = 7
  Weekly = 4
  WeekLen = 7
  Monthly = 3
  MonthLen = 30
  Ages = {0}
  Clicks = 4
  Refreshers = {r1}
  Companies = {"A", "B"}
  Grants = 3
  TokenFaults = 2
  Attempts = 3
  Realms = {"A", "B"}
  Orgs = {"x"}
  RealOrgs = {"x"}
  Callers = {"queue", "approve"}
  Connects = 0
  Toggles = 2
  MaxWritten = 1
  Requests = {"w"}
  Texts = {"a", "b"}
  DraftFaults = {"lost", "create refused", "read", "crash"}
  DraftTroubles = 3
  MaxReplies = 2
  MaxCopies = 3
  Numbers = {1}
  Strays = {2}
  MaxExcs = 3
  MaxFlights = 2
  Drafts = {p1}
  Ours = ours
  Tickets = {t1}
  Invoices = {i1, i2}
  Altered = Altered
  NoTicket = NoTicket
  NoInvoice = NoInvoice
  NoJob = NoJob
  Workers = {w1}
  NoProposal = NoProposal
  NoKey = NoKey
  PostFaults = 3
  Papers = {p}
  Dispatchers = {c, s}
  Mishaps = 2
SPECIFICATION ProgressSpec
PROPERTIES
  ComesBack
  FlowsEnd
  ApprovalEnds
  InterruptedSettles
  DispatchEnds
CHECK_DEADLOCK FALSE
