CONSTANTS
  Parts = {"mailroom", "documents", "proposals", "mappings", "review", "nights", "alerts", "bills"}
  Mails = 2
  Enclosures = {p, q, b}
  Loads = {{p}, {p, q, b}}
  Oversized = {b}
  Recent = 1
  Page = 2
  FirstPolls = {TRUE, FALSE}
  Releases = 2
  Deaths = 1
  Papers = {p}
  Dispatchers = {c, s}
  Lines = {l1, l2}
  Txns = {t}
  Queued = 2
  Corrections = 1
  Mishaps = 2
  Bills = {p}
  Bodies = {}
  Readings = {"fine", "odd"}
  Doubtful = {"odd"}
  Together = 1
  MaxRows = 2
  Troubles = 1
  Companies = {"A", "B"}
  Codes = {"k", "m"}
  Ids = {"x", "y"}
  Proposers = {"queue", "dry"}
  MaxTax = 2
  MaxDims = 2
  Changes = 3
  Rows = {1, 2}
  Tabs = {x}
  Runs = 2
  Clicks = 2
  Exports = 1
  Meddling = 1
  Days = 1
  MaxLog = 1
  Retries = 1
  NightMishaps = 2
  Risks = {r, r2}
  Redeliveries = 1
  Breaks = 3
  Providers = {"qbo", "xero", "qbd"}
  Amounts = {1, 2}
  Total = 3
  MaxLines = 2
  Values = {"k"}
  Extra = {0, 2}
  MaxTries = 2
  Hands = 1
  Edits = 1
SPECIFICATION Spec
INVARIANTS
  TypeOK
  RelayHolds
  DocumentsHold
  ProposalsHold
  MappingsHold
  ReviewHolds
  
  BillsHold
CHECK_DEADLOCK FALSE
