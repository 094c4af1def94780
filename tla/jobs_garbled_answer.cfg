CONSTANTS
  p1 = p1
  p2 = p2
  i1 = i1
  i2 = i2
  t1 = t1
  t2 = t2
  ours = ours
  other = other
  Proposals = {p1}
  Tickets = {t1}
  Invoices = {i1}
  Altered = Altered
  InitialDraft <- OneDraft
  Unrenderable = {}
  Companies = {ours}
  Expected = ours
  NoTicket = NoTicket
  NoInvoice = NoInvoice
  NoJob = NoJob
  Rejectable = {}
  Retryable = {"preflight", "create", "read_back", "adoption", "probe"}
  OwnerCloses = FALSE
  Remaps = {}
  HandInvoices = {}
  Garbling = TRUE
  MaxBills = 2
SPECIFICATION Spec
INVARIANTS
  AtMostOneCreate
