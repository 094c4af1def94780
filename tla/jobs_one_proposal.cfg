CONSTANTS
  p1 = p1
  p2 = p2
  i1 = i1
  i2 = i2
  t1 = t1
  t2 = t2
  ours = ours
  other = other
  Proposals = {p1}
  Tickets = {t1, t2}
  Invoices = {i1}
  Altered = Altered
  InitialDraft <- OneDraft
  Unrenderable = {}
  Companies = {ours, other}
  Expected = ours
  NoTicket = NoTicket
  NoInvoice = NoInvoice
  NoJob = NoJob
  Rejectable = {p1}
  Retryable = {"preflight", "create", "read_back", "adoption", "probe"}
  OwnerCloses = TRUE
  Remaps = {i1}
  HandInvoices = {i1}
  Garbling = FALSE
  MaxBills = 2
SYMMETRY TicketSymmetry
SPECIFICATION Spec
INVARIANTS
  TypeOK
  NoOrphanBill
  ExpectedCompanyOnly
  FinalizedTogether
PROPERTIES
  UncertainOnlyAdopted
  PostsOnce
