CONSTANTS
  p1 = p1
  p2 = p2
  i1 = i1
  i2 = i2
  t1 = t1
  t2 = t2
  ours = ours
  other = other
  Proposals = {p1, p2}
  Tickets = {t1, t2}
  Invoices = {i1, i2}
  Altered = Altered
  InitialDraft <- OneDraft
  Unrenderable = {p2}
  Companies = {ours}
  Expected = ours
  NoTicket = NoTicket
  NoInvoice = NoInvoice
  NoJob = NoJob
  Rejectable = {}
  Retryable = {}
  OwnerCloses = FALSE
  Remaps = {}
  HandInvoices = {i1, i2}
  Garbling = TRUE
  MaxBills = 2
SYMMETRY TicketSymmetry
SPECIFICATION Spec
INVARIANTS
  PostingIsRealBill
  OneLiveLease
  CreateTransmittedOnce
