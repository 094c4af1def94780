CONSTANTS
  p1 = p1
  p2 = p2
  i1 = i1
  i2 = i2
  w1 = w1
  w2 = w2
  Altered = Altered
  NoProposal = NoProposal
  NoKey = NoKey
  Proposals = {p1}
  Workers = {w1, w2}
  Invoices = {i1, i2}
  InitialDraft <- OneDraft
  Sha <- OwnSha
  Rejectable = {p1}
  Redrafts = {i1, i2}
  MaxRedrafts = 1
  HandInvoices = {}
  Faults = {"crash", "lost", "refused"}
  MaxFaults = 2
  MaxBills = 2
SYMMETRY WorkerSymmetry
SPECIFICATION Spec
INVARIANTS
  OneBillPerProposal
  OnlyOfferedDrafts
  BillOnRecord
  OnlySlowerRunsDemote
CHECK_DEADLOCK FALSE
