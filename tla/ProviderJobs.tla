---------------------------- MODULE ProviderJobs ----------------------------
(***************************************************************************)
(* Durable QuickBooks Desktop posting jobs.                                *)
(*                                                                         *)
(* The table provider_jobs is the only authority on QuickBooks Desktop     *)
(* work (src/qbdesktop/durable-jobs.ts).  An approval inserts a preflight  *)
(* query; the QuickBooks Web Connector opens a session, proves which       *)
(* company file is open, leases the oldest queued job, is handed its qbXML *)
(* and later brings the answer back (src/qbdesktop/production.ts).  The    *)
(* answer of one stage queues the next: preflight, create, read-back.      *)
(* What a session remembers lives in process memory and dies with it; what *)
(* the connector was handed may still be executed afterwards.              *)
(*                                                                         *)
(* One tenant with one Desktop connection: the transport is bound to one   *)
(* (tenant, connection) pair by configuration and every statement filters  *)
(* on it.                                                                  *)
(***************************************************************************)
EXTENDS Naturals, Sequences, FiniteSets

CONSTANTS
  Proposals,     \* proposals that a person may approve
  Tickets,       \* Web Connector tickets; a ticket is a fresh UUID, so one is
                 \* reused only when neither side remembers anything of it
  Invoices,      \* vendor / reference / date / amount of a bill
  Altered,       \* the contents of a bill somebody edited inside QuickBooks
  InitialDraft,  \* the transaction each proposal proposes at first
  Unrenderable,  \* proposals qbdBillInput refuses (currency, dimensions, no vendor)
  Companies,     \* company files that may be open in QuickBooks
  Expected,      \* the company the connection is bound to
  NoTicket, NoInvoice, NoJob,
  Rejectable,    \* bound: proposals a person may reject
  Retryable,     \* bound: stages whose jobs a person retries
  OwnerCloses,   \* bound: may the owner close and open the write gate?
  Remaps,        \* bound: invoices a person may turn a proposal into
  HandInvoices,  \* bound: invoices a bookkeeper handles in QuickBooks directly
  Garbling,      \* may an answer arrive without any readable status?
  MaxBills       \* bound: bills in the company files

ASSUME ProposalsFinite == IsFiniteSet(Proposals)
ASSUME CompanyAssumption == Expected \in Companies
ASSUME DraftAssumption == InitialDraft \in [Proposals -> Invoices]
ASSUME NullAssumption ==
  /\ NoTicket \notin Tickets
  /\ NoInvoice \notin Invoices /\ Altered \notin Invoices /\ Altered # NoInvoice
  /\ "hand" \notin Proposals
ASSUME BoundAssumption == MaxBills \in Nat
ASSUME FlagAssumption == Garbling \in BOOLEAN /\ Unrenderable \subseteq Proposals

(***************************************************************************)
(* The idempotency key of a job is a hash of tenant, connection, proposal, *)
(* operation and source key, and is unique.  The source keys name the      *)
(* stage and the parent, so a job is a proposal and a stage.               *)
(***************************************************************************)
Stages   == {"preflight", "create", "read_back", "adoption", "probe"}
JobKeys  == [proposal : Proposals, stage : Stages]
Key(p, s) == [proposal |-> p, stage |-> s]
Statuses == {"absent", "queued", "leased", "sent", "succeeded", "failed", "held"}
Errors   == {"none", "UNCERTAIN_OUTCOME", "COMPANY_IDENTITY_MISMATCH",
             "REVIEW", "PROVIDER"}

ASSUME KeyAssumption == NoJob \notin JobKeys
ASSUME InputAssumption ==
  /\ Rejectable \subseteq Proposals /\ Retryable \subseteq Stages /\ OwnerCloses \in BOOLEAN
  /\ Remaps \subseteq Invoices /\ HandInvoices \subseteq Invoices

VARIABLES
  jobs,      \* provider_jobs: key -> row, "absent" before it is inserted
  proposal,  \* proposals: status and proposed_txn
  posting,   \* postings_ap: proposal -> external id, 0 when there is no row
  gate,      \* the owner's write gate in connections.metadata
  sess,      \* a session in server memory: QbwcSession, ActiveLease, pendingCompany
  wire,      \* what the Web Connector holds for a ticket
  books      \* the bills in QuickBooks, in order of TxnID

dbVars   == <<jobs, proposal, posting, gate>>
vars     == <<jobs, proposal, posting, gate, sess, wire, books>>

BillIds == 1 .. MaxBills
Rows == [status : Statuses, error : Errors, token : Tickets \cup {NoTicket},
         lease : {"none", "live", "expired"}, born : Nat,
         ext : 0 .. MaxBills, txn : Invoices \cup {NoInvoice}]
Sessions == [phase : {"closed", "identify", "leasing", "leased", "sent"},
             job : JobKeys \cup {NoJob}]
Messages == [kind : {"none", "company", "request", "accepted", "rejected"},
             job : JobKeys \cup {NoJob}, file : Companies, found : SUBSET BillIds]
Bills == [invoice : Invoices \cup {Altered},
          creator : Proposals \cup {"hand"}, company : Companies]

TypeOK ==
  /\ jobs \in [JobKeys -> Rows]
  /\ proposal \in [Proposals -> [status : {"ready", "rejected", "posted"}, draft : Invoices]]
  /\ posting \in [Proposals -> 0 .. MaxBills]
  /\ gate \in BOOLEAN
  /\ sess \in [Tickets -> Sessions]
  /\ wire \in [Tickets -> Messages]
  /\ books \in Seq(Bills) /\ Len(books) <= MaxBills

-----------------------------------------------------------------------------
(* Rows and their updates *)

NoRow == [status |-> "absent", error |-> "none", token |-> NoTicket, lease |-> "none",
          born |-> 0, ext |-> 0, txn |-> NoInvoice]
NewRow(n, ext, txn) ==
  [status |-> "queued", error |-> "none", token |-> NoTicket, lease |-> "none",
   born |-> n, ext |-> ext, txn |-> txn]
Closed == [phase |-> "closed", job |-> NoJob]
Silence == [kind |-> "none", job |-> NoJob, file |-> Expected, found |-> {}]

Present(j, k) == j[k].status # "absent"
RowCount(j) == Cardinality({k \in JobKeys : Present(j, k)})

(* Mutant: the two columns are bound in the wrong order. *)
SettleSwapped(row, status, error) ==
  [row EXCEPT !.status = error, !.error = status, !.token = NoTicket, !.lease = "none"]
(* A row without its lease, in a new status. *)
Settle(row, status, error) ==
  [row EXCEPT !.status = status, !.error = error, !.token = NoTicket, !.lease = "none"]

(* INSERT ... ON CONFLICT on the unique key: a second insert changes nothing. *)
Insert(j, k, ext, txn) ==
  IF Present(j, k) THEN j
  ELSE [j EXCEPT ![k] = NewRow(RowCount(j) + 1, ext, txn)]

(* The guard of every statement that settles a job: sent, under this lease. *)
SentUnder(k, t) == jobs[k].status = "sent" /\ jobs[k].token = t

(* Mutant: retry forgets that an uncertain outcome is not to be repeated. *)
RetriableAlways(row) == row.status \in {"failed", "held"}
Retriable(row) == row.status \in {"failed", "held"} /\ row.error # "UNCERTAIN_OUTCOME"

Uncertain(row) == row.status = "held" /\ row.error = "UNCERTAIN_OUTCOME"
IsCreate(k) == k.stage = "create"

-----------------------------------------------------------------------------
(* DurableProviderJobs.leaseNext: one transaction under an advisory lock *)

(* An expired lease: a sent job is held as uncertain, an unsent one goes back. *)
Lapsed(j) ==
  [k \in JobKeys |->
     CASE j[k].status = "sent" /\ j[k].lease = "expired" -> Settle(j[k], "held", "UNCERTAIN_OUTCOME")
       [] j[k].status = "leased" /\ j[k].lease = "expired" -> Settle(j[k], "queued", "none")
       [] OTHER -> j[k]]

(* Every uncertain create gets, once, a durable query for what it may have left. *)
Unprobed(j) == j   \* Mutant: leaseNext queues no probe.
Probed(j) ==
  LET Orphans == {p \in Proposals : Uncertain(j[Key(p, "create")]) /\ ~Present(j, Key(p, "probe"))}
      Earlier(p) == {q \in Orphans : j[Key(q, "create")].born <= j[Key(p, "create")].born}
  IN  [k \in JobKeys |->
         IF k.stage = "probe" /\ k.proposal \in Orphans
         THEN NewRow(RowCount(j) + Cardinality(Earlier(k.proposal)), 0,
                     j[Key(k.proposal, "create")].txn)
         ELSE j[k]]

Swept(j) == Probed(Lapsed(j))

(* Mutant: the statement also rewrites the reason of jobs held before. *)
HoldAll(j) ==
  [k \in JobKeys |-> IF j[k].status \in {"queued", "held"}
                     THEN [j[k] EXCEPT !.status = "held", !.error = "COMPANY_IDENTITY_MISMATCH"]
                     ELSE j[k]]
HoldQueue(j) ==
  [k \in JobKeys |-> IF j[k].status = "queued"
                     THEN [j[k] EXCEPT !.status = "held", !.error = "COMPANY_IDENTITY_MISMATCH"]
                     ELSE j[k]]

Leased(j) == \E k \in JobKeys : j[k].status \in {"leased", "sent"} /\ j[k].lease = "live"
Queued(j) == {k \in JobKeys : j[k].status = "queued"}
Oldest(j, k) == k \in Queued(j) /\ \A other \in Queued(j) : j[k].born <= j[other].born

LeasableAnyway(j, k) == Oldest(j, k)   \* Mutant: no look at leases still running.
Leasable(j, k) == ~Leased(j) /\ Oldest(j, k)
LeaseTo(j, k, t) ==
  [j EXCEPT ![k] = [@ EXCEPT !.status = "leased", !.error = "none", !.token = t, !.lease = "live"]]

(* A query by TxnID needs nothing from the bill; any other request renders it. *)
Renders(k) == k.proposal \notin Unrenderable \/ jobs[k].ext # 0

-----------------------------------------------------------------------------
(* People *)

(* enqueueApprovedQbdBill: gated, and the same preflight however often it runs. *)
Approve(p) ==
  /\ gate /\ proposal[p].status = "ready"
  /\ jobs' = Insert(jobs, Key(p, "preflight"), 0, proposal[p].draft)
  /\ UNCHANGED <<proposal, posting, gate, sess, wire, books>>

(* rejectProposal: from any status, and without a look at the jobs. *)
Reject(p) ==
  /\ p \in Rejectable
  /\ proposal' = [proposal EXCEPT ![p].status = "rejected"]
  /\ UNCHANGED <<jobs, posting, gate, sess, wire, books>>

(* proposeOnce again (a correction, a retried extraction): the upsert overwrites *)
(* the transaction and the status, whatever they were.                           *)
Repropose(p, inv) ==
  /\ proposal' = [proposal EXCEPT ![p] = [status |-> "ready", draft |-> inv]]
  /\ UNCHANGED <<jobs, posting, gate, sess, wire, books>>

(* DurableProviderJobs.retry: anything but an uncertain outcome may run again. *)
Retry(k) ==
  /\ k.stage \in Retryable
  /\ Retriable(jobs[k])
  /\ jobs' = [jobs EXCEPT ![k] = Settle(@, "queued", "none")]
  /\ UNCHANGED <<proposal, posting, gate, sess, wire, books>>

(* setOwnerWriteGate *)
ToggleGate ==
  /\ OwnerCloses
  /\ gate' = ~gate
  /\ UNCHANGED <<jobs, proposal, posting, sess, wire, books>>

-----------------------------------------------------------------------------
(* The session: production.ts hooks behind the SOAP endpoint *)

UntouchedDb == UNCHANGED dbVars

(* The session has nothing more to hand out and the connector is told so. *)
Finish(t) ==
  /\ sess' = [sess EXCEPT ![t] = Closed]
  /\ wire' = [wire EXCEPT ![t] = Silence]

(* authenticate: a session whose first work item is the company query. *)
Authenticate(t) ==
  /\ sess[t] = Closed /\ wire[t] = Silence
  /\ sess' = [sess EXCEPT ![t].phase = "identify"]
  /\ UntouchedDb /\ UNCHANGED <<wire, books>>

(* sendRequestXML of the company query; the open file is that of the session. *)
AskCompany(t) ==
  /\ sess[t].phase = "identify" /\ wire[t] = Silence
  /\ \E file \in Companies : wire' = [wire EXCEPT ![t].kind = "company", ![t].file = file]
  /\ UntouchedDb /\ UNCHANGED <<sess, books>>

AnyCompany(file) == TRUE   \* Mutant: the observed company is not compared.
SameCompany(file) == file = Expected

CompanyMatches(t) ==
  /\ sess[t].phase = "identify" /\ wire[t].kind = "company" /\ SameCompany(wire[t].file)
  /\ gate
  /\ sess' = [sess EXCEPT ![t].phase = "leasing"]
  /\ wire' = [wire EXCEPT ![t].kind = "none"]
  /\ UntouchedDb /\ UNCHANGED books

(* The gate is closed, or the identity could not be read (hresult). *)
CompanyRefused(t) ==
  /\ sess[t].phase = "identify" /\ wire[t].kind = "company"
  /\ Finish(t)
  /\ UntouchedDb /\ UNCHANGED books

(* leaseNext with the observed company: every queued job is held. *)
CompanyDiffers(t) ==
  /\ sess[t].phase = "identify" /\ wire[t].kind = "company" /\ ~SameCompany(wire[t].file)
  /\ jobs' = HoldQueue(Swept(jobs))
  /\ Finish(t)
  /\ UNCHANGED <<proposal, posting, gate, books>>

LeaseNext(t, k) ==
  /\ sess[t].phase = "leasing" /\ Leasable(Swept(jobs), k) /\ Renders(k)
  /\ jobs' = LeaseTo(Swept(jobs), k, t)
  /\ sess' = [sess EXCEPT ![t] = [phase |-> "leased", job |-> k]]
  /\ UNCHANGED <<proposal, posting, gate, wire, books>>

(* enqueueLeasedWork throws while it builds the qbXML, after the lease committed. *)
LeaseUnrenderable(t, k) ==
  /\ sess[t].phase = "leasing" /\ Leasable(Swept(jobs), k) /\ ~Renders(k)
  /\ jobs' = LeaseTo(Swept(jobs), k, t)
  /\ Finish(t)
  /\ UNCHANGED <<proposal, posting, gate, books>>

LeaseNothing(t) ==
  /\ sess[t].phase = "leasing"
  /\ Leased(Swept(jobs)) \/ Queued(Swept(jobs)) = {}
  /\ jobs' = Swept(jobs)
  /\ Finish(t)
  /\ UNCHANGED <<proposal, posting, gate, books>>

(* markSent: only the lease this session was given. *)
MaySendAny(k, t) == Present(jobs, k)   \* Mutant: the statement names the job only.
MaySend(k, t) == jobs[k].status = "leased" /\ jobs[k].token = t

(* sendRequestXML: the job is marked sent before the reply leaves, and the *)
(* reply may be lost on the way.                                           *)
SendRequest(t) ==
  LET k == sess[t].job IN
  /\ sess[t].phase = "leased" /\ MaySend(k, t)
  /\ jobs' = [jobs EXCEPT ![k].status = "sent"]
  /\ sess' = [sess EXCEPT ![t].phase = "sent"]
  /\ \/ wire' = [wire EXCEPT ![t].kind = "request", ![t].job = k]
     \/ wire' = wire
  /\ UNCHANGED <<proposal, posting, gate, books>>

(* markSent matched no row: the lease went to somebody else in the meantime. *)
SendRefused(t) ==
  LET k == sess[t].job IN
  /\ sess[t].phase = "leased" /\ ~MaySend(k, t)
  /\ Finish(t)
  /\ UntouchedDb /\ UNCHANGED books

(* closeConnection, or the end of the process that held the session. *)
SessionLost(t) ==
  /\ sess[t] # Closed
  /\ sess' = [sess EXCEPT ![t] = Closed]
  /\ wire' = IF wire[t].kind = "none" THEN [wire EXCEPT ![t] = Silence] ELSE wire
  /\ UntouchedDb /\ UNCHANGED books

LeaseExpires(k) ==
  /\ jobs[k].lease = "live"
  /\ jobs' = [jobs EXCEPT ![k].lease = "expired"]
  /\ UNCHANGED <<proposal, posting, gate, sess, wire, books>>

-----------------------------------------------------------------------------
(* QuickBooks and the Web Connector *)

(* What a BillQuery returns and billMismatch lets through: the bills of this *)
(* company with the job's contents, or only the one named by TxnID.          *)
MatchesAnyContents(k, file) ==   \* Mutant: billMismatch compares the TxnID only.
  {b \in DOMAIN books : books[b].company = file /\ jobs[k].ext \in {0, b}}
Matches(k, file) ==
  {b \in DOMAIN books : /\ books[b].company = file /\ books[b].invoice = jobs[k].txn
                        /\ jobs[k].ext \in {0, b}}

Reply(t, kind, found) == wire' = [wire EXCEPT ![t].kind = kind, ![t].found = found]

ExecuteQuery(t) ==
  /\ wire[t].kind = "request" /\ ~IsCreate(wire[t].job)
  /\ Reply(t, "accepted", Matches(wire[t].job, wire[t].file))
  /\ UntouchedDb /\ UNCHANGED <<sess, books>>

ExecuteCreate(t) ==
  LET k == wire[t].job IN
  /\ wire[t].kind = "request" /\ IsCreate(k) /\ Len(books) < MaxBills
  /\ books' = Append(books, [invoice |-> jobs[k].txn, creator |-> k.proposal,
                             company |-> wire[t].file])
  /\ Reply(t, "accepted", {Len(books) + 1})
  /\ UntouchedDb /\ UNCHANGED sess

(* QuickBooks answers with a status other than 0 and does nothing. *)
Refuse(t) ==
  /\ wire[t].kind = "request"
  /\ Reply(t, "rejected", {})
  /\ UntouchedDb /\ UNCHANGED <<sess, books>>

(* A request or an answer is lost, or the answer names a session nobody knows. *)
Lose(t) ==
  /\ wire[t].kind # "none"
  /\ wire' = IF sess[t] = Closed THEN [wire EXCEPT ![t] = Silence]
             ELSE [wire EXCEPT ![t].kind = "none", ![t].job = NoJob, ![t].found = {}]
  /\ UntouchedDb /\ UNCHANGED <<sess, books>>

(* A bookkeeper enters the same bill, or edits one, in QuickBooks. *)
HandEnters(inv) ==
  /\ Len(books) < MaxBills
  /\ books' = Append(books, [invoice |-> inv, creator |-> "hand", company |-> Expected])
  /\ UntouchedDb /\ UNCHANGED <<sess, wire>>

HandEdits(b) ==
  /\ b \in DOMAIN books /\ books[b].invoice \in HandInvoices
  /\ books' = [books EXCEPT ![b].invoice = Altered]
  /\ UntouchedDb /\ UNCHANGED <<sess, wire>>

-----------------------------------------------------------------------------
(* receiveResponseXML: responseReceived of production.ts.  Every statement that *)
(* settles the job carries the lease token; under a stale one it does nothing.  *)

SettleSent(t, status, error) ==
  LET k == sess[t].job IN
  jobs' = IF SentUnder(k, t) THEN [jobs EXCEPT ![k] = Settle(@, status, error)] ELSE jobs

(* DurableProviderJobs.fail *)
FailKnown(t, outcomeKnown) == SettleSent(t, "failed", "PROVIDER")   \* Mutant: every outcome is known.
Fail(t, outcomeKnown) ==
  IF outcomeKnown THEN SettleSent(t, "failed", "PROVIDER")
  ELSE SettleSent(t, "held", "UNCERTAIN_OUTCOME")

(* A session with a sent lease hears of it; the lease is dropped in every case. *)
Hears(t, kinds) == sess[t].phase = "sent" /\ wire[t].kind \in kinds

(* hresult: the connector could not talk to QuickBooks, or could not tell. *)
HearTransportError(t) ==
  /\ Hears(t, {"request", "accepted", "rejected"})
  /\ Fail(t, FALSE)
  /\ Finish(t)
  /\ UNCHANGED <<proposal, posting, gate, books>>

(* No status 0 in the answer: refused by QuickBooks, or unreadable. *)
HearNotOk(t) ==
  /\ Hears(t, {"rejected"} \cup IF Garbling THEN {"accepted"} ELSE {})
  /\ Fail(t, TRUE)
  /\ Finish(t)
  /\ UNCHANGED <<proposal, posting, gate, books>>

(* Handling the answer fails, for instance in the database: a query may run *)
(* again, a create is uncertain.                                            *)
HearInfrastructureError(t) ==
  /\ Hears(t, {"accepted"})
  /\ Fail(t, ~IsCreate(sess[t].job))
  /\ Finish(t)
  /\ UNCHANGED <<proposal, posting, gate, books>>

(* The stage that follows a preflight. *)
NextStage(k, found) ==
  IF found = {} THEN Insert(jobs, Key(k.proposal, "create"), 0, jobs[k].txn)
  ELSE Insert(jobs, Key(k.proposal, "adoption"), CHOOSE b \in found : TRUE, jobs[k].txn)

(* completePreflight: the probe succeeds and queues exactly one next stage, *)
(* and the same session goes on to lease.                                   *)
HearPreflight(t) ==
  LET k == sess[t].job
      found == wire[t].found
  IN
  /\ Hears(t, {"accepted"}) /\ k.stage = "preflight" /\ Cardinality(found) <= 1
  /\ SentUnder(k, t)
  /\ jobs' = [NextStage(k, found) EXCEPT ![k] = Settle(@, "succeeded", "none")]
  /\ sess' = [sess EXCEPT ![t] = [phase |-> "leasing", job |-> NoJob]]
  /\ wire' = [wire EXCEPT ![t].kind = "none", ![t].job = NoJob, ![t].found = {}]
  /\ UNCHANGED <<proposal, posting, gate, books>>

(* acknowledgeCreateAndQueueReadBack *)
HearCreate(t) ==
  LET k == sess[t].job IN
  /\ Hears(t, {"accepted"}) /\ IsCreate(k) /\ SentUnder(k, t)
  /\ \E b \in wire[t].found :
       jobs' = [Insert(jobs, Key(k.proposal, "read_back"), b, jobs[k].txn)
                  EXCEPT ![k] = Settle(@, "succeeded", "none")]
  /\ Finish(t)
  /\ UNCHANGED <<proposal, posting, gate, books>>

(* finalizeQbdReadBack: what must hold of the parent job. *)
ParentAllows(k) ==
  CASE k.stage = "probe"     -> Uncertain(jobs[Key(k.proposal, "create")])
    [] k.stage = "read_back" -> jobs[Key(k.proposal, "create")].status = "succeeded"
    [] k.stage = "adoption"  -> jobs[Key(k.proposal, "preflight")].status = "succeeded"
    [] OTHER                 -> FALSE

Finalizable(t, k, b) ==
  /\ SentUnder(k, t) /\ ParentAllows(k)
  /\ proposal[k.proposal].status = "ready"
  /\ posting[k.proposal] \in {0, b}

FinalizedAlone(k) ==   \* Mutant: the adopted create stays held.
  [jobs EXCEPT ![k] = Settle(@, "succeeded", "none")]
(* The read-back succeeds, and with a probe the create it adopts. *)
Finalized(k) ==
  [key \in JobKeys |->
     IF key = k \/ (k.stage = "probe" /\ key = Key(k.proposal, "create"))
     THEN Settle(jobs[key], "succeeded", "none") ELSE jobs[key]]

(* One transaction: the posting, the proposal, the job and an adopted create. *)
HearReadBack(t) ==
  LET k == sess[t].job
      p == k.proposal
  IN
  /\ Hears(t, {"accepted"}) /\ k.stage \in {"read_back", "adoption", "probe"}
  /\ \E b \in wire[t].found :
       /\ wire[t].found = {b} /\ Finalizable(t, k, b)
       /\ posting' = [posting EXCEPT ![p] = b]
  /\ proposal' = [proposal EXCEPT ![p].status = "posted"]
  /\ jobs' = Finalized(k)
  /\ Finish(t)
  /\ UNCHANGED <<gate, books>>

(* Not exactly one bill, or a parent, proposal or posting in the way: a person *)
(* has to look.                                                                *)
HearConflict(t) ==
  LET k == sess[t].job
      found == wire[t].found
  IN
  /\ Hears(t, {"accepted"}) /\ ~IsCreate(k)
  /\ IF k.stage = "preflight" THEN Cardinality(found) > 1
     ELSE ~\E b \in found : found = {b} /\ Finalizable(t, k, b)
  /\ SettleSent(t, "held", "REVIEW")
  /\ Finish(t)
  /\ UNCHANGED <<proposal, posting, gate, books>>

(* The lease is no longer this session's: the statement throws and nothing is *)
(* written.                                                                   *)
HearTooLate(t) ==
  LET k == sess[t].job IN
  /\ Hears(t, {"accepted"}) /\ k.stage \in {"preflight", "create"} /\ ~SentUnder(k, t)
  /\ Finish(t)
  /\ UntouchedDb /\ UNCHANGED books

-----------------------------------------------------------------------------
Init ==
  /\ jobs = [k \in JobKeys |-> NoRow]
  /\ proposal = [p \in Proposals |-> [status |-> "ready", draft |-> InitialDraft[p]]]
  /\ posting = [p \in Proposals |-> 0]
  /\ gate = TRUE
  /\ sess = [t \in Tickets |-> Closed]
  /\ wire = [t \in Tickets |-> Silence]
  /\ books = <<>>

Person == \/ \E p \in Proposals : Approve(p) \/ Reject(p) \/ \E inv \in Remaps : Repropose(p, inv)
          \/ \E k \in JobKeys : Retry(k)
          \/ ToggleGate
Server(t) == \/ Authenticate(t) \/ AskCompany(t)
             \/ CompanyMatches(t) \/ CompanyRefused(t) \/ CompanyDiffers(t)
             \/ \E k \in JobKeys : LeaseNext(t, k) \/ LeaseUnrenderable(t, k)
             \/ LeaseNothing(t) \/ SendRequest(t) \/ SendRefused(t)
Answer(t) == \/ HearTransportError(t) \/ HearNotOk(t) \/ HearInfrastructureError(t)
             \/ HearPreflight(t) \/ HearCreate(t) \/ HearReadBack(t)
             \/ HearConflict(t) \/ HearTooLate(t)
QuickBooks(t) == ExecuteQuery(t) \/ ExecuteCreate(t) \/ Refuse(t)
Faults == \/ \E t \in Tickets : SessionLost(t) \/ Lose(t)
          \/ \E k \in JobKeys : LeaseExpires(k)
Bookkeeper == \/ \E inv \in HandInvoices : HandEnters(inv)
              \/ \E b \in BillIds : HandEdits(b)

Next == \/ Person \/ Faults \/ Bookkeeper
        \/ \E t \in Tickets : Server(t) \/ Answer(t) \/ QuickBooks(t)

Spec == Init /\ [][Next]_vars

-----------------------------------------------------------------------------
(***************************************************************************)
(* Fairness: the connector keeps polling on its timer and QuickBooks keeps *)
(* answering; sessions may be lost and queries may fail any number of      *)
(* times, but not every single time (strong fairness).  A lease is a       *)
(* timestamp, so it always expires.  Nothing is assumed of people.         *)
(***************************************************************************)
LeaseStep(t) == LeaseNothing(t) \/ \E k \in JobKeys : LeaseNext(t, k) \/ LeaseUnrenderable(t, k)

Fairness ==
  /\ \A k \in JobKeys : WF_vars(LeaseExpires(k))
  /\ \A t \in Tickets :
       /\ WF_vars(Authenticate(t)) /\ WF_vars(Lose(t)) /\ WF_vars(SessionLost(t))
       /\ SF_vars(AskCompany(t)) /\ SF_vars(CompanyMatches(t) \/ CompanyDiffers(t))
       /\ SF_vars(LeaseStep(t)) /\ SF_vars(SendRequest(t) \/ SendRefused(t))

FairSpec == Spec /\ Fairness

-----------------------------------------------------------------------------
(***************************************************************************)
(* Properties                                                              *)
(***************************************************************************)

(* One active lease per connection, however many sessions poll (the advisory *)
(* lock and the check of leaseNext).                                         *)
OneLiveLease ==
  \A j, k \in JobKeys : jobs[j].lease = "live" /\ jobs[k].lease = "live" => j = k

(* No proposal ever leaves two bills in QuickBooks: an ambiguous create is   *)
(* never replayed (durable-jobs.ts, leaseNext and retry).                    *)
AtMostOneCreate ==
  \A b, c \in DOMAIN books : books[b].creator \in Proposals /\ books[b].creator = books[c].creator
                               => b = c

(* Two connectors never hold the same create, so not even a slow QuickBooks  *)
(* can run it twice: the second session's lease token is stale.              *)
CreateTransmittedOnce ==
  \A t, u \in Tickets : wire[t].kind = "request" /\ wire[u].kind \in {"request", "accepted"}
                        /\ IsCreate(wire[t].job) /\ wire[t].job = wire[u].job => t = u

(* No bill is forgotten: as long as its proposal has no posting, a bill this *)
(* program created is still being answered, is held as uncertain, or has its *)
(* read-back on record.                                                      *)
NoOrphanBill ==
  \A b \in DOMAIN books :
    LET p == books[b].creator IN
    p \in Proposals /\ posting[p] = 0 =>
      \/ jobs[Key(p, "create")].status = "sent"
      \/ Uncertain(jobs[Key(p, "create")])
      \/ jobs[Key(p, "create")].status = "succeeded" /\ jobs[Key(p, "read_back")].ext = b

(* Bills are only written into the company file the connection is bound to,  *)
(* whatever file happens to be open when a session starts.                   *)
ExpectedCompanyOnly ==
  \A b \in DOMAIN books : books[b].creator \in Proposals => books[b].company = Expected

(* A posting is a bill that QuickBooks really has, in the right company, with *)
(* the contents that were approved (until somebody edits it there).           *)
PostingIsRealBill ==
  \A p \in Proposals : posting[p] # 0 =>
    /\ posting[p] \in DOMAIN books
    /\ books[posting[p]].company = Expected
    /\ books[posting[p]].invoice \in {jobs[Key(p, "preflight")].txn, Altered}

(* The posting and the jobs settle together: there is a posting exactly when  *)
(* one read-back succeeded, and then no create of the proposal is open.       *)
FinalizedTogether ==
  \A p \in Proposals :
    /\ posting[p] # 0 <=>
         \E s \in {"read_back", "adoption", "probe"} : jobs[Key(p, s)].status = "succeeded"
    /\ posting[p] # 0 => jobs[Key(p, "create")].status \in {"absent", "succeeded"}

(* An uncertain create stays held until the bill it left was read back and    *)
(* adopted, in one step with the posting; no retry, answer or sweep frees it. *)
UncertainOnlyAdopted ==
  [][\A p \in Proposals : Uncertain(jobs[Key(p, "create")]) =>
        \/ Uncertain(jobs'[Key(p, "create")])
        \/ /\ jobs'[Key(p, "create")].status = "succeeded"
           /\ jobs'[Key(p, "probe")].status = "succeeded"
           /\ posting'[p] # 0]_vars

(* A failed or held query can be retried: production.ts calls queries         *)
(* non-mutating and their failures safely retryable.                          *)
QueriesStayRetryable ==
  \A k \in JobKeys : ~IsCreate(k) => ~Uncertain(jobs[k])

(* Every approval comes to an end, unless the owner closes the gate for good: *)
(* the bill is posted, or a job waits where a person can see it.              *)
Parked(k) == jobs[k].status = "failed" \/ (jobs[k].status = "held" /\ ~(IsCreate(k) /\ Uncertain(jobs[k])))
Visible(p) == posting[p] # 0 \/ \E s \in Stages : Parked(Key(p, s))
ApprovalEnds ==
  (<>[]gate) => \A p \in Proposals : jobs[Key(p, "preflight")].status = "queued" ~> Visible(p)

(* The Desktop path keeps the promise of PostOnce: whatever is lost, expires, *)
(* is retried or rejected, a proposal gets one bill and one posting.          *)
CreatedFor(p) == {b \in DOMAIN books : books[b].creator = p}
Promise == INSTANCE PostOnce WITH
             Refs <- BillIds, NoRef <- 0,
             created <- [p \in Proposals |-> CreatedFor(p)], posted <- posting
PostsOnce == Promise!Spec

=============================================================================
