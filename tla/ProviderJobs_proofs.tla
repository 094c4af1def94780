------------------------ MODULE ProviderJobs_proofs ------------------------
(***************************************************************************)
(* Proofs about ProviderJobs, for every number of proposals, sessions,     *)
(* invoices, companies and bills.                                          *)
(***************************************************************************)
EXTENDS ProviderJobs, FiniteSetTheorems, TLAPS

(* A row is well formed: only a leased or sent job has a lease, and a job  *)
(* that exists carries the transaction it is about.                        *)
RowOk(row) ==
  /\ row.lease # "none" => row.status \in {"leased", "sent"}
  /\ row.status # "absent" => row.txn \in Invoices

OneLive(j) == \A i, k \in JobKeys : j[i].lease = "live" /\ j[k].lease = "live" => i = k

(* A table provider_jobs as every statement must leave it. *)
Good(j) ==
  /\ j \in [JobKeys -> Rows]
  /\ \A k \in JobKeys : RowOk(j[k])
  /\ OneLive(j)

(* No row is ever deleted. *)
Keeps(j, j2) == \A k \in JobKeys : Present(j, k) => Present(j2, k)

-----------------------------------------------------------------------------
LEMMA StagesFinite == IsFiniteSet(Stages)
<1>1. IsFiniteSet({"preflight"}) BY FS_Singleton
<1>2. IsFiniteSet({"preflight"} \cup {"create"}) BY <1>1, FS_AddElement
<1>3. IsFiniteSet({"preflight"} \cup {"create"} \cup {"read_back"}) BY <1>2, FS_AddElement
<1>4. IsFiniteSet({"preflight"} \cup {"create"} \cup {"read_back"} \cup {"adoption"})
  BY <1>3, FS_AddElement
<1>5. IsFiniteSet({"preflight"} \cup {"create"} \cup {"read_back"} \cup {"adoption"} \cup {"probe"})
  BY <1>4, FS_AddElement
<1>6. Stages = {"preflight"} \cup {"create"} \cup {"read_back"} \cup {"adoption"} \cup {"probe"}
  BY DEF Stages
<1>. QED BY <1>5, <1>6

LEMMA KeysFinite == IsFiniteSet(JobKeys)
<1>. DEFINE Pairs == Proposals \X Stages
            f == [x \in Pairs |-> Key(x[1], x[2])]
<1>1. IsFiniteSet(Pairs)
  BY ProposalsFinite, StagesFinite, FS_Product
<1>2. \A k \in JobKeys : \E x \in Pairs : f[x] = k
  <2>. SUFFICES ASSUME NEW k \in JobKeys PROVE \E x \in Pairs : f[x] = k
    OBVIOUS
  <2>1. <<k.proposal, k.stage>> \in Pairs BY DEF JobKeys
  <2>2. f[<<k.proposal, k.stage>>] = k BY <2>1 DEF Key, JobKeys
  <2>. QED BY <2>1, <2>2
<1>3. f \in [Pairs -> JobKeys] BY DEF Key, JobKeys
<1>4. f \in Surjection(Pairs, JobKeys) BY <1>2, <1>3 DEF Surjection
<1>. QED BY <1>1, <1>4, FS_Surjection

LEMMA CountType == ASSUME NEW j PROVE RowCount(j) \in Nat
<1>1. IsFiniteSet({k \in JobKeys : Present(j, k)}) BY KeysFinite, FS_Subset
<1>. QED BY <1>1, FS_CardinalityType DEF RowCount

LEMMA KeyType == ASSUME NEW p \in Proposals, NEW s \in Stages PROVE Key(p, s) \in JobKeys
BY DEF Key, JobKeys

-----------------------------------------------------------------------------
(* The statements on one table *)

LEMMA NoRowType == NoRow \in Rows /\ RowOk(NoRow) /\ NoRow.lease = "none"
BY BoundAssumption DEF NoRow, Rows, RowOk, Statuses, Errors

LEMMA NewRowType ==
  ASSUME NEW n \in Nat, NEW ext \in 0 .. MaxBills, NEW txn \in Invoices
  PROVE  /\ NewRow(n, ext, txn) \in Rows /\ RowOk(NewRow(n, ext, txn))
         /\ NewRow(n, ext, txn).lease = "none" /\ NewRow(n, ext, txn).status = "queued"
BY DEF NewRow, Rows, RowOk, Statuses, Errors

(* Dropping a lease leaves a well-formed row, in whatever status but absent. *)
LEMMA SettleType ==
  ASSUME NEW row \in Rows, RowOk(row), row.status # "absent",
         NEW status \in Statuses \ {"absent"}, NEW error \in Errors
  PROVE  /\ Settle(row, status, error) \in Rows
         /\ RowOk(Settle(row, status, error))
         /\ Settle(row, status, error).status = status
         /\ Settle(row, status, error).lease = "none"
BY DEF Settle, Rows, RowOk

(* Changing one row: enough to look at that row, if it gains no live lease. *)
LEMMA UpdateGood ==
  ASSUME NEW j, Good(j), NEW k \in JobKeys, NEW row \in Rows, RowOk(row),
         row.lease # "live" \/ j[k].lease = "live", row.status # "absent"
  PROVE  Good([j EXCEPT ![k] = row]) /\ Keeps(j, [j EXCEPT ![k] = row])
BY DEF Good, OneLive, Keeps, Present

LEMMA InsertGood ==
  ASSUME NEW j, Good(j), NEW k \in JobKeys, NEW ext \in 0 .. MaxBills, NEW txn \in Invoices
  PROVE  Good(Insert(j, k, ext, txn)) /\ Keeps(j, Insert(j, k, ext, txn))
<1>1. CASE Present(j, k) BY <1>1 DEF Insert, Keeps
<1>2. CASE ~Present(j, k)
  <2>1. RowCount(j) + 1 \in Nat BY CountType
  <2>2. Good([j EXCEPT ![k] = NewRow(RowCount(j) + 1, ext, txn)])
        /\ Keeps(j, [j EXCEPT ![k] = NewRow(RowCount(j) + 1, ext, txn)])
    BY <2>1, NewRowType, UpdateGood
  <2>. QED BY <1>2, <2>2 DEF Insert
<1>. QED BY <1>1, <1>2

LEMMA LapsedGood == ASSUME NEW j, Good(j) PROVE Good(Lapsed(j)) /\ Keeps(j, Lapsed(j))
<1>1. ASSUME NEW k \in JobKeys
      PROVE  /\ Lapsed(j)[k] \in Rows /\ RowOk(Lapsed(j)[k])
             /\ Lapsed(j)[k].lease = "live" => j[k].lease = "live"
             /\ Present(j, k) => Lapsed(j)[k].status # "absent"
  <2>1. CASE j[k].status = "sent" /\ j[k].lease = "expired"
    <3>1. Lapsed(j)[k] = Settle(j[k], "held", "UNCERTAIN_OUTCOME") BY <2>1 DEF Lapsed
    <3>. QED BY <2>1, <3>1, SettleType DEF Good, Statuses, Errors
  <2>2. CASE j[k].status = "leased" /\ j[k].lease = "expired"
    <3>1. Lapsed(j)[k] = Settle(j[k], "queued", "none") BY <2>2 DEF Lapsed
    <3>. QED BY <2>2, <3>1, SettleType DEF Good, Statuses, Errors
  <2>3. CASE ~(j[k].status = "sent" /\ j[k].lease = "expired")
             /\ ~(j[k].status = "leased" /\ j[k].lease = "expired")
    <3>1. Lapsed(j)[k] = j[k] BY <2>3 DEF Lapsed
    <3>. QED BY <3>1 DEF Good, Present
  <2>. QED BY <2>1, <2>2, <2>3
<1>2. Lapsed(j) \in [JobKeys -> Rows] BY <1>1 DEF Lapsed
<1>. QED BY <1>1, <1>2 DEF Good, OneLive, Keeps, Present

LEMMA ProbedGood == ASSUME NEW j, Good(j) PROVE Good(Probed(j)) /\ Keeps(j, Probed(j))
<1>. DEFINE Orphans == {p \in Proposals : Uncertain(j[Key(p, "create")]) /\ ~Present(j, Key(p, "probe"))}
            Earlier(p) == {q \in Orphans : j[Key(q, "create")].born <= j[Key(p, "create")].born}
            row(k) == NewRow(RowCount(j) + Cardinality(Earlier(k.proposal)), 0,
                             j[Key(k.proposal, "create")].txn)
<1>1. ASSUME NEW k \in JobKeys
      PROVE  /\ Probed(j)[k] \in Rows /\ RowOk(Probed(j)[k])
             /\ Probed(j)[k].lease = "live" => j[k].lease = "live"
             /\ Present(j, k) => Probed(j)[k].status # "absent"
  <2>1. CASE k.stage = "probe" /\ k.proposal \in Orphans
    <3>1. Probed(j)[k] = row(k) BY <2>1 DEF Probed
    <3>2. k.proposal \in Proposals /\ Key(k.proposal, "create") \in JobKeys
      BY KeyType DEF JobKeys, Stages
    <3>3. j[Key(k.proposal, "create")].status = "held" BY <2>1 DEF Uncertain
    <3>4. j[Key(k.proposal, "create")].txn \in Invoices BY <3>2, <3>3 DEF Good, RowOk
    <3>5. Cardinality(Earlier(k.proposal)) \in Nat
      BY ProposalsFinite, FS_Subset, FS_CardinalityType
    <3>6. RowCount(j) + Cardinality(Earlier(k.proposal)) \in Nat BY <3>5, CountType
    <3>7. row(k) \in Rows /\ RowOk(row(k)) /\ row(k).lease = "none" /\ row(k).status = "queued"
      <4>1. 0 \in 0 .. MaxBills BY BoundAssumption
      <4>. QED BY <3>4, <3>6, <4>1, NewRowType
    <3>. QED BY <3>1, <3>7
  <2>2. CASE ~(k.stage = "probe" /\ k.proposal \in Orphans)
    <3>1. Probed(j)[k] = j[k] BY <2>2 DEF Probed
    <3>. QED BY <3>1 DEF Good, Present
  <2>. QED BY <2>1, <2>2
<1>2. Probed(j) \in [JobKeys -> Rows] BY <1>1 DEF Probed
<1>. QED BY <1>1, <1>2 DEF Good, OneLive, Keeps, Present

LEMMA SweptGood == ASSUME NEW j, Good(j) PROVE Good(Swept(j)) /\ Keeps(j, Swept(j))
BY LapsedGood, ProbedGood DEF Swept, Keeps

LEMMA HoldQueueGood == ASSUME NEW j, Good(j) PROVE Good(HoldQueue(j)) /\ Keeps(j, HoldQueue(j))
<1>1. ASSUME NEW k \in JobKeys
      PROVE  /\ HoldQueue(j)[k] \in Rows /\ RowOk(HoldQueue(j)[k])
             /\ HoldQueue(j)[k].lease = j[k].lease
             /\ Present(j, k) => HoldQueue(j)[k].status # "absent"
  BY <1>1 DEF HoldQueue, Good, Rows, RowOk, Statuses, Errors, Present
<1>2. HoldQueue(j) \in [JobKeys -> Rows] BY <1>1 DEF HoldQueue
<1>. QED BY <1>1, <1>2 DEF Good, OneLive, Keeps, Present

(* leaseNext: the new lease is the only live one, because there was none. *)
LEMMA LeaseToGood ==
  ASSUME NEW j, Good(j), NEW k \in JobKeys, NEW t \in Tickets, Leasable(j, k)
  PROVE  Good(LeaseTo(j, k, t)) /\ Keeps(j, LeaseTo(j, k, t))
<1>1. \A i \in JobKeys : j[i].lease # "live"
  BY DEF Leasable, Leased, Good, RowOk
<1>. DEFINE row == [j[k] EXCEPT !.status = "leased", !.error = "none", !.token = t, !.lease = "live"]
<1>2. j[k].status = "queued" BY DEF Leasable, Oldest, Queued
<1>3. row \in Rows /\ RowOk(row) /\ row.status = "leased"
  BY <1>2 DEF Good, Rows, RowOk, Statuses, Errors
<1>4. LeaseTo(j, k, t) = [j EXCEPT ![k] = row] BY DEF LeaseTo, Good
<1>5. \A i \in JobKeys : i # k => LeaseTo(j, k, t)[i] = j[i] BY <1>4 DEF Good
<1>. QED BY <1>1, <1>3, <1>4, <1>5 DEF Good, OneLive, Keeps, Present

-----------------------------------------------------------------------------
(***************************************************************************)
(* The inductive invariant.  The table must be Good on its own; beyond its *)
(* type, what sessions and connectors remember must name rows that exist,  *)
(* because an answer or a slow request reads the row it names.             *)
(***************************************************************************)
MemoryOk ==
  /\ sess \in [Tickets -> Sessions]
  /\ wire \in [Tickets -> Messages]
  /\ \A t \in Tickets : sess[t].phase \in {"leased", "sent"} =>
                          sess[t].job \in JobKeys /\ Present(jobs, sess[t].job)
  /\ \A t \in Tickets : wire[t].kind = "request" =>
                          wire[t].job \in JobKeys /\ Present(jobs, wire[t].job)

RestOk ==
  /\ proposal \in [Proposals -> [status : {"ready", "rejected", "posted"}, draft : Invoices]]
  /\ posting \in [Proposals -> 0 .. MaxBills]
  /\ gate \in BOOLEAN
  /\ books \in Seq(Bills) /\ Len(books) <= MaxBills

Inv == Good(jobs) /\ MemoryOk /\ RestOk

LEMMA InvImplies == Inv => TypeOK /\ OneLiveLease
BY DEF Inv, Good, MemoryOk, RestOk, TypeOK, OneLiveLease, OneLive

LEMMA InitInv == Init => Inv
<1>. SUFFICES ASSUME Init PROVE Inv OBVIOUS
<1>1. Good(jobs)
  BY NoRowType DEF Init, Good, OneLive
<1>2. MemoryOk
  BY CompanyAssumption DEF Init, MemoryOk, Closed, Silence, Sessions, Messages
<1>3. RestOk
  BY DraftAssumption, BoundAssumption DEF Init, RestOk
<1>. QED BY <1>1, <1>2, <1>3 DEF Inv

-----------------------------------------------------------------------------
(* What the memory of sessions and connectors needs of a step *)

LEMMA ClosedType == Closed \in Sessions /\ Silence \in Messages
                    /\ Closed.phase = "closed" /\ Silence.kind = "none"
BY CompanyAssumption DEF Closed, Silence, Sessions, Messages

LEMMA SameMemory ==
  ASSUME MemoryOk, UNCHANGED <<sess, wire>>, Keeps(jobs, jobs') PROVE MemoryOk'
BY DEF MemoryOk, Keeps

LEMMA FinishMemory ==
  ASSUME MemoryOk, NEW t \in Tickets, Finish(t), Keeps(jobs, jobs') PROVE MemoryOk'
BY ClosedType DEF MemoryOk, Finish, Keeps

LEMMA KeepsAll == ASSUME UNCHANGED jobs PROVE Keeps(jobs, jobs')
BY DEF Keeps

LEMMA SettleSentGood ==
  ASSUME Inv, NEW t \in Tickets, sess[t].phase = "sent",
         NEW status \in {"failed", "held"}, NEW error \in Errors, SettleSent(t, status, error)
  PROVE  Good(jobs') /\ Keeps(jobs, jobs')
<1>. DEFINE k == sess[t].job
<1>1. k \in JobKeys /\ Present(jobs, k) BY DEF Inv, MemoryOk
<1>2. CASE SentUnder(k, t)
  <2>1. jobs' = [jobs EXCEPT ![k] = Settle(jobs[k], status, error)] BY <1>2 DEF SettleSent
  <2>2. jobs[k] \in Rows /\ RowOk(jobs[k]) BY <1>1 DEF Inv, Good
  <2>3. /\ Settle(jobs[k], status, error) \in Rows
        /\ RowOk(Settle(jobs[k], status, error))
        /\ Settle(jobs[k], status, error).status = status
        /\ Settle(jobs[k], status, error).lease = "none"
    BY <1>1, <2>2, SettleType DEF Statuses, Present
  <2>. QED BY <1>1, <2>1, <2>3, UpdateGood DEF Inv
<1>3. CASE ~SentUnder(k, t)
  <2>1. jobs' = jobs BY <1>3 DEF SettleSent
  <2>. QED BY <2>1, KeepsAll DEF Inv
<1>. QED BY <1>2, <1>3

(* An answer after which the job fails or is held, and the session ends. *)
LEMMA FailStep ==
  ASSUME Inv, NEW t \in Tickets, sess[t].phase = "sent", NEW known \in BOOLEAN,
         Fail(t, known), Finish(t), UNCHANGED <<proposal, posting, gate, books>>
  PROVE  Inv'
<1>1. Good(jobs') /\ Keeps(jobs, jobs')
  <2>1. CASE known
    <3>1. SettleSent(t, "failed", "PROVIDER") BY <2>1 DEF Fail
    <3>. QED BY <3>1, SettleSentGood DEF Errors
  <2>2. CASE ~known
    <3>1. SettleSent(t, "held", "UNCERTAIN_OUTCOME") BY <2>2 DEF Fail
    <3>. QED BY <3>1, SettleSentGood DEF Errors
  <2>. QED BY <2>1, <2>2
<1>2. MemoryOk' BY <1>1, FinishMemory DEF Inv
<1>3. RestOk' BY DEF Inv, RestOk
<1>. QED BY <1>1, <1>2, <1>3 DEF Inv, Good, OneLive

-----------------------------------------------------------------------------
(* One lemma for each group of actions *)

(* People change one row, one proposal or the gate; no session hears of it. *)
LEMMA PersonInv == ASSUME Inv, Person PROVE Inv'
<1>1. ASSUME NEW p \in Proposals, Approve(p) PROVE Inv'
  <2>. DEFINE k == Key(p, "preflight")
  <2>1. k \in JobKeys BY KeyType DEF Stages
  <2>2. proposal[p].draft \in Invoices BY DEF Inv, RestOk
  <2>3. 0 \in 0 .. MaxBills BY BoundAssumption
  <2>4. jobs' = Insert(jobs, k, 0, proposal[p].draft) BY <1>1 DEF Approve
  <2>5. Good(jobs') /\ Keeps(jobs, jobs') BY <2>1, <2>2, <2>3, <2>4, InsertGood DEF Inv
  <2>6. MemoryOk' BY <1>1, <2>5, SameMemory DEF Inv, Approve
  <2>7. RestOk' BY <1>1 DEF Inv, RestOk, Approve
  <2>. QED BY <2>5, <2>6, <2>7 DEF Inv, Good, OneLive
<1>2. ASSUME NEW p \in Proposals, Reject(p) PROVE Inv'
  <2>1. Good(jobs)' /\ MemoryOk'
    BY <1>2, SameMemory, KeepsAll DEF Inv, Reject, Good, OneLive
  <2>2. RestOk' BY <1>2 DEF Inv, RestOk, Reject
  <2>. QED BY <2>1, <2>2 DEF Inv
<1>3. ASSUME NEW p \in Proposals, NEW inv \in Remaps, Repropose(p, inv) PROVE Inv'
  <2>1. Good(jobs)' /\ MemoryOk'
    BY <1>3, SameMemory, KeepsAll DEF Inv, Repropose, Good, OneLive
  <2>2. inv \in Invoices BY InputAssumption
  <2>3. RestOk' BY <1>3, <2>2 DEF Inv, RestOk, Repropose
  <2>. QED BY <2>1, <2>3 DEF Inv
<1>4. ASSUME NEW k \in JobKeys, Retry(k) PROVE Inv'
  <2>1. jobs[k] \in Rows /\ RowOk(jobs[k]) /\ jobs[k].status # "absent"
    BY <1>4 DEF Inv, Good, Retry, Retriable
  <2>2. jobs' = [jobs EXCEPT ![k] = Settle(jobs[k], "queued", "none")] BY <1>4 DEF Retry
  <2>3. /\ Settle(jobs[k], "queued", "none") \in Rows
        /\ RowOk(Settle(jobs[k], "queued", "none"))
        /\ Settle(jobs[k], "queued", "none").status = "queued"
        /\ Settle(jobs[k], "queued", "none").lease = "none"
    BY <2>1, SettleType DEF Statuses, Errors
  <2>4. Good(jobs') /\ Keeps(jobs, jobs') BY <2>2, <2>3, UpdateGood DEF Inv
  <2>5. MemoryOk' BY <1>4, <2>4, SameMemory DEF Inv, Retry
  <2>6. RestOk' BY <1>4 DEF Inv, RestOk, Retry
  <2>. QED BY <2>4, <2>5, <2>6 DEF Inv, Good, OneLive
<1>5. CASE ToggleGate
  <2>1. Good(jobs)' /\ MemoryOk'
    BY <1>5, SameMemory, KeepsAll DEF Inv, ToggleGate, Good, OneLive
  <2>2. RestOk' BY <1>5 DEF Inv, RestOk, ToggleGate
  <2>. QED BY <2>1, <2>2 DEF Inv
<1>. QED BY <1>1, <1>2, <1>3, <1>4, <1>5 DEF Person

(* What is lost, expires, or happens inside QuickBooks. *)
LEMMA FaultsInv == ASSUME Inv, Faults PROVE Inv'
<1>1. ASSUME NEW t \in Tickets, SessionLost(t) PROVE Inv'
  <2>1. Good(jobs)' /\ RestOk' BY <1>1 DEF Inv, Good, OneLive, RestOk, SessionLost, UntouchedDb, dbVars
  <2>2. MemoryOk'
    BY <1>1, ClosedType DEF Inv, MemoryOk, SessionLost, UntouchedDb, dbVars, Present
  <2>. QED BY <2>1, <2>2 DEF Inv
<1>2. ASSUME NEW t \in Tickets, Lose(t) PROVE Inv'
  <2>1. Good(jobs)' /\ RestOk' BY <1>2 DEF Inv, Good, OneLive, RestOk, Lose, UntouchedDb, dbVars
  <2>2. MemoryOk'
    <3>1. CASE sess[t] = Closed
      BY <1>2, <3>1, ClosedType DEF Inv, MemoryOk, Lose, UntouchedDb, dbVars, Present
    <3>2. CASE sess[t] # Closed
      <4>. DEFINE m == [wire[t] EXCEPT !.kind = "none", !.job = NoJob, !.found = {}]
      <4>1. m \in Messages /\ m.kind = "none" BY DEF Inv, MemoryOk, Messages
      <4>2. wire' = [wire EXCEPT ![t] = m] BY <1>2, <3>2 DEF Lose, Inv, MemoryOk, Messages
      <4>. QED BY <1>2, <4>1, <4>2 DEF Inv, MemoryOk, Lose, UntouchedDb, dbVars, Present
    <3>. QED BY <3>1, <3>2
  <2>. QED BY <2>1, <2>2 DEF Inv
<1>3. ASSUME NEW k \in JobKeys, LeaseExpires(k) PROVE Inv'
  <2>. DEFINE row == [jobs[k] EXCEPT !.lease = "expired"]
  <2>1. jobs' = [jobs EXCEPT ![k] = row] BY <1>3 DEF LeaseExpires
  <2>2. row \in Rows /\ RowOk(row) /\ row.lease # "live" /\ row.status # "absent"
    BY <1>3 DEF Inv, Good, LeaseExpires, Rows, RowOk
  <2>3. Good(jobs') /\ Keeps(jobs, jobs') BY <2>1, <2>2, UpdateGood DEF Inv
  <2>4. MemoryOk' BY <1>3, <2>3, SameMemory DEF Inv, LeaseExpires
  <2>5. RestOk' BY <1>3 DEF Inv, RestOk, LeaseExpires
  <2>. QED BY <2>3, <2>4, <2>5 DEF Inv, Good, OneLive
<1>. QED BY <1>1, <1>2, <1>3 DEF Faults

(* The table and the sessions do not move when only QuickBooks does. *)
LEMMA BookkeeperInv == ASSUME Inv, Bookkeeper PROVE Inv'
<1>1. ASSUME NEW inv \in HandInvoices, HandEnters(inv) PROVE Inv'
  <2>. DEFINE bill == [invoice |-> inv, creator |-> "hand", company |-> Expected]
  <2>1. Good(jobs)' /\ MemoryOk'
    BY <1>1, SameMemory, KeepsAll
    DEF Inv, HandEnters, UntouchedDb, dbVars, Good, OneLive
  <2>2. bill \in Bills BY InputAssumption, CompanyAssumption DEF Bills
  <2>3. books' \in Seq(Bills) /\ Len(books') = Len(books) + 1
    BY <1>1, <2>2 DEF Inv, RestOk, HandEnters
  <2>4. RestOk' BY <1>1, <2>3, BoundAssumption DEF Inv, RestOk, HandEnters, UntouchedDb, dbVars
  <2>. QED BY <2>1, <2>4 DEF Inv
<1>2. ASSUME NEW b \in BillIds, HandEdits(b) PROVE Inv'
  <2>1. Good(jobs)' /\ MemoryOk'
    BY <1>2, SameMemory, KeepsAll
    DEF Inv, HandEdits, UntouchedDb, dbVars, Good, OneLive
  <2>. DEFINE bill == [books[b] EXCEPT !.invoice = Altered]
  <2>2. books \in Seq(Bills) /\ b \in DOMAIN books /\ b \in 1 .. Len(books)
    BY <1>2 DEF HandEdits, Inv, RestOk
  <2>3. books[b] \in Bills BY <2>2
  <2>4. bill \in Bills BY <2>3 DEF Bills
  <2>5. books' = [books EXCEPT ![b] = bill] BY <1>2 DEF HandEdits
  <2>6. books' \in Seq(Bills) /\ Len(books') = Len(books) BY <2>2, <2>4, <2>5
  <2>7. RestOk' BY <1>2, <2>6 DEF Inv, RestOk, HandEdits, UntouchedDb, dbVars
  <2>. QED BY <2>1, <2>7 DEF Inv
<1>. QED BY <1>1, <1>2 DEF Bookkeeper

LEMMA QuickBooksInv == ASSUME Inv, NEW t \in Tickets, QuickBooks(t) PROVE Inv'
<1>1. ASSUME NEW kind \in {"accepted", "rejected"}, NEW found \in SUBSET BillIds,
             Reply(t, kind, found), UNCHANGED <<jobs, sess>>
      PROVE  MemoryOk'
  <2>. DEFINE m == [wire[t] EXCEPT !.kind = kind, !.found = found]
  <2>1. m \in Messages /\ m.kind # "request" BY <1>1 DEF Inv, MemoryOk, Messages
  <2>2. wire' = [wire EXCEPT ![t] = m] BY <1>1 DEF Reply, Inv, MemoryOk, Messages
  <2>. QED BY <1>1, <2>1, <2>2 DEF Inv, MemoryOk, Present
<1>2. CASE ExecuteQuery(t)
  <2>1. Matches(wire[t].job, wire[t].file) \subseteq BillIds
    <3>1. books \in Seq(Bills) /\ Len(books) <= MaxBills BY DEF Inv, RestOk
    <3>2. DOMAIN books = 1 .. Len(books) /\ Len(books) \in Nat BY <3>1
    <3>. QED BY <3>1, <3>2, BoundAssumption DEF Matches, BillIds
  <2>2. MemoryOk' BY <1>1, <1>2, <2>1 DEF ExecuteQuery, UntouchedDb, dbVars
  <2>3. Good(jobs)' /\ RestOk'
    BY <1>2 DEF Inv, Good, OneLive, RestOk, ExecuteQuery, UntouchedDb, dbVars
  <2>. QED BY <2>2, <2>3 DEF Inv
<1>3. CASE Refuse(t)
  <2>1. MemoryOk' BY <1>1, <1>3 DEF Refuse, UntouchedDb, dbVars
  <2>2. Good(jobs)' /\ RestOk'
    BY <1>3 DEF Inv, Good, OneLive, RestOk, Refuse, UntouchedDb, dbVars
  <2>. QED BY <2>1, <2>2 DEF Inv
<1>4. CASE ExecuteCreate(t)
  <2>. DEFINE k == wire[t].job
              bill == [invoice |-> jobs[k].txn, creator |-> k.proposal, company |-> wire[t].file]
  <2>1. k \in JobKeys /\ jobs[k].status # "absent"
    BY <1>4 DEF Inv, MemoryOk, ExecuteCreate, Present
  <2>2. bill \in Bills BY <2>1 DEF Inv, Good, RowOk, MemoryOk, Messages, Bills, JobKeys
  <2>3. books \in Seq(Bills) /\ Len(books) < MaxBills /\ books' = Append(books, bill)
    BY <1>4 DEF ExecuteCreate, Inv, RestOk
  <2>4. books' \in Seq(Bills) /\ Len(books') = Len(books) + 1 BY <2>2, <2>3
  <2>5. Len(books) + 1 \in BillIds BY <2>3, BoundAssumption DEF BillIds
  <2>6. MemoryOk' BY <1>1, <1>4, <2>5 DEF ExecuteCreate, UntouchedDb, dbVars
  <2>7. RestOk' BY <1>4, <2>3, <2>4, BoundAssumption DEF Inv, RestOk, ExecuteCreate, UntouchedDb, dbVars
  <2>8. Good(jobs)' BY <1>4 DEF Inv, Good, OneLive, ExecuteCreate, UntouchedDb, dbVars
  <2>. QED BY <2>6, <2>7, <2>8 DEF Inv
<1>. QED BY <1>2, <1>3, <1>4 DEF QuickBooks

(* A step that ends the session t and leaves a good table. *)
LEMMA FinishInv ==
  ASSUME Inv, NEW t \in Tickets, Finish(t), Good(jobs'), Keeps(jobs, jobs'),
         UNCHANGED <<proposal, posting, gate, books>>
  PROVE  Inv'
<1>1. MemoryOk' BY FinishMemory DEF Inv
<1>2. RestOk' BY DEF Inv, RestOk
<1>. QED BY <1>1, <1>2 DEF Inv, Good, OneLive

(* The session asks which company file is open, leases, and sends. *)
LEMMA ServerInv == ASSUME Inv, NEW t \in Tickets, Server(t) PROVE Inv'
<1>1. CASE Authenticate(t)
  <2>1. [sess[t] EXCEPT !.phase = "identify"] \in Sessions BY DEF Inv, MemoryOk, Sessions
  <2>2. MemoryOk'
    BY <1>1, <2>1 DEF Inv, MemoryOk, Authenticate, UntouchedDb, dbVars, Present
  <2>. QED BY <1>1, <2>2 DEF Inv, Good, OneLive, RestOk, Authenticate, UntouchedDb, dbVars
<1>2. CASE AskCompany(t)
  <2>1. PICK file \in Companies : wire' = [wire EXCEPT ![t].kind = "company", ![t].file = file]
    BY <1>2 DEF AskCompany
  <2>. DEFINE m == [wire[t] EXCEPT !.kind = "company", !.file = file]
  <2>2. m \in Messages /\ m.kind = "company" BY DEF Inv, MemoryOk, Messages
  <2>3. wire' = [wire EXCEPT ![t] = m] BY <2>1 DEF Inv, MemoryOk, Messages
  <2>4. MemoryOk' BY <1>2, <2>2, <2>3 DEF Inv, MemoryOk, AskCompany, UntouchedDb, dbVars, Present
  <2>. QED BY <1>2, <2>4 DEF Inv, Good, OneLive, RestOk, AskCompany, UntouchedDb, dbVars
<1>3. CASE CompanyMatches(t)
  <2>. DEFINE s == [sess[t] EXCEPT !.phase = "leasing"]
              m == [wire[t] EXCEPT !.kind = "none"]
  <2>1. s \in Sessions /\ m \in Messages /\ s.phase = "leasing" /\ m.kind = "none"
    BY DEF Inv, MemoryOk, Sessions, Messages
  <2>2. sess' = [sess EXCEPT ![t] = s] /\ wire' = [wire EXCEPT ![t] = m]
    BY <1>3 DEF CompanyMatches
  <2>3. MemoryOk'
    BY <1>3, <2>1, <2>2 DEF Inv, MemoryOk, CompanyMatches, UntouchedDb, dbVars, Present
  <2>. QED BY <1>3, <2>3 DEF Inv, Good, OneLive, RestOk, CompanyMatches, UntouchedDb, dbVars
<1>4. CASE CompanyRefused(t)
  BY <1>4, FinishInv, KeepsAll DEF CompanyRefused, UntouchedDb, dbVars, Inv
<1>5. CASE CompanyDiffers(t)
  <2>1. Good(jobs') /\ Keeps(jobs, jobs')
    BY <1>5, SweptGood, HoldQueueGood DEF CompanyDiffers, Inv, Keeps
  <2>. QED BY <1>5, <2>1, FinishInv DEF CompanyDiffers
<1>6. ASSUME NEW k \in JobKeys, LeaseNext(t, k) PROVE Inv'
  <2>1. Good(LeaseTo(Swept(jobs), k, t)) /\ Keeps(jobs, LeaseTo(Swept(jobs), k, t))
    <3>1. Good(Swept(jobs)) /\ Keeps(jobs, Swept(jobs)) BY SweptGood DEF Inv
    <3>2. Leasable(Swept(jobs), k) BY <1>6 DEF LeaseNext
    <3>. QED BY <3>1, <3>2, LeaseToGood DEF Keeps
  <2>2. Good(jobs') /\ Keeps(jobs, jobs') BY <1>6, <2>1 DEF LeaseNext
  <2>3. Present(jobs', k)
    BY <1>6, SweptGood DEF LeaseNext, LeaseTo, Leasable, Present, Inv, Good
  <2>4. [phase |-> "leased", job |-> k] \in Sessions BY DEF Sessions
  <2>5. MemoryOk' BY <1>6, <2>2, <2>3, <2>4 DEF Inv, MemoryOk, LeaseNext, Keeps
  <2>6. RestOk' BY <1>6 DEF Inv, RestOk, LeaseNext
  <2>. QED BY <2>2, <2>5, <2>6 DEF Inv, Good, OneLive
<1>7. ASSUME NEW k \in JobKeys, LeaseUnrenderable(t, k) PROVE Inv'
  <2>1. Good(Swept(jobs)) /\ Keeps(jobs, Swept(jobs)) BY SweptGood DEF Inv
  <2>2. Good(LeaseTo(Swept(jobs), k, t)) /\ Keeps(jobs, LeaseTo(Swept(jobs), k, t))
    BY <1>7, <2>1, LeaseToGood DEF LeaseUnrenderable, Keeps
  <2>. QED BY <1>7, <2>2, FinishInv DEF LeaseUnrenderable
<1>8. CASE LeaseNothing(t)
  <2>1. Good(jobs') /\ Keeps(jobs, jobs') BY <1>8, SweptGood DEF LeaseNothing, Inv
  <2>. QED BY <1>8, <2>1, FinishInv DEF LeaseNothing
<1>9. CASE SendRequest(t)
  <2>. DEFINE k == sess[t].job
              row == [jobs[k] EXCEPT !.status = "sent"]
              s == [sess[t] EXCEPT !.phase = "sent"]
              m == [wire[t] EXCEPT !.kind = "request", !.job = k]
  <2>1. k \in JobKeys /\ jobs[k].status = "leased"
    BY <1>9 DEF Inv, MemoryOk, SendRequest, MaySend
  <2>2. row \in Rows /\ RowOk(row) /\ row.lease = jobs[k].lease /\ row.status = "sent"
    BY <2>1 DEF Inv, Good, Rows, RowOk, Statuses
  <2>3. jobs' = [jobs EXCEPT ![k] = row] BY <1>9 DEF SendRequest
  <2>4. Good(jobs') /\ Keeps(jobs, jobs')
    <3>1. CASE jobs[k].lease = "live" BY <2>1, <2>2, <2>3, <3>1, UpdateGood DEF Inv
    <3>2. CASE jobs[k].lease # "live" BY <2>1, <2>2, <2>3, <3>2, UpdateGood DEF Inv
    <3>. QED BY <3>1, <3>2
  <2>5. Present(jobs', k) BY <2>1, <2>4 DEF Keeps, Present
  <2>6. s \in Sessions /\ m \in Messages /\ s.job = k /\ m.job = k
    BY <2>1 DEF Inv, MemoryOk, Sessions, Messages
  <2>7. sess' = [sess EXCEPT ![t] = s] /\ (wire' = [wire EXCEPT ![t] = m] \/ wire' = wire)
    BY <1>9 DEF SendRequest, Inv, MemoryOk, Messages
  <2>8. MemoryOk' BY <2>1, <2>4, <2>5, <2>6, <2>7 DEF Inv, MemoryOk, Keeps
  <2>9. RestOk' BY <1>9 DEF Inv, RestOk, SendRequest
  <2>. QED BY <2>4, <2>8, <2>9 DEF Inv, Good, OneLive
<1>10. CASE SendRefused(t)
  BY <1>10, FinishInv, KeepsAll DEF SendRefused, UntouchedDb, dbVars, Inv
<1>. QED BY <1>1, <1>2, <1>3, <1>4, <1>5, <1>6, <1>7, <1>8, <1>9, <1>10 DEF Server

(* A job that exists in a good table succeeds. *)
LEMMA SucceedGood ==
  ASSUME NEW j, Good(j), NEW k \in JobKeys, Present(j, k)
  PROVE  /\ Good([j EXCEPT ![k] = Settle(j[k], "succeeded", "none")])
         /\ Keeps(j, [j EXCEPT ![k] = Settle(j[k], "succeeded", "none")])
<1>1. /\ Settle(j[k], "succeeded", "none") \in Rows
      /\ RowOk(Settle(j[k], "succeeded", "none"))
      /\ Settle(j[k], "succeeded", "none").status = "succeeded"
      /\ Settle(j[k], "succeeded", "none").lease = "none"
  BY SettleType DEF Good, Present, Statuses, Errors
<1>. QED BY <1>1, UpdateGood

(* Queueing the next stage and settling the one before it. *)
LEMMA QueueNextGood ==
  ASSUME Inv, NEW k \in JobKeys, Present(jobs, k), NEW next \in JobKeys,
         NEW ext \in 0 .. MaxBills
  PROVE  LET queued == Insert(jobs, next, ext, jobs[k].txn)
             after  == [queued EXCEPT ![k] = Settle(@, "succeeded", "none")]
         IN  Good(after) /\ Keeps(jobs, after)
<1>. DEFINE queued == Insert(jobs, next, ext, jobs[k].txn)
<1>1. jobs[k].txn \in Invoices BY DEF Inv, Good, RowOk, Present
<1>2. Good(queued) /\ Keeps(jobs, queued) BY <1>1, InsertGood DEF Inv
<1>3. Present(queued, k) BY <1>2 DEF Keeps
<1>. HIDE DEF queued
<1>4. /\ Good([queued EXCEPT ![k] = Settle(queued[k], "succeeded", "none")])
      /\ Keeps(queued, [queued EXCEPT ![k] = Settle(queued[k], "succeeded", "none")])
  BY <1>2, <1>3, SucceedGood
<1>5. Keeps(jobs, [queued EXCEPT ![k] = Settle(queued[k], "succeeded", "none")])
  BY <1>2, <1>4 DEF Keeps
<1>. QED BY <1>4, <1>5 DEF queued

(* The answer to a request settles its job, queues the next or finalizes. *)
LEMMA AnswerInv == ASSUME Inv, NEW t \in Tickets, Answer(t) PROVE Inv'
<1>. DEFINE k == sess[t].job
            found == wire[t].found
<1>a. ASSUME sess[t].phase = "sent"
      PROVE  k \in JobKeys /\ Present(jobs, k) /\ k.proposal \in Proposals
  BY <1>a DEF Inv, MemoryOk, JobKeys
<1>b. found \subseteq BillIds BY DEF Inv, MemoryOk, Messages
<1>1. CASE HearTransportError(t) BY <1>1, FailStep DEF HearTransportError, Hears
<1>2. CASE HearNotOk(t) BY <1>2, FailStep DEF HearNotOk, Hears
<1>3. CASE HearInfrastructureError(t)
  <2>1. (~IsCreate(sess[t].job)) \in BOOLEAN BY DEF IsCreate
  <2>. QED BY <1>3, <2>1, FailStep DEF HearInfrastructureError, Hears
<1>4. CASE HearPreflight(t)
  <2>1. k \in JobKeys /\ Present(jobs, k) /\ k.proposal \in Proposals
    BY <1>4, <1>a DEF HearPreflight, Hears
  <2>2. Good(jobs') /\ Keeps(jobs, jobs')
    <3>1. CASE found = {}
      <4>1. Key(k.proposal, "create") \in JobKeys /\ 0 \in 0 .. MaxBills
        BY <2>1, KeyType, BoundAssumption DEF Stages
      <4>2. jobs' = [Insert(jobs, Key(k.proposal, "create"), 0, jobs[k].txn)
                       EXCEPT ![k] = Settle(@, "succeeded", "none")]
        BY <1>4, <3>1 DEF HearPreflight, NextStage
      <4>. QED BY <2>1, <4>1, <4>2, QueueNextGood
    <3>2. CASE found # {}
      <4>. DEFINE b == CHOOSE b \in found : TRUE
      <4>1. b \in 0 .. MaxBills BY <3>2, <1>b, BoundAssumption DEF BillIds
      <4>2. Key(k.proposal, "adoption") \in JobKeys BY <2>1, KeyType DEF Stages
      <4>3. jobs' = [Insert(jobs, Key(k.proposal, "adoption"), b, jobs[k].txn)
                       EXCEPT ![k] = Settle(@, "succeeded", "none")]
        BY <1>4, <3>2 DEF HearPreflight, NextStage
      <4>. HIDE DEF b
      <4>. QED BY <2>1, <4>1, <4>2, <4>3, QueueNextGood
    <3>. QED BY <3>1, <3>2
  <2>. DEFINE s == [phase |-> "leasing", job |-> NoJob]
              m == [wire[t] EXCEPT !.kind = "none", !.job = NoJob, !.found = {}]
  <2>3. s \in Sessions /\ m \in Messages /\ m.kind = "none" BY DEF Inv, MemoryOk, Sessions, Messages
  <2>4. sess' = [sess EXCEPT ![t] = s] /\ wire' = [wire EXCEPT ![t] = m]
    BY <1>4 DEF HearPreflight, Inv, MemoryOk, Messages
  <2>5. MemoryOk' BY <2>2, <2>3, <2>4 DEF Inv, MemoryOk, Keeps
  <2>6. RestOk' BY <1>4 DEF Inv, RestOk, HearPreflight
  <2>. QED BY <2>2, <2>5, <2>6 DEF Inv, Good, OneLive
<1>5. CASE HearCreate(t)
  <2>1. k \in JobKeys /\ Present(jobs, k) /\ k.proposal \in Proposals
    BY <1>5, <1>a DEF HearCreate, Hears
  <2>2. PICK b \in found : jobs' = [Insert(jobs, Key(k.proposal, "read_back"), b, jobs[k].txn)
                                      EXCEPT ![k] = Settle(@, "succeeded", "none")]
    BY <1>5 DEF HearCreate
  <2>3. b \in 0 .. MaxBills BY <1>b, BoundAssumption DEF BillIds
  <2>4. Key(k.proposal, "read_back") \in JobKeys BY <2>1, KeyType DEF Stages
  <2>5. Good(jobs') /\ Keeps(jobs, jobs') BY <2>1, <2>2, <2>3, <2>4, QueueNextGood
  <2>. QED BY <1>5, <2>5, FinishInv DEF HearCreate
<1>6. CASE HearReadBack(t)
  <2>1. k \in JobKeys /\ Present(jobs, k) /\ k.proposal \in Proposals
    BY <1>6, <1>a DEF HearReadBack, Hears
  <2>2. ParentAllows(k) BY <1>6 DEF HearReadBack, Finalizable
  <2>3. ASSUME NEW key \in JobKeys
        PROVE  /\ Finalized(k)[key] \in Rows /\ RowOk(Finalized(k)[key])
               /\ Finalized(k)[key].lease = "live" => jobs[key].lease = "live"
               /\ Present(jobs, key) => Finalized(k)[key].status # "absent"
    <3>1. CASE key = k \/ (k.stage = "probe" /\ key = Key(k.proposal, "create"))
      <4>1. jobs[key].status # "absent" BY <2>1, <2>2, <3>1 DEF ParentAllows, Uncertain, Present
      <4>2. Finalized(k)[key] = Settle(jobs[key], "succeeded", "none") BY <3>1 DEF Finalized
      <4>. QED BY <4>1, <4>2, SettleType DEF Inv, Good, Statuses, Errors
    <3>2. CASE ~(key = k \/ (k.stage = "probe" /\ key = Key(k.proposal, "create")))
      <4>1. Finalized(k)[key] = jobs[key] BY <3>2 DEF Finalized
      <4>. QED BY <4>1 DEF Inv, Good, Present
    <3>. QED BY <3>1, <3>2
  <2>4. Finalized(k) \in [JobKeys -> Rows] BY <2>3 DEF Finalized
  <2>5. jobs' = Finalized(k) BY <1>6 DEF HearReadBack
  <2>6. Good(jobs') /\ Keeps(jobs, jobs')
    BY <2>3, <2>4, <2>5 DEF Inv, Good, OneLive, Keeps, Present
  <2>7. MemoryOk' BY <1>6, <2>6, FinishMemory DEF Inv, HearReadBack
  <2>8. PICK b \in found : posting' = [posting EXCEPT ![k.proposal] = b]
    BY <1>6 DEF HearReadBack
  <2>9. posting' \in [Proposals -> 0 .. MaxBills]
    <3>1. b \in 0 .. MaxBills BY <1>b, BoundAssumption DEF BillIds
    <3>2. posting \in [Proposals -> 0 .. MaxBills] BY DEF Inv, RestOk
    <3>. QED BY <2>8, <3>1, <3>2
  <2>10. proposal' \in [Proposals -> [status : {"ready", "rejected", "posted"}, draft : Invoices]]
    <3>1. proposal' = [proposal EXCEPT ![k.proposal].status = "posted"] BY <1>6 DEF HearReadBack
    <3>2. proposal \in [Proposals -> [status : {"ready", "rejected", "posted"}, draft : Invoices]]
      BY DEF Inv, RestOk
    <3>. QED BY <3>1, <3>2
  <2>11. RestOk' BY <1>6, <2>9, <2>10 DEF Inv, RestOk, HearReadBack
  <2>. QED BY <2>6, <2>7, <2>11 DEF Inv, Good, OneLive
<1>7. CASE HearConflict(t)
  <2>1. Good(jobs') /\ Keeps(jobs, jobs')
    BY <1>7, SettleSentGood DEF HearConflict, Hears, Errors
  <2>. QED BY <1>7, <2>1, FinishInv DEF HearConflict
<1>8. CASE HearTooLate(t)
  BY <1>8, FinishInv, KeepsAll DEF HearTooLate, UntouchedDb, dbVars, Inv
<1>. QED BY <1>1, <1>2, <1>3, <1>4, <1>5, <1>6, <1>7, <1>8 DEF Answer

-----------------------------------------------------------------------------
(* Inv is preserved by every step of the system. *)
LEMMA NextInv == Inv /\ [Next]_vars => Inv'
<1>. SUFFICES ASSUME Inv, [Next]_vars PROVE Inv' OBVIOUS
<1>1. CASE Next
  BY <1>1, PersonInv, FaultsInv, BookkeeperInv, ServerInv, AnswerInv, QuickBooksInv DEF Next
<1>2. CASE UNCHANGED vars
  BY <1>2 DEF vars, Inv, Good, OneLive, MemoryOk, RestOk, Present
<1>. QED BY <1>1, <1>2

(* The invariant holds in every state of every behaviour. *)
THEOREM Invariance == Spec => []Inv
BY InitInv, NextInv, PTL DEF Spec

(* Type correctness: the rows of provider_jobs, the sessions, what connectors *)
(* hold, the proposals, the postings and the bills stay what TypeOK says.     *)
THEOREM TypeCorrect == Spec => []TypeOK
<1>1. Inv => TypeOK BY InvImplies
<1>. QED BY <1>1, Invariance, PTL

(* However many sessions poll one connection, at most one job is under a live *)
(* lease: leaseNext looks for one before it grants another.                   *)
THEOREM OneLease == Spec => []OneLiveLease
<1>1. Inv => OneLiveLease BY InvImplies
<1>. QED BY <1>1, Invariance, PTL

=============================================================================
