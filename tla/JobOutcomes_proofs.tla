------------------------- MODULE JobOutcomes_proofs -------------------------
(***************************************************************************)
(* What becomes of the jobs of ProviderJobs: how the stages of a proposal  *)
(* follow each other, where the create of a proposal may be on its way,    *)
(* and which bill each posting names.  Proved for every number of          *)
(* proposals, sessions, invoices, companies and bills, on top of the       *)
(* invariant Inv of ProviderJobs_proofs.                                   *)
(***************************************************************************)
EXTENDS ProviderJobs_proofs

(* How the stages of a proposal follow each other: a preflight that        *)
(* succeeded queued either the create or the adoption of a bill it found,  *)
(* only a create that succeeded has a read-back, only one that became      *)
(* uncertain has a probe, and all of them are about the same transaction.  *)
ChainOf(j, p) ==
  /\ j[Key(p, "preflight")].status # "succeeded" =>
       ~Present(j, Key(p, "create")) /\ ~Present(j, Key(p, "adoption"))
  /\ ~(Present(j, Key(p, "create")) /\ Present(j, Key(p, "adoption")))
  /\ j[Key(p, "create")].status # "succeeded" => ~Present(j, Key(p, "read_back"))
  /\ Present(j, Key(p, "probe")) =>
       Uncertain(j[Key(p, "create")]) \/ j[Key(p, "create")].status = "succeeded"
  /\ \A s \in Stages : Present(j, Key(p, s)) =>
       /\ Present(j, Key(p, "preflight"))
       /\ j[Key(p, s)].txn = j[Key(p, "preflight")].txn
Chain(j) == \A p \in Proposals : ChainOf(j, p)

(* What most statements do to a row, whatever else they do: nothing is     *)
(* deleted, settled as a success or freed from uncertainty; of the stages  *)
(* only a preflight or a probe is inserted; and a create that was sent is  *)
(* still out under the same lease, or uncertain.                           *)
CalmRow(k, row, row2) ==
  /\ \/ k.stage \in {"preflight", "probe"} /\ row.status = "absent"
     \/ /\ row2.txn = row.txn /\ row2.ext = row.ext
        /\ row2.status = "absent" <=> row.status = "absent"
  /\ row2.status = "succeeded" <=> row.status = "succeeded"
  /\ Uncertain(row) => Uncertain(row2)
  /\ IsCreate(k) /\ row.status = "sent" =>
       Uncertain(row2) \/ (row2.status = "sent" /\ row2.token = row.token)
Calm(j, j2) == \A k \in JobKeys : CalmRow(k, j[k], j2[k])

LEMMA Keys ==
  /\ \A p \in Proposals, s \in Stages : Key(p, s) \in JobKeys
  /\ \A p \in Proposals : /\ Key(p, "preflight") \in JobKeys /\ Key(p, "create") \in JobKeys
                          /\ Key(p, "read_back") \in JobKeys /\ Key(p, "adoption") \in JobKeys
                          /\ Key(p, "probe") \in JobKeys
  /\ \A p \in Proposals, s \in Stages : Key(p, s).proposal = p /\ Key(p, s).stage = s
  /\ \A k \in JobKeys : k = Key(k.proposal, k.stage) /\ k.proposal \in Proposals /\ k.stage \in Stages
BY DEF Key, JobKeys, Stages

LEMMA CalmRefl == ASSUME NEW j PROVE Calm(j, j)
BY DEF Calm, CalmRow

LEMMA CalmTrans == ASSUME NEW i, NEW j, NEW l, Calm(i, j), Calm(j, l) PROVE Calm(i, l)
BY DEF Calm, CalmRow

(* A row that is changed in place. *)
LEMMA CalmUpdate ==
  ASSUME NEW j, Good(j), NEW k \in JobKeys, NEW row, CalmRow(k, j[k], row)
  PROVE  Calm(j, [j EXCEPT ![k] = row])
BY DEF Calm, CalmRow, Good

(* The chain holds on as long as nothing but a preflight is inserted. *)
LEMMA CalmChain ==
  ASSUME NEW j, NEW j2, Chain(j), Calm(j, j2),
         \A p \in Proposals : Present(j2, Key(p, "probe")) => Present(j, Key(p, "probe"))
  PROVE  Chain(j2)
<1>. SUFFICES ASSUME NEW p \in Proposals
     PROVE  ChainOf(j2, p)
  BY DEF Chain, ChainOf
<1>1. \A s \in Stages : CalmRow(Key(p, s), j[Key(p, s)], j2[Key(p, s)]) BY Keys DEF Calm
<1>2. \A s \in {"create", "adoption", "read_back"} :
        Present(j2, Key(p, s)) <=> Present(j, Key(p, s))
  BY <1>1, Keys DEF CalmRow, Present, Stages
<1>3. \A s \in Stages : j2[Key(p, s)].status = "succeeded" <=> j[Key(p, s)].status = "succeeded"
  BY <1>1 DEF CalmRow
<1>4. \A s \in Stages : Uncertain(j[Key(p, s)]) => Uncertain(j2[Key(p, s)])
  BY <1>1 DEF CalmRow
<1>5. \A s \in Stages : Present(j, Key(p, s)) =>
        Present(j2, Key(p, s)) /\ j2[Key(p, s)].txn = j[Key(p, s)].txn
  BY <1>1 DEF CalmRow, Present
<1>6. ASSUME NEW s \in Stages, Present(j2, Key(p, s))
      PROVE  /\ Present(j2, Key(p, "preflight"))
             /\ j2[Key(p, s)].txn = j2[Key(p, "preflight")].txn
  <2>1. CASE s = "preflight" BY <1>6, <2>1
  <2>2. CASE s # "preflight"
    <3>1. Present(j, Key(p, s)) BY <1>2, <1>6, <2>2 DEF Stages
    <3>. QED BY <3>1, <1>5 DEF Chain, ChainOf, Stages
  <2>. QED BY <2>1, <2>2
<1>. QED BY <1>2, <1>3, <1>4, <1>6 DEF Chain, ChainOf, Stages

LEMMA LapsedCalm ==
  ASSUME NEW j, Good(j), Chain(j) PROVE Calm(j, Lapsed(j)) /\ Chain(Lapsed(j))
<1>1. ASSUME NEW k \in JobKeys
      PROVE  CalmRow(k, j[k], Lapsed(j)[k]) /\ (Present(Lapsed(j), k) => Present(j, k))
  <2>1. j[k] \in Rows BY DEF Good
  <2>. QED BY <2>1 DEF Lapsed, Settle, CalmRow, Present, Uncertain, Rows, Statuses, Errors
<1>2. Calm(j, Lapsed(j)) BY <1>1 DEF Calm
<1>. QED BY <1>1, <1>2, CalmChain, Keys

LEMMA ProbedCalm ==
  ASSUME NEW j, Good(j), Chain(j) PROVE Calm(j, Probed(j)) /\ Chain(Probed(j))
<1>1. ASSUME NEW k \in JobKeys
      PROVE  \/ Probed(j)[k] = j[k]
             \/ /\ k.stage = "probe" /\ ~Present(j, k) /\ Uncertain(j[Key(k.proposal, "create")])
                /\ Probed(j)[k].txn = j[Key(k.proposal, "create")].txn
                /\ Probed(j)[k].status = "queued"
  BY Keys DEF Probed, NewRow
<1>2. Calm(j, Probed(j))
  BY <1>1 DEF Calm, CalmRow, Present, Uncertain, IsCreate
<1>3. ASSUME NEW p \in Proposals, NEW s \in Stages \ {"probe"}
      PROVE  Probed(j)[Key(p, s)] = j[Key(p, s)]
  BY <1>1, Keys
<1>4. ASSUME NEW p \in Proposals, Present(Probed(j), Key(p, "probe"))
      PROVE  \/ Probed(j)[Key(p, "probe")] = j[Key(p, "probe")]
             \/ /\ Uncertain(j[Key(p, "create")]) /\ Present(j, Key(p, "create"))
                /\ Probed(j)[Key(p, "probe")].txn = j[Key(p, "create")].txn
  <2>1. Key(p, "probe") \in JobKeys /\ Key(p, "probe").proposal = p BY Keys DEF Stages
  <2>. QED BY <2>1, <1>1 DEF Uncertain, Present
<1>5. Chain(Probed(j)) BY <1>3, <1>4 DEF Chain, ChainOf, Present, Stages
<1>. QED BY <1>2, <1>5

LEMMA SweptCalm ==
  ASSUME NEW j, Good(j), Chain(j) PROVE Calm(j, Swept(j)) /\ Chain(Swept(j))
BY LapsedCalm, LapsedGood, ProbedCalm, CalmTrans DEF Swept

LEMMA HoldQueueCalm ==
  ASSUME NEW j, Good(j), Chain(j) PROVE Calm(j, HoldQueue(j)) /\ Chain(HoldQueue(j))
<1>1. ASSUME NEW k \in JobKeys
      PROVE  CalmRow(k, j[k], HoldQueue(j)[k]) /\ (Present(HoldQueue(j), k) => Present(j, k))
  <2>1. j[k] \in Rows BY DEF Good
  <2>. QED BY <2>1 DEF HoldQueue, CalmRow, Present, Uncertain, Rows, Statuses, Errors
<1>2. Calm(j, HoldQueue(j)) BY <1>1 DEF Calm
<1>. QED BY <1>1, <1>2, CalmChain, Keys

(* One row that was there changes and stays calm. *)
LEMMA RowCalm ==
  ASSUME NEW j, Good(j), Chain(j), NEW k \in JobKeys, Present(j, k), NEW row, CalmRow(k, j[k], row)
  PROVE  Calm(j, [j EXCEPT ![k] = row]) /\ Chain([j EXCEPT ![k] = row])
<1>1. Calm(j, [j EXCEPT ![k] = row]) BY CalmUpdate
<1>2. \A i \in JobKeys : Present([j EXCEPT ![k] = row], i) => Present(j, i) BY DEF Present, Good
<1>. QED BY <1>1, <1>2, CalmChain, Keys

LEMMA LeaseToCalm ==
  ASSUME NEW j, Good(j), Chain(j), NEW k \in JobKeys, NEW t \in Tickets, Leasable(j, k)
  PROVE  Calm(j, LeaseTo(j, k, t)) /\ Chain(LeaseTo(j, k, t))
<1>. DEFINE row == [j[k] EXCEPT !.status = "leased", !.error = "none", !.token = t, !.lease = "live"]
<1>1. j[k] \in Rows /\ j[k].status = "queued" BY DEF Good, Leasable, Oldest, Queued
<1>2. CalmRow(k, j[k], row) BY <1>1 DEF CalmRow, Rows, Uncertain
<1>. HIDE DEF row
<1>3. Calm(j, [j EXCEPT ![k] = row]) /\ Chain([j EXCEPT ![k] = row])
  BY <1>1, <1>2, RowCalm DEF Present
<1>. QED BY <1>3 DEF LeaseTo, row

(* A row is settled otherwise than as a success. *)
LEMMA SettledCalm ==
  ASSUME NEW j, Good(j), Chain(j), NEW k \in JobKeys, NEW status \in {"queued", "failed", "held"},
         NEW error \in Errors, j[k].status \in {"sent", "failed", "held"}, ~Uncertain(j[k]),
         IsCreate(k) /\ j[k].status = "sent" => status = "held" /\ error = "UNCERTAIN_OUTCOME"
  PROVE  /\ Calm(j, [j EXCEPT ![k] = Settle(j[k], status, error)])
         /\ Chain([j EXCEPT ![k] = Settle(j[k], status, error)])
<1>1. j[k] \in Rows BY DEF Good
<1>2. CalmRow(k, j[k], Settle(j[k], status, error)) BY <1>1 DEF CalmRow, Settle, Rows, Uncertain
<1>. QED BY <1>2, RowCalm DEF Present

-----------------------------------------------------------------------------
(***************************************************************************)
(* The invariant.  Talk: what a session and its connector remember of each *)
(* other; a session that goes on to lease has seen the expected company.   *)
(* Wires: the connector that carries a create is the only one, and the     *)
(* create is still out under its lease, uncertain, or was adopted since.   *)
(* Found: the bills an answer names are bills of the job's contents.       *)
(***************************************************************************)
Busy == {"request", "accepted", "rejected"}
Carries(t, k) == wire[t].kind \in Busy /\ wire[t].job = k

Talk ==
  \A t \in Tickets :
    /\ sess[t].phase \in {"leasing", "leased"} => wire[t].kind = "none"
    /\ sess[t].phase = "sent" /\ wire[t].kind # "none" => Carries(t, sess[t].job)
    /\ sess[t].phase = "identify" => wire[t].kind \in {"none", "company"}
    /\ sess[t].phase \in {"leasing", "leased", "sent"} \/ wire[t].kind \in Busy
         => wire[t].file = Expected

Out(row, t) ==
  \/ row.status = "sent" /\ row.token = t
  \/ Uncertain(row)
  \/ row.status = "succeeded"

Wires ==
  \A t \in Tickets : wire[t].kind \in Busy =>
    /\ wire[t].job \in JobKeys /\ Present(jobs, wire[t].job)
    /\ IsCreate(wire[t].job) => /\ Out(jobs[wire[t].job], t)
                                /\ \A u \in Tickets : Carries(u, wire[t].job) => u = t

Real(b, txn) ==
  /\ b \in DOMAIN books /\ books[b].company = Expected
  /\ books[b].invoice \in {txn, Altered}
Found ==
  \A t \in Tickets : wire[t].kind = "accepted" =>
    \A b \in wire[t].found : Real(b, jobs[wire[t].job].txn)

Course == /\ Chain(jobs) /\ Talk /\ Wires /\ Found
          /\ ExpectedCompanyOnly /\ PostingIsRealBill /\ FinalizedTogether

LEMMA CourseImplies == Course => CreateTransmittedOnce
<1>. SUFFICES ASSUME Course, NEW t \in Tickets, NEW u \in Tickets, wire[t].kind = "request",
                     wire[u].kind \in {"request", "accepted"}, IsCreate(wire[t].job),
                     wire[t].job = wire[u].job
     PROVE  t = u
  BY DEF CreateTransmittedOnce
<1>. QED BY DEF Course, Wires, Carries, Busy

LEMMA InitCourse == Init => Course
<1>. SUFFICES ASSUME Init PROVE Course OBVIOUS
<1>1. \A k \in JobKeys : jobs[k] = NoRow BY DEF Init
<1>2. Chain(jobs) BY <1>1, Keys DEF Chain, ChainOf, NoRow, Present, Stages
<1>3. \A t \in Tickets : wire[t] = Silence /\ sess[t] = Closed BY DEF Init
<1>4. Talk /\ Wires /\ Found BY <1>3 DEF Talk, Wires, Found, Silence, Closed, Busy
<1>5. ExpectedCompanyOnly BY DEF Init, ExpectedCompanyOnly
<1>6. PostingIsRealBill BY DEF Init, PostingIsRealBill
<1>7. FinalizedTogether
  <2>1. \A p \in Proposals : posting[p] = 0 BY DEF Init
  <2>. QED BY <1>1, <2>1, Keys DEF FinalizedTogether, NoRow, Stages
<1>. QED BY <1>2, <1>4, <1>5, <1>6, <1>7 DEF Course

-----------------------------------------------------------------------------
(* What a calm step leaves true.  Hushed: no connector is handed a request *)
(* or an answer.  BooksKeep: bills are appended, or edited by hand.        *)
Hushed == \A t \in Tickets : wire'[t].kind \in Busy => wire'[t] = wire[t]
BooksKeep ==
  \A b \in DOMAIN books :
    /\ b \in DOMAIN books'
    /\ books'[b].company = books[b].company /\ books'[b].creator = books[b].creator
    /\ books'[b].invoice \in {books[b].invoice, Altered}

LEMMA SameBooks == ASSUME UNCHANGED books PROVE BooksKeep
BY DEF BooksKeep

(* Rows stay, with the transaction and the bill they are about. *)
TxnKept(j, j2) ==
  \A k \in JobKeys : Present(j, k) =>
    Present(j2, k) /\ j2[k].txn = j[k].txn /\ j2[k].ext = j[k].ext

LEMMA CalmKeepsTxn == ASSUME NEW j, NEW j2, Calm(j, j2) PROVE TxnKept(j, j2)
BY DEF Calm, CalmRow, Present, TxnKept

LEMMA KeepsWires ==
  ASSUME Wires, TxnKept(jobs, jobs'), Hushed,
         \A t \in Tickets : wire'[t].kind \in Busy /\ IsCreate(wire[t].job) =>
           Out(jobs'[wire[t].job], t)
  PROVE  Wires'
<1>. SUFFICES ASSUME NEW t \in Tickets, wire'[t].kind \in Busy
     PROVE  /\ wire'[t].job \in JobKeys /\ Present(jobs', wire'[t].job)
            /\ IsCreate(wire'[t].job) =>
                 /\ Out(jobs'[wire'[t].job], t)
                 /\ \A u \in Tickets :
                      wire'[u].kind \in Busy /\ wire'[u].job = wire'[t].job => u = t
  BY DEF Wires, Present, IsCreate, Out, Uncertain, Carries, Busy
<1>1. wire'[t] = wire[t] BY DEF Hushed
<1>2. wire[t].job \in JobKeys /\ Present(jobs, wire[t].job) BY <1>1 DEF Wires
<1>3. Present(jobs', wire[t].job) BY <1>2 DEF TxnKept
<1>4. ASSUME IsCreate(wire[t].job), NEW u \in Tickets,
             wire'[u].kind \in Busy, wire'[u].job = wire[t].job
      PROVE  u = t
  <2>1. wire'[u] = wire[u] BY <1>4 DEF Hushed
  <2>2. Carries(u, wire[t].job) BY <1>4, <2>1 DEF Carries
  <2>. QED BY <1>1, <1>4, <2>2 DEF Wires
<1>. QED BY <1>1, <1>2, <1>3, <1>4

LEMMA CalmWires == ASSUME Wires, Calm(jobs, jobs'), Hushed PROVE Wires'
<1>1. ASSUME NEW t \in Tickets, wire'[t].kind \in Busy, IsCreate(wire[t].job)
      PROVE  Out(jobs'[wire[t].job], t)
  <2>1. wire'[t] = wire[t] BY <1>1 DEF Hushed
  <2>2. wire[t].job \in JobKeys /\ Out(jobs[wire[t].job], t) BY <1>1, <2>1 DEF Wires
  <2>3. CalmRow(wire[t].job, jobs[wire[t].job], jobs'[wire[t].job]) BY <2>2 DEF Calm
  <2>. QED BY <1>1, <2>2, <2>3 DEF Out, CalmRow
<1>. QED BY <1>1, CalmKeepsTxn, KeepsWires

LEMMA KeepsFound ==
  ASSUME Wires, Found, TxnKept(jobs, jobs'), Hushed, BooksKeep PROVE Found'
<1>. SUFFICES ASSUME NEW t \in Tickets, wire'[t].kind = "accepted", NEW b \in wire'[t].found
     PROVE  Real(b, jobs[wire[t].job].txn)'
  BY DEF Found, Real
<1>1. wire'[t] = wire[t] BY DEF Hushed, Busy
<1>2. wire[t].job \in JobKeys /\ Present(jobs, wire[t].job) BY <1>1 DEF Wires, Busy
<1>3. jobs'[wire[t].job].txn = jobs[wire[t].job].txn BY <1>2 DEF TxnKept
<1>4. Real(b, jobs[wire[t].job].txn) BY <1>1 DEF Found
<1>5. b \in DOMAIN books' /\ books'[b].company = Expected
      /\ books'[b].invoice \in {jobs[wire[t].job].txn, Altered}
  BY <1>4 DEF Real, BooksKeep
<1>. QED BY <1>1, <1>3, <1>5 DEF Real

(* A posting came from a bill that a succeeded preflight asked for. *)
LEMMA PostedChain ==
  ASSUME Chain(jobs), FinalizedTogether, NEW p \in Proposals, posting[p] # 0
  PROVE  jobs[Key(p, "preflight")].status = "succeeded"
<1>1. PICK s \in {"read_back", "adoption", "probe"} : jobs[Key(p, s)].status = "succeeded"
  BY DEF FinalizedTogether
<1>2. Present(jobs, Key(p, s)) BY <1>1 DEF Present
<1>. QED BY <1>2 DEF Chain, ChainOf, Present, Uncertain

LEMMA KeepsReal ==
  ASSUME Chain(jobs), FinalizedTogether, PostingIsRealBill, TxnKept(jobs, jobs'), BooksKeep,
         NEW p \in Proposals, posting[p] # 0
  PROVE  /\ posting[p] \in DOMAIN books' /\ books'[posting[p]].company = Expected
         /\ books'[posting[p]].invoice \in {jobs'[Key(p, "preflight")].txn, Altered}
<1>1. Present(jobs, Key(p, "preflight")) BY PostedChain DEF Present
<1>2. jobs'[Key(p, "preflight")].txn = jobs[Key(p, "preflight")].txn
  BY <1>1, Keys DEF TxnKept
<1>. QED BY <1>2 DEF PostingIsRealBill, BooksKeep

LEMMA CalmPostings ==
  ASSUME Chain(jobs), PostingIsRealBill, FinalizedTogether,
         Calm(jobs, jobs'), UNCHANGED posting, BooksKeep
  PROVE  PostingIsRealBill' /\ FinalizedTogether'
<1>1. \A p \in Proposals, s \in Stages :
        CalmRow(Key(p, s), jobs[Key(p, s)], jobs'[Key(p, s)])
  BY Keys DEF Calm
<1>2. \A p \in Proposals, s \in Stages :
        jobs'[Key(p, s)].status = "succeeded" <=> jobs[Key(p, s)].status = "succeeded"
  BY <1>1 DEF CalmRow
<1>3. FinalizedTogether'
  <2>1. \A p \in Proposals : jobs[Key(p, "create")].status = "absent" =>
          jobs'[Key(p, "create")].status = "absent"
    BY <1>1, Keys DEF CalmRow, Stages
  <2>. QED BY <1>2, <2>1 DEF FinalizedTogether, Stages
<1>4. PostingIsRealBill' BY CalmKeepsTxn, KeepsReal DEF PostingIsRealBill
<1>. QED BY <1>3, <1>4

LEMMA CalmCompany ==
  ASSUME ExpectedCompanyOnly, UNCHANGED books PROVE ExpectedCompanyOnly'
BY DEF ExpectedCompanyOnly

(* A step of which sessions and QuickBooks only hear that something ended. *)
LEMMA CalmStep ==
  ASSUME Course, Calm(jobs, jobs'), Chain(jobs'), Talk', Hushed, UNCHANGED <<posting, books>>
  PROVE  Course'
<1>1. BooksKeep BY SameBooks
<1>2. Wires' /\ Found' BY <1>1, CalmWires, CalmKeepsTxn, KeepsFound DEF Course
<1>3. PostingIsRealBill' /\ FinalizedTogether' BY <1>1, CalmPostings DEF Course
<1>4. ExpectedCompanyOnly' BY CalmCompany DEF Course
<1>5. Chain(jobs)' BY DEF Chain, ChainOf, Present, Uncertain, Key
<1>. QED BY <1>2, <1>3, <1>4, <1>5 DEF Course

-----------------------------------------------------------------------------
(* Talk is kept by every step; it is about one session at a time. *)
TalkOf(s, m) ==
  /\ s.phase \in {"leasing", "leased"} => m.kind = "none"
  /\ s.phase = "sent" /\ m.kind # "none" => m.kind \in Busy /\ m.job = s.job
  /\ s.phase = "identify" => m.kind \in {"none", "company"}
  /\ s.phase \in {"leasing", "leased", "sent"} \/ m.kind \in Busy => m.file = Expected

LEMMA TalkIs == Talk <=> \A t \in Tickets : TalkOf(sess[t], wire[t])
BY DEF Talk, TalkOf, Carries

LEMMA TalkStep ==
  ASSUME Inv, Talk, NEW t \in Tickets, NEW s, NEW m, TalkOf(s, m),
         sess' = [sess EXCEPT ![t] = s], wire' = [wire EXCEPT ![t] = m]
  PROVE  Talk'
<1>1. \A u \in Tickets : TalkOf(sess[u], wire[u]) BY TalkIs
<1>2. sess \in [Tickets -> Sessions] /\ wire \in [Tickets -> Messages] BY DEF Inv, MemoryOk
<1>3. \A u \in Tickets : TalkOf(sess'[u], wire'[u]) BY <1>1, <1>2
<1>. QED BY <1>3 DEF Talk, TalkOf, Carries

LEMMA SilentTalk == TalkOf(Closed, Silence)
BY DEF TalkOf, Closed, Silence, Busy

LEMMA FinishTalk == ASSUME Inv, Talk, NEW t \in Tickets, Finish(t) PROVE Talk'
BY SilentTalk, TalkStep DEF Finish

LEMMA StillTalk == ASSUME Talk, UNCHANGED <<sess, wire>> PROVE Talk'
BY DEF Talk, Carries

LEMMA ReplyTalk ==
  ASSUME Inv, Talk, NEW t \in Tickets, wire[t].kind = "request", UNCHANGED sess,
         NEW kind \in {"accepted", "rejected"}, NEW found, Reply(t, kind, found)
  PROVE  Talk'
<1>. DEFINE m == [wire[t] EXCEPT !.kind = kind, !.found = found]
<1>1. wire[t] \in Messages /\ TalkOf(sess[t], wire[t]) BY TalkIs DEF Inv, MemoryOk
<1>2. TalkOf(sess[t], m) BY <1>1 DEF TalkOf, Busy, Messages
<1>3. sess' = [sess EXCEPT ![t] = sess[t]] BY DEF Inv, MemoryOk
<1>4. wire' = [wire EXCEPT ![t] = m] BY DEF Reply
<1>. HIDE DEF m
<1>. QED BY <1>2, <1>3, <1>4, TalkStep

LEMMA ServerTalk == ASSUME Inv, Talk, NEW t \in Tickets, Server(t) PROVE Talk'
<1>1. sess[t] \in Sessions /\ wire[t] \in Messages /\ TalkOf(sess[t], wire[t])
      /\ sess \in [Tickets -> Sessions] /\ wire \in [Tickets -> Messages]
  BY TalkIs DEF Inv, MemoryOk
<1>2. CASE Authenticate(t)
  <2>1. TalkOf([sess[t] EXCEPT !.phase = "identify"], wire[t])
    BY <1>1, <1>2 DEF Authenticate, TalkOf, Closed, Silence, Busy
  <2>2. wire' = [wire EXCEPT ![t] = wire[t]] BY <1>1, <1>2 DEF Authenticate
  <2>3. sess' = [sess EXCEPT ![t] = [sess[t] EXCEPT !.phase = "identify"]] BY <1>2 DEF Authenticate
  <2>. QED BY <2>1, <2>2, <2>3, TalkStep
<1>3. CASE AskCompany(t)
  <2>1. PICK file \in Companies : wire' = [wire EXCEPT ![t].kind = "company", ![t].file = file]
    BY <1>3 DEF AskCompany
  <2>2. TalkOf(sess[t], [wire[t] EXCEPT !.kind = "company", !.file = file])
    BY <1>1, <1>3 DEF AskCompany, TalkOf, Busy, Messages
  <2>3. sess' = [sess EXCEPT ![t] = sess[t]] BY <1>1, <1>3 DEF AskCompany
  <2>4. wire' = [wire EXCEPT ![t] = [wire[t] EXCEPT !.kind = "company", !.file = file]]
    BY <1>1, <2>1 DEF Messages
  <2>. QED BY <2>2, <2>3, <2>4, TalkStep
<1>4. CASE CompanyMatches(t)
  <2>1. TalkOf([sess[t] EXCEPT !.phase = "leasing"], [wire[t] EXCEPT !.kind = "none"])
    BY <1>1, <1>4 DEF CompanyMatches, SameCompany, TalkOf, Busy, Messages, Sessions
  <2>2. sess' = [sess EXCEPT ![t] = [sess[t] EXCEPT !.phase = "leasing"]]
        /\ wire' = [wire EXCEPT ![t] = [wire[t] EXCEPT !.kind = "none"]]
    BY <1>4 DEF CompanyMatches
  <2>. QED BY <2>1, <2>2, TalkStep
<1>5. CASE CompanyRefused(t) BY <1>5, FinishTalk DEF CompanyRefused
<1>6. CASE CompanyDiffers(t) BY <1>6, FinishTalk DEF CompanyDiffers
<1>7. ASSUME NEW k \in JobKeys, LeaseNext(t, k) PROVE Talk'
  <2>1. TalkOf([phase |-> "leased", job |-> k], wire[t])
    BY <1>1, <1>7 DEF LeaseNext, TalkOf, Busy
  <2>2. wire' = [wire EXCEPT ![t] = wire[t]] BY <1>1, <1>7 DEF LeaseNext
  <2>3. sess' = [sess EXCEPT ![t] = [phase |-> "leased", job |-> k]] BY <1>7 DEF LeaseNext
  <2>. QED BY <2>1, <2>2, <2>3, TalkStep
<1>8. ASSUME NEW k \in JobKeys, LeaseUnrenderable(t, k) PROVE Talk'
  BY <1>8, FinishTalk DEF LeaseUnrenderable
<1>9. CASE LeaseNothing(t) BY <1>9, FinishTalk DEF LeaseNothing
<1>10. CASE SendRequest(t)
  <2>. DEFINE s == [sess[t] EXCEPT !.phase = "sent"]
              m == [wire[t] EXCEPT !.kind = "request", !.job = sess[t].job]
  <2>1. TalkOf(s, m) /\ TalkOf(s, wire[t])
    BY <1>1, <1>10 DEF SendRequest, TalkOf, Busy, Messages, Sessions
  <2>2. sess' = [sess EXCEPT ![t] = s] BY <1>10 DEF SendRequest
  <2>3. wire' = [wire EXCEPT ![t] = m] \/ wire' = [wire EXCEPT ![t] = wire[t]]
    BY <1>1, <1>10 DEF SendRequest, Messages
  <2>. HIDE DEF s, m
  <2>. QED BY <2>1, <2>2, <2>3, TalkStep
<1>11. CASE SendRefused(t) BY <1>11, FinishTalk DEF SendRefused
<1>. QED BY <1>2, <1>3, <1>4, <1>5, <1>6, <1>7, <1>8, <1>9, <1>10, <1>11 DEF Server

LEMMA AnswerTalk == ASSUME Inv, Talk, NEW t \in Tickets, Answer(t) PROVE Talk'
<1>1. CASE HearPreflight(t)
  <2>. DEFINE s == [phase |-> "leasing", job |-> NoJob]
              m == [wire[t] EXCEPT !.kind = "none", !.job = NoJob, !.found = {}]
  <2>1. sess[t] \in Sessions /\ wire[t] \in Messages /\ wire \in [Tickets -> Messages]
        /\ TalkOf(sess[t], wire[t])
    BY TalkIs DEF Inv, MemoryOk
  <2>2. TalkOf(s, m) BY <1>1, <2>1 DEF HearPreflight, Hears, TalkOf, Busy, Messages
  <2>3. sess' = [sess EXCEPT ![t] = s] BY <1>1 DEF HearPreflight
  <2>4. wire' = [wire EXCEPT ![t] = m] BY <1>1, <2>1 DEF HearPreflight, Messages
  <2>. HIDE DEF s, m
  <2>. QED BY <2>2, <2>3, <2>4, TalkStep
<1>2. CASE ~HearPreflight(t)
  <2>1. Finish(t)
    BY <1>2 DEF Answer, HearTransportError, HearNotOk, HearInfrastructureError, HearCreate,
                HearReadBack, HearConflict, HearTooLate
  <2>. QED BY <2>1, FinishTalk
<1>. QED BY <1>1, <1>2

LEMMA NextTalk == ASSUME Inv, Talk, [Next]_vars PROVE Talk'
<1>1. CASE Person
  BY <1>1, StillTalk DEF Person, Approve, Reject, Repropose, Retry, ToggleGate
<1>2. CASE Bookkeeper
  BY <1>2, StillTalk DEF Bookkeeper, HandEnters, HandEdits
<1>3. ASSUME NEW t \in Tickets, SessionLost(t) PROVE Talk'
  <2>1. wire[t] \in Messages /\ wire \in [Tickets -> Messages] /\ TalkOf(sess[t], wire[t])
    BY TalkIs DEF Inv, MemoryOk
  <2>2. TalkOf(Closed, wire[t]) BY <2>1 DEF TalkOf, Closed
  <2>3. sess' = [sess EXCEPT ![t] = Closed] BY <1>3 DEF SessionLost
  <2>4. wire' = [wire EXCEPT ![t] = Silence] \/ wire' = [wire EXCEPT ![t] = wire[t]]
    BY <1>3, <2>1 DEF SessionLost
  <2>. QED BY <2>2, <2>3, <2>4, SilentTalk, TalkStep
<1>4. ASSUME NEW t \in Tickets, Lose(t) PROVE Talk'
  <2>. DEFINE m == [wire[t] EXCEPT !.kind = "none", !.job = NoJob, !.found = {}]
  <2>1. wire[t] \in Messages /\ wire \in [Tickets -> Messages] /\ TalkOf(sess[t], wire[t])
        /\ sess \in [Tickets -> Sessions]
    BY TalkIs DEF Inv, MemoryOk
  <2>2. TalkOf(sess[t], m) BY <2>1 DEF TalkOf, Busy, Messages
  <2>3. sess' = [sess EXCEPT ![t] = sess[t]] BY <1>4, <2>1 DEF Lose
  <2>4. \/ sess[t] = Closed /\ wire' = [wire EXCEPT ![t] = Silence]
        \/ wire' = [wire EXCEPT ![t] = m]
    BY <1>4, <2>1 DEF Lose, Messages
  <2>. HIDE DEF m
  <2>. QED BY <2>2, <2>3, <2>4, SilentTalk, TalkStep
<1>5. ASSUME NEW k \in JobKeys, LeaseExpires(k) PROVE Talk' BY <1>5, StillTalk DEF LeaseExpires
<1>6. ASSUME NEW t \in Tickets, QuickBooks(t) PROVE Talk'
  BY <1>6, ReplyTalk DEF QuickBooks, ExecuteQuery, ExecuteCreate, Refuse
<1>7. CASE UNCHANGED vars BY <1>7, StillTalk DEF vars
<1>. QED BY <1>1, <1>2, <1>3, <1>4, <1>5, <1>6, <1>7, ServerTalk, AnswerTalk DEF Next, Faults

-----------------------------------------------------------------------------
(***************************************************************************)
(* Most steps are quiet: the table moves calmly, no connector is handed    *)
(* anything, and neither a posting nor a bill changes.  The others are few *)
(* and are named.                                                          *)
(***************************************************************************)
Quiet ==
  /\ Calm(jobs, jobs') /\ Chain(jobs')
  /\ Hushed
  /\ UNCHANGED <<posting, books>>

CreateRejected(t) == HearNotOk(t) /\ IsCreate(sess[t].job)

Loud(t) ==
  \/ SendRequest(t) \/ ExecuteQuery(t) \/ ExecuteCreate(t) \/ Refuse(t)
  \/ CreateRejected(t) \/ HearPreflight(t) \/ HearCreate(t) \/ HearReadBack(t)

LEMMA HushedFinish == ASSUME Inv, NEW t \in Tickets, Finish(t) PROVE Hushed
<1>1. wire \in [Tickets -> Messages] BY DEF Inv, MemoryOk
<1>. QED BY <1>1, ClosedType DEF Finish, Hushed, Busy

LEMMA HushedSame == ASSUME UNCHANGED wire PROVE Hushed
BY DEF Hushed

LEMMA SameTable == ASSUME Chain(jobs), UNCHANGED jobs PROVE Calm(jobs, jobs') /\ Chain(jobs')
BY CalmRefl

LEMMA PersonQuiet == ASSUME Inv, Course, Person PROVE Quiet
<1>1. ASSUME NEW p \in Proposals, Approve(p) PROVE Quiet
  <2>. DEFINE k == Key(p, "preflight")
  <2>1. k \in JobKeys /\ k.stage = "preflight" /\ Good(jobs) /\ Chain(jobs)
    BY Keys DEF Stages, Inv, Course
  <2>2. Calm(jobs, jobs')
    BY <1>1, <2>1 DEF Approve, Insert, NewRow, Calm, CalmRow, Present, Good, Uncertain, IsCreate
  <2>3. \A i \in JobKeys : i.stage = "probe" => jobs'[i] = jobs[i]
    BY <1>1, <2>1 DEF Approve, Insert, Good
  <2>4. \A q \in Proposals : Present(jobs', Key(q, "probe")) => Present(jobs, Key(q, "probe"))
    BY <2>3, Keys DEF Present, Stages
  <2>5. Chain(jobs') BY <2>1, <2>2, <2>4, CalmChain
  <2>. QED BY <1>1, <2>2, <2>5, HushedSame DEF Approve, Quiet
<1>2. ASSUME NEW k \in JobKeys, Retry(k) PROVE Quiet
  <2>1. Good(jobs) /\ Chain(jobs) BY DEF Inv, Course
  <2>2. jobs[k].status \in {"failed", "held"} /\ ~Uncertain(jobs[k])
        /\ jobs' = [jobs EXCEPT ![k] = Settle(jobs[k], "queued", "none")]
    BY <1>2 DEF Retry, Retriable, Uncertain
  <2>3. Calm(jobs, jobs') /\ Chain(jobs') BY <2>1, <2>2, SettledCalm DEF Errors
  <2>. QED BY <1>2, <2>3, HushedSame DEF Retry, Quiet
<1>3. CASE UNCHANGED <<jobs, posting, wire, books>>
  BY <1>3, SameTable, HushedSame DEF Quiet, Course
<1>. QED BY <1>1, <1>2, <1>3 DEF Person, Reject, Repropose, ToggleGate

LEMMA FaultsQuiet == ASSUME Inv, Course, Faults PROVE Quiet
<1>1. wire \in [Tickets -> Messages] BY DEF Inv, MemoryOk
<1>2. ASSUME NEW t \in Tickets, SessionLost(t) \/ Lose(t) PROVE Quiet
  <2>1. UNCHANGED <<jobs, posting, books>>
    BY <1>2 DEF SessionLost, Lose, UntouchedDb, dbVars
  <2>2. Hushed
    <3>. DEFINE m == [wire[t] EXCEPT !.kind = "none", !.job = NoJob, !.found = {}]
    <3>1. \/ wire' = [wire EXCEPT ![t] = Silence] \/ wire' = wire
          \/ wire' = [wire EXCEPT ![t] = m]
      BY <1>1, <1>2 DEF SessionLost, Lose, Messages
    <3>2. m.kind = "none" BY <1>1 DEF Messages
    <3>. HIDE DEF m
    <3>. QED BY <1>1, <3>1, <3>2, ClosedType DEF Hushed, Busy
  <2>. QED BY <2>1, <2>2, SameTable DEF Quiet, Course
<1>3. ASSUME NEW k \in JobKeys, LeaseExpires(k) PROVE Quiet
  <2>. DEFINE row == [jobs[k] EXCEPT !.lease = "expired"]
  <2>1. Good(jobs) /\ Chain(jobs) /\ jobs[k] \in Rows BY DEF Inv, Course, Good
  <2>2. jobs[k].status \in {"leased", "sent"} BY <1>3, <2>1 DEF LeaseExpires, Good, RowOk
  <2>3. CalmRow(k, jobs[k], row) BY <2>1 DEF CalmRow, Uncertain, Rows
  <2>4. jobs' = [jobs EXCEPT ![k] = row] BY <1>3 DEF LeaseExpires
  <2>. HIDE DEF row
  <2>5. Calm(jobs, jobs') /\ Chain(jobs') BY <2>1, <2>2, <2>3, <2>4, RowCalm DEF Present
  <2>. QED BY <1>3, <2>5, HushedSame DEF LeaseExpires, Quiet
<1>. QED BY <1>2, <1>3 DEF Faults

LEMMA ServerQuiet ==
  ASSUME Inv, Course, NEW t \in Tickets, Server(t) PROVE Quiet \/ Loud(t)
<1>1. Good(jobs) /\ Chain(jobs) /\ wire \in [Tickets -> Messages] BY DEF Inv, MemoryOk, Course
<1>2. Good(Swept(jobs)) /\ Calm(jobs, Swept(jobs)) /\ Chain(Swept(jobs))
  BY <1>1, SweptGood, SweptCalm
<1>3. ASSUME NEW k \in JobKeys, Leasable(Swept(jobs), k), jobs' = LeaseTo(Swept(jobs), k, t)
      PROVE  Calm(jobs, jobs') /\ Chain(jobs')
  BY <1>2, <1>3, LeaseToCalm, CalmTrans
<1>4. CASE Authenticate(t) \/ CompanyRefused(t) \/ SendRefused(t)
  <2>1. UNCHANGED <<jobs, posting, books>>
    BY <1>4 DEF Authenticate, CompanyRefused, SendRefused, UntouchedDb, dbVars
  <2>2. Hushed
    BY <1>4, HushedFinish, HushedSame DEF Authenticate, CompanyRefused, SendRefused
  <2>. QED BY <1>1, <2>1, <2>2, SameTable DEF Quiet
<1>5. CASE AskCompany(t)
  <2>1. PICK file \in Companies : wire' = [wire EXCEPT ![t].kind = "company", ![t].file = file]
    BY <1>5 DEF AskCompany
  <2>2. Hushed BY <1>1, <2>1 DEF Hushed, Busy, Messages
  <2>. QED BY <1>1, <1>5, <2>2, SameTable DEF Quiet, AskCompany, UntouchedDb, dbVars
<1>6. CASE CompanyMatches(t)
  <2>1. wire' = [wire EXCEPT ![t].kind = "none"] BY <1>6 DEF CompanyMatches
  <2>2. Hushed BY <1>1, <2>1 DEF Hushed, Busy, Messages
  <2>. QED BY <1>1, <1>6, <2>2, SameTable DEF Quiet, CompanyMatches, UntouchedDb, dbVars
<1>7. CASE CompanyDiffers(t)
  <2>1. Calm(jobs, jobs') /\ Chain(jobs')
    BY <1>2, <1>7, HoldQueueCalm, CalmTrans DEF CompanyDiffers
  <2>. QED BY <1>7, <2>1, HushedFinish DEF CompanyDiffers, Quiet
<1>8. ASSUME NEW k \in JobKeys, LeaseNext(t, k) PROVE Quiet
  BY <1>3, <1>8, HushedSame DEF LeaseNext, Quiet
<1>9. ASSUME NEW k \in JobKeys, LeaseUnrenderable(t, k) PROVE Quiet
  BY <1>3, <1>9, HushedFinish DEF LeaseUnrenderable, Quiet
<1>10. CASE LeaseNothing(t)
  BY <1>2, <1>10, HushedFinish DEF LeaseNothing, Quiet
<1>11. CASE SendRequest(t) BY <1>11 DEF Loud
<1>. QED BY <1>4, <1>5, <1>6, <1>7, <1>8, <1>9, <1>10, <1>11 DEF Server

(* An answer that settles its job otherwise than as a success. *)
LEMMA SettleSentCalm ==
  ASSUME Inv, Course, NEW t \in Tickets, sess[t].phase = "sent", NEW status \in {"failed", "held"},
         NEW error \in Errors, SettleSent(t, status, error),
         IsCreate(sess[t].job) => status = "held" /\ error = "UNCERTAIN_OUTCOME"
  PROVE  Calm(jobs, jobs') /\ Chain(jobs')
<1>. DEFINE k == sess[t].job
<1>1. k \in JobKeys /\ Good(jobs) /\ Chain(jobs) BY DEF Inv, MemoryOk, Course
<1>2. CASE SentUnder(k, t)
  <2>1. jobs' = [jobs EXCEPT ![k] = Settle(jobs[k], status, error)] BY <1>2 DEF SettleSent
  <2>2. jobs[k].status = "sent" BY <1>2 DEF SentUnder
  <2>. QED BY <1>1, <2>1, <2>2, SettledCalm DEF Uncertain
<1>3. CASE ~SentUnder(k, t)
  <2>1. jobs' = jobs BY <1>3 DEF SettleSent
  <2>. QED BY <1>1, <2>1, SameTable
<1>. QED BY <1>2, <1>3

LEMMA AnswerQuiet ==
  ASSUME Inv, Course, NEW t \in Tickets, Answer(t) PROVE Quiet \/ Loud(t)
<1>1. CASE HearTransportError(t)
  <2>1. SettleSent(t, "held", "UNCERTAIN_OUTCOME") BY <1>1 DEF HearTransportError, Fail
  <2>2. Calm(jobs, jobs') /\ Chain(jobs')
    BY <1>1, <2>1, SettleSentCalm DEF HearTransportError, Hears, Errors
  <2>. QED BY <1>1, <2>2, HushedFinish DEF HearTransportError, Quiet
<1>2. CASE HearNotOk(t)
  <2>1. CASE IsCreate(sess[t].job) BY <1>2, <2>1 DEF Loud, CreateRejected
  <2>2. CASE ~IsCreate(sess[t].job)
    <3>1. SettleSent(t, "failed", "PROVIDER") BY <1>2 DEF HearNotOk, Fail
    <3>2. Calm(jobs, jobs') /\ Chain(jobs')
      BY <1>2, <2>2, <3>1, SettleSentCalm DEF HearNotOk, Hears, Errors
    <3>. QED BY <1>2, <3>2, HushedFinish DEF HearNotOk, Quiet
  <2>. QED BY <2>1, <2>2
<1>3. CASE HearInfrastructureError(t)
  <2>1. \/ IsCreate(sess[t].job) /\ SettleSent(t, "held", "UNCERTAIN_OUTCOME")
        \/ ~IsCreate(sess[t].job) /\ SettleSent(t, "failed", "PROVIDER")
    BY <1>3 DEF HearInfrastructureError, Fail
  <2>2. Calm(jobs, jobs') /\ Chain(jobs')
    BY <1>3, <2>1, SettleSentCalm DEF HearInfrastructureError, Hears, Errors
  <2>. QED BY <1>3, <2>2, HushedFinish DEF HearInfrastructureError, Quiet
<1>4. CASE HearConflict(t)
  <2>1. Calm(jobs, jobs') /\ Chain(jobs')
    BY <1>4, SettleSentCalm DEF HearConflict, Hears, Errors
  <2>. QED BY <1>4, <2>1, HushedFinish DEF HearConflict, Quiet
<1>5. CASE HearTooLate(t)
  <2>1. UNCHANGED <<jobs, posting, books>> BY <1>5 DEF HearTooLate, UntouchedDb, dbVars
  <2>. QED BY <1>5, <2>1, SameTable, HushedFinish DEF HearTooLate, Quiet, Course
<1>. QED BY <1>1, <1>2, <1>3, <1>4, <1>5 DEF Answer, Loud

(* Every step is quiet, is the bookkeeper's, or is one of the loud ones. *)
LEMMA StepCases ==
  ASSUME Inv, Course, [Next]_vars
  PROVE  Quiet \/ Bookkeeper \/ \E t \in Tickets : Loud(t)
<1>1. CASE UNCHANGED vars BY <1>1, SameTable, HushedSame DEF vars, Quiet, Course
<1>2. ASSUME NEW t \in Tickets, QuickBooks(t) PROVE Loud(t) BY <1>2 DEF QuickBooks, Loud
<1>. QED BY <1>1, <1>2, PersonQuiet, FaultsQuiet, ServerQuiet, AnswerQuiet DEF Next

-----------------------------------------------------------------------------
(* Course is kept by the loud steps and by the bookkeeper's. *)

LEMMA CourseParts ==
  ASSUME Chain(jobs'), Talk', Wires', Found', ExpectedCompanyOnly', PostingIsRealBill',
         FinalizedTogether'
  PROVE  Course'
<1>1. Chain(jobs)' BY DEF Chain, ChainOf, Present, Uncertain, Key
<1>. QED BY <1>1 DEF Course

LEMMA BookkeeperCourse == ASSUME Inv, Course, Talk', Bookkeeper PROVE Course'
<1>1. UNCHANGED <<jobs, posting, wire>>
  BY DEF Bookkeeper, HandEnters, HandEdits, UntouchedDb, dbVars
<1>2. books \in Seq(Bills) /\ Len(books) \in Nat /\ DOMAIN books = 1 .. Len(books)
  BY DEF Inv, RestOk
<1>3. BooksKeep /\ ExpectedCompanyOnly'
  <2>1. ASSUME NEW inv \in HandInvoices, HandEnters(inv) PROVE BooksKeep /\ ExpectedCompanyOnly'
    <3>. DEFINE bill == [invoice |-> inv, creator |-> "hand", company |-> Expected]
    <3>1. books' = Append(books, bill) BY <2>1 DEF HandEnters
    <3>2. DOMAIN books' = 1 .. (Len(books) + 1) BY <1>2, <3>1
    <3>3. \A b \in DOMAIN books : books'[b] = books[b] /\ b \in DOMAIN books'
      BY <1>2, <3>1, <3>2
    <3>4. books'[Len(books) + 1] = bill BY <1>2, <3>1
    <3>5. \A b \in DOMAIN books' : b \in DOMAIN books \/ b = Len(books) + 1 BY <1>2, <3>2
    <3>. QED BY <3>3, <3>4, <3>5, NullAssumption DEF BooksKeep, Course, ExpectedCompanyOnly
  <2>2. ASSUME NEW b \in BillIds, HandEdits(b) PROVE BooksKeep /\ ExpectedCompanyOnly'
    <3>1. b \in DOMAIN books /\ books' = [books EXCEPT ![b].invoice = Altered]
      BY <2>2 DEF HandEdits
    <3>2. DOMAIN books' = DOMAIN books BY <3>1, <1>2
    <3>3. \A c \in DOMAIN books : books[c] \in Bills BY <1>2
    <3>4. ASSUME NEW c \in DOMAIN books
          PROVE  /\ books'[c].company = books[c].company /\ books'[c].creator = books[c].creator
                 /\ books'[c].invoice \in {books[c].invoice, Altered}
      BY <1>2, <3>1, <3>3 DEF Bills
    <3>. QED BY <3>2, <3>4 DEF BooksKeep, Course, ExpectedCompanyOnly
  <2>. QED BY <2>1, <2>2 DEF Bookkeeper
<1>4. Calm(jobs, jobs') /\ Chain(jobs') BY <1>1, SameTable DEF Course
<1>5. Wires' /\ Found'
  BY <1>1, <1>3, <1>4, HushedSame, CalmWires, CalmKeepsTxn, KeepsFound DEF Course
<1>6. PostingIsRealBill' /\ FinalizedTogether' BY <1>1, <1>3, <1>4, CalmPostings DEF Course
<1>. QED BY <1>3, <1>4, <1>5, <1>6, CourseParts

LEMMA SendCourse ==
  ASSUME Inv, Course, Talk', NEW t \in Tickets, SendRequest(t)
  PROVE  Course' /\ Calm(jobs, jobs')
<1>. DEFINE k == sess[t].job
            row == [jobs[k] EXCEPT !.status = "sent"]
            m == [wire[t] EXCEPT !.kind = "request", !.job = k]
<1>1. k \in JobKeys /\ jobs[k].status = "leased" /\ jobs[k].token = t /\ jobs[k] \in Rows
      /\ Good(jobs) /\ Chain(jobs) /\ wire[t] \in Messages /\ wire \in [Tickets -> Messages]
  BY DEF Inv, Good, MemoryOk, SendRequest, MaySend, Course
<1>2. CalmRow(k, jobs[k], row) /\ row.status = "sent" /\ row.token = t
  BY <1>1 DEF CalmRow, Uncertain, Rows
<1>3. jobs' = [jobs EXCEPT ![k] = row] BY DEF SendRequest
<1>4. m.kind = "request" /\ m.job = k BY <1>1 DEF Messages
<1>5. wire' = [wire EXCEPT ![t] = m] \/ wire' = wire BY <1>1 DEF SendRequest, Messages
<1>6. jobs'[k] = row BY <1>1, <1>3 DEF Good
<1>. HIDE DEF row, m
<1>7. Calm(jobs, jobs') /\ Chain(jobs') BY <1>1, <1>2, <1>3, RowCalm DEF Present
<1>8. ~IsCreate(k) \/ \A u \in Tickets : ~Carries(u, k)
  BY <1>1 DEF Course, Wires, Carries, Out, Uncertain
<1>9. Wires' /\ Found'
  <2>1. CASE wire' = wire
    <3>. QED BY <1>7, <2>1, HushedSame, CalmWires, CalmKeepsTxn, KeepsFound, SameBooks
         DEF Course, SendRequest
  <2>2. CASE wire' = [wire EXCEPT ![t] = m]
    <3>1. wire'[t] = m /\ \A u \in Tickets \ {t} : wire'[u] = wire[u] BY <1>1, <2>2
    <3>2. TxnKept(jobs, jobs') BY <1>7, CalmKeepsTxn
    <3>3. Present(jobs', k) BY <1>2, <1>6 DEF Present
    <3>4. ASSUME NEW u \in Tickets, wire'[u].kind \in Busy
          PROVE  /\ wire'[u].job \in JobKeys /\ Present(jobs', wire'[u].job)
                 /\ IsCreate(wire'[u].job) =>
                      /\ Out(jobs'[wire'[u].job], u)
                      /\ \A v \in Tickets :
                           wire'[v].kind \in Busy /\ wire'[v].job = wire'[u].job => u = v
      <4>1. CASE u = t
        <5>1. Out(jobs'[k], t) BY <1>2, <1>6 DEF Out
        <5>2. ASSUME IsCreate(k), NEW v \in Tickets, wire'[v].kind \in Busy, wire'[v].job = k
              PROVE  v = t
          BY <1>8, <3>1, <5>2 DEF Carries
        <5>. QED BY <1>1, <1>4, <3>1, <3>3, <4>1, <5>1, <5>2
      <4>2. CASE u # t
        <5>1. wire'[u] = wire[u] BY <3>1, <4>2
        <5>2. wire[u].job \in JobKeys /\ Present(jobs, wire[u].job)
          BY <3>4, <5>1 DEF Course, Wires
        <5>3. Present(jobs', wire[u].job) BY <3>2, <5>2 DEF TxnKept
        <5>4. ASSUME IsCreate(wire[u].job) PROVE Out(jobs'[wire[u].job], u)
          <6>1. Out(jobs[wire[u].job], u) BY <3>4, <5>1, <5>4 DEF Course, Wires
          <6>2. CalmRow(wire[u].job, jobs[wire[u].job], jobs'[wire[u].job])
            BY <1>7, <5>2 DEF Calm
          <6>. QED BY <5>4, <6>1, <6>2 DEF Out, CalmRow
        <5>5. ASSUME IsCreate(wire[u].job), NEW v \in Tickets,
                     wire'[v].kind \in Busy, wire'[v].job = wire[u].job
              PROVE  u = v
          <6>1. Carries(u, wire[u].job) BY <3>4, <5>1 DEF Carries
          <6>2. v # t BY <1>4, <1>8, <3>1, <5>5, <6>1
          <6>3. Carries(v, wire[u].job) BY <3>1, <5>5, <6>2 DEF Carries
          <6>. QED BY <3>4, <5>1, <5>5, <6>3 DEF Course, Wires
        <5>. QED BY <5>1, <5>2, <5>3, <5>4, <5>5
      <4>. QED BY <4>1, <4>2
    <3>5. Wires' BY <3>4 DEF Wires, Present, IsCreate, Out, Uncertain, Carries, Busy
    <3>6. ASSUME NEW u \in Tickets, wire'[u].kind = "accepted", NEW b \in wire'[u].found
          PROVE  /\ b \in DOMAIN books /\ books[b].company = Expected
                 /\ books[b].invoice \in {jobs'[wire'[u].job].txn, Altered}
      <4>1. u # t /\ wire'[u] = wire[u] BY <1>4, <3>1, <3>6
      <4>2. wire[u].job \in JobKeys /\ Present(jobs, wire[u].job)
        BY <3>6, <4>1 DEF Course, Wires, Busy
      <4>. QED BY <3>2, <3>6, <4>1, <4>2 DEF TxnKept, Course, Found, Real
    <3>7. Found' BY <3>6 DEF Found, Real, SendRequest
    <3>. QED BY <3>5, <3>7
  <2>. QED BY <1>5, <2>1, <2>2
<1>10. PostingIsRealBill' /\ FinalizedTogether' /\ ExpectedCompanyOnly'
  BY <1>7, SameBooks, CalmPostings, CalmCompany DEF Course, SendRequest
<1>. QED BY <1>7, <1>9, <1>10, CourseParts

(* QuickBooks answers a request that a connector carries. *)
LEMMA ReplyWires ==
  ASSUME Inv, Wires, UNCHANGED jobs, NEW t \in Tickets, wire[t].kind = "request",
         NEW kind \in {"accepted", "rejected"}, NEW found, Reply(t, kind, found)
  PROVE  /\ Wires'
         /\ \A u \in Tickets : wire'[u].kind \in Busy <=> wire[u].kind \in Busy
         /\ \A u \in Tickets : wire'[u].job = wire[u].job
         /\ \A u \in Tickets \ {t} : wire'[u] = wire[u]
         /\ wire'[t].kind = kind /\ wire'[t].found = found
<1>1. wire \in [Tickets -> Messages] BY DEF Inv, MemoryOk
<1>2. /\ \A u \in Tickets : wire'[u].kind \in Busy <=> wire[u].kind \in Busy
      /\ \A u \in Tickets : wire'[u].job = wire[u].job
      /\ \A u \in Tickets \ {t} : wire'[u] = wire[u]
      /\ wire'[t].kind = kind /\ wire'[t].found = found
  BY <1>1 DEF Reply, Busy, Messages
<1>3. Wires' BY <1>2 DEF Wires, Carries, Out, Uncertain, Present, IsCreate, Busy
<1>. QED BY <1>2, <1>3

LEMMA QuickBooksCourse ==
  ASSUME Inv, Course, Talk', NEW t \in Tickets, QuickBooks(t)
  PROVE  Course' /\ UNCHANGED <<jobs, posting>> /\ BooksKeep
<1>1. UNCHANGED <<jobs, posting>>
  BY DEF QuickBooks, ExecuteQuery, ExecuteCreate, Refuse, UntouchedDb, dbVars
<1>2. books \in Seq(Bills) /\ Len(books) \in Nat /\ DOMAIN books = 1 .. Len(books)
  BY DEF Inv, RestOk
<1>3. wire[t].kind = "request" /\ wire[t].file = Expected
      /\ wire[t].job \in JobKeys /\ Present(jobs, wire[t].job)
  BY DEF QuickBooks, ExecuteQuery, ExecuteCreate, Refuse, Course, Talk, Wires, Busy
<1>4. ASSUME NEW kind \in {"accepted", "rejected"}, NEW found, Reply(t, kind, found), BooksKeep,
             kind = "accepted" => \A b \in found : Real(b, jobs[wire[t].job].txn)',
             ExpectedCompanyOnly'
      PROVE  Course'
  <2>1. Wires' BY <1>1, <1>3, <1>4, ReplyWires DEF Course
  <2>2. ASSUME NEW u \in Tickets, wire'[u].kind = "accepted", NEW b \in wire'[u].found
        PROVE  Real(b, jobs[wire[u].job].txn)'
    <3>1. CASE u = t BY <1>1, <1>3, <1>4, <2>2, <3>1, ReplyWires DEF Course
    <3>2. CASE u # t
      <4>1. wire'[u] = wire[u] BY <1>1, <1>3, <1>4, <3>2, ReplyWires DEF Course
      <4>2. Real(b, jobs[wire[u].job].txn) BY <2>2, <4>1 DEF Course, Found
      <4>3. books'[b].company = Expected /\ b \in DOMAIN books'
            /\ books'[b].invoice \in {jobs[wire[u].job].txn, Altered}
        BY <1>4, <4>2 DEF Real, BooksKeep
      <4>. QED BY <1>1, <4>1, <4>3 DEF Real
    <3>. QED BY <3>1, <3>2
  <2>3. Found' BY <2>2 DEF Found, Real
  <2>4. Calm(jobs, jobs') /\ Chain(jobs') BY <1>1, SameTable DEF Course
  <2>5. PostingIsRealBill' /\ FinalizedTogether'
    BY <1>1, <1>4, <2>4, CalmPostings DEF Course
  <2>. QED BY <1>4, <2>1, <2>3, <2>4, <2>5, CourseParts
<1>5. CASE ExecuteQuery(t)
  <2>. DEFINE found == Matches(wire[t].job, wire[t].file)
  <2>1. books' = books /\ Reply(t, "accepted", found) BY <1>5 DEF ExecuteQuery
  <2>2. \A b \in found : b \in DOMAIN books /\ books[b].company = Expected
                          /\ books[b].invoice = jobs[wire[t].job].txn
    BY <1>3 DEF Matches
  <2>. HIDE DEF found
  <2>3. \A b \in found : Real(b, jobs[wire[t].job].txn)'
    <3>. SUFFICES ASSUME NEW b \in found PROVE Real(b, jobs[wire[t].job].txn)' OBVIOUS
    <3>1. wire'[t].job = wire[t].job BY <1>1, <1>3, <2>1, ReplyWires DEF Course
    <3>. QED BY <1>1, <2>1, <2>2, <3>1 DEF Real
  <2>4. BooksKeep /\ ExpectedCompanyOnly' BY <2>1, SameBooks, CalmCompany DEF Course
  <2>. QED BY <1>1, <1>4, <2>1, <2>3, <2>4
<1>6. CASE Refuse(t)
  <2>1. books' = books /\ Reply(t, "rejected", {}) BY <1>6 DEF Refuse
  <2>2. BooksKeep /\ ExpectedCompanyOnly' BY <2>1, SameBooks, CalmCompany DEF Course
  <2>. QED BY <1>1, <1>4, <2>1, <2>2
<1>7. CASE ExecuteCreate(t)
  <2>. DEFINE bill == [invoice |-> jobs[wire[t].job].txn, creator |-> wire[t].job.proposal,
                       company |-> wire[t].file]
  <2>1. books' = Append(books, bill) /\ Reply(t, "accepted", {Len(books) + 1})
    BY <1>7 DEF ExecuteCreate
  <2>2. DOMAIN books' = 1 .. (Len(books) + 1) BY <1>2, <2>1
  <2>3. \A b \in DOMAIN books : b \in DOMAIN books' /\ books'[b] = books[b]
    BY <1>2, <2>1, <2>2
  <2>4. books'[Len(books) + 1] = bill /\ Len(books) + 1 \in DOMAIN books' BY <1>2, <2>1, <2>2
  <2>5. \A b \in DOMAIN books' : b \in DOMAIN books \/ b = Len(books) + 1 BY <1>2, <2>2
  <2>6. BooksKeep BY <2>3 DEF BooksKeep
  <2>7. ExpectedCompanyOnly' BY <1>3, <2>3, <2>4, <2>5 DEF Course, ExpectedCompanyOnly
  <2>8. \A b \in {Len(books) + 1} : Real(b, jobs[wire[t].job].txn)'
    <3>1. wire'[t].job = wire[t].job BY <1>1, <1>3, <2>1, ReplyWires DEF Course
    <3>. QED BY <1>1, <1>3, <2>4, <3>1 DEF Real
  <2>. QED BY <1>1, <1>4, <2>1, <2>6, <2>7, <2>8
<1>. QED BY <1>1, <1>5, <1>6, <1>7 DEF QuickBooks

(* QuickBooks refused a create: nobody else carries it, and it may run again. *)
LEMMA RejectedCourse ==
  ASSUME Inv, Course, Talk', NEW t \in Tickets, CreateRejected(t) PROVE Course'
<1>. DEFINE k == sess[t].job
<1>1. /\ k \in JobKeys /\ k.stage = "create" /\ Good(jobs) /\ Chain(jobs)
      /\ UNCHANGED <<posting, books>> /\ SettleSent(t, "failed", "PROVIDER") /\ Finish(t)
      /\ Carries(t, k) /\ wire \in [Tickets -> Messages] /\ jobs[k] \in Rows
  BY DEF Inv, Good, MemoryOk, Course, CreateRejected, HearNotOk, Hears, Fail, Talk, IsCreate, Busy
<1>2. CASE ~SentUnder(k, t)
  <2>1. UNCHANGED jobs BY <1>1, <1>2 DEF SettleSent
  <2>. QED BY <1>1, <2>1, SameTable, HushedFinish, CalmStep
<1>3. CASE SentUnder(k, t)
  <2>. DEFINE row == Settle(jobs[k], "failed", "PROVIDER")
  <2>1. jobs' = [jobs EXCEPT ![k] = row] BY <1>1, <1>3 DEF SettleSent
  <2>2. row.status = "failed" /\ row.txn = jobs[k].txn /\ row.ext = jobs[k].ext
        /\ jobs[k].status = "sent"
    BY <1>1, <1>3 DEF Settle, Rows, SentUnder
  <2>3. jobs'[k] = row /\ \A i \in JobKeys \ {k} : jobs'[i] = jobs[i] BY <1>1, <2>1 DEF Good
  <2>. HIDE DEF row
  <2>4. TxnKept(jobs, jobs') BY <2>2, <2>3 DEF TxnKept, Present
  <2>5. Hushed BY <1>1, HushedFinish
  <2>6. BooksKeep BY <1>1, SameBooks
  <2>7. ASSUME NEW u \in Tickets, wire'[u].kind \in Busy, IsCreate(wire[u].job)
        PROVE  Out(jobs'[wire[u].job], u)
    <3>1. u # t BY <1>1, <2>7, ClosedType DEF Finish, Busy
    <3>2. wire'[u] = wire[u] BY <2>5, <2>7 DEF Hushed
    <3>3. wire[u].job \in JobKeys /\ Out(jobs[wire[u].job], u) BY <2>7, <3>2 DEF Course, Wires
    <3>4. wire[u].job # k
      <4>1. \A v \in Tickets : Carries(v, wire[u].job) => v = u
        BY <2>7, <3>2 DEF Course, Wires
      <4>. QED BY <1>1, <3>1, <4>1
    <3>. QED BY <2>3, <3>3, <3>4
  <2>8. Wires' BY <2>4, <2>5, <2>7, KeepsWires DEF Course
  <2>9. Found' BY <2>4, <2>5, <2>6, KeepsFound DEF Course
  <2>10. PostingIsRealBill' BY <1>1, <2>4, <2>6, KeepsReal DEF Course, PostingIsRealBill
  <2>11. \A p \in Proposals : Key(p, "create") = k => jobs[Key(p, "create")].status = "sent"
                                                    /\ jobs'[Key(p, "create")] = row
    BY <2>2, <2>3
  <2>12. \A p \in Proposals, s \in Stages : s # "create" => jobs'[Key(p, s)] = jobs[Key(p, s)]
    BY <1>1, <2>3, Keys
  <2>13. \A p \in Proposals : Key(p, "create") # k =>
           jobs'[Key(p, "create")] = jobs[Key(p, "create")]
    BY <2>3, Keys
  <2>14. FinalizedTogether'
    BY <1>1, <2>2, <2>11, <2>12, <2>13 DEF FinalizedTogether, Stages, Course
  <2>15. ASSUME NEW p \in Proposals
         PROVE  ChainOf(jobs', p)
    <3>1. \A s \in Stages : /\ Present(jobs', Key(p, s)) <=> Present(jobs, Key(p, s))
                            /\ jobs'[Key(p, s)].txn = jobs[Key(p, s)].txn
      BY <2>2, <2>3, Keys DEF Present
    <3>2. CASE Key(p, "create") = k
      BY <1>1, <2>2, <2>11, <2>12, <3>1, <3>2 DEF Chain, ChainOf, Uncertain, Stages
    <3>3. CASE Key(p, "create") # k
      BY <1>1, <2>12, <2>13, <3>1, <3>3 DEF Chain, ChainOf, Uncertain, Stages
    <3>. QED BY <3>2, <3>3
  <2>16. Chain(jobs') BY <2>15 DEF Chain, ChainOf
  <2>17. ExpectedCompanyOnly' BY <1>1, CalmCompany DEF Course
  <2>. QED BY <2>8, <2>9, <2>10, <2>14, <2>16, <2>17, CourseParts
<1>. QED BY <1>2, <1>3

(***************************************************************************)
(* A stage succeeds and queues the next one: its row is settled, one row   *)
(* that was absent is inserted for the same transaction, and the others    *)
(* stay as they are.                                                       *)
(***************************************************************************)
Succeeds(k, n, ext) ==
  /\ jobs'[k].status = "succeeded"
  /\ jobs'[k].txn = jobs[k].txn /\ jobs'[k].ext = jobs[k].ext
  /\ jobs'[n].status = "queued" /\ jobs'[n].txn = jobs[k].txn /\ jobs'[n].ext = ext
  /\ \A i \in JobKeys \ {k, n} : jobs'[i] = jobs[i]

LEMMA QueueNext ==
  ASSUME Inv, NEW k \in JobKeys, Present(jobs, k), NEW n \in JobKeys \ {k}, ~Present(jobs, n),
         NEW ext,
         jobs' = [Insert(jobs, n, ext, jobs[k].txn) EXCEPT ![k] = Settle(@, "succeeded", "none")]
  PROVE  Succeeds(k, n, ext)
<1>1. jobs \in [JobKeys -> Rows] /\ jobs[k] \in Rows BY DEF Inv, Good
<1>. DEFINE row == NewRow(RowCount(jobs) + 1, ext, jobs[k].txn)
            queued == [jobs EXCEPT ![n] = row]
<1>2. Insert(jobs, n, ext, jobs[k].txn) = queued BY DEF Insert
<1>3. queued[k] = jobs[k] /\ queued[n] = row /\ \A i \in JobKeys \ {n} : queued[i] = jobs[i]
  BY <1>1
<1>4. DOMAIN queued = JobKeys BY <1>1
<1>5. row.status = "queued" /\ row.txn = jobs[k].txn /\ row.ext = ext BY DEF NewRow
<1>. HIDE DEF row, queued
<1>6. jobs' = [queued EXCEPT ![k] = Settle(queued[k], "succeeded", "none")] BY <1>2
<1>7. jobs'[k] = Settle(jobs[k], "succeeded", "none") /\ jobs'[n] = row
      /\ \A i \in JobKeys \ {k, n} : jobs'[i] = jobs[i]
  BY <1>3, <1>4, <1>6
<1>8. /\ Settle(jobs[k], "succeeded", "none").status = "succeeded"
      /\ Settle(jobs[k], "succeeded", "none").txn = jobs[k].txn
      /\ Settle(jobs[k], "succeeded", "none").ext = jobs[k].ext
  BY <1>1 DEF Settle, Rows
<1>. QED BY <1>5, <1>7, <1>8 DEF Succeeds

LEMMA SucceedsKeeps ==
  ASSUME NEW k \in JobKeys, NEW n \in JobKeys, ~Present(jobs, n), NEW ext, Succeeds(k, n, ext)
  PROVE  TxnKept(jobs, jobs')
<1>. SUFFICES ASSUME NEW i \in JobKeys, Present(jobs, i)
     PROVE  Present(jobs', i) /\ jobs'[i].txn = jobs[i].txn /\ jobs'[i].ext = jobs[i].ext
  BY DEF TxnKept
<1>1. CASE i = k BY <1>1 DEF Succeeds, Present
<1>2. CASE i # k BY <1>2 DEF Succeeds, Present
<1>. QED BY <1>1, <1>2

LEMMA PreflightCourse ==
  ASSUME Inv, Course, Talk', NEW t \in Tickets, HearPreflight(t)
  PROVE  /\ Course' /\ Hushed /\ TxnKept(jobs, jobs')
         /\ \E next \in {"create", "adoption"} : \E ext \in 0 .. MaxBills :
              /\ Succeeds(sess[t].job, Key(sess[t].job.proposal, next), ext)
              /\ ~Present(jobs, Key(sess[t].job.proposal, "create"))
              /\ ~Present(jobs, Key(sess[t].job.proposal, "adoption"))
<1>. DEFINE k == sess[t].job
            p == k.proposal
            found == wire[t].found
            m == [wire[t] EXCEPT !.kind = "none", !.job = NoJob, !.found = {}]
<1>1. /\ k \in JobKeys /\ k.stage = "preflight" /\ Good(jobs) /\ Chain(jobs)
      /\ jobs[k].status = "sent" /\ p \in Proposals /\ k = Key(p, "preflight")
      /\ wire \in [Tickets -> Messages] /\ wire[t] \in Messages
      /\ UNCHANGED <<posting, books>>
  BY Keys DEF Inv, MemoryOk, Course, HearPreflight, Hears, SentUnder
<1>2. Hushed
  <2>1. wire' = [wire EXCEPT ![t] = m] /\ m.kind = "none" BY <1>1 DEF HearPreflight, Messages
  <2>. HIDE DEF m
  <2>. QED BY <1>1, <2>1 DEF Hushed, Busy
<1>3. ~Present(jobs, Key(p, "create")) /\ ~Present(jobs, Key(p, "adoption"))
  BY <1>1 DEF Chain, ChainOf
<1>4. PICK next \in {"create", "adoption"}, ext \in 0 .. MaxBills :
        jobs' = [Insert(jobs, Key(p, next), ext, jobs[k].txn)
                   EXCEPT ![k] = Settle(@, "succeeded", "none")]
  <2>1. found \subseteq BillIds BY <1>1 DEF Messages
  <2>2. CASE found = {}
    <3>1. 0 \in 0 .. MaxBills BY BoundAssumption
    <3>. QED BY <2>2, <3>1 DEF HearPreflight, NextStage
  <2>3. CASE found # {}
    <3>1. (CHOOSE b \in found : TRUE) \in 0 .. MaxBills
      BY <2>1, <2>3, BoundAssumption DEF BillIds
    <3>. QED BY <2>3, <3>1 DEF HearPreflight, NextStage
  <2>. QED BY <2>2, <2>3
<1>. DEFINE n == Key(p, next)
<1>5. n \in JobKeys \ {k} /\ ~Present(jobs, n) /\ n.stage \in {"create", "adoption"}
  BY <1>1, <1>3, Keys DEF Stages
<1>6. Succeeds(k, n, ext) BY <1>1, <1>4, <1>5, QueueNext DEF Present
<1>7. TxnKept(jobs, jobs') BY <1>1, <1>5, <1>6, SucceedsKeeps
<1>8. BooksKeep BY <1>1, SameBooks
<1>9. ASSUME NEW u \in Tickets, wire'[u].kind \in Busy, IsCreate(wire[u].job)
      PROVE  Out(jobs'[wire[u].job], u)
  <2>1. wire'[u] = wire[u] BY <1>2, <1>9 DEF Hushed
  <2>2. wire[u].job \in JobKeys /\ Present(jobs, wire[u].job) /\ Out(jobs[wire[u].job], u)
    BY <1>9, <2>1 DEF Course, Wires
  <2>3. wire[u].job # k /\ wire[u].job # n BY <1>1, <1>5, <1>9, <2>2 DEF IsCreate
  <2>. QED BY <1>6, <2>2, <2>3 DEF Succeeds
<1>10. Wires' /\ Found'
  BY <1>2, <1>7, <1>8, <1>9, KeepsWires, KeepsFound DEF Course
<1>11. PostingIsRealBill' BY <1>1, <1>7, <1>8, KeepsReal DEF Course, PostingIsRealBill
<1>12. ASSUME NEW q \in Proposals, q # p
       PROVE  \A s \in Stages : jobs'[Key(q, s)] = jobs[Key(q, s)]
  BY <1>1, <1>6, <1>12, Keys DEF Succeeds, Stages
<1>13. \A s \in Stages \ {"preflight", next} : jobs'[Key(p, s)] = jobs[Key(p, s)]
  BY <1>1, <1>6, Keys DEF Succeeds, Stages
<1>14. posting[p] = 0 BY <1>1, PostedChain DEF Course
<1>15. FinalizedTogether'
  <2>1. ASSUME NEW q \in Proposals
        PROVE  /\ posting[q] # 0 <=>
                    \E s \in {"read_back", "adoption", "probe"} :
                      jobs'[Key(q, s)].status = "succeeded"
               /\ posting[q] # 0 => jobs'[Key(q, "create")].status \in {"absent", "succeeded"}
    <3>1. CASE q = p
      <4>1. \A s \in {"read_back", "adoption", "probe"} :
              jobs[Key(p, s)].status # "succeeded"
        BY <1>1, <1>14 DEF Course, FinalizedTogether
      <4>2. \A s \in {"read_back", "adoption", "probe"} :
              jobs'[Key(p, s)].status # "succeeded"
        BY <1>6, <1>13, <4>1 DEF Succeeds, Stages
      <4>. QED BY <1>14, <3>1, <4>2
    <3>2. CASE q # p BY <1>12, <3>2 DEF Course, FinalizedTogether, Stages
    <3>. QED BY <3>1, <3>2
  <2>. QED BY <1>1, <2>1 DEF FinalizedTogether
<1>16. Chain(jobs')
  <2>1. ASSUME NEW q \in Proposals
         PROVE  ChainOf(jobs', q)
    <3>1. CASE q = p
      <4>1. jobs[Key(p, "create")].status = "absent" BY <1>3 DEF Present
      <4>2. ~Present(jobs, Key(p, "probe")) /\ ~Present(jobs, Key(p, "read_back"))
        BY <1>1, <4>1 DEF Chain, ChainOf, Uncertain
      <4>3. ~Present(jobs', Key(p, "probe")) /\ ~Present(jobs', Key(p, "read_back"))
        BY <1>13, <4>2 DEF Present, Stages
      <4>4. /\ jobs'[Key(p, "preflight")].status = "succeeded"
            /\ jobs'[Key(p, next)].txn = jobs'[Key(p, "preflight")].txn
        BY <1>1, <1>6 DEF Succeeds
      <4>5. ~(Present(jobs', Key(p, "create")) /\ Present(jobs', Key(p, "adoption")))
        BY <1>3, <1>13 DEF Present, Stages
      <4>6. \A s \in Stages : Present(jobs', Key(p, s)) => s \in {"preflight", next}
        BY <1>3, <1>13, <4>3 DEF Present, Stages
      <4>7. \A s \in Stages : Present(jobs', Key(p, s)) =>
               /\ Present(jobs', Key(p, "preflight"))
               /\ jobs'[Key(p, s)].txn = jobs'[Key(p, "preflight")].txn
        BY <4>4, <4>6 DEF Present
      <4>. QED BY <3>1, <4>3, <4>4, <4>5, <4>7 DEF ChainOf
    <3>2. CASE q # p BY <1>1, <1>12, <3>2 DEF Chain, ChainOf, Present, Stages
    <3>. QED BY <3>1, <3>2
  <2>. QED BY <2>1 DEF Chain, ChainOf
<1>17. ExpectedCompanyOnly' BY <1>1, CalmCompany DEF Course
<1>18. Course' BY <1>10, <1>11, <1>15, <1>16, <1>17, CourseParts
<1>. QED BY <1>2, <1>3, <1>6, <1>7, <1>18

LEMMA CreateCourse ==
  ASSUME Inv, Course, Talk', NEW t \in Tickets, HearCreate(t)
  PROVE  /\ Course' /\ Hushed /\ TxnKept(jobs, jobs')
         /\ \E b \in wire[t].found :
              Succeeds(sess[t].job, Key(sess[t].job.proposal, "read_back"), b)
<1>. DEFINE k == sess[t].job
            p == k.proposal
            n == Key(p, "read_back")
<1>1. /\ k \in JobKeys /\ k.stage = "create" /\ Good(jobs) /\ Chain(jobs)
      /\ jobs[k].status = "sent" /\ p \in Proposals /\ k = Key(p, "create")
      /\ wire \in [Tickets -> Messages] /\ wire[t] \in Messages
      /\ UNCHANGED <<posting, books>>
  BY Keys DEF Inv, MemoryOk, Course, HearCreate, Hears, SentUnder, IsCreate
<1>2. Hushed BY HushedFinish DEF HearCreate
<1>3. /\ n \in JobKeys \ {k} /\ ~Present(jobs, n) /\ n.stage = "read_back"
      /\ ~Present(jobs, Key(p, "probe")) /\ ~Present(jobs, Key(p, "adoption"))
  BY <1>1, Keys DEF Chain, ChainOf, Present, Stages, Uncertain
<1>4. PICK b \in wire[t].found :
        jobs' = [Insert(jobs, n, b, jobs[k].txn) EXCEPT ![k] = Settle(@, "succeeded", "none")]
  BY DEF HearCreate
<1>6. Succeeds(k, n, b) BY <1>1, <1>3, <1>4, QueueNext DEF Present
<1>7. TxnKept(jobs, jobs') BY <1>1, <1>3, <1>6, SucceedsKeeps
<1>8. BooksKeep BY <1>1, SameBooks
<1>9. ASSUME NEW u \in Tickets, wire'[u].kind \in Busy, IsCreate(wire[u].job)
      PROVE  Out(jobs'[wire[u].job], u)
  <2>1. wire'[u] = wire[u] BY <1>2, <1>9 DEF Hushed
  <2>2. wire[u].job \in JobKeys /\ Present(jobs, wire[u].job) /\ Out(jobs[wire[u].job], u)
    BY <1>9, <2>1 DEF Course, Wires
  <2>3. wire[u].job # n BY <1>3, <2>2
  <2>. QED BY <1>6, <2>2, <2>3 DEF Succeeds, Out
<1>10. Wires' /\ Found'
  BY <1>2, <1>7, <1>8, <1>9, KeepsWires, KeepsFound DEF Course
<1>11. PostingIsRealBill' BY <1>1, <1>7, <1>8, KeepsReal DEF Course, PostingIsRealBill
<1>12. ASSUME NEW q \in Proposals, q # p
       PROVE  \A s \in Stages : jobs'[Key(q, s)] = jobs[Key(q, s)]
  BY <1>1, <1>6, <1>12, Keys DEF Succeeds, Stages
<1>13. \A s \in Stages \ {"create", "read_back"} : jobs'[Key(p, s)] = jobs[Key(p, s)]
  BY <1>1, <1>6, Keys DEF Succeeds, Stages
<1>14. posting[p] = 0 BY <1>1 DEF Course, FinalizedTogether
<1>15. FinalizedTogether'
  <2>1. ASSUME NEW q \in Proposals
        PROVE  /\ posting[q] # 0 <=>
                    \E s \in {"read_back", "adoption", "probe"} :
                      jobs'[Key(q, s)].status = "succeeded"
               /\ posting[q] # 0 => jobs'[Key(q, "create")].status \in {"absent", "succeeded"}
    <3>1. CASE q = p
      <4>1. \A s \in {"adoption", "probe"} : jobs[Key(p, s)].status # "succeeded"
        BY <1>1, <1>14 DEF Course, FinalizedTogether
      <4>2. \A s \in {"read_back", "adoption", "probe"} :
              jobs'[Key(p, s)].status # "succeeded"
        BY <1>6, <1>13, <4>1 DEF Succeeds, Stages
      <4>. QED BY <1>14, <3>1, <4>2
    <3>2. CASE q # p BY <1>12, <3>2 DEF Course, FinalizedTogether, Stages
    <3>. QED BY <3>1, <3>2
  <2>. QED BY <1>1, <2>1 DEF FinalizedTogether
<1>16. Chain(jobs')
  <2>1. ASSUME NEW q \in Proposals
         PROVE  ChainOf(jobs', q)
    <3>1. CASE q = p
      <4>1. Present(jobs, Key(p, "create")) BY <1>1 DEF Present
      <4>2. jobs'[Key(p, "create")].status = "succeeded"
            /\ jobs'[Key(p, "create")].txn = jobs[Key(p, "create")].txn
            /\ jobs'[Key(p, "read_back")].txn = jobs[Key(p, "create")].txn
        BY <1>1, <1>6 DEF Succeeds
      <4>3. jobs[Key(p, "preflight")].status = "succeeded"
            /\ jobs[Key(p, "create")].txn = jobs[Key(p, "preflight")].txn
        BY <1>1, <4>1 DEF Chain, ChainOf, Stages
      <4>4. jobs'[Key(p, "preflight")] = jobs[Key(p, "preflight")] BY <1>13 DEF Stages
      <4>5. ~Present(jobs', Key(p, "adoption")) BY <1>3, <1>13 DEF Present, Stages
      <4>6. \A s \in Stages : Present(jobs', Key(p, s)) =>
               /\ Present(jobs', Key(p, "preflight"))
               /\ jobs'[Key(p, s)].txn = jobs'[Key(p, "preflight")].txn
        BY <1>1, <1>13, <4>2, <4>3, <4>4 DEF Chain, ChainOf, Present, Stages
      <4>. QED BY <3>1, <4>2, <4>3, <4>4, <4>5, <4>6 DEF ChainOf
    <3>2. CASE q # p BY <1>1, <1>12, <3>2 DEF Chain, ChainOf, Present, Stages
    <3>. QED BY <3>1, <3>2
  <2>. QED BY <2>1 DEF Chain, ChainOf
<1>17. ExpectedCompanyOnly' BY <1>1, CalmCompany DEF Course
<1>18. Course' BY <1>10, <1>11, <1>15, <1>16, <1>17, CourseParts
<1>. QED BY <1>2, <1>6, <1>7, <1>18

(* A read-back, an adoption or a probe is finalized with the posting. *)
LEMMA ReadBackCourse ==
  ASSUME Inv, Course, Talk', NEW t \in Tickets, HearReadBack(t)
  PROVE  /\ Course' /\ Hushed /\ TxnKept(jobs, jobs') /\ UNCHANGED books
         /\ \E p \in Proposals, b \in BillIds :
              /\ posting[p] \in {0, b} /\ posting' = [posting EXCEPT ![p] = b]
              /\ \A q \in Proposals, s \in Stages : q # p => jobs'[Key(q, s)] = jobs[Key(q, s)]
              /\ jobs'[Key(p, "create")] = jobs[Key(p, "create")]
                 \/ /\ jobs'[Key(p, "create")].status = "succeeded"
                    /\ jobs'[Key(p, "probe")].status = "succeeded"
<1>. DEFINE k == sess[t].job
            p == k.proposal
            touched(i) == i = k \/ (k.stage = "probe" /\ i = Key(p, "create"))
<1>1. PICK b \in wire[t].found :
        wire[t].found = {b} /\ Finalizable(t, k, b) /\ posting' = [posting EXCEPT ![p] = b]
  BY DEF HearReadBack
<1>2. /\ k \in JobKeys /\ k.stage \in {"read_back", "adoption", "probe"} /\ Good(jobs)
      /\ Chain(jobs) /\ jobs[k].status = "sent" /\ p \in Proposals /\ k = Key(p, k.stage)
      /\ posting[p] \in {0, b} /\ ParentAllows(k) /\ UNCHANGED books
      /\ posting \in [Proposals -> 0 .. MaxBills] /\ jobs' = Finalized(k)
      /\ wire[t] \in Messages /\ Finish(t)
  BY <1>1, Keys DEF Inv, RestOk, MemoryOk, Course, HearReadBack, Hears, SentUnder, Finalizable
<1>3. b \in BillIds /\ b # 0 BY <1>1, <1>2, BoundAssumption DEF Messages, BillIds
<1>4. ASSUME NEW i \in JobKeys
      PROVE  /\ touched(i) => /\ jobs'[i].status = "succeeded" /\ Present(jobs, i)
                              /\ jobs'[i].txn = jobs[i].txn /\ jobs'[i].ext = jobs[i].ext
             /\ ~touched(i) => jobs'[i] = jobs[i]
  <2>1. jobs[i] \in Rows BY <1>2 DEF Good
  <2>2. touched(i) => jobs[i].status # "absent"
    BY <1>2 DEF ParentAllows, Uncertain
  <2>. QED BY <1>2, <2>1, <2>2 DEF Finalized, Settle, Present, Rows
<1>. HIDE DEF touched
<1>5. TxnKept(jobs, jobs') BY <1>4 DEF TxnKept, Present
<1>6. Hushed BY <1>2, HushedFinish
<1>7. BooksKeep BY <1>2, SameBooks
<1>8. ASSUME NEW u \in Tickets, wire'[u].kind \in Busy, IsCreate(wire[u].job)
      PROVE  Out(jobs'[wire[u].job], u)
  <2>1. wire'[u] = wire[u] BY <1>6, <1>8 DEF Hushed
  <2>2. wire[u].job \in JobKeys /\ Out(jobs[wire[u].job], u)
    BY <1>8, <2>1 DEF Course, Wires
  <2>. QED BY <1>4, <2>2 DEF Out
<1>9. Wires' /\ Found' BY <1>5, <1>6, <1>7, <1>8, KeepsWires, KeepsFound DEF Course
<1>10. \A q \in Proposals, s \in Stages : q # p => jobs'[Key(q, s)] = jobs[Key(q, s)]
  BY <1>2, <1>4, Keys DEF touched, Stages
<1>11. \A s \in Stages : jobs'[Key(p, s)] = jobs[Key(p, s)]
                         \/ s = k.stage \/ (s = "create" /\ k.stage = "probe")
  BY <1>2, <1>4, Keys DEF touched, Stages
<1>12. jobs'[k].status = "succeeded" BY <1>2, <1>4 DEF touched
<1>13. k.stage = "probe" => /\ jobs'[Key(p, "create")].status = "succeeded"
                            /\ jobs'[Key(p, "create")].txn = jobs[Key(p, "create")].txn
                            /\ Uncertain(jobs[Key(p, "create")])
  <2>. SUFFICES ASSUME k.stage = "probe"
       PROVE  /\ jobs'[Key(p, "create")].status = "succeeded"
              /\ jobs'[Key(p, "create")].txn = jobs[Key(p, "create")].txn
              /\ Uncertain(jobs[Key(p, "create")])
    OBVIOUS
  <2>1. Key(p, "create") \in JobKeys /\ touched(Key(p, "create"))
    BY <1>2, Keys DEF touched
  <2>. QED BY <1>2, <1>4, <2>1 DEF ParentAllows
<1>14. jobs'[Key(p, "create")].status \in {"absent", "succeeded"}
  <2>1. CASE k.stage = "probe" BY <1>13, <2>1
  <2>2. CASE k.stage # "probe"
    <3>1. jobs'[Key(p, "create")] = jobs[Key(p, "create")] BY <1>2, <1>11, <2>2 DEF Stages
    <3>2. CASE k.stage = "read_back" BY <1>2, <3>1, <3>2 DEF ParentAllows
    <3>3. CASE k.stage = "adoption"
      <4>1. Present(jobs, Key(p, "adoption")) BY <1>2, <3>3 DEF Present
      <4>. QED BY <1>2, <3>1, <4>1 DEF Chain, ChainOf, Present
    <3>. QED BY <1>2, <2>2, <3>2, <3>3
  <2>. QED BY <2>1, <2>2
<1>15. posting'[p] = b /\ \A q \in Proposals : q # p => posting'[q] = posting[q]
  BY <1>1, <1>2
<1>16. FinalizedTogether'
  <2>1. ASSUME NEW q \in Proposals
        PROVE  /\ posting'[q] # 0 <=>
                    \E s \in {"read_back", "adoption", "probe"} :
                      jobs'[Key(q, s)].status = "succeeded"
               /\ posting'[q] # 0 => jobs'[Key(q, "create")].status \in {"absent", "succeeded"}
    <3>1. CASE q = p BY <1>2, <1>3, <1>12, <1>14, <1>15, <3>1
    <3>2. CASE q # p BY <1>10, <1>15, <3>2 DEF Course, FinalizedTogether, Stages
    <3>. QED BY <3>1, <3>2
  <2>. QED BY <2>1 DEF FinalizedTogether
<1>17. PostingIsRealBill'
  <2>1. ASSUME NEW q \in Proposals, posting'[q] # 0
        PROVE  /\ posting'[q] \in DOMAIN books' /\ books'[posting'[q]].company = Expected
               /\ books'[posting'[q]].invoice \in {jobs'[Key(q, "preflight")].txn, Altered}
    <3>1. CASE q = p
      <4>1. wire[t].kind = "accepted" /\ wire[t].job = k
        BY DEF HearReadBack, Hears, Course, Talk, Carries
      <4>2. Real(b, jobs[k].txn) BY <1>1, <4>1 DEF Course, Found
      <4>3. jobs[k].txn = jobs[Key(p, "preflight")].txn
        <5>1. Present(jobs, Key(p, k.stage)) /\ k.stage \in Stages BY <1>2 DEF Present, Stages
        <5>. QED BY <1>2, <5>1 DEF Chain, ChainOf
      <4>4. jobs'[Key(p, "preflight")] = jobs[Key(p, "preflight")] BY <1>2, <1>11 DEF Stages
      <4>. QED BY <1>2, <1>15, <3>1, <4>2, <4>3, <4>4 DEF Real
    <3>2. CASE q # p
      <4>1. posting[q] # 0 BY <1>15, <2>1, <3>2
      <4>. QED BY <1>5, <1>7, <1>15, <3>2, <4>1, KeepsReal DEF Course
    <3>. QED BY <3>1, <3>2
  <2>. QED BY <2>1 DEF PostingIsRealBill
<1>18. Chain(jobs')
  <2>1. ASSUME NEW q \in Proposals PROVE ChainOf(jobs', q)
    <3>1. CASE q # p BY <1>2, <1>10, <3>1 DEF Chain, ChainOf, Present, Stages
    <3>2. CASE q = p
      <4>1. \A s \in Stages : /\ Present(jobs', Key(p, s)) <=> Present(jobs, Key(p, s))
                              /\ jobs'[Key(p, s)].txn = jobs[Key(p, s)].txn
        <5>. SUFFICES ASSUME NEW s \in Stages
             PROVE  /\ Present(jobs', Key(p, s)) <=> Present(jobs, Key(p, s))
                    /\ jobs'[Key(p, s)].txn = jobs[Key(p, s)].txn
          OBVIOUS
        <5>1. Key(p, s) \in JobKeys BY <1>2, Keys
        <5>. QED BY <1>4, <5>1 DEF Present
      <4>2. jobs'[Key(p, "preflight")] = jobs[Key(p, "preflight")] BY <1>2, <1>11 DEF Stages
      <4>3. jobs'[Key(p, "create")] = jobs[Key(p, "create")]
            \/ jobs'[Key(p, "create")].status = "succeeded"
        BY <1>2, <1>11, <1>13 DEF Stages
      <4>4. ChainOf(jobs, p) BY <1>2 DEF Chain
      <4>. QED BY <3>2, <4>1, <4>2, <4>3, <4>4 DEF ChainOf, Stages
    <3>. QED BY <3>1, <3>2
  <2>. QED BY <2>1 DEF Chain
<1>19. ExpectedCompanyOnly' BY <1>2, CalmCompany DEF Course
<1>20. Course' BY <1>9, <1>16, <1>17, <1>18, <1>19, CourseParts
<1>21. jobs'[Key(p, "create")] = jobs[Key(p, "create")]
       \/ /\ jobs'[Key(p, "create")].status = "succeeded"
          /\ jobs'[Key(p, "probe")].status = "succeeded"
  <2>1. CASE k.stage = "probe" BY <1>2, <1>12, <1>13, <2>1
  <2>2. CASE k.stage # "probe" BY <1>2, <1>11, <2>2 DEF Stages
  <2>. QED BY <2>1, <2>2
<1>. QED BY <1>1, <1>2, <1>3, <1>5, <1>6, <1>10, <1>20, <1>21

-----------------------------------------------------------------------------
(* The invariant of the whole system, and what it gives. *)
LEMMA NextCourse == Inv /\ Course /\ [Next]_vars => Course'
<1>. SUFFICES ASSUME Inv, Course, [Next]_vars PROVE Course' OBVIOUS
<1>1. Talk' BY NextTalk DEF Course
<1>2. CASE Quiet BY <1>1, <1>2, CalmStep DEF Quiet
<1>3. CASE Bookkeeper BY <1>1, <1>3, BookkeeperCourse
<1>4. ASSUME NEW t \in Tickets, Loud(t) PROVE Course'
  BY <1>1, <1>4, SendCourse, QuickBooksCourse, RejectedCourse, PreflightCourse, CreateCourse,
     ReadBackCourse
  DEF Loud, QuickBooks
<1>. QED BY <1>2, <1>3, <1>4, StepCases

(* The stages follow each other, and what is on its way is what the table says. *)
THEOREM CourseHolds == Spec => []Course
BY Invariance, InitCourse, NextCourse, PTL DEF Spec

(* A create is carried by one connector at most, however many sessions lease, *)
(* lose and resume work and however slow QuickBooks is.                       *)
THEOREM TransmittedOnce == Spec => []CreateTransmittedOnce
BY CourseHolds, CourseImplies, PTL

(* Whatever file is open when a session starts, only the company file that *)
(* the connection is bound to receives bills of this program.              *)
THEOREM RightCompany == Spec => []ExpectedCompanyOnly
<1>1. Course => ExpectedCompanyOnly BY DEF Course
<1>. QED BY <1>1, CourseHolds, PTL

(* Every posting names a bill that QuickBooks has, in the right company and  *)
(* with the contents approved (or edited since).                             *)
THEOREM RealPosting == Spec => []PostingIsRealBill
<1>1. Course => PostingIsRealBill BY DEF Course
<1>. QED BY <1>1, CourseHolds, PTL

(* There is a posting exactly when a read-back, an adoption or a probe was   *)
(* finalized, and then the create of the proposal is settled or never was.   *)
THEOREM Together == Spec => []FinalizedTogether
<1>1. Course => FinalizedTogether BY DEF Course
<1>. QED BY <1>1, CourseHolds, PTL

(* A create whose outcome is unknown leaves that state only by the adoption  *)
(* of the bill a probe read back, in one step with the posting.              *)
THEOREM OnlyAdopted == Spec => UncertainOnlyAdopted
<1>. DEFINE Frees == \A p \in Proposals : Uncertain(jobs[Key(p, "create")]) =>
               \/ Uncertain(jobs'[Key(p, "create")])
               \/ /\ jobs'[Key(p, "create")].status = "succeeded"
                  /\ jobs'[Key(p, "probe")].status = "succeeded"
                  /\ posting'[p] # 0
<1>1. ASSUME Inv, Course, [Next]_vars PROVE Frees
  <2>. SUFFICES ASSUME NEW p \in Proposals, Uncertain(jobs[Key(p, "create")])
       PROVE  \/ Uncertain(jobs'[Key(p, "create")])
              \/ /\ jobs'[Key(p, "create")].status = "succeeded"
                 /\ jobs'[Key(p, "probe")].status = "succeeded"
                 /\ posting'[p] # 0
    OBVIOUS
  <2>. DEFINE k == Key(p, "create")
  <2>1. k \in JobKeys BY Keys
  <2>2. Talk' BY <1>1, NextTalk DEF Course
  <2>3. CASE Calm(jobs, jobs') BY <2>1, <2>3 DEF Calm, CalmRow
  <2>4. CASE UNCHANGED jobs BY <2>4
  <2>5. ASSUME NEW t \in Tickets, CreateRejected(t) PROVE Uncertain(jobs'[k])
    <3>1. SettleSent(t, "failed", "PROVIDER") /\ jobs \in [JobKeys -> Rows]
      BY <1>1, <2>5 DEF CreateRejected, HearNotOk, Fail, Inv, Good
    <3>2. SentUnder(sess[t].job, t) => sess[t].job # k BY DEF SentUnder, Uncertain
    <3>. QED BY <2>1, <3>1, <3>2 DEF SettleSent
  <2>6. ASSUME NEW t \in Tickets, HearPreflight(t) PROVE Uncertain(jobs'[k])
    <3>1. PICK next \in {"create", "adoption"}, ext \in 0 .. MaxBills :
            /\ Succeeds(sess[t].job, Key(sess[t].job.proposal, next), ext)
            /\ ~Present(jobs, Key(sess[t].job.proposal, "create"))
            /\ ~Present(jobs, Key(sess[t].job.proposal, "adoption"))
      BY <1>1, <2>2, <2>6, PreflightCourse
    <3>2. SentUnder(sess[t].job, t) BY <2>6 DEF HearPreflight
    <3>3. k # sess[t].job /\ k # Key(sess[t].job.proposal, next)
      BY <3>1, <3>2 DEF SentUnder, Uncertain, Present
    <3>. QED BY <2>1, <3>1, <3>3 DEF Succeeds
  <2>7. ASSUME NEW t \in Tickets, HearCreate(t) PROVE Uncertain(jobs'[k])
    <3>1. PICK b \in wire[t].found :
            Succeeds(sess[t].job, Key(sess[t].job.proposal, "read_back"), b)
      BY <1>1, <2>2, <2>7, CreateCourse
    <3>2. SentUnder(sess[t].job, t) BY <2>7 DEF HearCreate
    <3>3. k # sess[t].job /\ k # Key(sess[t].job.proposal, "read_back")
      BY <3>2 DEF SentUnder, Uncertain, Key
    <3>. QED BY <2>1, <3>1, <3>3 DEF Succeeds
  <2>8. ASSUME NEW t \in Tickets, HearReadBack(t)
        PROVE  \/ Uncertain(jobs'[k])
               \/ /\ jobs'[k].status = "succeeded"
                  /\ jobs'[Key(p, "probe")].status = "succeeded" /\ posting'[p] # 0
    <3>1. PICK q \in Proposals, b \in BillIds :
            /\ posting' = [posting EXCEPT ![q] = b]
            /\ \A r \in Proposals, s \in Stages : r # q => jobs'[Key(r, s)] = jobs[Key(r, s)]
            /\ jobs'[Key(q, "create")] = jobs[Key(q, "create")]
               \/ /\ jobs'[Key(q, "create")].status = "succeeded"
                  /\ jobs'[Key(q, "probe")].status = "succeeded"
      BY <1>1, <2>2, <2>8, ReadBackCourse
    <3>2. posting \in [Proposals -> 0 .. MaxBills] /\ b # 0
      BY <1>1, BoundAssumption DEF Inv, RestOk, BillIds
    <3>. QED BY <3>1, <3>2 DEF Stages
  <2>9. CASE Bookkeeper
    BY <2>4, <2>9 DEF Bookkeeper, HandEnters, HandEdits, UntouchedDb, dbVars
  <2>10. ASSUME NEW t \in Tickets, QuickBooks(t) PROVE UNCHANGED jobs
    BY <1>1, <2>2, <2>10, QuickBooksCourse
  <2>11. ASSUME NEW t \in Tickets, SendRequest(t) PROVE Calm(jobs, jobs')
    BY <1>1, <2>2, <2>11, SendCourse
  <2>12. CASE Quiet BY <2>3, <2>12 DEF Quiet
  <2>13. ASSUME NEW t \in Tickets, Loud(t)
         PROVE  \/ Uncertain(jobs'[k])
                \/ /\ jobs'[k].status = "succeeded"
                   /\ jobs'[Key(p, "probe")].status = "succeeded" /\ posting'[p] # 0
    BY <2>3, <2>4, <2>5, <2>6, <2>7, <2>8, <2>10, <2>11, <2>13 DEF Loud, QuickBooks
  <2>. QED BY <1>1, <2>9, <2>12, <2>13, StepCases
<1>2. Inv /\ Course /\ [Next]_vars => [Frees]_vars BY <1>1
<1>. QED BY <1>2, Invariance, CourseHolds, PTL DEF Spec, UncertainOnlyAdopted
=============================================================================
