-------------------------- MODULE JobPromise_proofs --------------------------
(***************************************************************************)
(* ProviderJobs keeps the promise of PostOnce: for every number of         *)
(* proposals, sessions, invoices, companies and bills, a proposal gets one *)
(* bill and one posting.  The hypothesis is that no answer arrives without *)
(* a readable status (~Garbling): with one, a create that QuickBooks has   *)
(* executed counts as refused and may run again.                           *)
(***************************************************************************)
EXTENDS JobOutcomes_proofs

(***************************************************************************)
(* What the table, the connectors and the books say about the create of    *)
(* one proposal.  A bill means that the create is out or was acknowledged, *)
(* and an acknowledged create has the bill in its read-back.  A connector  *)
(* with the request, or with a refusal, means that there is no bill yet.   *)
(***************************************************************************)
Outcome(p) ==
  LET create == jobs[Key(p, "create")] IN
  /\ \A b, c \in CreatedFor(p) : b = c
  /\ CreatedFor(p) # {} => create.status \in {"sent", "succeeded"} \/ Uncertain(create)
  /\ create.status = "succeeded" /\ posting[p] = 0 =>
       \A b \in CreatedFor(p) : jobs[Key(p, "read_back")].ext = b
  /\ \A t \in Tickets : Carries(t, Key(p, "create")) =>
       /\ wire[t].kind = "accepted" => wire[t].found \subseteq CreatedFor(p)
       /\ wire[t].kind # "accepted" => CreatedFor(p) = {}
       /\ create.status = "succeeded" => posting[p] # 0
Outcomes == \A p \in Proposals : Outcome(p)

LEMMA OutcomesImply == Outcomes => AtMostOneCreate /\ NoOrphanBill
<1>1. ASSUME Outcomes PROVE AtMostOneCreate
  BY <1>1 DEF Outcomes, Outcome, AtMostOneCreate, CreatedFor
<1>2. ASSUME Outcomes PROVE NoOrphanBill
  <2>. SUFFICES ASSUME NEW b \in DOMAIN books, books[b].creator \in Proposals,
                       posting[books[b].creator] = 0
       PROVE  \/ jobs[Key(books[b].creator, "create")].status = "sent"
              \/ Uncertain(jobs[Key(books[b].creator, "create")])
              \/ /\ jobs[Key(books[b].creator, "create")].status = "succeeded"
                 /\ jobs[Key(books[b].creator, "read_back")].ext = b
    BY DEF NoOrphanBill
  <2>1. b \in CreatedFor(books[b].creator) BY DEF CreatedFor
  <2>. QED BY <1>2, <2>1 DEF Outcomes, Outcome
<1>. QED BY <1>1, <1>2

LEMMA InitOutcomes == Init => Outcomes
<1>. SUFFICES ASSUME Init, NEW p \in Proposals PROVE Outcome(p) BY DEF Outcomes
<1>1. CreatedFor(p) = {} BY DEF Init, CreatedFor
<1>2. \A t \in Tickets : ~Carries(t, Key(p, "create"))
  BY DEF Init, Carries, Silence, Busy
<1>. QED BY <1>1, <1>2 DEF Outcome

SameBills == \A p \in Proposals : CreatedFor(p)' = CreatedFor(p)

LEMMA SameBillsSame == ASSUME UNCHANGED books PROVE SameBills
BY DEF SameBills, CreatedFor

(* Who still carries a create after a step in which nobody was handed anything. *)
LEMMA HushedCarries ==
  ASSUME Hushed, NEW t \in Tickets, NEW k, Carries(t, k)'
  PROVE  Carries(t, k) /\ wire'[t] = wire[t]
BY DEF Hushed, Carries, Busy

LEMMA QuietOutcomes == ASSUME Outcomes, Quiet PROVE Outcomes'
<1>. SUFFICES ASSUME NEW p \in Proposals PROVE Outcome(p)' BY DEF Outcomes
<1>. DEFINE k == Key(p, "create")
<1>1. CalmRow(k, jobs[k], jobs'[k]) /\ IsCreate(k) BY Keys DEF Quiet, Calm, IsCreate, Stages
<1>2. CalmRow(Key(p, "read_back"), jobs[Key(p, "read_back")], jobs'[Key(p, "read_back")])
  BY Keys DEF Quiet, Calm
<1>3. jobs'[Key(p, "read_back")].ext = jobs[Key(p, "read_back")].ext
  BY <1>2, Keys DEF CalmRow, Stages
<1>4. jobs'[k].status = "succeeded" <=> jobs[k].status = "succeeded" BY <1>1 DEF CalmRow
<1>5. jobs[k].status \in {"sent", "succeeded"} \/ Uncertain(jobs[k]) =>
        jobs'[k].status \in {"sent", "succeeded"} \/ Uncertain(jobs'[k])
  BY <1>1 DEF CalmRow
<1>6. CreatedFor(p)' = CreatedFor(p) /\ posting'[p] = posting[p]
  BY SameBillsSame DEF Quiet, SameBills
<1>7. \A t \in Tickets : Carries(t, k)' => Carries(t, k) /\ wire'[t] = wire[t]
  BY HushedCarries DEF Quiet
<1>8. Outcome(p) BY DEF Outcomes
<1>. QED BY <1>3, <1>4, <1>5, <1>6, <1>7, <1>8 DEF Outcome, Uncertain, Carries

(* A bookkeeper creates nothing for a proposal. *)
LEMMA BookkeeperBills == ASSUME Inv, Bookkeeper PROVE SameBills
<1>1. books \in Seq(Bills) /\ Len(books) \in Nat /\ DOMAIN books = 1 .. Len(books)
  BY DEF Inv, RestOk
<1>2. ASSUME NEW inv \in HandInvoices, HandEnters(inv) PROVE SameBills
  <2>. DEFINE bill == [invoice |-> inv, creator |-> "hand", company |-> Expected]
  <2>1. books' = Append(books, bill) BY <1>2 DEF HandEnters
  <2>2. DOMAIN books' = 1 .. (Len(books) + 1) BY <1>1, <2>1
  <2>3. \A b \in DOMAIN books : books'[b] = books[b] /\ b \in DOMAIN books' BY <1>1, <2>1, <2>2
  <2>4. books'[Len(books) + 1].creator = "hand" BY <1>1, <2>1
  <2>5. \A b \in DOMAIN books' : b \in DOMAIN books \/ b = Len(books) + 1 BY <1>1, <2>2
  <2>. QED BY <2>3, <2>4, <2>5, NullAssumption DEF SameBills, CreatedFor
<1>3. ASSUME NEW b \in BillIds, HandEdits(b) PROVE SameBills
  <2>1. b \in DOMAIN books /\ books' = [books EXCEPT ![b].invoice = Altered]
    BY <1>3 DEF HandEdits
  <2>2. DOMAIN books' = DOMAIN books BY <1>1, <2>1
  <2>3. \A c \in DOMAIN books : books[c] \in Bills BY <1>1
  <2>4. \A c \in DOMAIN books : books'[c].creator = books[c].creator BY <1>1, <2>1, <2>3 DEF Bills
  <2>. QED BY <2>2, <2>4 DEF SameBills, CreatedFor
<1>. QED BY <1>2, <1>3 DEF Bookkeeper

(* The next bill is the one of the proposal whose create is executed. *)
LEMMA NewBill ==
  ASSUME Inv, NEW t \in Tickets, ExecuteCreate(t), NEW p \in Proposals, wire[t].job.proposal = p
  PROVE  /\ CreatedFor(p)' = CreatedFor(p) \cup {Len(books) + 1}
         /\ \A q \in Proposals : q # p => CreatedFor(q)' = CreatedFor(q)
         /\ Len(books) + 1 \in BillIds
         /\ \A q \in Proposals : Len(books) + 1 \notin CreatedFor(q)
         /\ wire[t].job = Key(p, "create")
<1>1. books \in Seq(Bills) /\ Len(books) \in Nat /\ DOMAIN books = 1 .. Len(books)
  BY DEF Inv, RestOk
<1>2. wire[t].job = Key(p, "create")
  BY Keys DEF Inv, MemoryOk, ExecuteCreate, IsCreate
<1>. DEFINE bill == [invoice |-> jobs[wire[t].job].txn, creator |-> wire[t].job.proposal,
                     company |-> wire[t].file]
<1>3. books' = Append(books, bill) BY DEF ExecuteCreate
<1>4. DOMAIN books' = 1 .. (Len(books) + 1) BY <1>1, <1>3
<1>5. \A b \in DOMAIN books : books'[b] = books[b] /\ b \in DOMAIN books' BY <1>1, <1>3, <1>4
<1>6. books'[Len(books) + 1].creator = p /\ Len(books) + 1 \in DOMAIN books'
  BY <1>1, <1>3, <1>4
<1>7. \A b \in DOMAIN books' : b \in DOMAIN books \/ b = Len(books) + 1 BY <1>1, <1>4
<1>8. Len(books) + 1 \in BillIds /\ Len(books) + 1 \notin DOMAIN books
  BY <1>1, BoundAssumption DEF ExecuteCreate, BillIds
<1>. QED BY <1>2, <1>5, <1>6, <1>7, <1>8 DEF CreatedFor

(* The step of one proposal's create, and the steps of the others. *)
LEMMA ExecuteOutcomes ==
  ASSUME Inv, Course, Outcomes, NEW t \in Tickets, ExecuteCreate(t) PROVE Outcomes'
<1>. DEFINE p == wire[t].job.proposal
            k == Key(p, "create")
<1>1. PICK q \in Proposals : q = p BY DEF Inv, MemoryOk, ExecuteCreate, JobKeys
<1>2. /\ CreatedFor(q)' = CreatedFor(q) \cup {Len(books) + 1}
      /\ \A r \in Proposals : r # q => CreatedFor(r)' = CreatedFor(r)
      /\ wire[t].job = Key(q, "create")
  BY <1>1, NewBill
<1>3. /\ UNCHANGED <<jobs, posting>> /\ Reply(t, "accepted", {Len(books) + 1})
      /\ wire[t].kind = "request"
  BY DEF ExecuteCreate, UntouchedDb, dbVars
<1>4. /\ \A u \in Tickets : wire'[u].kind \in Busy <=> wire[u].kind \in Busy
      /\ \A u \in Tickets : wire'[u].job = wire[u].job
      /\ \A u \in Tickets \ {t} : wire'[u] = wire[u]
      /\ wire'[t].kind = "accepted" /\ wire'[t].found = {Len(books) + 1}
  BY <1>3, ReplyWires DEF Course
<1>5. Carries(t, Key(q, "create")) BY <1>2, <1>3 DEF Carries, Busy
<1>6. \A u \in Tickets : Carries(u, Key(q, "create")) => u = t
  BY <1>2, <1>3, Keys DEF Course, Wires, Busy, IsCreate, Stages
<1>7. Out(jobs[Key(q, "create")], t)
  BY <1>2, <1>3, Keys DEF Course, Wires, Busy, IsCreate, Stages
<1>8. CreatedFor(q) = {} /\ (jobs[Key(q, "create")].status = "succeeded" => posting[q] # 0)
  BY <1>3, <1>5 DEF Outcomes, Outcome
<1>. SUFFICES ASSUME NEW r \in Proposals PROVE Outcome(r)' BY DEF Outcomes
<1>9. CASE r = q
  <2>1. CreatedFor(r)' = {Len(books) + 1} BY <1>2, <1>8, <1>9
  <2>2. \A u \in Tickets : Carries(u, Key(r, "create"))' => u = t
    BY <1>4, <1>6, <1>9 DEF Carries
  <2>. QED BY <1>3, <1>4, <1>7, <1>8, <1>9, <2>1, <2>2 DEF Outcome, Out, Uncertain
<1>10. CASE r # q
  <2>1. CreatedFor(r)' = CreatedFor(r) BY <1>2, <1>10
  <2>2. Key(r, "create") # Key(q, "create") BY <1>10 DEF Key
  <2>3. \A u \in Tickets : Carries(u, Key(r, "create"))' =>
          Carries(u, Key(r, "create")) /\ wire'[u] = wire[u]
    BY <1>2, <1>4, <2>2 DEF Carries
  <2>4. Outcome(r) BY DEF Outcomes
  <2>. QED BY <1>3, <2>1, <2>3, <2>4 DEF Outcome, Uncertain
<1>. QED BY <1>9, <1>10

(* A query, or a refusal, creates nothing. *)
LEMMA ReplyOutcomes ==
  ASSUME Inv, Course, Outcomes, UNCHANGED <<jobs, posting, books>>, NEW t \in Tickets,
         wire[t].kind = "request", NEW kind \in {"accepted", "rejected"}, NEW found,
         Reply(t, kind, found), kind = "accepted" => ~IsCreate(wire[t].job)
  PROVE  Outcomes'
<1>1. /\ \A u \in Tickets : wire'[u].kind \in Busy <=> wire[u].kind \in Busy
      /\ \A u \in Tickets : wire'[u].job = wire[u].job
      /\ \A u \in Tickets \ {t} : wire'[u] = wire[u]
      /\ wire'[t].kind = kind
  BY ReplyWires DEF Course
<1>. SUFFICES ASSUME NEW p \in Proposals PROVE Outcome(p)' BY DEF Outcomes
<1>2. Outcome(p) BY DEF Outcomes
<1>3. CreatedFor(p)' = CreatedFor(p) BY SameBillsSame DEF SameBills
<1>4. \A u \in Tickets : Carries(u, Key(p, "create"))' <=> Carries(u, Key(p, "create"))
  BY <1>1 DEF Carries
<1>5. Carries(t, Key(p, "create")) => kind = "rejected"
  BY Keys DEF Carries, IsCreate, Stages
<1>. QED BY <1>1, <1>2, <1>3, <1>4, <1>5 DEF Outcome, Uncertain, Busy

LEMMA SendOutcomes ==
  ASSUME Inv, Course, Outcomes, Course', NEW t \in Tickets, SendRequest(t) PROVE Outcomes'
<1>. DEFINE k == sess[t].job
            m == [wire[t] EXCEPT !.kind = "request", !.job = k]
<1>1. /\ k \in JobKeys /\ jobs[k].status = "leased" /\ jobs \in [JobKeys -> Rows]
      /\ jobs' = [jobs EXCEPT ![k].status = "sent"]
      /\ wire[t] \in Messages /\ wire \in [Tickets -> Messages] /\ UNCHANGED <<posting, books>>
  BY DEF Inv, Good, MemoryOk, SendRequest, MaySend
<1>2. m.kind = "request" /\ m.job = k BY <1>1 DEF Messages
<1>3. wire' = [wire EXCEPT ![t] = m] \/ wire' = wire BY <1>1 DEF SendRequest, Messages
<1>4. jobs'[k].status = "sent" /\ \A i \in JobKeys \ {k} : jobs'[i] = jobs[i]
  BY <1>1 DEF Rows
<1>4a. \A i \in JobKeys : jobs'[i].ext = jobs[i].ext BY <1>1 DEF Rows
<1>. HIDE DEF m
<1>. SUFFICES ASSUME NEW p \in Proposals PROVE Outcome(p)' BY DEF Outcomes
<1>5. Outcome(p) BY DEF Outcomes
<1>6. CreatedFor(p)' = CreatedFor(p) BY <1>1, SameBillsSame DEF SameBills
<1>7. CASE k = Key(p, "create")
  <2>1. CreatedFor(p) = {} BY <1>1, <1>5, <1>7 DEF Outcome, Uncertain
  <2>2. \A u \in Tickets : ~Carries(u, k)
    BY <1>1, <1>7, Keys DEF Course, Wires, Carries, Out, Uncertain, IsCreate, Stages
  <2>3. \A u \in Tickets : Carries(u, Key(p, "create"))' => wire'[u].kind = "request"
    <3>1. \A u \in Tickets : wire'[u] = wire[u] \/ wire'[u] = m BY <1>1, <1>3
    <3>. QED BY <1>2, <1>7, <2>2, <3>1 DEF Carries, Busy
  <2>. QED BY <1>4, <1>6, <1>7, <2>1, <2>3 DEF Outcome, Uncertain
<1>8. CASE k # Key(p, "create")
  <2>1. jobs'[Key(p, "create")] = jobs[Key(p, "create")] BY <1>4, <1>8, Keys
  <2>2. jobs'[Key(p, "read_back")].ext = jobs[Key(p, "read_back")].ext BY <1>4a, Keys
  <2>3. \A u \in Tickets : Carries(u, Key(p, "create"))' =>
          Carries(u, Key(p, "create")) /\ wire'[u] = wire[u]
    <3>1. \A u \in Tickets : wire'[u] = wire[u] \/ wire'[u] = m BY <1>1, <1>3
    <3>. QED BY <1>2, <1>8, <3>1 DEF Carries, Busy
  <2>. QED BY <1>1, <1>5, <1>6, <2>1, <2>2, <2>3 DEF Outcome, Uncertain
<1>. QED BY <1>7, <1>8

(* QuickBooks refused the create: there is no bill, and it may run again. *)
LEMMA RejectedOutcomes ==
  ASSUME ~Garbling, Inv, Course, Outcomes, NEW t \in Tickets, CreateRejected(t) PROVE Outcomes'
<1>. DEFINE k == sess[t].job
<1>1. /\ k \in JobKeys /\ k.stage = "create" /\ jobs \in [JobKeys -> Rows]
      /\ UNCHANGED <<posting, books>> /\ SettleSent(t, "failed", "PROVIDER") /\ Finish(t)
      /\ Carries(t, k) /\ wire[t].kind = "rejected"
  BY DEF Inv, Good, MemoryOk, Course, CreateRejected, HearNotOk, Hears, Fail, Talk, IsCreate, Busy
<1>2. Hushed BY <1>1, HushedFinish
<1>. SUFFICES ASSUME NEW p \in Proposals PROVE Outcome(p)' BY DEF Outcomes
<1>3. Outcome(p) BY DEF Outcomes
<1>4. CreatedFor(p)' = CreatedFor(p) BY <1>1, SameBillsSame DEF SameBills
<1>5. \A u \in Tickets : Carries(u, Key(p, "create"))' =>
        Carries(u, Key(p, "create")) /\ wire'[u] = wire[u]
  BY <1>2, HushedCarries
<1>6. \A s \in Stages : jobs'[Key(p, s)].ext = jobs[Key(p, s)].ext
  <2>1. \A i \in JobKeys : jobs'[i].ext = jobs[i].ext BY <1>1 DEF SettleSent, Settle, Rows
  <2>. QED BY <2>1, Keys
<1>7. CASE k = Key(p, "create")
  <2>1. CreatedFor(p) = {} BY <1>1, <1>3, <1>7 DEF Outcome
  <2>2. ASSUME NEW u \in Tickets, Carries(u, Key(p, "create"))' PROVE FALSE
    <3>1. Carries(u, k) /\ wire'[u] = wire[u] BY <1>5, <1>7, <2>2
    <3>2. u = t BY <1>1, <3>1 DEF Course, Wires, Carries, IsCreate
    <3>3. wire'[t].kind = "none" BY <1>1, ClosedType DEF Finish, Inv, MemoryOk
    <3>. QED BY <1>1, <3>1, <3>2, <3>3
  <2>3. jobs'[Key(p, "create")].status = "failed" \/ jobs' = jobs
    BY <1>1, <1>7 DEF SettleSent, Settle, Rows
  <2>. QED BY <1>1, <1>3, <1>4, <1>6, <2>1, <2>2, <2>3 DEF Outcome, Uncertain, Stages
<1>8. CASE k # Key(p, "create")
  <2>1. jobs'[Key(p, "create")] = jobs[Key(p, "create")]
    BY <1>1, <1>8, Keys DEF SettleSent
  <2>. QED BY <1>1, <1>3, <1>4, <1>5, <1>6, <2>1 DEF Outcome, Uncertain, Stages
<1>. QED BY <1>7, <1>8

LEMMA PreflightOutcomes ==
  ASSUME Inv, Course, Outcomes, Talk', NEW t \in Tickets, HearPreflight(t) PROVE Outcomes'
<1>. DEFINE k == sess[t].job
<1>1. PICK next \in {"create", "adoption"}, ext \in 0 .. MaxBills :
        /\ Succeeds(k, Key(k.proposal, next), ext)
        /\ ~Present(jobs, Key(k.proposal, "create"))
        /\ ~Present(jobs, Key(k.proposal, "adoption"))
  BY PreflightCourse
<1>2. Hushed BY PreflightCourse
<1>3. /\ k \in JobKeys /\ k.stage = "preflight" /\ k.proposal \in Proposals
      /\ UNCHANGED <<posting, books>>
  BY DEF Inv, MemoryOk, HearPreflight, Hears, JobKeys
<1>. SUFFICES ASSUME NEW p \in Proposals PROVE Outcome(p)' BY DEF Outcomes
<1>4. Outcome(p) BY DEF Outcomes
<1>5. CreatedFor(p)' = CreatedFor(p) BY <1>3, SameBillsSame DEF SameBills
<1>6. \A u \in Tickets : Carries(u, Key(p, "create"))' =>
        Carries(u, Key(p, "create")) /\ wire'[u] = wire[u]
  BY <1>2, HushedCarries
<1>7. CASE k.proposal = p
  <2>1. jobs[Key(p, "create")].status = "absent" BY <1>1, <1>7 DEF Present
  <2>2. CreatedFor(p) = {} BY <1>4, <2>1 DEF Outcome, Uncertain
  <2>3. \A u \in Tickets : ~Carries(u, Key(p, "create"))
    BY <2>1 DEF Course, Wires, Carries, Present
  <2>. QED BY <1>5, <1>6, <2>2, <2>3 DEF Outcome
<1>8. CASE k.proposal # p
  <2>1. \A s \in Stages : jobs'[Key(p, s)] = jobs[Key(p, s)]
    BY <1>1, <1>3, <1>8, Keys DEF Succeeds, Stages
  <2>. QED BY <1>3, <1>4, <1>5, <1>6, <2>1 DEF Outcome, Uncertain, Stages
<1>. QED BY <1>7, <1>8

(* The acknowledged create queues the read-back of the bill it made. *)
LEMMA CreateOutcomes ==
  ASSUME Inv, Course, Outcomes, Talk', NEW t \in Tickets, HearCreate(t) PROVE Outcomes'
<1>. DEFINE k == sess[t].job
<1>1. PICK b \in wire[t].found : Succeeds(k, Key(k.proposal, "read_back"), b) BY CreateCourse
<1>2. Hushed BY CreateCourse
<1>3. /\ k \in JobKeys /\ k.stage = "create" /\ k.proposal \in Proposals
      /\ k = Key(k.proposal, "create") /\ UNCHANGED <<posting, books>>
      /\ wire[t].kind = "accepted" /\ wire[t].job = k /\ Finish(t)
  BY Keys DEF Inv, MemoryOk, HearCreate, Hears, IsCreate, Course, Talk, Carries
<1>. SUFFICES ASSUME NEW p \in Proposals PROVE Outcome(p)' BY DEF Outcomes
<1>4. Outcome(p) BY DEF Outcomes
<1>5. CreatedFor(p)' = CreatedFor(p) BY <1>3, SameBillsSame DEF SameBills
<1>6. \A u \in Tickets : Carries(u, Key(p, "create"))' =>
        Carries(u, Key(p, "create")) /\ wire'[u] = wire[u]
  BY <1>2, HushedCarries
<1>7. CASE k.proposal = p
  <2>1. Carries(t, Key(p, "create")) BY <1>3, <1>7 DEF Carries, Busy
  <2>2. wire[t].found \subseteq CreatedFor(p) BY <1>3, <1>4, <2>1 DEF Outcome
  <2>3. \A c \in CreatedFor(p) : c = b BY <1>1, <1>4, <2>2 DEF Outcome
  <2>4. jobs'[Key(p, "create")].status = "succeeded" /\ jobs'[Key(p, "read_back")].ext = b
    BY <1>1, <1>3, <1>7 DEF Succeeds
  <2>5. ASSUME NEW u \in Tickets, Carries(u, Key(p, "create"))' PROVE FALSE
    <3>1. Carries(u, Key(p, "create")) /\ wire'[u] = wire[u] BY <1>6, <2>5
    <3>2. u = t BY <1>3, <1>7, <3>1 DEF Course, Wires, Carries, IsCreate, Busy
    <3>3. wire'[t].kind = "none" BY <1>3, ClosedType DEF Finish, Inv, MemoryOk
    <3>. QED BY <1>3, <3>1, <3>2, <3>3
  <2>. QED BY <1>4, <1>5, <2>3, <2>4, <2>5 DEF Outcome
<1>8. CASE k.proposal # p
  <2>1. \A s \in Stages : jobs'[Key(p, s)] = jobs[Key(p, s)]
    BY <1>1, <1>3, <1>8, Keys DEF Succeeds, Stages
  <2>. QED BY <1>3, <1>4, <1>5, <1>6, <2>1 DEF Outcome, Uncertain, Stages
<1>. QED BY <1>7, <1>8

LEMMA ReadBackOutcomes ==
  ASSUME Inv, Course, Outcomes, Talk', NEW t \in Tickets, HearReadBack(t) PROVE Outcomes'
<1>1. PICK q \in Proposals, b \in BillIds :
        /\ posting[q] \in {0, b} /\ posting' = [posting EXCEPT ![q] = b]
        /\ \A r \in Proposals, s \in Stages : r # q => jobs'[Key(r, s)] = jobs[Key(r, s)]
        /\ jobs'[Key(q, "create")] = jobs[Key(q, "create")]
           \/ /\ jobs'[Key(q, "create")].status = "succeeded"
              /\ jobs'[Key(q, "probe")].status = "succeeded"
  BY ReadBackCourse
<1>2. Hushed /\ UNCHANGED books BY ReadBackCourse
<1>3. posting'[q] # 0 /\ \A r \in Proposals : r # q => posting'[r] = posting[r]
  BY <1>1, BoundAssumption DEF Inv, RestOk, BillIds
<1>. SUFFICES ASSUME NEW p \in Proposals PROVE Outcome(p)' BY DEF Outcomes
<1>4. Outcome(p) BY DEF Outcomes
<1>5. CreatedFor(p)' = CreatedFor(p) BY <1>2, SameBillsSame DEF SameBills
<1>6. \A u \in Tickets : Carries(u, Key(p, "create"))' =>
        Carries(u, Key(p, "create")) /\ wire'[u] = wire[u]
  BY <1>2, HushedCarries
<1>7. CASE p = q BY <1>1, <1>3, <1>4, <1>5, <1>6, <1>7 DEF Outcome, Uncertain
<1>8. CASE p # q BY <1>1, <1>3, <1>4, <1>5, <1>6, <1>8 DEF Outcome, Uncertain, Stages
<1>. QED BY <1>7, <1>8

LEMMA BookkeeperOutcomes == ASSUME Inv, Outcomes, Bookkeeper PROVE Outcomes'
<1>1. UNCHANGED <<jobs, posting, wire>>
  BY DEF Bookkeeper, HandEnters, HandEdits, UntouchedDb, dbVars
<1>. SUFFICES ASSUME NEW p \in Proposals PROVE Outcome(p)' BY DEF Outcomes
<1>2. CreatedFor(p)' = CreatedFor(p) BY BookkeeperBills DEF SameBills
<1>. QED BY <1>1, <1>2 DEF Outcomes, Outcome, Uncertain, Carries

LEMMA NextOutcomes == ~Garbling /\ Inv /\ Course /\ Outcomes /\ [Next]_vars => Outcomes'
<1>. SUFFICES ASSUME ~Garbling, Inv, Course, Outcomes, [Next]_vars PROVE Outcomes' OBVIOUS
<1>1. Talk' /\ Course' BY NextTalk, NextCourse DEF Course
<1>2. ASSUME NEW t \in Tickets, ExecuteQuery(t) \/ Refuse(t) PROVE Outcomes'
  BY <1>2, ReplyOutcomes DEF ExecuteQuery, Refuse, UntouchedDb, dbVars
<1>. QED BY <1>1, <1>2, StepCases, QuietOutcomes, BookkeeperOutcomes, SendOutcomes,
            ExecuteOutcomes, RejectedOutcomes, PreflightOutcomes, CreateOutcomes, ReadBackOutcomes
         DEF Loud

-----------------------------------------------------------------------------
(* The invariant of a system whose answers can all be read. *)
THEOREM OutcomesHold == ASSUME ~Garbling PROVE Spec => []Outcomes
<1>1. Inv /\ Course /\ Outcomes /\ [Next]_vars => Outcomes' BY NextOutcomes
<1>. QED BY <1>1, Invariance, CourseHolds, InitOutcomes, PTL DEF Spec

(* No proposal ever leaves two bills in QuickBooks, whatever is lost, expires, *)
(* is retried, rejected or proposed again.                                     *)
THEOREM OneCreate == ASSUME ~Garbling PROVE Spec => []AtMostOneCreate
BY OutcomesHold, OutcomesImply, PTL

(* No bill of this program is forgotten: it is being answered, held as        *)
(* uncertain, or named by a read-back, until its proposal has its posting.    *)
THEOREM NoneForgotten == ASSUME ~Garbling PROVE Spec => []NoOrphanBill
BY OutcomesHold, OutcomesImply, PTL

(* The Desktop path implements PostOnce: a step creates the one bill of a     *)
(* proposal, records its one posting, or changes neither.                     *)
THEOREM KeepsPromise == ASSUME ~Garbling PROVE Spec => PostsOnce
<1>1. Init => Promise!Init
  BY DEF Init, Promise!Init, CreatedFor
<1>2. ASSUME Inv, Course, Outcomes, [Next]_vars
      PROVE  [Promise!Next]_(Promise!vars)
  <2>1. Talk' BY <1>2, NextTalk DEF Course
  <2>2. ASSUME SameBills, UNCHANGED posting PROVE UNCHANGED Promise!vars
    BY <2>2 DEF SameBills, Promise!vars
  <2>3. CASE Quiet BY <2>2, <2>3, SameBillsSame DEF Quiet
  <2>4. CASE Bookkeeper
    BY <1>2, <2>2, <2>4, BookkeeperBills DEF Bookkeeper, HandEnters, HandEdits, UntouchedDb, dbVars
  <2>5. ASSUME NEW t \in Tickets,
               \/ SendRequest(t) \/ ExecuteQuery(t) \/ Refuse(t) \/ CreateRejected(t)
               \/ HearPreflight(t) \/ HearCreate(t)
        PROVE  UNCHANGED Promise!vars
    <3>1. UNCHANGED <<posting, books>>
      BY <2>5 DEF SendRequest, ExecuteQuery, Refuse, CreateRejected, HearNotOk, HearPreflight,
                  HearCreate, UntouchedDb, dbVars
    <3>. QED BY <2>2, <3>1, SameBillsSame
  <2>6. ASSUME NEW t \in Tickets, ExecuteCreate(t) PROVE Promise!Next
    <3>. DEFINE b == Len(books) + 1
    <3>1. PICK p \in Proposals : wire[t].job.proposal = p
      BY <1>2, <2>6 DEF Inv, MemoryOk, ExecuteCreate, JobKeys
    <3>2. /\ CreatedFor(p)' = CreatedFor(p) \cup {b} /\ b \in BillIds
          /\ \A q \in Proposals : q # p => CreatedFor(q)' = CreatedFor(q)
          /\ \A q \in Proposals : b \notin CreatedFor(q)
          /\ wire[t].job = Key(p, "create")
      BY <1>2, <2>6, <3>1, NewBill
    <3>3. CreatedFor(p) = {}
      BY <1>2, <2>6, <3>2 DEF ExecuteCreate, Outcomes, Outcome, Carries, Busy
    <3>4. UNCHANGED posting BY <2>6 DEF ExecuteCreate, UntouchedDb, dbVars
    <3>5. Promise!Create(p, b) BY <3>2, <3>3, <3>4 DEF Promise!Create
    <3>. QED BY <3>2, <3>5 DEF Promise!Next
  <2>7. ASSUME NEW t \in Tickets, HearReadBack(t) PROVE [Promise!Next]_(Promise!vars)
    <3>1. PICK p \in Proposals, b \in BillIds :
            posting[p] \in {0, b} /\ posting' = [posting EXCEPT ![p] = b]
      BY <1>2, <2>1, <2>7, ReadBackCourse
    <3>2. SameBills BY <1>2, <2>1, <2>7, ReadBackCourse, SameBillsSame
    <3>3. CASE posting[p] = b
      <4>1. UNCHANGED posting BY <1>2, <3>1, <3>3 DEF Inv, RestOk
      <4>. QED BY <2>2, <3>2, <4>1
    <3>4. CASE posting[p] = 0
      <4>1. Promise!Record(p, b) BY <3>1, <3>2, <3>4 DEF Promise!Record, SameBills
      <4>. QED BY <4>1 DEF Promise!Next
    <3>. QED BY <3>1, <3>3, <3>4
  <2>. QED BY <1>2, <2>3, <2>4, <2>5, <2>6, <2>7, StepCases DEF Loud
<1>. QED BY <1>1, <1>2, Invariance, CourseHolds, OutcomesHold, PTL
     DEF Spec, PostsOnce, Promise!Spec
=============================================================================
