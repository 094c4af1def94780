--------------------------- MODULE Posting_proofs ---------------------------
(***************************************************************************)
(* Proofs about Posting, for any number of proposals, concurrent runs,     *)
(* faults, re-proposals and bills.                                         *)
(***************************************************************************)
EXTENDS Posting, TLAPS

(* The steps at which a run holds the identity of a bill. *)
Holding == {"recover", "adopt", "adoptLate", "persist", "attach", "readback",
            "flag", "record", "status", "reconcile"}
RunType == [step : Steps, of : Proposals \cup {NoProposal},
            draft : Invoices \cup {Altered}, key : Keys \cup {NoKey}, ref : {0} \cup Refs]
Bill == [invoice : Invoices \cup {Altered}, by : Proposals \cup {NoProposal},
         key : Keys \cup {NoKey}]

(* A run that is under way works for a proposal, with a draft that was ready  *)
(* and the one key of the proposal, and knows a real bill where it needs one. *)
RunOk(r) ==
  /\ r \in RunType
  /\ r.step = "idle" => r = NoRun
  /\ r.step # "idle" => /\ r.of \in Proposals /\ r.key = Sha[r.of]
                        /\ r.draft \in offered[r.of] /\ r.draft \in Invoices
  /\ r.step \in Holding => r.ref \in DOMAIN bills

RunsOk == run \in [Workers -> RunType] /\ \A w \in Workers : RunOk(run[w])

(* A create that is on the way carries such a draft, and the key of its proposal. *)
WireOk ==
  /\ wire \subseteq [from : Workers, for : Proposals, draft : Invoices, key : Keys]
  /\ \A c \in wire : c.draft \in offered[c.for] /\ c.key = Sha[c.for]

BooksOk ==
  /\ bills \in Seq(Bill) /\ Len(bills) <= MaxBills
  /\ \A b \in DOMAIN bills :
       IF bills[b].by = NoProposal THEN bills[b].key = NoKey ELSE bills[b].key = Sha[bills[b].by]
  /\ OneBillPerProposal /\ OnlyOfferedDrafts

(* Rows name real bills; a ready proposal shows a draft it was ready with. *)
RowsOk ==
  /\ proposal \in [Proposals -> [status : {"review", "ready", "posted", "rejected"},
                                 draft : Invoices, key : Keys]]
  /\ \A p \in Proposals : proposal[p].key = Sha[p]
  /\ offered \in [Proposals -> SUBSET Invoices]
  /\ \A p \in Proposals : proposal[p].status = "ready" => proposal[p].draft \in offered[p]
  /\ posting \in [Proposals -> [status : {"absent", "unknown", "posted", "mismatch"},
                                ref : {0} \cup Refs]]
  /\ \A p \in Proposals : posting[p].status \in {"posted", "mismatch"} => posting[p].ref # 0
  /\ \A p \in Proposals : posting[p].ref # 0 => posting[p].ref \in DOMAIN bills

RestOk ==
  /\ raised \in [Proposals -> SUBSET Reasons]
  /\ reconciled \subseteq Proposals /\ attached \subseteq Proposals
  /\ cut \subseteq Proposals /\ overtaken \subseteq Proposals
  /\ faults \in 0 .. MaxFaults /\ redrafts \in 0 .. MaxRedrafts

Inv == RunsOk /\ WireOk /\ BooksOk /\ RowsOk /\ RestOk

LEMMA InvImplies == Inv => TypeOK /\ OneBillPerProposal /\ OnlyOfferedDrafts
BY DEF Inv, RunsOk, RunOk, RunType, WireOk, BooksOk, Bill, RowsOk, RestOk, TypeOK, At

LEMMA NoRunOk == NoRun \in RunType /\ RunOk(NoRun)
BY DEF NoRun, RunType, RunOk, Steps, Holding

LEMMA InitInv == Init => Inv
<1>. SUFFICES ASSUME Init PROVE Inv OBVIOUS
<1>1. RunsOk BY NoRunOk DEF Init, RunsOk
<1>2. WireOk BY DEF Init, WireOk
<1>3. BooksOk
  BY BoundAssumption DEF Init, BooksOk, Bill, OneBillPerProposal, OnlyOfferedDrafts
<1>4. RowsOk BY DraftAssumption DEF Init, RowsOk, Keys
<1>5. RestOk BY BoundAssumption DEF Init, RestOk
<1>. QED BY <1>1, <1>2, <1>3, <1>4, <1>5 DEF Inv

-----------------------------------------------------------------------------
(* A step of one run *)

LEMMA RefsOfBooks == BooksOk => DOMAIN bills \subseteq Refs
BY BoundAssumption DEF BooksOk, Refs

(* The other runs are not touched by a step of this one. *)
LEMMA RunsAfter ==
  ASSUME RunsOk, NEW w \in Workers, NEW r, RunOk(r), run' = [run EXCEPT ![w] = r],
         UNCHANGED <<bills, offered>>
  PROVE  RunsOk'
BY DEF RunsOk, RunOk

LEMMA EndRuns ==
  ASSUME RunsOk, NEW w \in Workers, End(w), UNCHANGED <<bills, offered>>
  PROVE  RunsOk'
BY NoRunOk, RunsAfter DEF End

LEMMA GoToRuns ==
  ASSUME RunsOk, NEW w \in Workers, run[w].step # "idle",
         NEW s \in Steps \ {"idle"}, s \in Holding => run[w].step \in Holding,
         GoTo(w, s), UNCHANGED <<bills, offered>>
  PROVE  RunsOk'
<1>. DEFINE r == [run[w] EXCEPT !.step = s]
<1>1. RunOk(r) BY DEF RunsOk, RunOk, RunType
<1>2. run' = [run EXCEPT ![w] = r] BY DEF GoTo, RunsOk, RunType
<1>. QED BY <1>1, <1>2, RunsAfter

LEMMA GoWithRuns ==
  ASSUME RunsOk, BooksOk, NEW w \in Workers, run[w].step # "idle",
         NEW s \in Steps \ {"idle"}, NEW b \in DOMAIN bills,
         GoWith(w, s, b), UNCHANGED <<bills, offered>>
  PROVE  RunsOk'
<1>. DEFINE r == [run[w] EXCEPT !.step = s, !.ref = b]
<1>1. RunOk(r) BY RefsOfBooks DEF RunsOk, RunOk, RunType
<1>2. run' = [run EXCEPT ![w] = r] BY DEF GoWith, RunsOk, RunType
<1>. QED BY <1>1, <1>2, RunsAfter

LEMMA RaiseType ==
  ASSUME RestOk, NEW p \in Proposals, NEW reason \in Reasons, Raise(p, reason)
  PROVE  raised' \in [Proposals -> SUBSET Reasons]
BY DEF RestOk, Raise

LEMMA FaultType ==
  ASSUME RestOk, NEW kind, Fault(kind)
  PROVE  faults' \in 0 .. MaxFaults
BY BoundAssumption DEF RestOk, Fault

LEMMA UpsertRows ==
  ASSUME RowsOk, BooksOk, NEW p \in Proposals, NEW b \in DOMAIN bills,
         NEW s \in {"unknown", "posted", "mismatch"}, Upsert(p, s, b),
         UNCHANGED <<proposal, offered, bills>>
  PROVE  RowsOk'
<1>1. b \in Refs /\ b # 0 BY RefsOfBooks, BoundAssumption DEF Refs
<1>. QED BY <1>1 DEF RowsOk, Upsert

(* What a run of postOnce needs to know of where it is. *)
LEMMA Here ==
  ASSUME Inv, NEW w \in Workers, NEW s, s # "idle", At(w, s)
  PROVE  /\ Of(w) \in Proposals
         /\ run[w].draft \in Invoices /\ run[w].draft \in offered[Of(w)]
         /\ run[w].key = Sha[Of(w)] /\ run[w].key \in Keys
         /\ s \in Holding => run[w].ref \in DOMAIN bills
BY DEF Inv, RunsOk, RunOk, At, Of, Keys

(* Steps that leave the books, the calls on the way and the rows alone. *)
LEMMA QuietInv ==
  ASSUME Inv, RunsOk', UNCHANGED <<bills, wire, proposal, posting, offered>>, RestOk'
  PROVE  Inv'
BY DEF Inv, WireOk, BooksOk, RowsOk, OneBillPerProposal, OnlyOfferedDrafts

-----------------------------------------------------------------------------
(* The steps that only move the run, and those that only raise or count. *)
LEMMA MovesInv ==
  ASSUME Inv, NEW w \in Workers,
         \/ LocalAbsent(w) \/ LocalSettled(w) \/ LocalUnknown(w) \/ Recover(w)
         \/ Probe(w) \/ Gates(w) \/ ProbeAgain(w) \/ Attach(w) \/ ReadBack(w) \/ Answered(w)
  PROVE  Inv'
<1>. USE DEF rows, provider, history, Steps, Holding, At
<1>a. RunsOk /\ BooksOk /\ RestOk /\ RowsOk BY DEF Inv
<1>1. CASE LocalAbsent(w)
  <2>1. RunsOk' BY <1>a, <1>1, GoToRuns DEF LocalAbsent
  <2>. QED BY <1>1, <2>1, QuietInv DEF LocalAbsent, Inv, RestOk
<1>2. CASE LocalSettled(w)
  <2>1. RunsOk' BY <1>a, <1>2, EndRuns DEF LocalSettled
  <2>2. raised' \in [Proposals -> SUBSET Reasons] BY <1>a, <1>2, Here, RaiseType DEF LocalSettled, Reasons
  <2>. QED BY <1>2, <2>1, <2>2, QuietInv DEF LocalSettled, Inv, RestOk
<1>3. CASE LocalUnknown(w)
  <2>1. CASE posting[Of(w)].ref = 0
    <3>1. RunsOk' BY <1>a, <1>3, <2>1, EndRuns DEF LocalUnknown
    <3>. QED BY <1>3, <3>1, QuietInv DEF LocalUnknown, Inv, RestOk
  <2>2. CASE posting[Of(w)].ref # 0
    <3>1. posting[Of(w)].ref \in DOMAIN bills BY <1>a, <1>3, <2>2, Here DEF LocalUnknown, RowsOk
    <3>2. RunsOk' BY <1>a, <1>3, <2>2, <3>1, GoWithRuns DEF LocalUnknown
    <3>. QED BY <1>3, <3>2, QuietInv DEF LocalUnknown, Inv, RestOk
  <2>. QED BY <2>1, <2>2
<1>4. CASE Recover(w)
  <2>1. RunsOk'
    <3>1. CASE GoTo(w, "record") BY <1>a, <1>4, <3>1, GoToRuns DEF Recover
    <3>2. CASE End(w) BY <1>a, <1>4, <3>2, EndRuns DEF Recover
    <3>. QED BY <1>4, <3>1, <3>2 DEF Recover
  <2>2. faults' \in 0 .. MaxFaults BY <1>a, <1>4, FaultType DEF Recover, RestOk
  <2>. QED BY <1>4, <2>1, <2>2, QuietInv DEF Recover, Inv, RestOk
<1>5. CASE Probe(w)
  <2>1. RunsOk'
    <3>1. CASE GoTo(w, "gates") BY <1>a, <1>5, <3>1, GoToRuns DEF Probe
    <3>2. CASE End(w) BY <1>a, <1>5, <3>2, EndRuns DEF Probe
    <3>3. ASSUME NEW r \in DOMAIN bills, GoWith(w, "adopt", r) PROVE RunsOk'
      BY <1>a, <1>5, <3>3, GoWithRuns DEF Probe
    <3>. QED BY <1>5, <3>1, <3>2, <3>3 DEF Probe
  <2>2. raised' \in [Proposals -> SUBSET Reasons]
    BY <1>a, <1>5, Here, RaiseType DEF Probe, Reasons, RestOk
  <2>3. faults' \in 0 .. MaxFaults BY <1>a, <1>5, FaultType DEF Probe, RestOk
  <2>. QED BY <1>5, <2>1, <2>2, <2>3, QuietInv DEF Probe, Inv, RestOk
<1>6. CASE Gates(w)
  <2>1. RunsOk'
    <3>1. CASE GoTo(w, "create") BY <1>a, <1>6, <3>1, GoToRuns DEF Gates
    <3>2. CASE End(w) BY <1>a, <1>6, <3>2, EndRuns DEF Gates
    <3>. QED BY <1>6, <3>1, <3>2 DEF Gates
  <2>2. raised' \in [Proposals -> SUBSET Reasons]
    BY <1>a, <1>6, Here, RaiseType DEF Gates, Reasons, RestOk
  <2>. QED BY <1>6, <2>1, <2>2, QuietInv DEF Gates, Inv, RestOk
<1>7. CASE ProbeAgain(w)
  <2>1. RunsOk'
    <3>1. CASE GoTo(w, "ambiguous") BY <1>a, <1>7, <3>1, GoToRuns DEF ProbeAgain
    <3>2. ASSUME NEW r \in DOMAIN bills, GoWith(w, "adoptLate", r) PROVE RunsOk'
      BY <1>a, <1>7, <3>2, GoWithRuns DEF ProbeAgain
    <3>. QED BY <1>7, <3>1, <3>2 DEF ProbeAgain
  <2>2. faults' \in 0 .. MaxFaults BY <1>a, <1>7, FaultType DEF ProbeAgain, RestOk
  <2>. QED BY <1>7, <2>1, <2>2, QuietInv DEF ProbeAgain, Inv, RestOk
<1>8. CASE Attach(w)
  <2>1. RunsOk' BY <1>a, <1>8, GoToRuns DEF Attach
  <2>2. raised' \in [Proposals -> SUBSET Reasons] /\ attached' \subseteq Proposals
    BY <1>a, <1>8, Here, RaiseType DEF Attach, Reasons, RestOk
  <2>3. faults' \in 0 .. MaxFaults BY <1>a, <1>8, FaultType DEF Attach, RestOk
  <2>. QED BY <1>8, <2>1, <2>2, <2>3, QuietInv DEF Attach, Inv, RestOk
<1>9. CASE ReadBack(w)
  <2>1. RunsOk'
    <3>1. ASSUME NEW s \in {"record", "flag"}, GoTo(w, s) PROVE RunsOk'
      BY <1>a, <1>9, <3>1, GoToRuns DEF ReadBack
    <3>2. CASE End(w) BY <1>a, <1>9, <3>2, EndRuns DEF ReadBack
    <3>. QED BY <1>9, <3>1, <3>2 DEF ReadBack
  <2>2. faults' \in 0 .. MaxFaults BY <1>a, <1>9, FaultType DEF ReadBack, RestOk
  <2>. QED BY <1>9, <2>1, <2>2, QuietInv DEF ReadBack, Inv, RestOk
<1>10. CASE Answered(w)
  <2>1. PICK r \in Under(run[w].key) : GoWith(w, "persist", r) BY <1>10 DEF Answered
  <2>2. RunsOk' BY <1>a, <1>10, <2>1, GoWithRuns DEF Answered, Under
  <2>. QED BY <1>10, <2>2, QuietInv DEF Answered, Inv, RestOk
<1>. QED BY <1>1, <1>2, <1>3, <1>4, <1>5, <1>6, <1>7, <1>8, <1>9, <1>10

(* The steps that write the row under the key. *)
LEMMA RowInv ==
  ASSUME Inv, NEW w \in Workers,
         \/ Adopt(w) \/ AdoptLate(w) \/ RecordAmbiguous(w) \/ Persist(w)
         \/ Flag(w) \/ Record(w)
  PROVE  Inv'
<1>. USE DEF rows, provider, history, Steps, Holding, At
<1>a. RunsOk /\ BooksOk /\ RestOk /\ RowsOk /\ WireOk BY DEF Inv
<1>b. UNCHANGED <<bills, wire, offered, proposal, reconciled, attached, cut, faults, redrafts>>
  BY DEF Adopt, AdoptLate, RecordAmbiguous, Persist, Flag, Record
<1>c. BooksOk' /\ WireOk'
  BY <1>a, <1>b DEF BooksOk, WireOk, OneBillPerProposal, OnlyOfferedDrafts
<1>1. RunsOk'
  <2>1. CASE End(w) BY <1>a, <1>b, <2>1, EndRuns
  <2>2. CASE Persist(w) BY <1>a, <1>b, <2>2, GoToRuns DEF Persist
  <2>3. CASE Record(w) BY <1>a, <1>b, <2>3, GoToRuns DEF Record
  <2>. QED BY <2>1, <2>2, <2>3 DEF Adopt, AdoptLate, RecordAmbiguous, Flag
<1>2. RestOk'
  <2>1. raised' \in [Proposals -> SUBSET Reasons]
    BY <1>a, Here, RaiseType DEF Adopt, AdoptLate, RecordAmbiguous, Persist, Flag, Record,
       Reasons, RestOk
  <2>2. overtaken' \subseteq Proposals
    <3>1. CASE Persist(w) BY <1>a, <3>1, Here DEF Persist, RestOk
    <3>. QED BY <1>a, <3>1 DEF Adopt, AdoptLate, RecordAmbiguous, Flag, Record, RestOk
  <2>. QED BY <1>a, <1>b, <2>1, <2>2 DEF RestOk
<1>3. RowsOk'
  <2>1. CASE RecordAmbiguous(w)
    <3>1. Of(w) \in Proposals BY <2>1, Here DEF RecordAmbiguous
    <3>2. InsertUnknown(Of(w)) BY <2>1 DEF RecordAmbiguous
    <3>3. CASE posting' = posting BY <1>a, <1>b, <3>3 DEF RowsOk
    <3>4. CASE Upsert(Of(w), "unknown", 0) BY <1>a, <1>b, <3>1, <3>4 DEF Upsert, RowsOk
    <3>. QED BY <3>2, <3>3, <3>4 DEF InsertUnknown
  <2>2. CASE Adopt(w) BY <1>a, <1>b, <2>2, Here, UpsertRows DEF Adopt
  <2>3. CASE AdoptLate(w) BY <1>a, <1>b, <2>3, Here, UpsertRows DEF AdoptLate
  <2>4. CASE Persist(w) BY <1>a, <1>b, <2>4, Here, UpsertRows DEF Persist
  <2>5. CASE Flag(w) BY <1>a, <1>b, <2>5, Here, UpsertRows DEF Flag
  <2>6. CASE Record(w) BY <1>a, <1>b, <2>6, Here, UpsertRows DEF Record
  <2>. QED BY <2>1, <2>2, <2>3, <2>4, <2>5, <2>6
<1>. QED BY <1>c, <1>1, <1>2, <1>3 DEF Inv

-----------------------------------------------------------------------------
(* A run starts with one look at a ready proposal, and sends what it saw. *)
LEMMA BeginInv ==
  ASSUME Inv, NEW w \in Workers, NEW p \in Proposals, Begin(w, p)
  PROVE  Inv'
<1>. USE DEF rows, provider, history
<1>a. RunsOk /\ RowsOk BY DEF Inv
<1>. DEFINE r == [step |-> "local", of |-> p, draft |-> proposal[p].draft,
             key |-> proposal[p].key, ref |-> 0]
<1>1. /\ proposal[p].draft \in offered[p] /\ proposal[p].draft \in Invoices
      /\ proposal[p].key = Sha[p] /\ proposal[p].key \in Keys
  BY <1>a DEF Begin, RowsOk
<1>2. RunOk(r) BY <1>1 DEF RunOk, RunType, Steps, Holding
<1>3. RunsOk' BY <1>a, <1>2, RunsAfter DEF Begin
<1>. QED BY <1>3, QuietInv DEF Begin, Inv, RestOk

LEMMA SendInv ==
  ASSUME Inv, NEW w \in Workers, SendCreate(w)
  PROVE  Inv'
<1>. USE DEF rows, provider, history
<1>a. RunsOk /\ WireOk /\ BooksOk /\ RowsOk /\ RestOk BY DEF Inv
<1>1. RunsOk' BY <1>a, GoToRuns DEF SendCreate, At, Steps, Holding
<1>2. WireOk'
  <2>1. Call(w) \in [from : Workers, for : Proposals, draft : Invoices, key : Keys]
        /\ Call(w).draft \in offered[Call(w).for] /\ Call(w).key = Sha[Call(w).for]
    BY Here DEF SendCreate, Call
  <2>. QED BY <1>a, <2>1 DEF SendCreate, WireOk
<1>. QED BY <1>a, <1>1, <1>2
     DEF SendCreate, Inv, BooksOk, RowsOk, RestOk, OneBillPerProposal, OnlyOfferedDrafts

(* A refusal or a failing call never leaves the books changed. *)
LEMMA RefusedInv ==
  ASSUME Inv, NEW w \in Workers, RefusedAsDuplicate(w) \/ CreateFails(w)
  PROVE  Inv'
<1>. USE DEF rows, provider, history
<1>a. RunsOk /\ WireOk /\ BooksOk /\ RowsOk /\ RestOk BY DEF Inv
<1>1. RunsOk'
  <2>1. CASE RefusedAsDuplicate(w) BY <1>a, <2>1, EndRuns DEF RefusedAsDuplicate
  <2>2. CASE CreateFails(w) BY <1>a, <2>2, GoToRuns DEF CreateFails, At, Steps, Holding
  <2>. QED BY <2>1, <2>2
<1>2. WireOk' BY <1>a DEF RefusedAsDuplicate, CreateFails, WireOk
<1>3. RestOk'
  <2>1. CASE RefusedAsDuplicate(w)
    <3>1. raised' \in [Proposals -> SUBSET Reasons]
      BY <1>a, <2>1, Here, RaiseType DEF RefusedAsDuplicate, Reasons
    <3>. QED BY <2>1, <3>1 DEF RefusedAsDuplicate, Inv, RestOk
  <2>2. CASE CreateFails(w)
    <3>1. faults' \in 0 .. MaxFaults BY <1>a, <2>2, FaultType DEF CreateFails
    <3>. QED BY <1>a, <2>2, <3>1 DEF CreateFails, RestOk
  <2>. QED BY <2>1, <2>2
<1>. QED BY <1>a, <1>1, <1>2, <1>3
     DEF RefusedAsDuplicate, CreateFails, Inv, BooksOk, RowsOk, OneBillPerProposal, OnlyOfferedDrafts

(* The closing statements and the end of a run. *)
LEMMA CloseInv ==
  ASSUME Inv, NEW w \in Workers, SetStatus(w) \/ Reconcile(w) \/ Crash(w)
  PROVE  Inv'
<1>. USE DEF rows, provider, history, Steps, Holding
<1>a. RunsOk /\ WireOk /\ BooksOk /\ RowsOk /\ RestOk BY DEF Inv
<1>1. CASE SetStatus(w)
  <2>1. RunsOk' BY <1>a, <1>1, GoToRuns DEF SetStatus, At
  <2>2. Of(w) \in Proposals BY <1>1, Here DEF SetStatus
  <2>3. proposal' \in [Proposals -> [status : {"review", "ready", "posted", "rejected"},
                                     draft : Invoices, key : Keys]]
        /\ \A p \in Proposals : proposal'[p].status = "ready" => proposal'[p] = proposal[p]
    BY <1>a, <1>1, <2>2 DEF SetStatus, RowsOk
  <2>4. RowsOk' BY <1>a, <1>1, <2>3 DEF SetStatus, RowsOk
  <2>. QED BY <1>a, <1>1, <2>1, <2>4
       DEF SetStatus, Inv, WireOk, BooksOk, RestOk, OneBillPerProposal, OnlyOfferedDrafts
<1>2. CASE Reconcile(w)
  <2>1. RunsOk' BY <1>a, <1>2, EndRuns DEF Reconcile
  <2>2. RestOk' BY <1>a, <1>2, Here DEF Reconcile, RestOk
  <2>. QED BY <1>2, <2>1, <2>2, QuietInv DEF Reconcile
<1>3. CASE Crash(w)
  <2>1. RunsOk' BY <1>a, <1>3, EndRuns DEF Crash
  <2>2. cut' \subseteq Proposals
    <3>1. Of(w) \in Proposals BY <1>3, Here, At(w, run[w].step) DEF Crash, At
    <3>. QED BY <1>a, <1>3, <3>1 DEF Crash, RestOk
  <2>3. RestOk' BY <1>a, <1>3, <2>2, FaultType DEF Crash, RestOk
  <2>. QED BY <1>3, <2>1, <2>3, QuietInv DEF Crash
<1>. QED BY <1>1, <1>2, <1>3

-----------------------------------------------------------------------------
(* The books and the people *)

(* Books that only grow and drafts that were only added keep what rests on them. *)
LEMMA GrowsInv ==
  ASSUME Inv, BooksOk', RestOk', wire' \subseteq wire,
         DOMAIN bills \subseteq DOMAIN bills', UNCHANGED <<run, proposal, posting, offered>>
  PROVE  Inv'
BY DEF Inv, RunsOk, RunOk, WireOk, RowsOk

(* What the provider keeps under the key of a proposal is what was made for it. *)
LEMMA MadeUnderKey ==
  ASSUME BooksOk, NEW p \in Proposals
  PROVE  Under(Sha[p]) = MadeFor(p)
<1>1. ASSUME NEW r \in DOMAIN bills PROVE bills[r].key = Sha[p] <=> bills[r].by = p
  <2>1. bills[r] \in Bill BY DEF BooksOk
  <2>2. bills[r].by \in Proposals \cup {NoProposal} BY <2>1 DEF Bill
  <2>3. IF bills[r].by = NoProposal THEN bills[r].key = NoKey ELSE bills[r].key = Sha[bills[r].by]
    BY DEF BooksOk
  <2>. QED BY <2>2, <2>3, ProposalsFinite, ShaAssumption
<1>. QED BY <1>1 DEF Under, MadeFor

LEMMA ExecuteInv ==
  ASSUME Inv, NEW c \in wire, Execute(c)
  PROVE  Inv'
<1>. USE DEF rows, history
<1>. DEFINE b == [invoice |-> c.draft, by |-> c.for, key |-> c.key]
<1>a. WireOk /\ BooksOk /\ RestOk BY DEF Inv
<1>1. /\ b \in Bill /\ c.for \in Proposals /\ c.draft \in offered[c.for]
      /\ c.key = Sha[c.for] /\ c.for # NoProposal
  BY <1>a, ProposalsFinite DEF WireOk, Bill
<1>b. Under(c.key) = MadeFor(c.for) BY <1>a, MadeUnderKey DEF WireOk
<1>2. RestOk' BY <1>a DEF Execute, RestOk
<1>3. wire' \subseteq wire BY DEF Execute
<1>4. CASE Under(c.key) = {} /\ Len(bills) < MaxBills /\ bills' = Append(bills, b)
  <2>1. bills' \in Seq(Bill) /\ Len(bills') = Len(bills) + 1 /\ Len(bills') <= MaxBills
    BY <1>a, <1>1, <1>4, BoundAssumption DEF BooksOk
  <2>2. /\ DOMAIN bills' = DOMAIN bills \cup {Len(bills) + 1}
        /\ \A i \in DOMAIN bills : bills'[i] = bills[i]
        /\ bills'[Len(bills) + 1] = b
    BY <1>a, <1>4 DEF BooksOk
  <2>3. OneBillPerProposal'
    BY <1>a, <1>b, <1>4, <2>2 DEF BooksOk, OneBillPerProposal, MadeFor
  <2>4. OnlyOfferedDrafts'
    BY <1>a, <1>1, <2>2 DEF Execute, BooksOk, OnlyOfferedDrafts
  <2>5. BooksOk' BY <1>a, <1>1, <2>1, <2>2, <2>3, <2>4 DEF BooksOk
  <2>. QED BY <1>2, <1>3, <2>2, <2>5, GrowsInv DEF Execute
<1>5. CASE UNCHANGED bills
  <2>1. BooksOk' BY <1>a, <1>5 DEF Execute, BooksOk, OneBillPerProposal, OnlyOfferedDrafts
  <2>. QED BY <1>2, <1>3, <1>5, <2>1, GrowsInv DEF Execute
<1>. QED BY <1>4, <1>5 DEF Execute

LEMMA HandEntersInv ==
  ASSUME Inv, NEW d \in HandInvoices, HandEnters(d)
  PROVE  Inv'
<1>. USE DEF rows, history
<1>. DEFINE b == [invoice |-> d, by |-> NoProposal, key |-> NoKey]
<1>a. BooksOk /\ RestOk BY DEF Inv
<1>1. b \in Bill /\ NoProposal \notin Proposals BY RedraftAssumption, ProposalsFinite DEF Bill
<1>2. bills' \in Seq(Bill) /\ Len(bills') <= MaxBills
  BY <1>a, <1>1, BoundAssumption DEF HandEnters, BooksOk
<1>3. /\ DOMAIN bills' = DOMAIN bills \cup {Len(bills) + 1}
      /\ \A i \in DOMAIN bills : bills'[i] = bills[i]
      /\ bills'[Len(bills) + 1] = b
  BY <1>a DEF HandEnters, BooksOk
<1>4. BooksOk'
  BY <1>a, <1>1, <1>2, <1>3 DEF HandEnters, BooksOk, OneBillPerProposal, OnlyOfferedDrafts
<1>5. RestOk' BY <1>a DEF HandEnters, RestOk
<1>. QED BY <1>3, <1>4, <1>5, GrowsInv DEF HandEnters

LEMMA HandEditsInv ==
  ASSUME Inv, NEW r \in DOMAIN bills, HandEdits(r)
  PROVE  Inv'
<1>. USE DEF rows, history
<1>a. BooksOk /\ RestOk BY DEF Inv
<1>. DEFINE b == [bills[r] EXCEPT !.invoice = Altered]
<1>b. bills \in Seq(Bill) /\ bills[r] \in Bill BY <1>a DEF BooksOk
<1>c. b \in Bill BY <1>b DEF Bill
<1>d. bills' = [bills EXCEPT ![r] = b] BY DEF HandEdits
<1>1. bills' \in Seq(Bill) /\ Len(bills') = Len(bills) /\ DOMAIN bills' = DOMAIN bills
  <2>. HIDE DEF b
  <2>. QED BY <1>b, <1>c, <1>d
<1>2. \A i \in DOMAIN bills : bills'[i].by = bills[i].by /\ bills'[i].key = bills[i].key
        /\ bills'[i].invoice \in {bills[i].invoice, Altered}
  BY <1>a DEF HandEdits, BooksOk, Bill
<1>3. BooksOk'
  BY <1>a, <1>1, <1>2 DEF HandEdits, BooksOk, OneBillPerProposal, OnlyOfferedDrafts
<1>4. RestOk' BY <1>a DEF HandEdits, RestOk
<1>. QED BY <1>1, <1>3, <1>4, GrowsInv DEF HandEdits

LEMMA RejectInv ==
  ASSUME Inv, NEW p \in Proposals, Reject(p)
  PROVE  Inv'
<1>. USE DEF provider, history
<1>1. RowsOk' BY DEF Inv, Reject, RowsOk
<1>. QED BY <1>1
     DEF Reject, Inv, RunsOk, RunOk, WireOk, BooksOk, RestOk, OneBillPerProposal, OnlyOfferedDrafts

LEMMA ReproposeInv ==
  ASSUME Inv, NEW p \in Proposals, NEW d \in Redrafts, NEW s \in {"review", "ready"},
         Repropose(p, d, s)
  PROVE  Inv'
<1>. USE DEF provider
<1>a. RunsOk /\ WireOk /\ BooksOk /\ RowsOk /\ RestOk BY DEF Inv
<1>b. d \in Invoices BY RedraftAssumption
<1>1. /\ offered' \in [Proposals -> SUBSET Invoices]
      /\ \A q \in Proposals : offered[q] \subseteq offered'[q]
      /\ s = "ready" => d \in offered'[p]
  BY <1>a, <1>b DEF Repropose, RowsOk
<1>c. \A q \in Proposals :
        /\ proposal'[q].key = proposal[q].key
        /\ proposal'[q] = IF q = p THEN [proposal[p] EXCEPT !.status = s, !.draft = d] ELSE proposal[q]
  BY <1>a DEF Repropose, RowsOk
<1>d. proposal' \in [Proposals -> [status : {"review", "ready", "posted", "rejected"},
                                   draft : Invoices, key : Keys]]
  <2>1. [proposal[p] EXCEPT !.status = s, !.draft = d]
          \in [status : {"review", "ready", "posted", "rejected"}, draft : Invoices, key : Keys]
    BY <1>a, <1>b DEF RowsOk
  <2>2. proposal' = [proposal EXCEPT ![p] = [proposal[p] EXCEPT !.status = s, !.draft = d]]
    BY <1>a DEF Repropose, RowsOk
  <2>. QED BY <1>a, <2>1, <2>2 DEF RowsOk
<1>e. proposal'[p].status = s /\ proposal'[p].draft = d BY <1>a DEF Repropose, RowsOk
<1>f. ASSUME NEW q \in Proposals, proposal'[q].status = "ready"
      PROVE  proposal'[q].draft \in offered'[q]
  <2>1. CASE q = p BY <1>1, <1>e, <1>f, <2>1
  <2>2. CASE q # p BY <1>a, <1>1, <1>c, <1>f, <2>2 DEF RowsOk
  <2>. QED BY <2>1, <2>2
<1>2. RowsOk' BY <1>a, <1>c, <1>d, <1>1, <1>f DEF Repropose, RowsOk
<1>3. RunsOk' BY <1>a, <1>1 DEF Repropose, RunsOk, RunOk
<1>4. WireOk' BY <1>a, <1>1 DEF Repropose, WireOk
<1>5. BooksOk' BY <1>a, <1>1 DEF Repropose, BooksOk, OneBillPerProposal, OnlyOfferedDrafts
<1>6. RestOk' BY <1>a, BoundAssumption DEF Repropose, RestOk
<1>. QED BY <1>2, <1>3, <1>4, <1>5, <1>6 DEF Inv

-----------------------------------------------------------------------------
(* Inv is preserved by every step of the system. *)
LEMMA NextInv == Inv /\ [Next]_vars => Inv'
<1>. SUFFICES ASSUME Inv, [Next]_vars PROVE Inv' OBVIOUS
<1>1. ASSUME NEW w \in Workers, RunStep(w) PROVE Inv'
  BY <1>1, MovesInv, RowInv, SendInv, RefusedInv, CloseInv DEF RunStep
<1>2. ASSUME NEW w \in Workers, Crash(w) PROVE Inv' BY <1>2, CloseInv
<1>3. CASE UNCHANGED vars
  BY <1>3 DEF vars, rows, provider, history, Inv, RunsOk, RunOk, WireOk, BooksOk, RowsOk, RestOk,
     OneBillPerProposal, OnlyOfferedDrafts
<1>. QED
  BY <1>1, <1>2, <1>3, BeginInv, ExecuteInv, HandEntersInv, HandEditsInv, RejectInv, ReproposeInv
  DEF Next

(* The invariant holds in every state of every behaviour. *)
THEOREM Invariance == Spec => []Inv
BY InitInv, NextInv, PTL DEF Spec

(* Type correctness: the proposals, the rows of postings_ap, the books and    *)
(* the runs of postOnce stay what TypeOK says.                                *)
THEOREM TypeCorrect == Spec => []TypeOK
<1>1. Inv => TypeOK BY InvImplies
<1>. QED BY <1>1, Invariance, PTL

(* However many runs of postOnce create at once, are retried after a crash or *)
(* a lost answer, or are executed late, a proposal has one bill.              *)
THEOREM OneBill == Spec => []OneBillPerProposal
<1>1. Inv => OneBillPerProposal BY InvImplies
<1>. QED BY <1>1, Invariance, PTL

(* Whatever is rejected or re-proposed meanwhile, postOnce creates a bill     *)
(* only with a draft its proposal was ready with.                             *)
THEOREM OfferedOnly == Spec => []OnlyOfferedDrafts
<1>1. Inv => OnlyOfferedDrafts BY InvImplies
<1>. QED BY <1>1, Invariance, PTL
=============================================================================
