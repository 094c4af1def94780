------------------------- MODULE PostingRows_proofs -------------------------
(***************************************************************************)
(* Proofs about what postOnce leaves behind: which bill the row under an   *)
(* idempotency key names, whether a bill can be left without a row, and    *)
(* what can take a settled row back, for any number of concurrent runs;    *)
(* and, where one run is under way at a time, that the REST path           *)
(* implements PostOnce.                                                    *)
(***************************************************************************)
EXTENDS Posting_proofs

(* A bill a proposal may be settled with: its own, or the very invoice.    *)
Named(p, r) ==
  /\ r \in DOMAIN bills
  /\ bills[r].by = p \/ bills[r].invoice \in offered[p] \cup {Altered}

(* The rows name such bills because the runs that write them hold such bills. *)
RefsNamed ==
  /\ \A p \in Proposals : posting[p].ref # 0 => Named(p, posting[p].ref)
  /\ \A w \in Workers : run[w].step \in Holding => Named(Of(w), run[w].ref)

Recorded(p) == posting[p].status # "absent" \/ p \in cut
(* A run that sent a create and has not reached the statement that writes its row. *)
Sender(w, p) == Of(w) = p /\ run[w].step \in Unrecorded
Waits(w) == At(w, "wait") /\ Call(w) \in wire

(* A call that is on the way is the one its run waits for, and a bill has a *)
(* run that can no longer be told its create was a duplicate, as long as    *)
(* nothing was recorded.                                                    *)
OnRecord ==
  /\ \A c \in wire :
       \/ Recorded(c.for)
       \/ Sender(c.from, c.for) /\ (At(c.from, "wait") => Call(c.from) = c)
  /\ \A p \in Proposals : MadeFor(p) # {} =>
       Recorded(p) \/ \E w \in Workers : Sender(w, p) /\ ~Waits(w)

(* Where one run is under way at a time, its step tells what its row says. *)
BeforeRow == {"probe", "adopt", "gates", "create", "wait", "failed", "adoptLate",
              "ambiguous", "persist"}
Interrupted == {"recover", "attach", "readback", "flag", "record"}
Alone ==
  /\ \A p \in Proposals : proposal[p].status = "posted" => posting[p].status = "posted"
  /\ \A w \in Workers :
       /\ run[w].step \in BeforeRow => posting[Of(w)].status = "absent"
       /\ run[w].step \in Interrupted =>
            posting[Of(w)] = [status |-> "unknown", ref |-> run[w].ref]
       /\ run[w].step \in {"status", "reconcile"} =>
            posting[Of(w)] = [status |-> "posted", ref |-> run[w].ref]

LEMMA RefsNamedImply == Inv /\ RefsNamed => RowNamesItsBill
BY DEF RefsNamed, Named, RowNamesItsBill

LEMMA OnRecordImply == OnRecord => BillOnRecord
<1>. SUFFICES ASSUME OnRecord, NEW b \in DOMAIN bills, bills[b].by \in Proposals
              PROVE  LET p == bills[b].by
                     IN  InHand(p) \/ posting[p].status # "absent" \/ p \in cut
  BY DEF BillOnRecord
<1>1. MadeFor(bills[b].by) # {} BY DEF MadeFor
<1>. QED BY <1>1 DEF OnRecord, Recorded, Sender, InHand

LEMMA InitRows == Init => RefsNamed /\ OnRecord /\ Alone
<1>. SUFFICES ASSUME Init PROVE RefsNamed /\ OnRecord /\ Alone OBVIOUS
<1>1. \A w \in Workers : run[w].step = "idle" BY DEF Init, NoRun
<1>. QED BY <1>1 DEF Init, RefsNamed, OnRecord, Alone, MadeFor, Holding, BeforeRow, Interrupted

-----------------------------------------------------------------------------
(* Where a step takes a run *)
LEMMA GoToMoves ==
  ASSUME Inv, NEW w \in Workers, NEW s, GoTo(w, s)
  PROVE  /\ run'[w].step = s /\ run'[w].of = run[w].of
         /\ run'[w].draft = run[w].draft /\ run'[w].key = run[w].key
         /\ run'[w].ref = run[w].ref
BY DEF Inv, RunsOk, RunType, GoTo

LEMMA GoWithMoves ==
  ASSUME Inv, NEW w \in Workers, NEW s, NEW r, GoWith(w, s, r)
  PROVE  /\ run'[w].step = s /\ run'[w].of = run[w].of
         /\ run'[w].draft = run[w].draft /\ run'[w].ref = r
BY DEF Inv, RunsOk, RunType, GoWith

LEMMA EndMoves == ASSUME Inv, NEW w \in Workers, End(w) PROVE run'[w] = NoRun
BY DEF Inv, RunsOk, End

LEMMA OthersStay ==
  ASSUME Inv, NEW w \in Workers, RunStep(w)
  PROVE  \A v \in Workers \ {w} : run'[v] = run[v]
<1>1. ASSUME \/ \E s : GoTo(w, s)
             \/ \E s, r : GoWith(w, s, r)
             \/ End(w)
      PROVE  \A v \in Workers \ {w} : run'[v] = run[v]
  BY <1>1 DEF Inv, RunsOk, GoTo, GoWith, End
<1>. QED
  BY <1>1 DEF RunStep, LocalAbsent, LocalSettled, LocalUnknown, Recover, Probe, Adopt, Gates,
       SendCreate, Answered, RefusedAsDuplicate, CreateFails, ProbeAgain, AdoptLate,
       RecordAmbiguous, Persist, Attach, ReadBack, Flag, Record, SetStatus, Reconcile

(* What is not a step of a run leaves the rows alone, and starts or ends a run. *)
LEMMA Outside ==
  ASSUME Inv, [Next]_vars
  PROVE  \/ \E w \in Workers : RunStep(w)
         \/ /\ UNCHANGED posting
            /\ \A v \in Workers : run'[v] = run[v] \/ run'[v].step \in {"idle", "local"}
<1>. USE DEF rows
<1>1. ASSUME NEW w \in Workers, Crash(w)
      PROVE  UNCHANGED posting /\ \A v \in Workers : run'[v] = run[v] \/ run'[v].step = "idle"
  BY <1>1 DEF Crash, End, NoRun, Inv, RunsOk
<1>2. ASSUME NEW w \in Workers, NEW p \in Proposals, Begin(w, p)
      PROVE  UNCHANGED posting /\ \A v \in Workers : run'[v] = run[v] \/ run'[v].step = "local"
  BY <1>2 DEF Begin, Inv, RunsOk
<1>3. ASSUME \/ \E c \in wire : Execute(c)
             \/ \E p \in Proposals : Reject(p)
             \/ \E p \in Proposals, d \in Redrafts, s \in {"review", "ready"} : Repropose(p, d, s)
             \/ \E d \in HandInvoices : HandEnters(d)
             \/ \E r \in DOMAIN bills : HandEdits(r)
             \/ UNCHANGED vars
      PROVE  UNCHANGED <<posting, run>>
  BY <1>3 DEF Execute, Reject, Repropose, HandEnters, HandEdits, vars
<1>. QED BY <1>1, <1>2, <1>3 DEF Next

(* The books and the offers only grow, whatever is edited by hand. *)
LEMMA StaysNamed ==
  ASSUME Inv, [Next]_vars, NEW p \in Proposals, NEW r, Named(p, r)
  PROVE  Named(p, r)'
<1>a. bills \in Seq(Bill) /\ offered \in [Proposals -> SUBSET Invoices] /\ r \in DOMAIN bills
  BY DEF Inv, BooksOk, RowsOk, Named
<1>1. /\ r \in DOMAIN bills' /\ bills'[r].by = bills[r].by
      /\ bills'[r].invoice \in {bills[r].invoice, Altered}
  <2>1. CASE UNCHANGED bills BY <1>a, <2>1
  <2>2. ASSUME NEW b \in Bill, bills' = Append(bills, b)
        PROVE  r \in DOMAIN bills' /\ bills'[r] = bills[r]
    BY <1>a, <2>2
  <2>3. ASSUME NEW i \in DOMAIN bills, bills' = [bills EXCEPT ![i].invoice = Altered]
        PROVE  /\ r \in DOMAIN bills' /\ bills'[r].by = bills[r].by
               /\ bills'[r].invoice \in {bills[r].invoice, Altered}
    BY <1>a, <2>3 DEF Bill
  <2>4. ASSUME NEW c \in wire, Execute(c)
        PROVE  UNCHANGED bills \/ \E b \in Bill : bills' = Append(bills, b)
    BY <2>4 DEF Execute, Inv, WireOk, Bill
  <2>5. ASSUME NEW d \in HandInvoices, HandEnters(d) PROVE \E b \in Bill : bills' = Append(bills, b)
    BY <2>5, RedraftAssumption DEF HandEnters, Bill
  <2>6. ASSUME NEW w \in Workers, RunStep(w) PROVE UNCHANGED bills
    BY <2>6 DEF provider, RunStep, LocalAbsent, LocalSettled, LocalUnknown, Recover, Probe, Adopt,
       Gates, SendCreate, Answered, RefusedAsDuplicate, CreateFails, ProbeAgain, AdoptLate,
       RecordAmbiguous, Persist, Attach, ReadBack, Flag, Record, SetStatus, Reconcile
  <2>7. ASSUME \/ \E w \in Workers : Crash(w) \/ \E q \in Proposals : Begin(w, q)
               \/ \E q \in Proposals : Reject(q)
               \/ \E q \in Proposals, d \in Redrafts, s \in {"review", "ready"} : Repropose(q, d, s)
               \/ UNCHANGED vars
        PROVE  UNCHANGED bills
    BY <2>7 DEF Crash, Begin, Reject, Repropose, vars, provider
  <2>. QED BY <2>1, <2>2, <2>3, <2>4, <2>5, <2>6, <2>7 DEF Next, HandEdits
<1>2. offered[p] \subseteq offered'[p]
  <2>1. ASSUME NEW q \in Proposals, NEW d \in Redrafts, NEW s \in {"review", "ready"},
               Repropose(q, d, s)
        PROVE  offered[p] \subseteq offered'[p]
    BY <1>a, <2>1 DEF Repropose
  <2>2. ASSUME NEW w \in Workers, RunStep(w) PROVE UNCHANGED offered
    BY <2>2 DEF history, RunStep, LocalAbsent, LocalSettled, LocalUnknown, Recover, Probe, Adopt,
       Gates, SendCreate, Answered, RefusedAsDuplicate, CreateFails, ProbeAgain, AdoptLate,
       RecordAmbiguous, Persist, Attach, ReadBack, Flag, Record, SetStatus, Reconcile
  <2>. QED BY <2>1, <2>2 DEF Next, Crash, Begin, Reject, Execute, HandEnters, HandEdits, vars, history
<1>. QED BY <1>1, <1>2 DEF Named

-----------------------------------------------------------------------------
(* The rows name bills that the runs were right to hold. *)
LEMMA RowNamed ==
  ASSUME Inv, NEW w \in Workers, RunStep(w), NEW p \in Proposals, posting'[p].ref # 0
  PROVE  \/ posting'[p].ref = posting[p].ref
         \/ p = Of(w) /\ run[w].step \in Holding /\ posting'[p].ref = run[w].ref
<1>. USE DEF rows, At, Holding
<1>a. posting \in [Proposals -> [status : {"absent", "unknown", "posted", "mismatch"},
                                 ref : {0} \cup Refs]]
  BY DEF Inv, RowsOk
<1>1. CASE UNCHANGED posting BY <1>1
<1>2. ASSUME NEW s, NEW r, Upsert(Of(w), s, r)
      PROVE  posting'[p].ref = posting[p].ref \/ (p = Of(w) /\ posting'[p].ref = r)
  BY <1>a, <1>2 DEF Upsert
<1>3. CASE RecordAmbiguous(w) BY <1>1, <1>2, <1>3 DEF RecordAmbiguous, InsertUnknown
<1>4. CASE \/ Adopt(w) \/ AdoptLate(w) \/ Persist(w) \/ Flag(w) \/ Record(w)
  BY <1>2, <1>4 DEF Adopt, AdoptLate, Persist, Flag, Record
<1>. QED
  BY <1>1, <1>3, <1>4
  DEF RunStep, LocalAbsent, LocalSettled, LocalUnknown, Recover, Probe, Gates, SendCreate,
      Answered, RefusedAsDuplicate, CreateFails, ProbeAgain, Attach, ReadBack, SetStatus, Reconcile

LEMMA RunNamed ==
  ASSUME Inv, RefsNamed, NEW w \in Workers, RunStep(w), run'[w].step \in Holding
  PROVE  Of(w)' = Of(w) /\ Named(Of(w), run'[w].ref)
<1>. USE DEF At
<1>1. run[w].step \in Holding => Named(Of(w), run[w].ref) BY DEF RefsNamed
<1>2. ASSUME End(w) PROVE FALSE BY <1>2, EndMoves DEF NoRun, Holding
<1>3. ASSUME NEW s, GoTo(w, s), run[w].step \in Holding
      PROVE  Of(w)' = Of(w) /\ Named(Of(w), run'[w].ref)
  BY <1>1, <1>3, GoToMoves DEF Of
<1>4. ASSUME NEW s, NEW r, GoWith(w, s, r), Named(Of(w), r)
      PROVE  Of(w)' = Of(w) /\ Named(Of(w), run'[w].ref)
  BY <1>4, GoWithMoves DEF Of
<1>5. ASSUME NEW s, GoTo(w, s), s \notin Holding PROVE FALSE BY <1>5, GoToMoves
<1>6. CASE Recover(w) BY <1>2, <1>3, <1>6 DEF Recover, Holding
<1>7. CASE Persist(w) \/ Attach(w) \/ Record(w) \/ SetStatus(w)
  BY <1>3, <1>7 DEF Persist, Attach, Record, SetStatus, Holding
<1>8. CASE ReadBack(w) BY <1>2, <1>3, <1>8 DEF ReadBack, Holding
<1>9. CASE LocalUnknown(w)
  <2>1. Of(w) \in Proposals BY <1>9, Here DEF LocalUnknown
  <2>2. posting[Of(w)].ref # 0 => Named(Of(w), posting[Of(w)].ref) BY <2>1 DEF RefsNamed
  <2>. QED BY <1>2, <1>4, <1>9, <2>2 DEF LocalUnknown
<1>10. ASSUME NEW r \in DOMAIN bills, Twins(run[w].draft) = {r}, run[w].step # "idle"
       PROVE  Named(Of(w), r)
  BY <1>10, Here DEF Twins, Named
<1>11. CASE Probe(w) BY <1>2, <1>4, <1>5, <1>10, <1>11 DEF Probe, Holding
<1>12. CASE ProbeAgain(w) BY <1>4, <1>5, <1>10, <1>12 DEF ProbeAgain, Holding
<1>13. CASE Answered(w)
  <2>1. Of(w) \in Proposals /\ run[w].key = Sha[Of(w)] BY <1>13, Here DEF Answered
  <2>2. Under(run[w].key) = MadeFor(Of(w)) BY <2>1, MadeUnderKey DEF Inv
  <2>. QED BY <1>4, <1>13, <2>2 DEF Answered, MadeFor, Named
<1>14. CASE LocalAbsent(w) \/ Gates(w) \/ SendCreate(w) \/ CreateFails(w)
  BY <1>2, <1>5, <1>14 DEF LocalAbsent, Gates, SendCreate, CreateFails, Holding
<1>15. CASE \/ LocalSettled(w) \/ Adopt(w) \/ RefusedAsDuplicate(w) \/ AdoptLate(w)
            \/ RecordAmbiguous(w) \/ Flag(w) \/ Reconcile(w)
  BY <1>2, <1>15 DEF LocalSettled, Adopt, RefusedAsDuplicate, AdoptLate, RecordAmbiguous, Flag, Reconcile
<1>. QED
  BY <1>6, <1>7, <1>8, <1>9, <1>11, <1>12, <1>13, <1>14, <1>15 DEF RunStep

LEMMA NextNamed == Inv /\ RefsNamed /\ [Next]_vars => RefsNamed'
<1>. SUFFICES ASSUME Inv, RefsNamed, [Next]_vars PROVE RefsNamed' OBVIOUS
<1>1. ASSUME NEW p \in Proposals, NEW r, Named(p, r) PROVE Named(p, r)' BY <1>1, StaysNamed
<1>a. run \in [Workers -> RunType] BY DEF Inv, RunsOk
<1>b. \A w \in Workers : run[w].step \in Holding => Of(w) \in Proposals
  BY DEF Inv, RunsOk, RunOk, Holding, Of
<1>2. CASE /\ UNCHANGED posting
           /\ \A v \in Workers : run'[v] = run[v] \/ run'[v].step \in {"idle", "local"}
  BY <1>1, <1>2, <1>b DEF RefsNamed, Of, Holding
<1>3. ASSUME NEW w \in Workers, RunStep(w) PROVE RefsNamed'
  <2>2. ASSUME NEW p \in Proposals, NEW r, r = posting'[p].ref, r # 0 PROVE Named(p, r)'
    BY <1>1, <1>3, <2>2, RowNamed DEF RefsNamed
  <2>3. ASSUME NEW v \in Workers, run'[v].step \in Holding,
               NEW p, p = Of(v)', NEW r, r = run'[v].ref
        PROVE  Named(p, r)'
    <3>1. CASE v = w
      <4>1. Of(w)' = Of(w) /\ Named(Of(w), run'[w].ref) BY <1>3, <2>3, <3>1, RunNamed
      <4>2. Inv' BY NextInv
      <4>3. Of(w)' \in Proposals BY <2>3, <3>1, <4>2 DEF Inv, RunsOk, RunOk, Holding, Of
      <4>. QED BY <1>1, <2>3, <3>1, <4>1, <4>3
    <3>2. CASE v # w
      <4>1. run'[v] = run[v] BY <1>3, <3>2, OthersStay
      <4>. QED BY <1>1, <1>b, <2>3, <4>1 DEF RefsNamed, Of
    <3>. QED BY <3>1, <3>2
  <2>. QED BY <2>2, <2>3 DEF RefsNamed, Named
<1>. QED
  BY <1>2, <1>3, Outside

-----------------------------------------------------------------------------
(* A bill has a row, a run that is about to write it, or a run that died. *)

(* A run that sent a create goes on to the statement that records it, unless *)
(* the provider refuses the call it waits for.                               *)
LEMMA SenderStep ==
  ASSUME Inv, NEW w \in Workers, RunStep(w), run[w].step \in Unrecorded
  PROVE  \/ posting'[Of(w)].status # "absent"
         \/ run'[w].of = Of(w) /\ run'[w].step \in Unrecorded \ {"wait"}
         \/ RefusedAsDuplicate(w)
<1>. USE DEF At, Unrecorded
<1>a. Of(w) \in Proposals BY Here
<1>b. posting \in [Proposals -> [status : {"absent", "unknown", "posted", "mismatch"},
                                 ref : {0} \cup Refs]]
  BY DEF Inv, RowsOk
<1>1. ASSUME NEW s \in Unrecorded \ {"wait"}, GoTo(w, s)
      PROVE  run'[w].of = Of(w) /\ run'[w].step \in Unrecorded \ {"wait"}
  BY <1>1, GoToMoves DEF Of
<1>2. ASSUME NEW s \in Unrecorded \ {"wait"}, NEW r, GoWith(w, s, r)
      PROVE  run'[w].of = Of(w) /\ run'[w].step \in Unrecorded \ {"wait"}
  BY <1>2, GoWithMoves DEF Of
<1>3. ASSUME NEW s \in {"unknown", "posted"}, NEW r, Upsert(Of(w), s, r)
      PROVE  posting'[Of(w)].status # "absent"
  BY <1>a, <1>b, <1>3 DEF Upsert
<1>4. CASE Answered(w) BY <1>2, <1>4 DEF Answered
<1>5. CASE CreateFails(w) BY <1>1, <1>5 DEF CreateFails
<1>6. CASE ProbeAgain(w) BY <1>1, <1>2, <1>6 DEF ProbeAgain
<1>7. CASE AdoptLate(w) \/ Persist(w) BY <1>3, <1>7 DEF AdoptLate, Persist
<1>8. CASE RecordAmbiguous(w) BY <1>a, <1>b, <1>3, <1>8 DEF RecordAmbiguous, InsertUnknown
<1>. QED
  BY <1>4, <1>5, <1>6, <1>7, <1>8
  DEF RunStep, LocalAbsent, LocalSettled, LocalUnknown, Recover, Probe, Adopt, Gates, SendCreate,
      Attach, ReadBack, Flag, Record, SetStatus, Reconcile

(* A row, once written, is never taken back. *)
LEMMA StaysRecorded ==
  ASSUME Inv, [Next]_vars, NEW p \in Proposals, Recorded(p) PROVE Recorded(p)'
<1>a. posting \in [Proposals -> [status : {"absent", "unknown", "posted", "mismatch"},
                                 ref : {0} \cup Refs]]
  BY DEF Inv, RowsOk
<1>1. cut \subseteq cut'
  <2>1. ASSUME NEW w \in Workers, RunStep(w) PROVE UNCHANGED cut
    BY <2>1 DEF history, RunStep, LocalAbsent, LocalSettled, LocalUnknown, Recover, Probe, Adopt,
       Gates, SendCreate, Answered, RefusedAsDuplicate, CreateFails, ProbeAgain, AdoptLate,
       RecordAmbiguous, Persist, Attach, ReadBack, Flag, Record, SetStatus, Reconcile
  <2>. QED
    BY <2>1 DEF Next, Crash, Begin, Reject, Repropose, Execute, HandEnters, HandEdits, vars, history
<1>2. posting[p].status # "absent" => posting'[p].status # "absent"
  <2>1. ASSUME NEW q, NEW s \in {"unknown", "posted", "mismatch"}, NEW r, Upsert(q, s, r)
        PROVE  posting[p].status # "absent" => posting'[p].status # "absent"
    BY <1>a, <2>1 DEF Upsert
  <2>2. ASSUME NEW w \in Workers, RunStep(w)
        PROVE  posting[p].status # "absent" => posting'[p].status # "absent"
    BY <2>1, <2>2 DEF rows, RunStep, LocalAbsent, LocalSettled, LocalUnknown, Recover, Probe, Adopt,
       Gates, SendCreate, Answered, RefusedAsDuplicate, CreateFails, ProbeAgain, AdoptLate,
       RecordAmbiguous, InsertUnknown, Persist, Attach, ReadBack, Flag, Record, SetStatus, Reconcile
  <2>. QED BY <2>2, Outside
<1>. QED BY <1>1, <1>2 DEF Recorded

LEMMA RunStepRecords ==
  ASSUME Inv, OnRecord, NEW w \in Workers, RunStep(w) PROVE OnRecord'
<1>. USE DEF At, Unrecorded
<1>a. \A p \in Proposals : Recorded(p) => Recorded(p)' BY StaysRecorded DEF Next
<1>b. \A v \in Workers \ {w} : run'[v] = run[v] BY OthersStay
<1>c. wire \subseteq [from : Workers, for : Proposals, draft : Invoices, key : Keys] BY DEF Inv, WireOk
<1>1. /\ UNCHANGED bills
      /\ SendCreate(w) \/ wire' \subseteq wire
  BY DEF provider, RunStep, LocalAbsent, LocalSettled, LocalUnknown, Recover, Probe, Adopt,
     Gates, SendCreate, Answered, RefusedAsDuplicate, CreateFails, ProbeAgain, AdoptLate,
     RecordAmbiguous, Persist, Attach, ReadBack, Flag, Record, SetStatus, Reconcile
<1>2. SendCreate(w) => /\ run[w].step = "create" /\ wire' = wire \cup {Call(w)}
                       /\ run'[w].step = "wait" /\ Call(w)' = Call(w) /\ Of(w)' = Of(w)
  BY GoToMoves DEF SendCreate, Call, Of
<1>3. RefusedAsDuplicate(w) => run[w].step = "wait" /\ Call(w) \in wire /\ wire' = wire \ {Call(w)}
  BY DEF RefusedAsDuplicate
<1>4. run[w].step \in Unrecorded =>
        \/ \A p \in Proposals : p = Of(w) => Recorded(p)'
        \/ run'[w].of = Of(w) /\ run'[w].step \in Unrecorded \ {"wait"}
        \/ RefusedAsDuplicate(w)
  BY SenderStep DEF Recorded
<1>5. ASSUME NEW c \in wire'
      PROVE  \/ Recorded(c.for)'
             \/ Sender(c.from, c.for)' /\ (run'[c.from].step = "wait" => Call(c.from)' = c)
  <2>1. CASE c \notin wire
    <3>1. SendCreate(w) /\ c = Call(w) BY <1>1, <1>2, <1>5, <2>1
    <3>2. c.from = w /\ c.for = Of(w) BY <3>1 DEF Call
    <3>. QED BY <1>2, <3>1, <3>2 DEF Sender
  <2>2. CASE c \in wire
    <3>1. c.for \in Proposals /\ c.from \in Workers BY <1>c, <2>2
    <3>2. CASE Recorded(c.for) BY <1>a, <3>1, <3>2
    <3>3. CASE ~Recorded(c.for)
      <4>1. Sender(c.from, c.for) /\ (run[c.from].step = "wait" => Call(c.from) = c)
        BY <2>2, <3>3 DEF OnRecord
      <4>2. CASE c.from # w
        <5>1. run'[c.from] = run[c.from] BY <1>b, <3>1, <4>2
        <5>. QED BY <4>1, <5>1 DEF Sender, Of, Call
      <4>3. CASE c.from = w
        <5>1. ~RefusedAsDuplicate(w) BY <1>3, <1>5, <4>1, <4>3
        <5>. QED BY <1>4, <3>1, <4>1, <4>3, <5>1 DEF Sender, Of
      <4>. QED BY <4>2, <4>3
    <3>. QED BY <3>2, <3>3
  <2>. QED BY <2>1, <2>2
<1>6. ASSUME NEW p \in Proposals, MadeFor(p)' # {}, ~Recorded(p)'
      PROVE  \E v \in Workers : Sender(v, p)' /\ ~Waits(v)'
  <2>1. MadeFor(p) # {} /\ ~Recorded(p) BY <1>1, <1>6, <1>a DEF MadeFor
  <2>2. PICK v \in Workers : Sender(v, p) /\ ~Waits(v) BY <2>1 DEF OnRecord
  <2>3. CASE v # w
    <3>1. run'[v] = run[v] BY <1>b, <2>3
    <3>2. Call(v)' = Call(v) /\ Call(v).from = v /\ Call(w).from = w BY <3>1 DEF Call, Of
    <3>3. Call(v) \in wire' => Call(v) \in wire BY <1>1, <1>2, <2>3, <3>2
    <3>4. Sender(v, p)' BY <2>2, <3>1 DEF Sender, Of
    <3>5. ~Waits(v)' BY <2>2, <3>1, <3>2, <3>3 DEF Waits
    <3>. QED BY <3>4, <3>5
  <2>4. CASE v = w
    <3>1. ~RefusedAsDuplicate(w) BY <1>3, <2>2, <2>4 DEF Waits
    <3>2. run'[w].of = Of(w) /\ run'[w].step \in Unrecorded \ {"wait"}
      BY <1>4, <1>6, <2>2, <2>4, <3>1 DEF Sender
    <3>. QED BY <2>2, <2>4, <3>2 DEF Sender, Waits, Of
  <2>. QED BY <2>3, <2>4
<1>. QED BY <1>5, <1>6 DEF OnRecord

LEMMA ExecuteRecords ==
  ASSUME Inv, OnRecord, NEW c \in wire, Execute(c) PROVE OnRecord'
<1>. USE DEF At, Unrecorded
<1>a. /\ c \in [from : Workers, for : Proposals, draft : Invoices, key : Keys] /\ bills \in Seq(Bill)
      /\ UNCHANGED <<run, posting, cut>> /\ wire' = wire \ {c}
  BY DEF Inv, WireOk, BooksOk, Execute, rows, history
<1>b. \A p \in Proposals : Recorded(p)' <=> Recorded(p) BY <1>a DEF Recorded
<1>c. \A v : /\ Call(v)' = Call(v) /\ Of(v)' = Of(v)
             /\ \A p : Sender(v, p)' <=> Sender(v, p)
             /\ Waits(v)' => Waits(v)
  BY <1>a DEF Call, Of, Sender, Waits
<1>1. ASSUME NEW p \in Proposals, MadeFor(p)' # {}, p # c.for PROVE MadeFor(p) # {}
  <2>1. CASE UNCHANGED bills BY <1>1, <2>1 DEF MadeFor
  <2>2. CASE bills' = Append(bills, [invoice |-> c.draft, by |-> c.for, key |-> c.key])
    <3>1. PICK r \in DOMAIN bills' : bills'[r].by = p BY <1>1 DEF MadeFor
    <3>2. r \in DOMAIN bills /\ bills'[r] = bills[r] BY <1>a, <1>1, <2>2, <3>1
    <3>. QED BY <3>1, <3>2 DEF MadeFor
  <2>. QED BY <2>1, <2>2 DEF Execute
<1>2. ASSUME NEW p \in Proposals, MadeFor(p)' # {}, ~Recorded(p)
      PROVE  \E v \in Workers : Sender(v, p)' /\ ~Waits(v)'
  <2>1. CASE MadeFor(p) # {} BY <1>2, <1>c, <2>1 DEF OnRecord
  <2>2. CASE MadeFor(p) = {}
    <3>1. p = c.for BY <1>1, <1>2, <2>2
    <3>2. Sender(c.from, p) /\ (run[c.from].step = "wait" => Call(c.from) = c)
      BY <1>2, <3>1 DEF OnRecord
    <3>3. ~Waits(c.from)' BY <1>a, <1>c, <3>2 DEF Waits
    <3>. QED BY <1>a, <1>c, <3>2, <3>3
  <2>. QED BY <2>1, <2>2
<1>3. ASSUME NEW d \in wire'
      PROVE  \/ Recorded(d.for)'
             \/ Sender(d.from, d.for)' /\ (run'[d.from].step = "wait" => Call(d.from)' = d)
  <2>1. d \in wire /\ d.for \in Proposals BY <1>a, <1>3 DEF Inv, WireOk
  <2>. QED BY <1>a, <1>b, <1>c, <2>1 DEF OnRecord
<1>. QED BY <1>b, <1>2, <1>3 DEF OnRecord

(* Steps under which the calls on the way, the bills of a proposal and the *)
(* runs that sent one stay as they are.                                    *)
LEMMA KeptRecords ==
  ASSUME Inv, OnRecord, [Next]_vars, UNCHANGED wire,
         \A p \in Proposals : MadeFor(p)' # {} => MadeFor(p) # {},
         \A v \in Workers : run[v].step \in Unrecorded => run'[v] = run[v] \/ Of(v) \in cut'
  PROVE  OnRecord'
<1>. USE DEF At
<1>a. \A p \in Proposals : Recorded(p) => Recorded(p)' BY StaysRecorded
<1>b. ASSUME NEW v \in Workers, NEW p \in Proposals, Sender(v, p), ~Recorded(p)'
      PROVE  run'[v] = run[v]
  BY <1>b DEF Sender, Recorded
<1>1. ASSUME NEW c \in wire'
      PROVE  \/ Recorded(c.for)'
             \/ Sender(c.from, c.for)' /\ (run'[c.from].step = "wait" => Call(c.from)' = c)
  <2>1. c \in wire /\ c.for \in Proposals /\ c.from \in Workers BY <1>1 DEF Inv, WireOk
  <2>2. CASE Recorded(c.for)' BY <2>2
  <2>3. CASE ~Recorded(c.for)'
    <3>1. Sender(c.from, c.for) /\ (run[c.from].step = "wait" => Call(c.from) = c)
      BY <1>a, <2>1, <2>3 DEF OnRecord
    <3>2. run'[c.from] = run[c.from] BY <1>b, <2>1, <2>3, <3>1
    <3>. QED BY <3>1, <3>2 DEF Sender, Call, Of
  <2>. QED BY <2>2, <2>3
<1>2. ASSUME NEW p \in Proposals, MadeFor(p)' # {}, ~Recorded(p)'
      PROVE  \E v \in Workers : Sender(v, p)' /\ ~Waits(v)'
  <2>1. MadeFor(p) # {} /\ ~Recorded(p) BY <1>2, <1>a
  <2>2. PICK v \in Workers : Sender(v, p) /\ ~Waits(v) BY <2>1 DEF OnRecord
  <2>3. run'[v] = run[v] BY <1>b, <1>2, <2>2
  <2>. QED BY <2>2, <2>3 DEF Sender, Waits, Call, Of
<1>. QED BY <1>1, <1>2 DEF OnRecord

LEMMA NextRecords == Inv /\ OnRecord /\ [Next]_vars => OnRecord'
<1>. SUFFICES ASSUME Inv, OnRecord, [Next]_vars PROVE OnRecord' OBVIOUS
<1>a. bills \in Seq(Bill) /\ run \in [Workers -> RunType] BY DEF Inv, BooksOk, RunsOk
<1>b. UNCHANGED bills => \A p \in Proposals : MadeFor(p)' # {} => MadeFor(p) # {} BY DEF MadeFor
<1>1. ASSUME NEW w \in Workers, Crash(w) PROVE OnRecord'
  <2>1. UNCHANGED <<wire, bills>> BY <1>1 DEF Crash, provider
  <2>2. \A v \in Workers : run[v].step \in Unrecorded => run'[v] = run[v] \/ Of(v) \in cut'
    BY <1>1, <1>a DEF Crash, End
  <2>. QED BY <1>b, <2>1, <2>2, KeptRecords
<1>2. ASSUME NEW w \in Workers, NEW p \in Proposals, Begin(w, p) PROVE OnRecord'
  <2>1. UNCHANGED <<wire, bills>> BY <1>2 DEF Begin, provider
  <2>2. \A v \in Workers : run[v].step \in Unrecorded => run'[v] = run[v]
    BY <1>2, <1>a DEF Begin, At, Unrecorded
  <2>. QED BY <1>b, <2>1, <2>2, KeptRecords
<1>3. ASSUME NEW d \in HandInvoices, HandEnters(d) PROVE OnRecord'
  <2>1. UNCHANGED <<wire, run>> BY <1>3 DEF HandEnters
  <2>2. ASSUME NEW p \in Proposals, MadeFor(p)' # {} PROVE MadeFor(p) # {}
    <3>1. PICK r \in DOMAIN bills' : bills'[r].by = p BY <2>2 DEF MadeFor
    <3>2. r \in DOMAIN bills /\ bills'[r] = bills[r]
      BY <1>3, <1>a, <3>1, ProposalsFinite DEF HandEnters
    <3>. QED BY <3>1, <3>2 DEF MadeFor
  <2>. QED BY <2>1, <2>2, KeptRecords
<1>4. ASSUME NEW r \in DOMAIN bills, HandEdits(r) PROVE OnRecord'
  <2>1. UNCHANGED <<wire, run>> BY <1>4 DEF HandEdits
  <2>2. \A p \in Proposals : MadeFor(p)' # {} => MadeFor(p) # {}
    BY <1>4, <1>a DEF HandEdits, MadeFor, Bill
  <2>. QED BY <2>1, <2>2, KeptRecords
<1>5. ASSUME \/ \E p \in Proposals : Reject(p)
             \/ \E p \in Proposals, d \in Redrafts, s \in {"review", "ready"} : Repropose(p, d, s)
             \/ UNCHANGED vars
      PROVE  OnRecord'
  <2>1. UNCHANGED <<wire, run, bills>> BY <1>5 DEF Reject, Repropose, vars, provider
  <2>. QED BY <1>b, <2>1, KeptRecords
<1>. QED BY <1>1, <1>2, <1>3, <1>4, <1>5, RunStepRecords, ExecuteRecords DEF Next

(* Whatever is lost, refused, edited or proposed again, the row of a proposal *)
(* names a bill in the books: its own, or the very invoice.                   *)
THEOREM RowsNameBills == Spec => []RowNamesItsBill
<1>1. RefsNamed /\ Inv => RowNamesItsBill BY RefsNamedImply
<1>2. Inv /\ RefsNamed /\ [Next]_vars => RefsNamed' BY NextNamed
<1>. QED BY <1>1, <1>2, InitRows, Invariance, PTL DEF Spec

(* However many runs interleave and however late a create is executed, no bill *)
(* of the program is without a row once its runs are over, unless one of them  *)
(* died between the create and the statement after it.                         *)
THEOREM BillsOnRecord == Spec => []BillOnRecord
<1>1. Inv /\ OnRecord /\ [Next]_vars => OnRecord' BY NextRecords
<1>. QED BY <1>1, InitRows, OnRecordImply, Invariance, PTL DEF Spec

-----------------------------------------------------------------------------
(* A settled row is taken back by a slower run only. *)

Settled(p) == posting[p].status \in {"posted", "mismatch"}
(* Its proposal counts as posted, or a run is about to say so. *)
Closing(p) ==
  \/ proposal[p].status = "posted"
  \/ \E w \in Workers : Of(w) = p /\ run[w].step \in {"status", "reconcile"}
Demotion == \A p \in Proposals : Closing(p) => Settled(p) \/ p \in overtaken

LEMMA InitDemotion == Init => Demotion
BY DEF Init, NoRun, Demotion, Closing

(* Only a run of postOnce marks a proposal as posted. *)
LEMMA StatusKept ==
  ASSUME Inv, [Next]_vars, \A w \in Workers : ~RunStep(w)
  PROVE  /\ UNCHANGED overtaken
         /\ \A p \in Proposals : proposal'[p].status = "posted" => proposal[p].status = "posted"
<1>a. proposal \in [Proposals -> [status : {"review", "ready", "posted", "rejected"},
                                  draft : Invoices, key : Keys]]
  BY DEF Inv, RowsOk
<1>1. UNCHANGED overtaken
  BY DEF Next, Crash, Begin, Execute, HandEnters, HandEdits, Reject, Repropose, vars, history
<1>2. ASSUME NEW p \in Proposals, proposal'[p].status = "posted" PROVE proposal[p].status = "posted"
  <2>1. ASSUME NEW q \in Proposals, Reject(q) PROVE proposal[p].status = "posted"
    BY <1>a, <1>2, <2>1 DEF Reject
  <2>2. ASSUME NEW q \in Proposals, NEW d \in Redrafts, NEW s \in {"review", "ready"},
               Repropose(q, d, s)
        PROVE  proposal[p].status = "posted"
    <3>1. proposal'[p] = proposal[p] \/ proposal'[p].status = s BY <1>a, <2>2 DEF Repropose
    <3>. QED BY <1>2, <3>1
  <2>3. CASE UNCHANGED proposal BY <1>2, <2>3
  <2>. QED
    BY <2>1, <2>2, <2>3 DEF Next, Crash, Begin, Execute, HandEnters, HandEdits, vars, rows
<1>. QED BY <1>1, <1>2

(* Closing begins with the statement that settles the row. *)
LEMMA ClosingBegins ==
  ASSUME Inv, NEW w \in Workers, RunStep(w), NEW p \in Proposals, Closing(p)'
  PROVE  Closing(p) \/ (Record(w) /\ p = Of(w))
<1>. USE DEF At
<1>a. \A v \in Workers \ {w} : run'[v] = run[v] BY OthersStay
<1>b. proposal \in [Proposals -> [status : {"review", "ready", "posted", "rejected"},
                                  draft : Invoices, key : Keys]]
  BY DEF Inv, RowsOk
<1>1. ASSUME run'[w].step \in {"status", "reconcile"}
      PROVE  /\ Of(w)' = Of(w)
             /\ Record(w) \/ run[w].step \in {"status", "reconcile"}
  <2>1. ASSUME NEW s, GoTo(w, s) PROVE run'[w].step = s /\ Of(w)' = Of(w)
    BY <2>1, GoToMoves DEF Of
  <2>2. ASSUME NEW s, NEW r, GoWith(w, s, r) PROVE run'[w].step = s /\ Of(w)' = Of(w)
    BY <2>2, GoWithMoves DEF Of
  <2>3. ASSUME End(w) PROVE FALSE BY <1>1, <2>3, EndMoves DEF NoRun
  <2>4. CASE Record(w) \/ SetStatus(w)
    BY <2>1, <2>4 DEF Record, SetStatus
  <2>5. CASE \/ LocalAbsent(w) \/ Gates(w) \/ SendCreate(w) \/ CreateFails(w) \/ Persist(w)
            \/ Attach(w) \/ ReadBack(w) \/ Recover(w)
    BY <1>1, <2>1, <2>3, <2>5
    DEF LocalAbsent, Gates, SendCreate, CreateFails, Persist, Attach, ReadBack, Recover
  <2>6. CASE Probe(w) \/ ProbeAgain(w) \/ Answered(w) \/ LocalUnknown(w)
    BY <1>1, <2>1, <2>2, <2>3, <2>6 DEF Probe, ProbeAgain, Answered, LocalUnknown
  <2>. QED
    BY <2>3, <2>4, <2>5, <2>6
    DEF RunStep, LocalSettled, Adopt, RefusedAsDuplicate, AdoptLate, RecordAmbiguous, Flag, Reconcile
<1>2. ASSUME proposal'[p].status = "posted" PROVE Closing(p)
  <2>1. CASE SetStatus(w)
    <3>1. p = Of(w) \/ proposal'[p] = proposal[p] BY <1>b, <2>1 DEF SetStatus
    <3>. QED BY <1>2, <2>1, <3>1 DEF SetStatus, Closing
  <2>2. CASE UNCHANGED proposal BY <1>2, <2>2 DEF Closing
  <2>. QED
    BY <2>1, <2>2
    DEF rows, RunStep, LocalAbsent, LocalSettled, LocalUnknown, Recover, Probe, Adopt, Gates,
        SendCreate, Answered, RefusedAsDuplicate, CreateFails, ProbeAgain, AdoptLate,
        RecordAmbiguous, Persist, Attach, ReadBack, Flag, Record, Reconcile
<1>3. ASSUME NEW v \in Workers, Of(v)' = p, run'[v].step \in {"status", "reconcile"}
      PROVE  Closing(p) \/ (Record(w) /\ p = Of(w))
  <2>1. CASE v = w BY <1>1, <1>3, <2>1 DEF Closing
  <2>2. CASE v # w BY <1>a, <1>3, <2>2 DEF Closing, Of
  <2>. QED BY <2>1, <2>2
<1>. QED BY <1>2, <1>3 DEF Closing

LEMMA RunStepDemotes ==
  ASSUME Inv, Demotion, NEW w \in Workers, RunStep(w) PROVE Demotion'
<1>. USE DEF At, rows, history
<1>a. /\ Of(w) \in Proposals
      /\ posting \in [Proposals -> [status : {"absent", "unknown", "posted", "mismatch"},
                                    ref : {0} \cup Refs]]
  <2>1. run[w].step # "idle"
    BY DEF RunStep, LocalAbsent, LocalSettled, LocalUnknown, Recover, Probe, Adopt,
     Gates, SendCreate, Answered, RefusedAsDuplicate, CreateFails, ProbeAgain, AdoptLate,
     RecordAmbiguous, Persist, Attach, ReadBack, Flag, Record, SetStatus, Reconcile
  <2>. QED BY <2>1 DEF Inv, RowsOk, RunsOk, RunOk, Of
<1>b. overtaken \subseteq overtaken'
  BY DEF RunStep, LocalAbsent, LocalSettled, LocalUnknown, Recover, Probe, Adopt,
     Gates, SendCreate, Answered, RefusedAsDuplicate, CreateFails, ProbeAgain, AdoptLate,
     RecordAmbiguous, Persist, Attach, ReadBack, Flag, Record, SetStatus, Reconcile
<1>1. SUFFICES ASSUME NEW p \in Proposals, Closing(p)' PROVE Settled(p)' \/ p \in overtaken'
  BY DEF Demotion
<1>2. Closing(p) \/ (Record(w) /\ p = Of(w)) BY <1>1, ClosingBegins
<1>3. Closing(p) => Settled(p) \/ p \in overtaken BY DEF Demotion
<1>4. CASE UNCHANGED posting /\ ~Record(w) BY <1>2, <1>3, <1>4, <1>b DEF Settled
<1>5. ASSUME NEW s \in {"posted", "mismatch"}, NEW r, Upsert(Of(w), s, r)
      PROVE  Settled(p)' \/ p \in overtaken'
  <2>1. posting'[Of(w)].status = s /\ (p # Of(w) => posting'[p] = posting[p])
    BY <1>5, <1>a DEF Upsert
  <2>2. CASE p = Of(w) BY <2>1, <2>2 DEF Settled
  <2>3. CASE p # Of(w) BY <1>2, <1>3, <1>b, <2>1, <2>3 DEF Settled
  <2>. QED BY <2>2, <2>3
<1>6. CASE Adopt(w) \/ AdoptLate(w) \/ Flag(w) \/ Record(w)
  BY <1>5, <1>6 DEF Adopt, AdoptLate, Flag, Record
<1>7. CASE RecordAmbiguous(w)
  <2>1. ~Record(w) BY <1>7 DEF RecordAmbiguous, Record
  <2>2. Settled(p) => posting'[p] = posting[p]
    BY <1>7, <1>a DEF RecordAmbiguous, InsertUnknown, Upsert, Settled
  <2>. QED BY <1>2, <1>3, <1>b, <2>1, <2>2 DEF Settled
<1>8. CASE Persist(w)
  <2>1. ~Record(w) BY <1>8 DEF Persist, Record
  <2>2. Settled(p) => posting'[p] = posting[p] \/ p \in overtaken'
    BY <1>8, <1>a DEF Persist, Upsert, Settled
  <2>. QED BY <1>2, <1>3, <1>b, <2>1, <2>2 DEF Settled
<1>. QED
  BY <1>4, <1>6, <1>7, <1>8
  DEF RunStep, LocalAbsent, LocalSettled, LocalUnknown, Recover, Probe, Gates, SendCreate,
      Answered, RefusedAsDuplicate, CreateFails, ProbeAgain, Attach, ReadBack, SetStatus, Reconcile

LEMMA NextDemotes == Inv /\ Demotion /\ [Next]_vars => Demotion'
<1>. SUFFICES ASSUME Inv, Demotion, [Next]_vars PROVE Demotion' OBVIOUS
<1>1. ASSUME NEW w \in Workers, RunStep(w) PROVE Demotion' BY <1>1, RunStepDemotes
<1>2. CASE /\ UNCHANGED <<posting, overtaken>>
           /\ \A v \in Workers : run'[v] = run[v] \/ run'[v].step \in {"idle", "local"}
           /\ \A p \in Proposals : proposal'[p].status = "posted" => proposal[p].status = "posted"
  BY <1>2 DEF Demotion, Closing, Settled, Of
<1>3. ASSUME \A w \in Workers : ~RunStep(w)
      PROVE  /\ UNCHANGED overtaken
             /\ \A p \in Proposals : proposal'[p].status = "posted" => proposal[p].status = "posted"
  BY <1>3, StatusKept
<1>. QED BY <1>1, <1>2, <1>3, Outside

(* However many runs of postOnce are under way, a proposal counts as posted   *)
(* only behind a settled row, unless the slower of two runs has persisted its *)
(* identity over that row.                                                    *)
THEOREM SlowerRunsOnly == Spec => []OnlySlowerRunsDemote
<1>1. Demotion => OnlySlowerRunsDemote BY DEF Demotion, Closing, Settled, OnlySlowerRunsDemote
<1>. QED BY <1>1, InitDemotion, NextDemotes, Invariance, PTL DEF Spec

-----------------------------------------------------------------------------
(* One run at a time *)
LEMMA RunStepAlone ==
  ASSUME Inv, Alone, \A v, w \in Workers : v = w, NEW w \in Workers, RunStep(w)
  PROVE  Alone'
<1>. USE DEF At, rows
<1>a. /\ Of(w) \in Proposals /\ run[w].step # "idle"
      /\ run[w].step \in Holding => run[w].ref \in DOMAIN bills
      /\ posting \in [Proposals -> [status : {"absent", "unknown", "posted", "mismatch"},
                                    ref : {0} \cup Refs]]
      /\ proposal \in [Proposals -> [status : {"review", "ready", "posted", "rejected"},
                                     draft : Invoices, key : Keys]]
  <2>1. run[w].step # "idle"
    BY DEF RunStep, LocalAbsent, LocalSettled, LocalUnknown, Recover, Probe, Adopt,
     Gates, SendCreate, Answered, RefusedAsDuplicate, CreateFails, ProbeAgain, AdoptLate,
     RecordAmbiguous, Persist, Attach, ReadBack, Flag, Record, SetStatus, Reconcile
  <2>. QED BY <2>1 DEF Inv, RowsOk, RunsOk, RunOk, Of
<1>b. /\ \A p \in Proposals : proposal[p].status = "posted" => posting[p].status = "posted"
      /\ run[w].step \in BeforeRow => posting[Of(w)].status = "absent"
      /\ run[w].step \in Interrupted =>
           posting[Of(w)] = [status |-> "unknown", ref |-> run[w].ref]
      /\ run[w].step \in {"status", "reconcile"} =>
           posting[Of(w)] = [status |-> "posted", ref |-> run[w].ref]
  BY DEF Alone
<1>1. SUFFICES
        /\ \A p \in Proposals : proposal'[p].status = "posted" => posting'[p].status = "posted"
        /\ run'[w].step = "idle" \/ run'[w].of = Of(w)
        /\ run'[w].step \in BeforeRow => posting'[Of(w)].status = "absent"
        /\ run'[w].step \in Interrupted =>
             posting'[Of(w)] = [status |-> "unknown", ref |-> run'[w].ref]
        /\ run'[w].step \in {"status", "reconcile"} =>
             posting'[Of(w)] = [status |-> "posted", ref |-> run'[w].ref]
  BY DEF Alone, Of, BeforeRow, Interrupted
<1>2. ASSUME NEW s, GoTo(w, s) PROVE run'[w].step = s /\ run'[w].of = Of(w) /\ run'[w].ref = run[w].ref
  BY <1>2, GoToMoves DEF Of
<1>3. ASSUME NEW s, NEW r, GoWith(w, s, r) PROVE run'[w].step = s /\ run'[w].of = Of(w) /\ run'[w].ref = r
  BY <1>3, GoWithMoves DEF Of
<1>4. ASSUME End(w) PROVE run'[w].step = "idle" BY <1>4, EndMoves DEF NoRun
<1>5. ASSUME NEW s, NEW r, Upsert(Of(w), s, r)
      PROVE  /\ posting'[Of(w)] = [status |-> s, ref |-> r]
             /\ \A p \in Proposals : p # Of(w) => posting'[p] = posting[p]
  BY <1>5, <1>a DEF Upsert
<1>. USE DEF BeforeRow, Interrupted
<1>6. CASE UNCHANGED <<proposal, posting>> /\ End(w) BY <1>4, <1>6, <1>b
<1>7. CASE LocalAbsent(w) BY <1>2, <1>7, <1>b DEF LocalAbsent
<1>8. CASE LocalUnknown(w)
  <2>1. posting[Of(w)] = [status |-> "unknown", ref |-> posting[Of(w)].ref]
    BY <1>8, <1>a DEF LocalUnknown
  <2>. QED BY <1>3, <1>4, <1>8, <1>b, <2>1 DEF LocalUnknown
<1>9. CASE Recover(w) BY <1>2, <1>4, <1>9, <1>b DEF Recover
<1>10. CASE Probe(w) BY <1>2, <1>3, <1>4, <1>10, <1>b DEF Probe
<1>11. CASE Gates(w) \/ SendCreate(w) \/ CreateFails(w)
  BY <1>2, <1>4, <1>11, <1>b DEF Gates, SendCreate, CreateFails
<1>12. CASE Answered(w) BY <1>3, <1>12, <1>b DEF Answered
<1>13. CASE ProbeAgain(w) BY <1>2, <1>3, <1>13, <1>b DEF ProbeAgain
<1>14. CASE Adopt(w) \/ AdoptLate(w)
  <2>1. Upsert(Of(w), "posted", run[w].ref) /\ End(w) /\ UNCHANGED proposal
    BY <1>14 DEF Adopt, AdoptLate
  <2>. QED BY <1>4, <1>5, <1>b, <2>1
<1>20. CASE Flag(w)
  <2>1. Upsert(Of(w), "mismatch", run[w].ref) /\ End(w) /\ UNCHANGED proposal
    BY <1>20 DEF Flag
  <2>2. posting[Of(w)].status = "unknown" BY <1>20, <1>b DEF Flag
  <2>. QED BY <1>4, <1>5, <1>b, <2>1, <2>2
<1>15. CASE RecordAmbiguous(w)
  BY <1>4, <1>5, <1>15, <1>a, <1>b DEF RecordAmbiguous, InsertUnknown
<1>16. CASE Persist(w) BY <1>2, <1>5, <1>16, <1>a, <1>b DEF Persist
<1>17. CASE Record(w) BY <1>2, <1>5, <1>17, <1>a, <1>b DEF Record
<1>18. CASE Attach(w) \/ ReadBack(w) BY <1>2, <1>4, <1>18, <1>b DEF Attach, ReadBack
<1>19. CASE SetStatus(w) BY <1>2, <1>19, <1>a, <1>b DEF SetStatus
<1>. QED
  BY <1>6, <1>7, <1>8, <1>9, <1>10, <1>11, <1>12, <1>13, <1>14, <1>15, <1>16, <1>17, <1>18, <1>19, <1>20
  DEF RunStep, LocalSettled, RefusedAsDuplicate, Reconcile

LEMMA NextAlone ==
  ASSUME \A v, w \in Workers : v = w
  PROVE  Inv /\ Alone /\ [Next]_vars => Alone'
<1>. SUFFICES ASSUME Inv, Alone, [Next]_vars PROVE Alone' OBVIOUS
<1>1. ASSUME NEW w \in Workers, RunStep(w) PROVE Alone' BY <1>1, RunStepAlone
<1>2. CASE /\ UNCHANGED posting
           /\ \A v \in Workers : run'[v] = run[v] \/ run'[v].step \in {"idle", "local"}
           /\ \A p \in Proposals : proposal'[p].status = "posted" => proposal[p].status = "posted"
  BY <1>2 DEF Alone, Of, BeforeRow, Interrupted
<1>3. ASSUME \A w \in Workers : ~RunStep(w)
      PROVE  \A p \in Proposals : proposal'[p].status = "posted" => proposal[p].status = "posted"
  BY <1>3, StatusKept
<1>. QED BY <1>1, <1>2, <1>3, Outside

THEOREM AloneHolds == ASSUME \A v, w \in Workers : v = w PROVE Spec => []Alone
<1>1. Inv /\ Alone /\ [Next]_vars => Alone' BY NextAlone
<1>. QED BY <1>1, InitRows, Invariance, PTL DEF Spec

(* A bill is created for a proposal that has none, or the one it has is found. *)
LEMMA ExecutePromise ==
  ASSUME Inv, NEW c \in wire, Execute(c) PROVE [Promise!Next]_(Promise!vars)
<1>a. /\ c.for \in Proposals /\ bills \in Seq(Bill) /\ UNCHANGED posting
      /\ \A r \in DOMAIN bills : r \in Refs
  BY RefsOfBooks DEF Inv, WireOk, BooksOk, Execute, rows
<1>b. Under(c.key) = MadeFor(c.for) BY MadeUnderKey DEF Inv, WireOk
<1>1. CASE UNCHANGED bills
  BY <1>1, <1>a DEF Promise!vars, MadeFor
<1>2. CASE MadeFor(c.for) = {} /\ Len(bills) < MaxBills
           /\ bills' = Append(bills, [invoice |-> c.draft, by |-> c.for, key |-> c.key])
  <2>. DEFINE b == Len(bills) + 1
  <2>1. /\ DOMAIN bills' = DOMAIN bills \cup {b} /\ b \notin DOMAIN bills /\ b \in Refs
        /\ \A i \in DOMAIN bills : bills'[i] = bills[i]
        /\ bills'[b].by = c.for
    BY <1>2, <1>a, BoundAssumption DEF Refs
  <2>. HIDE DEF b
  <2>2. /\ \A p \in Proposals : MadeFor(p)' = IF p = c.for THEN {b} ELSE MadeFor(p)
        /\ \A p \in Proposals : b \notin MadeFor(p)
    BY <1>2, <2>1 DEF MadeFor
  <2>3. Promise!Create(c.for, b) BY <1>2, <1>a, <2>2 DEF Promise!Create
  <2>. QED BY <1>a, <2>1, <2>3 DEF Promise!Next
<1>. QED BY <1>1, <1>2, <1>b DEF Execute

(* The statements that settle a row record the posting, once. *)
LEMMA RunStepPromise ==
  ASSUME Inv, Alone, NEW w \in Workers, RunStep(w) PROVE [Promise!Next]_(Promise!vars)
<1>. USE DEF At, rows, provider
<1>. DEFINE Posted(p) == IF posting[p].status = "posted" THEN posting[p].ref ELSE 0
<1>a. /\ posting \in [Proposals -> [status : {"absent", "unknown", "posted", "mismatch"},
                                    ref : {0} \cup Refs]]
      /\ UNCHANGED bills
  BY DEF Inv, RowsOk, RunStep, LocalAbsent, LocalSettled, LocalUnknown, Recover, Probe, Adopt,
     Gates, SendCreate, Answered, RefusedAsDuplicate, CreateFails, ProbeAgain, AdoptLate,
     RecordAmbiguous, Persist, Attach, ReadBack, Flag, Record, SetStatus, Reconcile
<1>b. [p \in Proposals |-> MadeFor(p)]' = [p \in Proposals |-> MadeFor(p)] BY <1>a DEF MadeFor
<1>c. run[w].step \in BeforeRow \cup Interrupted => posting[Of(w)].status # "posted"
  <2>1. CASE run[w].step \in BeforeRow BY <2>1 DEF Alone
  <2>2. CASE run[w].step \in Interrupted
    <3>1. posting[Of(w)] = [status |-> "unknown", ref |-> run[w].ref] BY <2>2 DEF Alone
    <3>. QED BY <3>1
  <2>. QED BY <2>1, <2>2
<1>1. CASE \A p \in Proposals : Posted(p)' = Posted(p)
  BY <1>1, <1>b DEF Promise!vars
<1>2. CASE Adopt(w) \/ AdoptLate(w) \/ Record(w)
  <2>1. /\ run[w].step \in Holding /\ Upsert(Of(w), "posted", run[w].ref)
        /\ run[w].step \in BeforeRow \cup Interrupted
    BY <1>2 DEF Adopt, AdoptLate, Record, Holding, BeforeRow, Interrupted
  <2>2. Of(w) \in Proposals /\ run[w].ref \in Refs
    BY <2>1, RefsOfBooks DEF Inv, RunsOk, RunOk, Holding, Of
  <2>3. posting[Of(w)].status # "posted" BY <1>c, <2>1
  <2>4. PICK p \in Proposals, r \in Refs : p = Of(w) /\ r = run[w].ref BY <2>2
  <2>5. \A q \in Proposals : Posted(q)' = IF q = p THEN r ELSE Posted(q)
    BY <1>a, <2>1, <2>4 DEF Upsert
  <2>6. Promise!Record(p, r)
    BY <1>b, <2>3, <2>4, <2>5 DEF Promise!Record
  <2>. QED BY <2>6 DEF Promise!Next
<1>3. ASSUME NEW s \in {"unknown", "mismatch"}, NEW r, Upsert(Of(w), s, r),
             Of(w) \in Proposals, posting[Of(w)].status # "posted"
      PROVE  \A p \in Proposals : Posted(p)' = Posted(p)
  BY <1>a, <1>3 DEF Upsert
<1>4. CASE RecordAmbiguous(w) \/ Persist(w) \/ Flag(w)
  <2>1. Of(w) \in Proposals BY <1>4, Here DEF RecordAmbiguous, Persist, Flag
  <2>2. posting[Of(w)].status # "posted"
    BY <1>4, <1>c DEF RecordAmbiguous, Persist, Flag, BeforeRow, Interrupted
  <2>. QED BY <1>1, <1>3, <1>4, <2>1, <2>2 DEF RecordAmbiguous, InsertUnknown, Persist, Flag
<1>5. CASE UNCHANGED posting BY <1>1, <1>5
<1>. QED
  BY <1>2, <1>4, <1>5
  DEF RunStep, LocalAbsent, LocalSettled, LocalUnknown, Recover, Probe, Gates, SendCreate,
      Answered, RefusedAsDuplicate, CreateFails, ProbeAgain, Attach, ReadBack, SetStatus, Reconcile

(* What a person enters or edits is not the program's. *)
LEMMA HandPromise ==
  ASSUME Inv, \/ \E d \in HandInvoices : HandEnters(d)
              \/ \E r \in DOMAIN bills : HandEdits(r)
  PROVE  UNCHANGED Promise!vars
<1>a. bills \in Seq(Bill) /\ UNCHANGED posting BY DEF Inv, BooksOk, HandEnters, HandEdits, rows
<1>1. ASSUME NEW p \in Proposals PROVE MadeFor(p)' = MadeFor(p)
  <2>1. ASSUME NEW d \in HandInvoices, HandEnters(d) PROVE MadeFor(p)' = MadeFor(p)
    <3>1. /\ DOMAIN bills' = DOMAIN bills \cup {Len(bills) + 1}
          /\ \A i \in DOMAIN bills : bills'[i] = bills[i]
          /\ bills'[Len(bills) + 1].by # p
      BY <2>1, <1>a, ProposalsFinite DEF HandEnters
    <3>. QED BY <3>1 DEF MadeFor
  <2>2. ASSUME NEW r \in DOMAIN bills, HandEdits(r) PROVE MadeFor(p)' = MadeFor(p)
    <3>1. DOMAIN bills' = DOMAIN bills /\ \A i \in DOMAIN bills : bills'[i].by = bills[i].by
      BY <2>2, <1>a DEF HandEdits, Bill
    <3>. QED BY <3>1 DEF MadeFor
  <2>. QED BY <2>1, <2>2
<1>. QED BY <1>1, <1>a DEF Promise!vars

(* With one run at a time postOnce implements PostOnce: a step creates the one *)
(* bill of a proposal, records its one posting, or changes neither.            *)
THEOREM KeepsPromise == ASSUME \A v, w \in Workers : v = w PROVE Spec => PostsOnce
<1>1. Init => Promise!Init
  BY DEF Init, Promise!Init, MadeFor
<1>2. ASSUME Inv, Alone, [Next]_vars PROVE [Promise!Next]_(Promise!vars)
  <2>1. ASSUME UNCHANGED <<bills, posting>> PROVE UNCHANGED Promise!vars
    BY <2>1 DEF Promise!vars, MadeFor
  <2>2. ASSUME NEW w \in Workers, Crash(w) \/ \E p \in Proposals : Begin(w, p)
        PROVE  UNCHANGED <<bills, posting>>
    BY <2>2 DEF Crash, Begin, rows, provider
  <2>3. ASSUME \/ \E p \in Proposals : Reject(p)
               \/ \E p \in Proposals, d \in Redrafts, s \in {"review", "ready"} : Repropose(p, d, s)
               \/ UNCHANGED vars
        PROVE  UNCHANGED <<bills, posting>>
    BY <2>3 DEF Reject, Repropose, vars, rows, provider
  <2>. QED BY <1>2, <2>1, <2>2, <2>3, ExecutePromise, RunStepPromise, HandPromise DEF Next
<1>. QED BY <1>1, <1>2, Invariance, AloneHolds, PTL DEF Spec, PostsOnce, Promise!Spec
=============================================================================
