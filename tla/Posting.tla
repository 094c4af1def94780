------------------------------- MODULE Posting -------------------------------
(***************************************************************************)
(* Posting through a REST connector (QuickBooks Online, Xero).             *)
(*                                                                         *)
(* postOnce (src/pipeline/posting.ts) is run by the queue's post_sandbox   *)
(* job and by a person's approve or retry.  It is one long function with a *)
(* database statement or a provider call at every await and no transaction *)
(* or lock around them, so runs for one proposal interleave, a run may die *)
(* between any two awaits, and the call that creates the bill may be       *)
(* executed although its answer never arrives, or after the run gave up.   *)
(*                                                                         *)
(* The idempotency key of a proposal is the sha256 of its attachment.      *)
(* Attachments are unique by sha256 and proposals by attachment within a   *)
(* tenant, so there is one row of postings_ap for a proposal; it is        *)
(* written by upserts and never deleted.  The key a run read travels with  *)
(* its create as the request id, and the provider knows a create only by   *)
(* the request id it came with.                                            *)
(***************************************************************************)
EXTENDS Naturals, Sequences, FiniteSets

CONSTANTS
  Workers,         \* runs of postOnce that may be under way at once
  Proposals,
  Invoices,        \* vendor / number / date / amount of a bill
  Altered,         \* what an edit inside the provider makes of one
  InitialDraft,    \* the transaction each proposal proposes at first
  NoProposal,
  Sha,             \* the sha256 of the attachment of a proposal
  NoKey,           \* a bill that came with no request id
  Rejectable,      \* bound: proposals a person may reject
  Redrafts,        \* bound: invoices a proposal may be re-proposed as
  MaxRedrafts,     \* bound: how often proposals are proposed again
  HandInvoices,    \* bound: invoices a bookkeeper enters or edits by hand
  Faults,          \* the kinds of fault that happen: "crash", "lost", "refused",
                   \* "probe", "read", "attach"
  MaxFaults,       \* bound: how many happen
  MaxBills         \* bound: bills in the provider's books

ASSUME ProposalsFinite == IsFiniteSet(Proposals) /\ NoProposal \notin Proposals
ASSUME ShaAssumption ==
  /\ \A p \in Proposals : Sha[p] # NoKey
  /\ \A p, q \in Proposals : Sha[p] = Sha[q] => p = q
ASSUME DraftAssumption == InitialDraft \in [Proposals -> Invoices] /\ Altered \notin Invoices
ASSUME RedraftAssumption == Redrafts \subseteq Invoices /\ HandInvoices \subseteq Invoices
ASSUME BoundAssumption == MaxBills \in Nat /\ MaxFaults \in Nat /\ MaxRedrafts \in Nat

VARIABLES
  proposal,    \* proposals: status, proposed_txn and idempotency_key
  posting,     \* postings_ap: status and external_id under the idempotency key
  raised,      \* exceptions: the reasons raised for a proposal
  reconciled,  \* reconciliation: proposals with a proposal_vs_created row
  bills,       \* the provider's books, in the order of creation
  attached,    \* proposals whose PDF was attached to the bill
  wire,        \* create calls sent and neither executed nor refused
  run,         \* the runs of postOnce: where they are and what they hold
  faults,      \* faults so far
  redrafts,    \* proposals proposed again so far
  offered,     \* history: the drafts a proposal was ready with
  cut,         \* history: proposals whose run died with a create on the way or
               \* answered and no row written for it
  overtaken    \* history: proposals whose settled row a slower run persisted over

rows == <<proposal, posting, raised, reconciled>>
provider == <<bills, attached, wire>>
history == <<offered, cut, overtaken>>
vars == <<rows, provider, run, faults, redrafts, history>>

Refs == 1 .. MaxBills
Reasons == {"duplicate_in_qbo", "dedup_unavailable", "qbo_api_error",
            "verify_mismatch", "attachment_failed", "gate"}
Steps == {"idle", "local", "recover", "probe", "adopt", "gates", "create", "wait",
          "failed", "adoptLate", "ambiguous", "persist", "attach", "readback",
          "flag", "record", "status", "reconcile"}

Keys == {Sha[p] : p \in Proposals}
NoRun == [step |-> "idle", of |-> NoProposal, draft |-> Altered, key |-> NoKey, ref |-> 0]
At(w, s) == run[w].step = s
Of(w) == run[w].of

Init ==
  /\ proposal = [p \in Proposals |-> [status |-> "ready", draft |-> InitialDraft[p],
                                   key |-> Sha[p]]]
  /\ posting = [p \in Proposals |-> [status |-> "absent", ref |-> 0]]
  /\ raised = [p \in Proposals |-> {}]
  /\ reconciled = {}
  /\ bills = <<>>
  /\ attached = {}
  /\ wire = {}
  /\ run = [w \in Workers |-> NoRun]
  /\ faults = 0 /\ redrafts = 0
  /\ offered = [p \in Proposals |-> {InitialDraft[p]}]
  /\ cut = {} /\ overtaken = {}

(***************************************************************************)
(* What a statement or a provider call does.                               *)
(***************************************************************************)
GoTo(w, s) == run' = [run EXCEPT ![w].step = s]
GoWith(w, s, r) == run' = [run EXCEPT ![w].step = s, ![w].ref = r]
(* Mutant: the worker keeps the run it ended. *)
EndKept(w) == GoTo(w, "idle")
End(w) == run' = [run EXCEPT ![w] = NoRun]
Fault(kind) == kind \in Faults /\ faults < MaxFaults /\ faults' = faults + 1
Raise(p, reason) == raised' = [raised EXCEPT ![p] = @ \cup {reason}]

Upsert(p, s, r) == posting' = [posting EXCEPT ![p] = [status |-> s, ref |-> r]]
InsertNothing(p) == UNCHANGED posting   \* Mutant: an ambiguous create leaves no row.
InsertUnknown(p) ==
  IF posting[p].status = "absent" THEN Upsert(p, "unknown", 0) ELSE UNCHANGED posting

(* The provider keeps the answer to a create under the request id it came    *)
(* with, so a create that comes with the same one finds the bill it made.    *)
Under(k) == {r \in DOMAIN bills : bills[r].key = k}
MadeFor(p) == {r \in DOMAIN bills : bills[r].by = p}
(* Mutant: the probe looks at the vendor alone. *)
TwinsOfVendor(d) == DOMAIN bills
Twins(d) == {r \in DOMAIN bills : bills[r].invoice = d}
Same(r, d) == bills[r].invoice = d

(***************************************************************************)
(* A run of postOnce, one action per await.                                *)
(***************************************************************************)
(* One statement reads the status and the draft; the run works on that copy  *)
(* to its end.  Runs that the threshold, the ceiling, the flags, the proofs  *)
(* or the company check hold end here and change nothing but exceptions.     *)
Begin(w, p) ==
  /\ At(w, "idle") /\ proposal[p].status = "ready"
  /\ run' = [run EXCEPT ![w] =
       [step |-> "local", of |-> p, draft |-> proposal[p].draft,
        key |-> proposal[p].key, ref |-> 0]]
  /\ UNCHANGED <<rows, provider, faults, redrafts, history>>

(* Mutant: an existing row does not stop the run. *)
LocalAnyway(w) ==
  /\ At(w, "local") /\ GoTo(w, "probe")
  /\ UNCHANGED <<rows, provider, faults, redrafts, history>>
LocalAbsent(w) ==
  /\ At(w, "local") /\ posting[Of(w)].status = "absent"
  /\ GoTo(w, "probe")
  /\ UNCHANGED <<rows, provider, faults, redrafts, history>>

LocalSettled(w) ==
  /\ At(w, "local") /\ posting[Of(w)].status \in {"posted", "mismatch"}
  /\ Raise(Of(w), "duplicate_in_qbo") /\ End(w)
  /\ UNCHANGED <<proposal, posting, reconciled, provider, faults, redrafts, history>>

(* Mutant: a row with an identity is held like one without. *)
LocalHeld(w) ==
  /\ At(w, "local") /\ posting[Of(w)].status = "unknown" /\ End(w)
  /\ UNCHANGED <<rows, provider, faults, redrafts, history>>
(* A create whose outcome is unknown and that left no identity is held.      *)
LocalUnknown(w) ==
  /\ At(w, "local") /\ posting[Of(w)].status = "unknown"
  /\ IF posting[Of(w)].ref = 0 THEN End(w) ELSE GoWith(w, "recover", posting[Of(w)].ref)
  /\ UNCHANGED <<rows, provider, faults, redrafts, history>>

(* The recovery reads back the bill whose identity was persisted; anything   *)
(* but a match ends the run without an exception.                            *)
Recover(w) ==
  /\ At(w, "recover")
  /\ \/ Same(run[w].ref, run[w].draft) /\ GoTo(w, "record") /\ UNCHANGED faults
     \/ ~Same(run[w].ref, run[w].draft) /\ End(w) /\ UNCHANGED faults
     \/ Fault("read") /\ End(w)
  /\ UNCHANGED <<rows, provider, redrafts, history>>

(* The probe before the create fails closed.                                 *)
Probe(w) ==
  /\ At(w, "probe")
  /\ \/ /\ Twins(run[w].draft) = {} /\ GoTo(w, "gates")
        /\ UNCHANGED <<raised, faults>>
     \/ /\ \E r \in DOMAIN bills : Twins(run[w].draft) = {r} /\ GoWith(w, "adopt", r)
        /\ UNCHANGED <<raised, faults>>
     \/ /\ Cardinality(Twins(run[w].draft)) > 1
        /\ Raise(Of(w), "dedup_unavailable") /\ End(w) /\ UNCHANGED faults
     \/ /\ Fault("probe") /\ Raise(Of(w), "dedup_unavailable") /\ End(w)
  /\ UNCHANGED <<proposal, posting, reconciled, provider, redrafts, history>>

Adopt(w) ==
  /\ At(w, "adopt")
  /\ Upsert(Of(w), "posted", run[w].ref) /\ Raise(Of(w), "duplicate_in_qbo") /\ End(w)
  /\ UNCHANGED <<proposal, reconciled, provider, faults, redrafts, history>>

(* The tax, tax mapping and dimension mapping gates.                         *)
Gates(w) ==
  /\ At(w, "gates")
  /\ \/ GoTo(w, "create") /\ UNCHANGED raised
     \/ End(w) /\ Raise(Of(w), "gate")
  /\ UNCHANGED <<proposal, posting, reconciled, provider, faults, redrafts, history>>

Call(w) == [from |-> w, for |-> Of(w), draft |-> run[w].draft, key |-> run[w].key]
(* Mutant: the draft is read again for the create. *)
SendCurrent(w) ==
  /\ At(w, "create")
  /\ wire' = wire \cup {[Call(w) EXCEPT !.draft = proposal[Of(w)].draft]} /\ GoTo(w, "wait")
  /\ UNCHANGED <<rows, bills, attached, faults, redrafts, history>>
SendCreate(w) ==
  /\ At(w, "create")
  /\ wire' = wire \cup {Call(w)} /\ GoTo(w, "wait")
  /\ UNCHANGED <<rows, bills, attached, faults, redrafts, history>>

(* The provider executes a call that is on the way, also one nobody waits    *)
(* for any more.                                                             *)
Execute(c) ==
  /\ c \in wire /\ wire' = wire \ {c}
  /\ IF Under(c.key) # {} THEN UNCHANGED bills
     ELSE /\ Len(bills) < MaxBills
          /\ bills' = Append(bills, [invoice |-> c.draft, by |-> c.for, key |-> c.key])
  /\ UNCHANGED <<rows, attached, run, faults, redrafts, history>>

Answered(w) ==
  /\ At(w, "wait") /\ Call(w) \notin wire
  /\ \E r \in Under(run[w].key) : GoWith(w, "persist", r)
  /\ UNCHANGED <<rows, provider, faults, redrafts, history>>

(* Error 6190: the provider has such a bill already.  No row is written.     *)
RefusedAsDuplicate(w) ==
  /\ At(w, "wait") /\ Call(w) \in wire
  /\ \E r \in Twins(run[w].draft) : bills[r].by # Of(w)
  /\ wire' = wire \ {Call(w)}
  /\ Raise(Of(w), "duplicate_in_qbo") /\ End(w)
  /\ UNCHANGED <<proposal, posting, reconciled, bills, attached, faults, redrafts, history>>

(* Any other error answer is treated as a lost one.                          *)
CreateFails(w) ==
  /\ At(w, "wait")
  /\ \/ Fault("lost") /\ UNCHANGED wire
     \/ Call(w) \in wire /\ Fault("refused") /\ wire' = wire \ {Call(w)}
  /\ GoTo(w, "failed")
  /\ UNCHANGED <<rows, bills, attached, redrafts, history>>

ProbeAgain(w) ==
  /\ At(w, "failed")
  /\ \/ /\ \E r \in DOMAIN bills : Twins(run[w].draft) = {r} /\ GoWith(w, "adoptLate", r)
        /\ UNCHANGED faults
     \/ Cardinality(Twins(run[w].draft)) # 1 /\ GoTo(w, "ambiguous") /\ UNCHANGED faults
     \/ Fault("probe") /\ GoTo(w, "ambiguous")
  /\ UNCHANGED <<rows, provider, redrafts, history>>

(* Reported as posted, but without a read-back: the proposal stays ready.    *)
AdoptLate(w) ==
  /\ At(w, "adoptLate")
  /\ Upsert(Of(w), "posted", run[w].ref) /\ End(w)
  /\ UNCHANGED <<proposal, raised, reconciled, provider, faults, redrafts, history>>

(* ON CONFLICT DO NOTHING; then the job fails and the queue runs it again.   *)
RecordAmbiguous(w) ==
  /\ At(w, "ambiguous")
  /\ InsertUnknown(Of(w)) /\ Raise(Of(w), "qbo_api_error") /\ End(w)
  /\ UNCHANGED <<proposal, reconciled, provider, faults, redrafts, history>>

(* The identity is persisted before anything else is done with the bill,     *)
(* over whatever the row says by now.                                        *)
Persist(w) ==
  /\ At(w, "persist")
  /\ Upsert(Of(w), "unknown", run[w].ref) /\ GoTo(w, "attach")
  /\ overtaken' = IF posting[Of(w)].status \in {"posted", "mismatch"}
                  THEN overtaken \cup {Of(w)} ELSE overtaken
  /\ UNCHANGED <<proposal, raised, reconciled, provider, faults, redrafts, offered, cut>>

Attach(w) ==
  /\ At(w, "attach") /\ GoTo(w, "readback")
  /\ \/ attached' = attached \cup {Of(w)} /\ UNCHANGED <<raised, faults>>
     \/ Fault("attach") /\ Raise(Of(w), "attachment_failed") /\ UNCHANGED attached
  /\ UNCHANGED <<proposal, posting, reconciled, bills, wire, redrafts, history>>

ReadBack(w) ==
  /\ At(w, "readback")
  /\ \/ Same(run[w].ref, run[w].draft) /\ GoTo(w, "record") /\ UNCHANGED faults
     \/ ~Same(run[w].ref, run[w].draft) /\ GoTo(w, "flag") /\ UNCHANGED faults
     \/ Fault("read") /\ End(w)
  /\ UNCHANGED <<rows, provider, redrafts, history>>

Flag(w) ==
  /\ At(w, "flag")
  /\ Upsert(Of(w), "mismatch", run[w].ref) /\ Raise(Of(w), "verify_mismatch") /\ End(w)
  /\ UNCHANGED <<proposal, reconciled, provider, faults, redrafts, history>>

(* Mutant: the proposal is marked before the row is settled. *)
RecordSkipped(w) ==
  /\ At(w, "record") /\ GoTo(w, "status")
  /\ UNCHANGED <<rows, provider, faults, redrafts, history>>
Record(w) ==
  /\ At(w, "record")
  /\ Upsert(Of(w), "posted", run[w].ref) /\ GoTo(w, "status")
  /\ UNCHANGED <<proposal, raised, reconciled, provider, faults, redrafts, history>>

(* The status of the proposal is overwritten whatever it is by now.          *)
SetStatus(w) ==
  /\ At(w, "status")
  /\ proposal' = [proposal EXCEPT ![Of(w)].status = "posted"] /\ GoTo(w, "reconcile")
  /\ UNCHANGED <<posting, raised, reconciled, provider, faults, redrafts, history>>

Reconcile(w) ==
  /\ At(w, "reconcile")
  /\ reconciled' = reconciled \cup {Of(w)} /\ End(w)
  /\ UNCHANGED <<proposal, posting, raised, provider, faults, redrafts, history>>

(* A statement fails or the process dies: the run ends, its call does not.   *)
Unrecorded == {"wait", "failed", "adoptLate", "ambiguous", "persist"}
Crash(w) ==
  /\ ~At(w, "idle") /\ Fault("crash") /\ End(w)
  /\ cut' = IF run[w].step \in Unrecorded THEN cut \cup {Of(w)} ELSE cut
  /\ UNCHANGED <<rows, provider, redrafts, offered, overtaken>>

RunStep(w) ==
  \/ LocalAbsent(w) \/ LocalSettled(w) \/ LocalUnknown(w) \/ Recover(w)
  \/ Probe(w) \/ Adopt(w) \/ Gates(w) \/ SendCreate(w)
  \/ Answered(w) \/ RefusedAsDuplicate(w) \/ CreateFails(w)
  \/ ProbeAgain(w) \/ AdoptLate(w) \/ RecordAmbiguous(w)
  \/ Persist(w) \/ Attach(w) \/ ReadBack(w)
  \/ Flag(w) \/ Record(w) \/ SetStatus(w) \/ Reconcile(w)

(***************************************************************************)
(* The people and the jobs around it.                                      *)
(***************************************************************************)
Reject(p) ==
  /\ p \in Rejectable /\ proposal[p].status # "rejected"
  /\ proposal' = [proposal EXCEPT ![p].status = "rejected"]
  /\ UNCHANGED <<posting, raised, reconciled, provider, run, faults, redrafts, history>>

(* Mutant: the upsert writes a key of the new draft too. *)
ReproposeKeyed(p, d, s) ==
  /\ redrafts < MaxRedrafts /\ redrafts' = redrafts + 1
  /\ proposal' = [proposal EXCEPT ![p] = [status |-> s, draft |-> d, key |-> <<Sha[p], d>>]]
  /\ offered' = IF s = "ready" THEN [offered EXCEPT ![p] = @ \cup {d}] ELSE offered
  /\ UNCHANGED <<posting, raised, reconciled, provider, run, faults, cut, overtaken>>
(* The propose job, run again, overwrites the draft and the status, also of  *)
(* a proposal that is posted or rejected; the upsert leaves the key.         *)
Repropose(p, d, s) ==
  /\ redrafts < MaxRedrafts /\ redrafts' = redrafts + 1
  /\ proposal' = [proposal EXCEPT ![p].status = s, ![p].draft = d]
  /\ offered' = IF s = "ready" THEN [offered EXCEPT ![p] = @ \cup {d}] ELSE offered
  /\ UNCHANGED <<posting, raised, reconciled, provider, run, faults, cut, overtaken>>

HandEnters(d) ==
  /\ Len(bills) < MaxBills /\ Cardinality(MadeFor(NoProposal)) + Cardinality(Proposals) < MaxBills
  /\ bills' = Append(bills, [invoice |-> d, by |-> NoProposal, key |-> NoKey])
  /\ UNCHANGED <<rows, attached, wire, run, faults, redrafts, history>>

HandEdits(r) ==
  /\ bills[r].invoice \in HandInvoices
  /\ bills' = [bills EXCEPT ![r].invoice = Altered]
  /\ UNCHANGED <<rows, attached, wire, run, faults, redrafts, history>>

Next ==
  \/ \E w \in Workers : RunStep(w) \/ Crash(w) \/ \E p \in Proposals : Begin(w, p)
  \/ \E c \in wire : Execute(c)
  \/ \E p \in Proposals : Reject(p)
  \/ \E p \in Proposals, d \in Redrafts, s \in {"review", "ready"} : Repropose(p, d, s)
  \/ \E d \in HandInvoices : HandEnters(d)
  \/ \E r \in DOMAIN bills : HandEdits(r)

Spec == Init /\ [][Next]_vars

(***************************************************************************)
(* Fairness.  Runs take their steps and calls that are on the way are      *)
(* executed or refused.  A ready proposal is run again: the queue retries  *)
(* a failed job three times (src/queue.ts), so the instances checked under *)
(* fairness have at most three faults; nothing is assumed of a person.     *)
(***************************************************************************)
Fairness ==
  /\ \A w \in Workers : WF_vars(RunStep(w))
  /\ \A w \in Workers, p \in Proposals : WF_vars(Begin(w, p))
  /\ WF_vars(\E c \in wire : Execute(c))
FairSpec == Spec /\ Fairness

(***************************************************************************)
(* Properties.                                                             *)
(***************************************************************************)
(* The tables, the books and the runs have the values their schemas allow;   *)
(* a row has an identity unless it is absent or ambiguous, and an idle       *)
(* worker holds nothing of the run before.                                   *)
TypeOK ==
  /\ proposal \in [Proposals -> [status : {"review", "ready", "posted", "rejected"},
                                 draft : Invoices, key : Keys]]
  /\ posting \in [Proposals -> [status : {"absent", "unknown", "posted", "mismatch"},
                                ref : {0} \cup Refs]]
  /\ \A p \in Proposals : posting[p].status \in {"posted", "mismatch"} => posting[p].ref # 0
  /\ raised \in [Proposals -> SUBSET Reasons]
  /\ reconciled \subseteq Proposals /\ attached \subseteq Proposals
  /\ bills \in Seq([invoice : Invoices \cup {Altered}, by : Proposals \cup {NoProposal},
                    key : Keys \cup {NoKey}])
  /\ Len(bills) <= MaxBills
  /\ wire \subseteq [from : Workers, for : Proposals, draft : Invoices, key : Keys]
  /\ run \in [Workers -> [step : Steps, of : Proposals \cup {NoProposal},
                          draft : Invoices \cup {Altered}, key : Keys \cup {NoKey},
                          ref : {0} \cup Refs]]
  /\ \A w \in Workers : At(w, "idle") => run[w] = NoRun
  /\ faults \in 0 .. MaxFaults /\ redrafts \in 0 .. MaxRedrafts
  /\ offered \in [Proposals -> SUBSET Invoices]
  /\ cut \subseteq Proposals /\ overtaken \subseteq Proposals

InHand(p) == \E w \in Workers : Of(w) = p

(* However runs interleave, die, time out and are retried, and whatever is   *)
(* proposed anew meanwhile, the creates of a proposal all go out with one    *)
(* request id, so that the provider, which knows them by nothing else, makes *)
(* one bill of them.                                                         *)
OneBillPerProposal ==
  \A b, c \in DOMAIN bills :
    bills[b].by \in Proposals /\ bills[b].by = bills[c].by => b = c

(* A bill is created as the proposal stood at some moment when it was ready, *)
(* never with a draft that was only there while a person had to review it.   *)
OnlyOfferedDrafts ==
  \A b \in DOMAIN bills : bills[b].by \in Proposals =>
    bills[b].invoice \in offered[bills[b].by] \cup {Altered}

(* The bill a row names exists, and unless the program created it for this   *)
(* proposal it is the very invoice (or was, until somebody edited it).       *)
RowNamesItsBill ==
  \A p \in Proposals : posting[p].ref # 0 =>
    /\ posting[p].ref \in DOMAIN bills
    /\ bills[posting[p].ref].by = p
       \/ bills[posting[p].ref].invoice \in offered[p] \cup {Altered}

(* No bill is left behind without a row under its key, however its answer is *)
(* lost and however late the call is executed, unless the run that sent the  *)
(* create died before the statement that follows it.                         *)
BillOnRecord ==
  \A b \in DOMAIN bills :
    LET p == bills[b].by IN
    p \in Proposals => InHand(p) \/ posting[p].status # "absent" \/ p \in cut

(* A bill whose identity was persisted before its run died is one the        *)
(* recovery can still reach: its proposal does not already count as posted.  *)
InterruptedIsReachable ==
  \A p \in Proposals :
    posting[p].status = "unknown" /\ posting[p].ref # 0 /\ ~InHand(p)
      => proposal[p].status # "posted"

(* Only one thing takes such a bill out of the recovery's reach: a slower    *)
(* run that persisted it over the row a faster one had settled.  Otherwise a *)
(* proposal counts as posted only after its row does.                        *)
OnlySlowerRunsDemote ==
  \A p \in Proposals :
    proposal[p].status = "posted" /\ p \notin overtaken
      => posting[p].status \in {"posted", "mismatch"}

(* A persisted bill is settled by a later run, through crashes and failing   *)
(* read-backs, unless its proposal is taken out of the queue.                *)
InterruptedSettles ==
  \A p \in Proposals : posting[p].status = "unknown" /\ posting[p].ref # 0
    ~> (posting[p].status # "unknown" \/ proposal[p].status # "ready")

(* With one run at a time the REST path keeps the promise of PostOnce.       *)
Promise == INSTANCE PostOnce WITH
             NoRef <- 0,
             created <- [p \in Proposals |-> MadeFor(p)],
             posted <- [p \in Proposals |->
                          IF posting[p].status = "posted" THEN posting[p].ref ELSE 0]
PostsOnce == Promise!Spec
=============================================================================
