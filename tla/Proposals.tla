----------------------------- MODULE Proposals -----------------------------
(***************************************************************************)
(* From a document to a proposal: extraction and its verification          *)
(* (src/pipeline/extract.ts), the propose job with its scan, status rule   *)
(* and proofs (src/pipeline/mapping.ts, src/swarmsync/proof.ts), the dry   *)
(* run of the onboarding and the gate before a bill (posting.ts:67-123,    *)
(* register.ts:23-47); the bill itself is module Posting.                  *)
(*                                                                         *)
(* One worker per queue runs beside the person: dry run, approval,         *)
(* rejection, new mapping, automation level.  A process that dies leaves   *)
(* rows and jobs; every job that did not end is handed out again.          *)
(***************************************************************************)
EXTENDS Naturals, Sequences, FiniteSets

CONSTANTS Papers,      \* attachments
          Bodies,      \* mails whose text is the invoice: no attachment
          Readings,    \* what the model may read from one document
          Doubtful,    \* readings with a blocking flag or low confidence
          Together,    \* bound: documents of one behaviour
          MaxRows,     \* bound: rows of proposals
          Troubles     \* bound: deaths, outages and changes of automation level

VARIABLES received,    \* documents that were handed to extraction
          ext,         \* extractions: [state, reading] of a document
          verified,    \* proof_refs verify_api: the reading sent, or "none"
          outage,      \* open exceptions proof_scan_unavailable, by extraction
          failed,      \* documents with an exception of their extraction
          extractJobs, mapJobs, postJobs,
          extractor,   \* the extract worker
          known,       \* documents whose vendor and account are mapped
          rows,        \* proposals: [item, status]
          scanned,     \* proof_refs invoiceproof: row -> verdict
          proposer,    \* propose worker and dry run
          poster,      \* post worker and the person who approves
          locked,      \* onboarding_state.automation_level is off
          billed,      \* documents with a bill
          trouble

vars == <<received, ext, verified, outage, failed, extractJobs, mapJobs, postJobs, extractor,
          known, rows, scanned, proposer, poster, locked, billed, trouble>>
reading == <<received, ext, verified, failed, extractJobs, extractor>>
proposing == <<rows, scanned, proposer, known>>
gating == <<postJobs, poster, locked, billed>>

Items == Papers \cup Bodies
Callers == {"queue", "dry run"}
Posters == {"queue", "person"}
Rest == [at |-> "idle"]
Spend == trouble < Troubles /\ trouble' = trouble + 1

Init ==
  /\ ext = [i \in Items |-> [state |-> "none", reading |-> "none"]]
  /\ verified = [i \in Items |-> "none"] /\ outage = {} /\ failed = {}
  /\ received \in {a \in SUBSET Items : Cardinality(a) = Together}
  /\ extractJobs = received /\ mapJobs = {} /\ postJobs = {}
  /\ extractor = Rest /\ known \in SUBSET received
  /\ rows = <<>> /\ scanned = <<>>
  /\ proposer = [c \in Callers |-> Rest] /\ poster = [x \in Posters |-> Rest]
  /\ locked \in BOOLEAN /\ billed = {} /\ trouble = 0
----------------------------------------------------------------------------
(* extractOnce *)

\* bytes missing, unsupported, or three answers that are no extraction
ReadFails(i) ==
  /\ extractor = Rest /\ i \in extractJobs
  /\ failed' = failed \cup {i} /\ extractJobs' = extractJobs \ {i}
  /\ UNCHANGED <<received, ext, verified, extractor, outage, mapJobs, trouble, proposing, gating>>

\* INSERT .. ON CONFLICT DO NOTHING: the first reading stays, a job handed out
\* again goes on with its own; a completed one ends
Read(i, r) ==
  /\ extractor = Rest /\ i \in extractJobs
  /\ IF ext[i].state = "done"
       THEN extractJobs' = extractJobs \ {i} /\ UNCHANGED <<received, ext, extractor>>
       ELSE /\ ext' = IF ext[i].state = "inserted" THEN ext
                      ELSE [ext EXCEPT ![i] = [state |-> "inserted", reading |-> r]]
            /\ extractor' = [at |-> IF verified[i] = "none" THEN "verify" ELSE "map",
                             item |-> i, reading |-> r]
            /\ UNCHANGED extractJobs
  /\ UNCHANGED <<received, verified, failed, outage, mapJobs, trouble, proposing, gating>>

\* verifyDocument answers and the proof is recorded, whatever its verdict
Verify ==
  /\ extractor # Rest /\ extractor.at = "verify"
  /\ verified' = [verified EXCEPT ![extractor.item] = extractor.reading]
  /\ extractor' = [extractor EXCEPT !.at = "map"]
  /\ UNCHANGED <<received, ext, failed, extractJobs, outage, mapJobs, trouble, proposing, gating>>

VerifyFails ==
  /\ extractor # Rest /\ extractor.at = "verify" /\ Spend
  /\ outage' = outage \cup {extractor.item}
  /\ extractor' = [extractor EXCEPT !.at = "map"]
  /\ UNCHANGED <<received, ext, verified, failed, extractJobs, mapJobs, proposing, gating>>

CompleteFirst ==
  /\ extractor # Rest /\ extractor.at = "map"
  /\ ext' = [ext EXCEPT ![extractor.item].state = "done"]
  /\ extractor' = [extractor EXCEPT !.at = "complete"]
  /\ UNCHANGED <<received, verified, failed, extractJobs, outage, mapJobs, trouble, proposing, gating>>

EnqueueMap ==
  /\ extractor # Rest /\ extractor.at = "map"
  /\ mapJobs' = mapJobs \cup {extractor.item}
  /\ extractor' = [extractor EXCEPT !.at = "complete"]
  /\ UNCHANGED <<received, ext, verified, failed, extractJobs, outage, trouble, proposing, gating>>

\* processing_completed_at with its audit row; the job ends
Complete ==
  /\ extractor # Rest /\ extractor.at = "complete"
  /\ ext' = [ext EXCEPT ![extractor.item].state = "done"]
  /\ extractJobs' = extractJobs \ {extractor.item} /\ extractor' = Rest
  /\ UNCHANGED <<received, verified, failed, outage, mapJobs, trouble, proposing, gating>>
----------------------------------------------------------------------------
(* proposeOnce *)

RowsOf(i) == {n \in DOMAIN rows : rows[n].item = i}
Goes(c, s) == proposer' = [proposer EXCEPT ![c] = s]

\* the queue's job, or an extraction that joins no proposal by its attachment:
\* of a mail's text that is every one
Pending(c, i) ==
  IF c = "queue" THEN i \in mapJobs
  ELSE ext[i].state # "none" /\ (i \in Bodies \/ RowsOf(i) = {})

\* vendor, account and dimensions are looked up
BeginPropose(c, i) ==
  /\ proposer[c] = Rest /\ Pending(c, i)
  /\ Goes(c, [at |-> "scan", item |-> i, known |-> i \in known])
  /\ UNCHANGED <<rows, scanned, known, outage, mapJobs, trouble, reading, gating>>

Scan(c, verdict) ==
  /\ proposer[c].at = "scan"
  /\ Goes(c, [at |-> "write", item |-> proposer[c].item,
              known |-> proposer[c].known, verdict |-> verdict])
  /\ UNCHANGED <<rows, scanned, known, outage, mapJobs, trouble, reading, gating>>

ScanFails(c) ==
  /\ proposer[c].at = "scan" /\ Spend
  /\ outage' = outage \cup {proposer[c].item}
  /\ Goes(c, [at |-> "write", item |-> proposer[c].item,
              known |-> proposer[c].known, verdict |-> "failed"])
  /\ UNCHANGED <<rows, scanned, known, mapJobs, reading, gating>>

\* exception for what blocks, ready only with both proofs and a clean scan
StatusOf(p) ==
  IF ~p.known \/ p.verdict = "critical" \/ ext[p.item].reading \in Doubtful
    THEN "exception"
  ELSE IF p.verdict = "clean" /\ verified[p.item] # "none" THEN "ready" ELSE "review"

\* INSERT .. ON CONFLICT (tenant, attachment) DO UPDATE SET status; a row of a
\* mail's text has no attachment, so nothing conflicts with it
Write(c) ==
  /\ proposer[c].at = "write"
  /\ LET p == proposer[c]  i == p.item
         old == IF i \in Papers THEN RowsOf(i) ELSE {}
     IN  IF old # {}
           THEN \E n \in old : /\ rows' = [rows EXCEPT ![n].status = StatusOf(p)]
                               /\ Goes(c, [at |-> "record", item |-> i, row |-> n,
                                     verdict |-> p.verdict, status |-> StatusOf(p)])
           ELSE /\ Len(rows) < MaxRows
                /\ rows' = Append(rows, [item |-> i, status |-> StatusOf(p)])
                /\ Goes(c, [at |-> "record", item |-> i, row |-> Len(rows) + 1,
                            verdict |-> p.verdict, status |-> StatusOf(p)])
  /\ UNCHANGED <<scanned, known, outage, mapJobs, trouble, reading, gating>>

\* recordProofRef: no proof of a scan that failed; the first verdict stays
Record(c) ==
  /\ proposer[c].at = "record"
  /\ LET n == proposer[c].row IN
       scanned' = IF proposer[c].verdict = "failed" \/ n \in DOMAIN scanned THEN scanned
                  ELSE [x \in DOMAIN scanned \cup {n} |->
                          IF x = n THEN proposer[c].verdict ELSE scanned[x]]
  /\ Goes(c, [proposer[c] EXCEPT !.at = "enqueue"])
  /\ UNCHANGED <<rows, known, outage, mapJobs, trouble, reading, gating>>

\* the queue's job sends the post job of a ready row; the dry run sends none
EnqueuePost(c) ==
  /\ proposer[c].at = "enqueue" /\ Goes(c, Rest)
  /\ postJobs' = IF c = "queue" /\ proposer[c].status = "ready"
                   THEN postJobs \cup {proposer[c].row} ELSE postJobs
  /\ mapJobs' = IF c = "queue" THEN mapJobs \ {proposer[c].item} ELSE mapJobs
  /\ UNCHANGED <<rows, scanned, known, outage, trouble, reading, poster, locked, billed>>
----------------------------------------------------------------------------
(* The gate of a posting *)

Asked(x, n) == IF x = "queue" THEN n \in postJobs ELSE n \in DOMAIN rows

\* the gate without its proof coverage
OpenUnproven(n) ==
  rows[n].status = "ready" /\ rows[n].item \in Papers /\ rows[n].item \notin outage

\* ready, an idempotency key (the hash of an attachment), both proofs, and no
\* outage that is still open
Open(n) ==
  /\ rows[n].status = "ready" /\ rows[n].item \in Papers
  /\ n \in DOMAIN scanned /\ verified[rows[n].item] # "none"
  /\ rows[n].item \notin outage

\* dry-run lock, then the gate; a job held back ends, its row stays
BeginPost(x, n) ==
  /\ poster[x] = Rest /\ Asked(x, n)
  /\ poster' = IF ~locked /\ Open(n) THEN [poster EXCEPT ![x] = [at |-> "bill", row |-> n]]
               ELSE poster
  /\ postJobs' = IF x = "queue" /\ poster'[x] = Rest THEN postJobs \ {n} ELSE postJobs
  /\ UNCHANGED <<locked, billed, outage, mapJobs, trouble, reading, proposing>>

\* the local key makes a second one a duplicate: the row stays as it is
Bill(x) ==
  /\ poster[x].at = "bill"
  /\ LET i == rows[poster[x].row].item IN
       /\ billed' = billed \cup {i}
       /\ poster' = [poster EXCEPT ![x] =
            IF i \in billed THEN Rest ELSE [at |-> "mark", row |-> poster[x].row]]
       /\ postJobs' = IF i \in billed /\ x = "queue" THEN postJobs \ {poster[x].row}
                      ELSE postJobs
  /\ UNCHANGED <<locked, outage, mapJobs, trouble, reading, proposing>>

MarkPosted(x) ==
  /\ poster[x].at = "mark"
  /\ rows' = [rows EXCEPT ![poster[x].row].status = "posted"]
  /\ poster' = [poster EXCEPT ![x] = Rest]
  /\ postJobs' = IF x = "queue" THEN postJobs \ {poster[x].row} ELSE postJobs
  /\ UNCHANGED <<locked, billed, outage, mapJobs, trouble, reading, scanned, proposer, known>>

(* The person *)

\* rejectProposal does not ask for the status
Reject(n) ==
  /\ n \in DOMAIN rows /\ rows' = [rows EXCEPT ![n].status = "rejected"]
  /\ UNCHANGED <<outage, mapJobs, trouble, reading, scanned, proposer, known, gating>>

\* remapMapping
Remap(i) ==
  /\ i \in received \ known /\ known' = known \cup {i}
  /\ UNCHANGED <<outage, mapJobs, trouble, reading, rows, scanned, proposer, gating>>

\* advanceOnboardingStep
SetAutomation ==
  /\ Spend /\ locked' = ~locked
  /\ UNCHANGED <<outage, mapJobs, reading, proposing, postJobs, poster, billed>>

Dies ==
  /\ Spend /\ extractor' = Rest
  /\ proposer' = [c \in Callers |-> Rest] /\ poster' = [x \in Posters |-> Rest]
  /\ UNCHANGED <<received, ext, verified, outage, failed, extractJobs, mapJobs, postJobs, known,
                 rows, scanned, locked, billed>>

Next ==
  \/ \E i \in Items : \/ ReadFails(i) \/ Remap(i)
                      \/ \E r \in Readings : Read(i, r)
                      \/ \E c \in Callers : BeginPropose(c, i)
  \/ Verify \/ VerifyFails \/ EnqueueMap \/ Complete
  \/ \E c \in Callers : \/ \E v \in {"clean", "high", "critical"} : Scan(c, v)
                        \/ ScanFails(c) \/ Write(c) \/ Record(c) \/ EnqueuePost(c)
  \/ \E x \in Posters : \/ \E n \in DOMAIN rows : BeginPost(x, n)
                        \/ Bill(x) \/ MarkPosted(x)
  \/ \E n \in DOMAIN rows : Reject(n)
  \/ SetAutomation \/ Dies

Spec == Init /\ [][Next]_vars
----------------------------------------------------------------------------
(* Properties *)

TypeOK ==
  /\ \A i \in Items : ext[i].state \in {"none", "inserted", "done"}
  /\ \A n \in DOMAIN rows : /\ rows[n].item \in Items
       /\ rows[n].status \in {"ready", "review", "exception", "rejected", "posted"}
  /\ DOMAIN scanned \subseteq DOMAIN rows /\ postJobs \subseteq DOMAIN rows
  /\ billed \subseteq Papers /\ trouble \in 0..Troubles

\* A bill has the proof of its verification and of its scan on record, however
\* dry run, redelivered jobs and approvals meet (posting.ts:103-110).
BilledIsProven ==
  \A i \in billed : /\ verified[i] # "none"
                    /\ \E n \in RowsOf(i) : n \in DOMAIN scanned

\* A document is waiting, proposed or has an exception: none vanishes where a
\* worker dies (extract.ts:270-287, exceptions.ts:7).
NothingVanishes ==
  \A i \in received : i \in extractJobs \cup mapJobs \cup failed \/ RowsOf(i) # {}

\* What the pipeline promises of every document.
ProposalsHold == BilledIsProven /\ NothingVanishes

\* "re-running the poller or reprocessing a message never creates duplicate ..
\* proposals" (01_phase1-spec.md:192).
OneProposalEach == \A i \in Items : Cardinality(RowsOf(i)) <= 1

\* "no proposal reaches `ready` without .. recorded in `proof_refs`"
\* (01_phase1-spec.md:397).
ReadyIsProven ==
  \A n \in DOMAIN rows : rows[n].status = "ready" =>
     n \in DOMAIN scanned /\ verified[rows[n].item] # "none"

\* The verification on record is one of what is stored (extract.ts:186-256).
VerifiedIsStored == \A i \in Items : verified[i] \in {"none", ext[i].reading}

\* A recorded decision stands: what is rejected or posted is not proposed anew
\* (mapping.ts:284-290).
DecisionStands ==
  [][\A n \in DOMAIN rows : rows[n].status \in {"rejected", "posted"} =>
       rows'[n].status \in {"rejected", "posted"}]_vars
=============================================================================
