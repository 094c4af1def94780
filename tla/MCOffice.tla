------------------------------ MODULE MCOffice ------------------------------
(***************************************************************************)
(* Small instances of the components between the mailbox and the books,    *)
(* side by side as in MCMachine: a behaviour exercises the one `focus`     *)
(* names and leaves the others in an initial state.                        *)
(***************************************************************************)
EXTENDS Naturals

CONSTANTS Parts,                                      \* components a run exercises
          Mails, Enclosures, Loads, Oversized, Recent, Page, FirstPolls, Releases, Deaths,
          Papers, Dispatchers, Lines, Txns, Queued, Corrections, Mishaps,
          Bills, Bodies, Readings, Doubtful, Together, MaxRows, Troubles,
          Companies, Codes, Ids, Proposers, MaxTax, MaxDims, Changes,
          Rows, Tabs, Runs, Clicks, Exports, Meddling,
          Days, MaxLog, Retries, NightMishaps, Risks, Redeliveries, Breaks,
          Providers, Amounts, Total, MaxLines, Values, Extra, MaxTries, Hands, Edits

VARIABLES focus,
          carries, arrived, cursor, poll, stored, owner, sentJobs, gateDone, forwards,
          gate, clerk, clean, unlisted, released, copies, deaths,
          route, docs, hold, outbox, jobs, given, sender, reader, stmts, posted,
          corrected, mishaps,
          received, ext, verified, outage, failed, extractJobs, mapJobs, postJobs,
          extractor, known, rows, scanned, proposer, poster, locked, billed, trouble,
          company, oldest, tax, check, guess, dims, writer, choice, rules, verdict, crossed,
          word, outdated, run, bill, changes,
          row, paid, noted, packets, browser, tab, clicked, files, cli, ended, meddled,
          today, hour, up, enabled, log, nightJobs, anchorer, wire, chain, anchored,
          unanchored, retried, cycles, digester, digests, nightMishaps,
          raised, alerted, raising, riskJobs, attempts, unsaid, breaks,
          provider, draft, books, call, seen, read, gaps, hands, edits

Mr == INSTANCE Mailroom WITH Papers <- Enclosures
Dc == INSTANCE Documents
Pr == INSTANCE Proposals WITH Papers <- Bills
Mp == INSTANCE Mappings WITH poster <- run
Rv == INSTANCE Review WITH billed <- paid, stored <- browser
Nt == INSTANCE Nights WITH jobs <- nightJobs, failed <- unanchored,
                           Mishaps <- NightMishaps, mishaps <- nightMishaps
Al == INSTANCE Alerts WITH Mishaps <- Breaks, mishaps <- breaks
Bl == INSTANCE Bills WITH verdict <- read

mrVars == <<carries, arrived, cursor, poll, stored, owner, sentJobs, gateDone, forwards,
            gate, clerk, clean, unlisted, released, copies, deaths>>
dcVars == <<route, docs, hold, outbox, jobs, given, sender, reader, stmts, posted,
            corrected, mishaps>>
prVars == <<received, ext, verified, outage, failed, extractJobs, mapJobs, postJobs,
            extractor, known, rows, scanned, proposer, poster, locked, billed, trouble>>
mpVars == <<company, oldest, tax, check, guess, dims, writer, choice, rules, verdict, crossed,
            word, outdated, run, bill, changes>>
rvVars == <<row, paid, noted, packets, browser, tab, clicked, files, cli, ended, meddled>>
ntVars == <<today, hour, up, enabled, log, nightJobs, anchorer, wire, chain, anchored,
            unanchored, retried, cycles, digester, digests, nightMishaps>>
alVars == <<raised, alerted, raising, riskJobs, attempts, unsaid, breaks>>
blVars == <<provider, draft, books, call, seen, read, gaps, hands, edits>>

Init == /\ focus \in Parts
        /\ Mr!Init /\ (focus # "mailroom" => /\ carries = [m \in 1..Mails |-> CHOOSE l \in Loads : TRUE]
                                             /\ cursor = 0)
        /\ Dc!Init /\ (focus # "documents" => /\ route = [p \in Papers |-> "invoice"]
                                              /\ posted = {})
        /\ Pr!Init /\ (focus # "proposals" => /\ received = Bills /\ known = {} /\ locked)
        /\ Mp!Init /\ (focus # "mappings" => company = CHOOSE c \in Companies : TRUE)
        /\ Rv!Init /\ row = [n \in Rows |-> IF n = 1 THEN "ready" ELSE "review"]
        /\ Nt!Init /\ (focus # "nights" => enabled)
        /\ Al!Init
        /\ Bl!Init /\ (focus # "bills" => /\ provider = CHOOSE p \in Providers : TRUE
                                          /\ draft = CHOOSE d \in Bl!Drafts : TRUE)

Next == /\ UNCHANGED focus
        /\ \/ /\ focus = "mailroom" /\ Mr!Next
              /\ UNCHANGED <<dcVars, prVars, mpVars, rvVars, ntVars, alVars, blVars>>
           \/ /\ focus = "documents" /\ Dc!Next
              /\ UNCHANGED <<mrVars, prVars, mpVars, rvVars, ntVars, alVars, blVars>>
           \/ /\ focus = "proposals" /\ Pr!Next
              /\ UNCHANGED <<mrVars, dcVars, mpVars, rvVars, ntVars, alVars, blVars>>
           \/ /\ focus = "mappings" /\ Mp!Next
              /\ UNCHANGED <<mrVars, dcVars, prVars, rvVars, ntVars, alVars, blVars>>
           \/ /\ focus = "review" /\ Rv!Next
              /\ UNCHANGED <<mrVars, dcVars, prVars, mpVars, ntVars, alVars, blVars>>
           \/ /\ focus = "nights" /\ Nt!Next
              /\ UNCHANGED <<mrVars, dcVars, prVars, mpVars, rvVars, alVars, blVars>>
           \/ /\ focus = "alerts" /\ Al!Next
              /\ UNCHANGED <<mrVars, dcVars, prVars, mpVars, rvVars, ntVars, blVars>>
           \/ /\ focus = "bills" /\ Bl!Next
              /\ UNCHANGED <<mrVars, dcVars, prVars, mpVars, rvVars, ntVars, alVars>>

vars == <<focus, mrVars, dcVars, prVars, mpVars, rvVars, ntVars, alVars, blVars>>

Spec == Init /\ [][Next]_vars

\* Types of every component.
TypeOK == CASE focus = "mailroom" -> Mr!TypeOK [] focus = "documents" -> Dc!TypeOK
            [] focus = "proposals" -> Pr!TypeOK [] focus = "mappings" -> Mp!TypeOK
            [] focus = "review" -> Rv!TypeOK [] focus = "nights" -> Nt!TypeOK
            [] focus = "alerts" -> Al!TypeOK [] focus = "bills" -> Bl!TypeOK
\* Mailroom: what the history id has passed is stored, but for what the pages did not
\* list; a mail nobody released leaves only with attachments found clean or ones the
\* scan never saw; a row that says forwarded is right; and a death or an outage costs
\* at most one mail its jobs and one mail a second copy beside those its clicks made
\* (poll-cycle.ts:55-91, gatekeep.ts:15-20, 135-151, reply.ts:54-75).
RelayHolds == focus = "mailroom" => Mr!RelayHolds
\* Documents: no document with a kind is forgotten, and a filed statement is
\* reconciled (document-review.ts:45-74, review.ts:180-206, 356-372).
DocumentsHold == focus = "documents" => Dc!DocumentsHold
\* Proposals: a bill has both proofs on record, and no document vanishes
\* (posting.ts:103-110, extract.ts:270-287).
ProposalsHold == focus = "proposals" => Pr!ProposalsHold
\* Mappings: the gates pass no dimension the person rejected or held last and no tax
\* code last switched off at the bill's company, but for the crossings the refuted
\* statements below show (posting.ts:222-270).
MappingsHold == focus = "mappings" => Mp!MappingsHold
\* Review: an exported decision was made on its own packet, and an application that
\* ends has applied every one, reported it or left its exception
\* (build-review-dashboard.mjs:305-327, apply-decisions.ts:84-126).
ReviewHolds == focus = "review" => Rv!ReviewHolds
\* Nights: the proof on record of a day is the newest SwarmSync has of it, and a
\* material exception gets its alert unless it was broken off between its statements
\* and nothing raises it again (audit-anchor.ts:30-53, exceptions.ts:88-95).
NightsHold == /\ focus = "nights" => Nt!RecordedIsNewest
              /\ focus = "alerts" => Al!RisksAreAlerted
\* Bills: a bill that is adopted, or that verifies after it was made, is the one that
\* was approved, and a bill that is held has a reason (qbo.ts:256-298, xero.ts:450-498).
BillsHold == focus = "bills" => Bl!BillsHold
\* Nights: "retry next cycle" (audit-anchor.ts:14).
RetriedNextCycle == Nt!RetriedNextCycle
\* Nights: a material exception earns an immediate alert (exceptions.ts:92-94).
EveryRiskIsAlerted == Al!EveryRiskIsAlerted
\* Nights: retries never submit a proof twice (proof.ts:6-7).
NeverTwice == Nt!NeverTwice
\* Mailroom: "never forward-unscanned" (gatekeep.ts:19).
UnscannedNeverLeaves == Mr!UnscannedNeverLeaves
\* Mappings: the review is "authoritative over" the candidate match
\* (dimensions.ts:84-86).
ReviewIsAuthoritative == Mp!ReviewIsAuthoritative
\* Mappings: a rejection overrides the match (dimensions.ts:107-108), one that comes
\* before the gate and one that comes before the bill.
RejectionOverrides == Mp!RejectionOverrides
RejectionStopsBill == Mp!RejectionStopsBill
\* Mappings: one row of a proposal and dimension (mapping.ts:307).
OneRowEach == Mp!OneRowEach
\* Review: an approved proposal that has no bill is reported (SPEC-reviewer-dashboard,
\* line 51).
ApprovedOrReported == Rv!ApprovedOrReported
\* Mappings: a mapping switched off holds the bill (tax.ts:147-148).
DisabledStays == Mp!DisabledStays
----------------------------------------------------------------------------
\* What a document promises and the code does not keep, beside the runs listed: each
\* is stated, with its source, in the module of its component.
ForwardedOnce == Mr!ForwardedOnce
NewMailIsClassified == Mr!NewMailIsClassified
HoldsAreTrue == Dc!HoldsAreTrue
OneProposalEach == Pr!OneProposalEach
ReadyIsProven == Pr!ReadyIsProven
VerifiedIsStored == Pr!VerifiedIsStored
DecisionStands == Pr!DecisionStands
SupersededStays == Mp!SupersededStays
DimensionOfCompany == Mp!DimensionOfCompany
DroppedIsNoticed == Bl!DroppedIsNoticed
NothingDropped == Bl!NothingDropped
=============================================================================
