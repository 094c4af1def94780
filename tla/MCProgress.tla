----------------------------- MODULE MCProgress -----------------------------
(***************************************************************************)
(* What has to happen in the end, on small instances: the parts of         *)
(* MCMachine and, beside them, the Desktop jobs, the runs of postOnce and  *)
(* the documents on their way to extraction.  A behaviour exercises the    *)
(* one part `focus` names; every part has the fairness its module states.  *)
(***************************************************************************)
EXTENDS MCMachine

CONSTANTS Drafts,       \* proposals
          Ours,         \* the company file the connection is bound to
          Tickets, Invoices, Altered, NoTicket, NoInvoice, NoJob, NoKey,
          Workers, NoProposal, PostFaults,
          Papers, Dispatchers, Mishaps

VARIABLES jobs, proposal, posting, gate, sess, wire, books,           \* ProviderJobs
          row, entry, raised, reconciled, bills, attached, calls,     \* Posting
          runs, postFaults, redrafts, offered, cut, overtaken,
          route, docs, hold, outbox, queue, given, sender, reader,    \* Documents
          stmts, posted, corrected, mishaps

One == CHOOSE i \in Invoices : TRUE
First == [p \in Drafts |-> One]
ShaOf == [p \in Drafts |-> <<p>>]

Pj == INSTANCE ProviderJobs WITH
        Proposals <- Drafts, Invoices <- {One}, InitialDraft <- First, Unrenderable <- {},
        Companies <- {Ours}, Expected <- Ours, Rejectable <- Drafts,
        Retryable <- {"preflight", "create", "read_back", "adoption", "probe"},
        OwnerCloses <- TRUE, Remaps <- {}, HandInvoices <- {One},
        Garbling <- FALSE, MaxBills <- 2
Po == INSTANCE Posting WITH
        Proposals <- Drafts, InitialDraft <- First, Sha <- ShaOf, Rejectable <- Drafts,
        Redrafts <- {One}, MaxRedrafts <- 1, HandInvoices <- {},
        Faults <- {"crash", "lost", "read"}, MaxFaults <- PostFaults, MaxBills <- 2,
        proposal <- row, posting <- entry, wire <- calls, run <- runs, faults <- postFaults
Dc == INSTANCE Documents WITH
        Lines <- {1}, Txns <- {}, Queued <- 2, Corrections <- 1, jobs <- queue

pjVars == <<jobs, proposal, posting, gate, sess, wire, books>>
poVars == <<row, entry, raised, reconciled, bills, attached, calls, runs, postFaults,
            redrafts, offered, cut, overtaken>>
dcVars == <<route, docs, hold, outbox, queue, given, sender, reader, stmts, posted,
            corrected, mishaps>>

AllInit == /\ Init /\ Pj!Init /\ Po!Init
           /\ Dc!Init /\ (focus # "documents" => route = [p \in Papers |-> "invoice"])

AllNext == \/ Next /\ UNCHANGED <<pjVars, poVars, dcVars>>
           \/ /\ UNCHANGED vars
              /\ \/ focus = "jobs" /\ Pj!Next /\ UNCHANGED <<poVars, dcVars>>
                 \/ focus = "posting" /\ Po!Next /\ UNCHANGED <<pjVars, dcVars>>
                 \/ focus = "documents" /\ Dc!Next /\ UNCHANGED <<pjVars, poVars>>

\* the fairness of ProviderJobs, Posting and Documents
AllFair ==
  /\ MachineFair
  /\ \A k \in Pj!JobKeys : WF_pjVars(focus = "jobs" /\ Pj!LeaseExpires(k))
  /\ \A t \in Tickets :
       /\ WF_pjVars(focus = "jobs" /\ Pj!Authenticate(t))
       /\ WF_pjVars(focus = "jobs" /\ Pj!Lose(t))
       /\ WF_pjVars(focus = "jobs" /\ Pj!SessionLost(t))
       /\ SF_pjVars(focus = "jobs" /\ Pj!AskCompany(t))
       /\ SF_pjVars(focus = "jobs" /\ (Pj!CompanyMatches(t) \/ Pj!CompanyDiffers(t)))
       /\ SF_pjVars(focus = "jobs" /\ Pj!LeaseStep(t))
       /\ SF_pjVars(focus = "jobs" /\ (Pj!SendRequest(t) \/ Pj!SendRefused(t)))
  /\ \A w \in Workers :
       /\ WF_poVars(focus = "posting" /\ Po!RunStep(w))
       /\ \A p \in Drafts : WF_poVars(focus = "posting" /\ Po!Begin(w, p))
  /\ WF_poVars(focus = "posting" /\ \E c \in calls : Po!Execute(c))
  /\ \A x \in Dispatchers : /\ WF_dcVars(focus = "documents" /\ Dc!Begin(x))
                            /\ WF_dcVars(focus = "documents" /\ Dc!Enqueue(x))
                            /\ WF_dcVars(focus = "documents" /\ Dc!Mark(x))
  /\ \A p \in Papers : /\ WF_dcVars(focus = "documents" /\ Dc!Take(p))
                       /\ WF_dcVars(focus = "documents" /\ Dc!TakeInvoice(p))
  /\ WF_dcVars(focus = "documents" /\ Dc!Import)

ProgressSpec == AllInit /\ [][AllNext]_<<vars, pjVars, poVars, dcVars>> /\ AllFair

\* The machine comes back: an interrupted restore swap is put right and a cutover of
\* the tokens never blocks the boot for good (local-database.ts:425-437,
\* tokens.ts:249-264).
ComesBack == SwapHeals /\ BootsAgain
\* What was opened is closed or explained: the startup screen and the listener of a
\* connect attempt (main.ts:100-131, connect-loopback.ts:317-325).
FlowsEnd == NeverStuckOnStartup /\ ListenerCloses
\* ProviderJobs: every approval ends in a posting or a job a person can see
\* (durable-jobs.ts, production.ts).
ApprovalEnds == focus = "jobs" => Pj!ApprovalEnds
\* Posting: a bill an interrupted run left on record is settled by a later one
\* (posting.ts:184-208).
InterruptedSettles == focus = "posting" => Po!InterruptedSettles
\* Documents: every pending dispatch is handed over and marked
\* (document-review.ts:45-74, register.ts:90).
DispatchEnds == focus = "documents" => Dc!DispatchEnds
=============================================================================
