----------------------------- MODULE Documents -----------------------------
(***************************************************************************)
(* Accounting documents: how the papers of a mail are classified, staged   *)
(* and dispatched to their extraction (src/accounting/document-review.ts,  *)
(* classifyOnce in src/pipeline/extract.ts), and how a bank statement is   *)
(* read, reviewed and filed (src/statements).                              *)
(*                                                                         *)
(* Dispatchers (the classify job, the minute's schedule, a person's        *)
(* decision) run beside the worker of the statement queue and the person;  *)
(* a process that dies leaves rows and queued jobs as they are.            *)
(***************************************************************************)
EXTENDS Integers, FiniteSets, FiniteSetsExt

CONSTANTS Papers, Dispatchers,
          Lines,       \* lines of a statement: a set
          Txns,        \* transactions a line can be matched with
          Queued,      \* bound: jobs of one document in the queue
          Corrections, \* bound: facts the person corrects
          Mishaps      \* bound: classify jobs, deaths and failed reads together

VARIABLES route,     \* what the words of subject and file name say of a paper
          docs,      \* accounting_documents: <<paper, kind>> -> status
          hold,      \* their hold_reason, "none" where it is NULL
          outbox,    \* classification_dispatches: <<paper, kind>> -> status
          jobs,      \* extraction jobs waiting, by document
          given,     \* documents whose job was handed to the queue
          sender,    \* each dispatcher: what it read and where it is
          reader,    \* the statement worker: its document, or None
          stmts,     \* bank_statements: paper -> [status, balanced, line]
          posted,    \* transactions the books hold
          corrected, mishaps

vars == <<route, docs, hold, outbox, jobs, given, sender, reader, stmts, posted,
          corrected, mishaps>>
intake == <<docs, hold, outbox>>
queue == <<jobs, given, sender>>

None == <<>>
Kinds == {"invoice", "bank_statement", "unknown"}
Free == [at |-> "idle", list |-> {}, doc |-> None]
Put(f, k, v) == [x \in DOMAIN f \cup {k} |-> IF x = k THEN v ELSE f[x]]
Without(f, k) == [x \in DOMAIN f \ {k} |-> f[x]]
Spend == mishaps < Mishaps /\ mishaps' = mishaps + 1

Init ==
  /\ route \in [Papers -> Kinds]
  /\ docs = <<>> /\ hold = <<>> /\ outbox = <<>>
  /\ jobs = [d \in Papers \X Kinds |-> 0] /\ given = {}
  /\ sender = [x \in Dispatchers |-> Free] /\ reader = None
  /\ stmts = <<>> /\ posted \in SUBSET Txns /\ corrected = 0 /\ mishaps = 0
----------------------------------------------------------------------------
(* Classification and the outbox *)

\* stageClassifiedDocument, or the held row of an unknown attachment; a second
\* delivery of the classify job changes nothing that is there
Classify(p) ==
  /\ Spend
  /\ LET d == <<p, route[p]>> IN
       /\ docs' = IF d \in DOMAIN docs THEN docs ELSE Put(docs, d, "held")
       /\ hold' = IF d \in DOMAIN docs THEN hold
                  ELSE Put(hold, d, IF route[p] = "unknown" THEN "UNCLASSIFIED" ELSE "none")
       /\ outbox' = IF route[p] = "unknown" \/ d \in DOMAIN outbox THEN outbox
                    ELSE Put(outbox, d, "pending")
  /\ UNCHANGED <<route, queue, reader, stmts, posted, corrected>>

\* classifyHeldDocument: the row changes its kind; a row of that kind of the
\* same hash refuses the change
ClassifyHeld(p, kind) ==
  /\ <<p, "unknown">> \in DOMAIN docs /\ docs[<<p, "unknown">>] = "held"
  /\ LET old == <<p, "unknown">>  new == <<p, kind>> IN
     \/ /\ kind = "unknown"       \* irrelevant
        /\ docs' = Put(docs, old, "rejected") /\ hold' = Put(hold, old, "none")
        /\ UNCHANGED outbox
     \/ /\ kind # "unknown" /\ new \notin DOMAIN docs
        /\ docs' = Put(Without(docs, old), new, "held")
        /\ hold' = Put(Without(hold, old), new, "DISPATCH_PENDING")
        /\ outbox' = Put(outbox, new, "pending")
  /\ UNCHANGED <<route, queue, reader, stmts, posted, corrected, mishaps>>

\* dispatchPendingClassifications reads the pending rows once
Pending == {d \in DOMAIN outbox : outbox[d] = "pending"}

Begin(x) ==
  /\ sender[x].at = "idle" /\ Pending # {}
  /\ sender' = [sender EXCEPT ![x] = [at |-> "next", list |-> Pending, doc |-> None]]
  /\ UNCHANGED <<route, intake, jobs, given, reader, stmts, posted, corrected, mishaps>>

Enqueue(x) ==
  /\ sender[x].at = "next"
  /\ \E d \in sender[x].list :
       /\ jobs[d] < Queued /\ jobs' = [jobs EXCEPT ![d] = @ + 1]
       /\ given' = given \cup {d}
       /\ sender' = [sender EXCEPT ![x].at = "mark", ![x].doc = d,
                                   ![x].list = @ \ {d}]
  /\ UNCHANGED <<route, intake, reader, stmts, posted, corrected, mishaps>>

\* Mutant: the row is marked only together with a document that is still held
MarkHeldOnly(x) ==
  /\ sender[x].at = "mark"
  /\ LET d == sender[x].doc IN
       IF outbox[d] # "pending" \/ docs[d] # "held" THEN UNCHANGED intake
       ELSE /\ outbox' = Put(outbox, d, "dispatched")
            /\ docs' = Put(docs, d, "received") /\ hold' = Put(hold, d, "none")
  /\ sender' = [sender EXCEPT ![x].at = IF sender[x].list = {} THEN "idle" ELSE "next",
                              ![x].doc = None]
  /\ UNCHANGED <<route, jobs, given, reader, stmts, posted, corrected, mishaps>>

\* one transaction: the row if it is still pending, the document if still held
Mark(x) ==
  /\ sender[x].at = "mark"
  /\ LET d == sender[x].doc IN
       IF outbox[d] # "pending" THEN UNCHANGED intake
       ELSE /\ outbox' = Put(outbox, d, "dispatched")
            /\ IF docs[d] # "held" THEN UNCHANGED <<docs, hold>>
               ELSE docs' = Put(docs, d, "received") /\ hold' = Put(hold, d, "none")
  /\ sender' = [sender EXCEPT ![x].at = IF sender[x].list = {} THEN "idle" ELSE "next",
                              ![x].doc = None]
  /\ UNCHANGED <<route, jobs, given, reader, stmts, posted, corrected, mishaps>>
----------------------------------------------------------------------------
(* The statement worker *)

Take(p) ==
  /\ reader = None /\ jobs[<<p, "bank_statement">>] > 0
  /\ reader' = <<p, "bank_statement">>
  /\ UNCHANGED <<route, intake, queue, stmts, posted, corrected, mishaps>>

\* an invoice goes on to its extraction, module Proposals
TakeInvoice(p) ==
  /\ jobs[<<p, "invoice">>] > 0
  /\ jobs' = [jobs EXCEPT ![<<p, "invoice">>] = @ - 1]
  /\ UNCHANGED <<route, intake, given, sender, reader, stmts, posted, corrected, mishaps>>

Acknowledge == /\ reader' = None /\ jobs' = [jobs EXCEPT ![reader] = @ - 1]
               /\ UNCHANGED <<route, outbox, given, sender, posted, corrected>>

Status(balanced) == IF balanced THEN "review" ELSE "unbalanced"
DocStatus(balanced) == IF balanced THEN "review" ELSE "held"
Reason(balanced) == IF balanced THEN "none" ELSE "STATEMENT_UNBALANCED"

\* importBankStatement: document, statement and lines in one transaction; a
\* document with a statement is a duplicate
Import ==
  /\ reader # None
  /\ IF reader[1] \in DOMAIN stmts THEN UNCHANGED <<docs, hold, stmts>>
     ELSE \E b \in BOOLEAN :
            /\ stmts' = Put(stmts, reader[1], [status |-> Status(b), balanced |-> b,
                                   line |-> [l \in Lines |-> "unmatched"]])
            /\ docs' = Put(docs, reader, DocStatus(b))
            /\ hold' = Put(hold, reader, Reason(b))
  /\ Acknowledge /\ UNCHANGED mishaps

\* bytes missing, no extractor, or what it read is not a statement
HoldUnreadable ==
  /\ reader # None /\ Spend
  /\ docs' = Put(docs, reader, "held") /\ hold' = Put(hold, reader, "UNREADABLE")
  /\ Acknowledge /\ UNCHANGED stmts
----------------------------------------------------------------------------
(* The person reviews a statement *)

\* revalidateStatement, after a fact changed: the statement and its document
\* go back to review or are held
Revalidated(p, b) ==
  /\ stmts' = [stmts EXCEPT ![p].status = Status(b), ![p].balanced = b]
  /\ docs' = Put(docs, <<p, "bank_statement">>, DocStatus(b))
  /\ hold' = Put(hold, <<p, "bank_statement">>, Reason(b))

\* a fact changed, the status left as it was
CorrectFactOnly(p) ==
  /\ p \in DOMAIN stmts /\ corrected < Corrections /\ corrected' = corrected + 1
  /\ \E b \in BOOLEAN : stmts' = [stmts EXCEPT ![p].balanced = b]
  /\ UNCHANGED <<route, docs, hold, outbox, queue, reader, posted, mishaps>>

CorrectFact(p) ==
  /\ p \in DOMAIN stmts /\ corrected < Corrections /\ corrected' = corrected + 1
  /\ \E b \in BOOLEAN : Revalidated(p, b)
  /\ UNCHANGED <<route, outbox, queue, reader, posted, mishaps>>

\* matchStatementLine asks for a posted transaction, excludeStatementLine for a
\* reason; neither asks for the status of the statement or of the line
Resolve(p, l) ==
  /\ p \in DOMAIN stmts
  /\ \E ref \in posted \cup {"excluded"} :
       stmts' = [stmts EXCEPT ![p].line[l] = ref]
  /\ UNCHANGED <<route, intake, queue, reader, posted, corrected, mishaps>>

FileStatement(p) ==
  /\ p \in DOMAIN stmts /\ stmts[p].balanced
  /\ \A l \in Lines : stmts[p].line[l] # "unmatched"
  /\ stmts' = [stmts EXCEPT ![p].status = "filed"]
  /\ docs' = Put(docs, <<p, "bank_statement">>, "filed")
  /\ hold' = Put(hold, <<p, "bank_statement">>, "none")
  /\ UNCHANGED <<route, outbox, queue, reader, posted, corrected, mishaps>>

\* posting goes on beside the review
Posts == /\ \E t \in Txns \ posted : posted' = posted \cup {t}
         /\ UNCHANGED <<route, intake, queue, reader, stmts, corrected, mishaps>>

\* the process dies: dispatchers and worker stop, the queue keeps the jobs
Dies == /\ Spend
        /\ sender' = [x \in Dispatchers |-> Free] /\ reader' = None
        /\ UNCHANGED <<route, intake, jobs, given, stmts, posted, corrected>>

Next ==
  \/ \E p \in Papers : \/ Classify(p) \/ Take(p) \/ TakeInvoice(p)
                       \/ CorrectFact(p) \/ FileStatement(p)
                       \/ \E k \in Kinds : ClassifyHeld(p, k)
                       \/ \E l \in Lines : Resolve(p, l)
  \/ \E x \in Dispatchers : Begin(x) \/ Enqueue(x) \/ Mark(x)
  \/ Import \/ HoldUnreadable \/ Posts \/ Dies

Spec == Init /\ [][Next]_vars

\* the schedule of dispatch_classifications runs every minute (register.ts:90)
FairSpec == /\ Spec
            /\ \A x \in Dispatchers : /\ WF_vars(Begin(x)) /\ WF_vars(Enqueue(x))
                                      /\ WF_vars(Mark(x))
            /\ \A p \in Papers : WF_vars(Take(p)) /\ WF_vars(TakeInvoice(p))
            /\ WF_vars(Import)
----------------------------------------------------------------------------
(* Properties *)

TypeOK ==
  /\ DOMAIN docs \subseteq Papers \X Kinds /\ DOMAIN hold = DOMAIN docs
  /\ \A d \in DOMAIN docs :
       docs[d] \in {"held", "received", "review", "filed", "rejected"}
  /\ DOMAIN outbox \subseteq DOMAIN docs
  /\ \A d \in DOMAIN jobs : jobs[d] \in 0..Queued
  /\ DOMAIN stmts \subseteq Papers /\ mishaps \in 0..Mishaps

\* A document with a kind is on its way: its dispatch is pending or its job was
\* handed over, wherever a dispatcher dies (document-review.ts:45-74).
NoDocumentForgotten ==
  \A d \in DOMAIN docs : d[2] # "unknown" => d \in given \/ d \in Pending

\* A filed statement balances and every line is excluded or matched with a
\* transaction of the books, after any correction, duplicate or late match
\* (review.ts:180-206, 356-372).
FiledIsReconciled ==
  \A p \in DOMAIN stmts : stmts[p].status = "filed" =>
     stmts[p].balanced /\ \A l \in Lines : stmts[p].line[l] \in posted \cup {"excluded"}

\* Documents reach their extraction, and only reconciled statements are filed.
DocumentsHold == NoDocumentForgotten /\ FiledIsReconciled

\* A document that is held as unreadable stays held until it is read, and a
\* filed one is not held again (ingest.ts:338-355).
HoldsAreTrue ==
  \A p \in DOMAIN stmts : stmts[p].status = "filed" => docs[<<p, "bank_statement">>] = "filed"

\* Every pending dispatch is handed to the queue and marked
\* (document-review.ts:45-74, register.ts:90).
DispatchEnds == \A p \in Papers : \A k \in Kinds :
  <<p, k>> \in Pending ~> <<p, k>> \notin Pending
=============================================================================
