------------------------------- MODULE Bills -------------------------------
(***************************************************************************)
(* What a connector makes of one approved transaction and what it takes    *)
(* for it: the query for an existing bill, the payload with its            *)
(* dimensions, the answer, and the read-back (src/connectors/qbo.ts and    *)
(* xero.ts; for QuickBooks Desktop src/qbdesktop/production.ts with the    *)
(* bill of connectors/qbd.ts: the rest of that connector has no caller).   *)
(* Modules Posting and ProviderJobs have the protocol around these calls   *)
(* and take a bill for one value; here it has its vendor, number, date,    *)
(* amount, lines and dimensions, and a bookkeeper works on the same books. *)
(*                                                                         *)
(* Amounts are cents.  The code compares doubles with a tolerance of 0.01, *)
(* so that a difference of one cent passes or not with their rounding.     *)
(***************************************************************************)
EXTENDS Integers, Sequences, SequencesExt

CONSTANTS Providers, \* of {"qbo", "xero", "qbd"}
          Amounts,   \* of a line
          Total,     \* of the draft
          MaxLines,
          Values,    \* entities a dimension may be mapped to
          Extra,     \* what Xero may add to a bill by the tax rate of an account
          MaxTries,  \* attempts of withRetry
          Hands,     \* bound: bills a bookkeeper enters
          Edits      \* bound: edits of the bookkeeper

VARIABLES provider,
          draft,     \* proposed_txn
          books,     \* the bills of the company, in the order they were made
          call,      \* where the connector is: at, attempts so far, id of the bill
          seen,      \* {} or the bill as the connector read it last
          verdict,   \* of readBackVerify
          gaps,      \* capabilityGaps of create()
          hands, edits

vars == <<provider, draft, books, call, seen, verdict, gaps, hands, edits>>

None == "none"
Blank == "blank"      \* a dimension that is present and not mapped to an entity
Kinds == {"class", "location"}
Near(a, b, exact) == a = b \/ (~exact /\ a - b \in {-1, 1})
Sum(amounts) == FoldLeft(LAMBDA a, b : a + b, 0, amounts)
----------------------------------------------------------------------------
(* The draft: lines have amounts, the header has the dimensions *)

Dims == UNION {[kinds -> Values \cup {Blank}] : kinds \in SUBSET Kinds}

Drafts == [vendor : {"vendor"}, number : {"number", None}, date : {"date"}, total : {Total},
           lines : UNION {[1..n -> Amounts] : n \in 0..MaxLines}, dims : Dims]

\* mappedSupportedDimensions: of the kinds, those that name an entity
Mapped(kinds) ==
  [k \in {k \in DOMAIN draft.dims \cap kinds : draft.dims[k] # Blank} |-> draft.dims[k]]

LineKinds == CASE provider = "qbo" -> {"class"}
               [] provider = "xero" -> DOMAIN draft.dims   \* at most two are active
               [] provider = "qbd" -> {}
HeaderKinds == IF provider = "qbo" THEN {"location"} ELSE {}
TagsOnlyBare == IF draft.lines = <<>> THEN Mapped(LineKinds) ELSE <<>>
LineTags == Mapped(LineKinds)

\* a draft without lines is sent as one line of the whole amount
Payable == IF draft.lines = <<>> THEN <<draft.total>> ELSE draft.lines
Payload == [lines |-> [n \in DOMAIN Payable |-> [amount |-> Payable[n], tags |-> LineTags]],
            header |-> Mapped(HeaderKinds)]
Billed == IF draft.lines = <<>> THEN draft.total ELSE Sum(draft.lines)

\* qbdBillInput refuses dimensions and bills without lines
Translates == provider = "qbd" => draft.lines # <<>> /\ DOMAIN Mapped(Kinds) = {}

\* canonical create(): the payload of QuickBooks Online has no dimensions at all;
\* reported as gaps are kinds the provider does not know
CanonicalPayload == IF provider = "qbo"
  THEN [Payload EXCEPT !.header = <<>>, !.lines = [n \in DOMAIN @ |-> [@[n] EXCEPT !.tags = <<>>]]]
  ELSE Payload
Gaps == IF provider = "qbo" THEN DOMAIN draft.dims \ {"class", "location"} ELSE {}
----------------------------------------------------------------------------
(* The company's books *)

Bill(what, extra) ==
  [vendor |-> draft.vendor, number |-> draft.number, date |-> draft.date,
   total |-> Billed + extra, lines |-> what.lines, header |-> what.header,
   ours |-> TRUE, extra |-> extra, touched |-> FALSE]

Init ==
  /\ provider \in Providers /\ draft \in Drafts /\ books = <<>>
  /\ call = [at |-> "start", tries |-> 0, id |-> 0]
  /\ seen = {} /\ verdict = None /\ gaps = {} /\ hands = 0 /\ edits = 0

\* a bill like the draft, or with another vendor, number, date or amount
HandEnters ==
  /\ hands < Hands /\ hands' = hands + 1
  /\ LET same == [vendor |-> draft.vendor, number |-> draft.number, date |-> draft.date,
                  total |-> draft.total, lines |-> <<[amount |-> draft.total, tags |-> <<>>]>>,
                  header |-> <<>>, ours |-> FALSE, extra |-> 0, touched |-> TRUE] IN
     \E b \in {same, [same EXCEPT !.vendor = "other"], [same EXCEPT !.number = None],
               [same EXCEPT !.date = "other"], [same EXCEPT !.total = @ + 1],
               [same EXCEPT !.total = @ + 2]} :
       books' = Append(books, b)
  /\ UNCHANGED <<provider, draft, call, seen, verdict, gaps, edits>>

HandEdits ==
  /\ edits < Edits /\ edits' = edits + 1
  /\ \E i \in DOMAIN books :
       LET b == [books[i] EXCEPT !.touched = TRUE] IN
       \E c \in {[b EXCEPT !.total = @ + 2], [b EXCEPT !.number = None],
                 [b EXCEPT !.header = <<>>]}
               \cup {[b EXCEPT !.lines[n].tags = <<>>] : n \in DOMAIN b.lines} :
         books' = [books EXCEPT ![i] = c]
  /\ UNCHANGED <<provider, draft, call, seen, verdict, gaps, hands>>
----------------------------------------------------------------------------
(* The connector *)

Goes(to) == call' = [call EXCEPT !.at = to]
Ends(to, i) == call' = [at |-> to, tries |-> 0, id |-> i]

\* qboDedupWhere asks for the date too, xeroDedupWhere does not
Where(b) == /\ b.vendor = draft.vendor
            /\ draft.number # None => b.number = draft.number
            /\ provider # "xero" => b.date = draft.date
DetectedAnyAmount(exact) == {i \in DOMAIN books : Where(books[i])}
\* what detectExisting of a cloud connector keeps of the rows
Detected(exact) ==
  {i \in DOMAIN books : Where(books[i]) /\ Near(draft.total, books[i].total, exact)}

BillMismatchNumber(b, exact) ==
  IF draft.number # None /\ b.number # draft.number THEN "docnumber" ELSE "match"
\* of QuickBooks Desktop: no dimensions, and the amount before the number
BillMismatch(b, exact) ==
  IF ~Near(draft.total, b.total, exact) THEN "amount"
  ELSE IF draft.number # None /\ b.number # draft.number THEN "docnumber" ELSE "match"
Preflight(exact) ==
  {i \in DOMAIN books : Where(books[i]) /\ BillMismatch(books[i], exact) = "match"}

\* the query before and, `again`, after a create whose outcome is unknown
Probe(again) ==
  /\ call.at = (IF again THEN "unknown" ELSE "start") /\ Translates
  /\ \E exact \in BOOLEAN :
     LET found == IF provider = "qbd" THEN Preflight(exact) ELSE Detected(exact) IN
       \/ found = {} /\ Ends(IF again THEN "held" ELSE "absent", 0) /\ UNCHANGED seen
       \/ \E i \in found : found = {i} /\ Ends("adopted", i) /\ seen' = {books[i]}
       \/ \E i, j \in found : i # j /\ Ends("held", 0) /\ UNCHANGED seen
  /\ UNCHANGED <<provider, draft, books, verdict, gaps, hands, edits>>

\* what cannot be translated is never sent, and a query without an answer holds
Refuse ==
  /\ call.at \in {"start", "unknown"} /\ Ends("held", 0)
  /\ UNCHANGED <<provider, draft, books, seen, verdict, gaps, hands, edits>>

\* a call that Xero answers with 429 waits and is made again, the last one fails
Limited ==
  /\ provider = "xero" /\ call.at \in {"start", "absent", "unknown", "made"}
  /\ call' = IF call.tries + 1 < MaxTries THEN [call EXCEPT !.tries = @ + 1]
             ELSE [at |-> IF call.at = "absent" THEN "unknown"
                          ELSE IF call.at = "made" THEN "unread" ELSE "held",
                   tries |-> 0, id |-> call.id]
  /\ UNCHANGED <<provider, draft, books, seen, verdict, gaps, hands, edits>>

\* the provider makes the bill and names it, names it not (QuickBooks Online's
\* client takes that for the empty id), or its answer is lost
PostBill ==
  /\ call.at = "absent" /\ Translates
  /\ \E extra \in IF provider = "xero" THEN Extra ELSE {0} :
       books' = Append(books, Bill(Payload, extra))
  /\ \/ Ends("made", Len(books) + 1)
     \/ Ends(IF provider = "qbo" THEN "made" ELSE "unknown", 0)
     \/ Ends("unknown", 0)
  /\ UNCHANGED <<provider, draft, seen, verdict, gaps, hands, edits>>

PostFails ==
  /\ call.at = "absent" /\ Ends("unknown", 0)
  /\ UNCHANGED <<provider, draft, books, seen, verdict, gaps, hands, edits>>

\* create('bill') of the canonical interface
CreateCanonical ==
  /\ call.at = "start" /\ Translates
  /\ books' = Append(books, Bill(CanonicalPayload, 0))
  /\ gaps' = Gaps /\ Ends("created", Len(books) + 1)
  /\ UNCHANGED <<provider, draft, seen, verdict, hands, edits>>

\* the value of a kind as the read-back finds it: on the first line that has one
FirstWith(b, kind) == {n \in DOMAIN b.lines :
  kind \in DOMAIN b.lines[n].tags /\ \A m \in 1..n - 1 : kind \notin DOMAIN b.lines[m].tags}
Found(b, kind) ==
  IF kind \in HeaderKinds THEN IF kind \in DOMAIN b.header THEN b.header[kind] ELSE None
  ELSE IF FirstWith(b, kind) = {} THEN None
  ELSE b.lines[CHOOSE n \in FirstWith(b, kind) : TRUE].tags[kind]

NumberOnly(b, exact) ==
  IF draft.number # None /\ b.number # draft.number THEN "docnumber" ELSE "match"
Compared(b, exact) ==
  LET approved == Mapped(LineKinds \cup HeaderKinds) IN
  IF ~Near(draft.total, b.total, exact) THEN "amount"
  ELSE IF draft.number # None /\ b.number # draft.number THEN "docnumber"
  ELSE IF \E k \in DOMAIN approved : Found(b, k) # approved[k] THEN "dimension"
  ELSE "match"

ReadBackVerify ==
  /\ call.at = "made" /\ call.id # 0
  /\ \E exact \in BOOLEAN :
       verdict' = IF provider = "qbd" THEN BillMismatch(books[call.id], exact)
                                      ELSE Compared(books[call.id], exact)
  /\ seen' = {books[call.id]} /\ Ends("read", call.id)
  /\ UNCHANGED <<provider, draft, books, gaps, hands, edits>>

\* no bill under the id, no answer, or Xero's without a revision: it stays unread
\* until a recovery asks again, which a bill without id never is
ReadFails ==
  /\ call.at = "made" /\ Goes("unread")
  /\ UNCHANGED <<provider, draft, books, seen, verdict, gaps, hands, edits>>

ReadAgain ==
  /\ call.at = "unread" /\ call.id # 0 /\ Goes("made")
  /\ UNCHANGED <<provider, draft, books, seen, verdict, gaps, hands, edits>>

Next == \/ HandEnters \/ HandEdits
        \/ Probe(TRUE) \/ Probe(FALSE) \/ Refuse \/ Limited \/ PostBill \/ PostFails
        \/ CreateCanonical \/ ReadBackVerify \/ ReadFails \/ ReadAgain

Spec == Init /\ [][Next]_vars
----------------------------------------------------------------------------
(* Properties *)

TypeOK ==
  /\ call.at \in {"start", "absent", "unknown", "made", "unread", "read", "adopted",
                  "held", "created"}
  /\ call.tries \in 0..MaxTries - 1 /\ call.id \in 0..Len(books)
  /\ verdict \in {None, "match", "amount", "docnumber", "dimension"}

SameMoney(b) == draft.total - b.total \in -1..1
Approved == Mapped(LineKinds \cup HeaderKinds)
OnHeader(b, k) == k \in DOMAIN b.header /\ b.header[k] = draft.dims[k]
OnLine(b, n, k) == k \in DOMAIN b.lines[n].tags /\ b.lines[n].tags[k] = draft.dims[k]

\* A bill that is adopted has the vendor, the amount and the number of the draft
\* (qbo.ts:256-275, xero.ts:450-469, production.ts:58-70).
AdoptedIsSame ==
  call.at = "adopted" => \A b \in seen :
    /\ b.vendor = draft.vendor /\ SameMoney(b)
    /\ draft.number # None => b.number = draft.number

\* A bill that verifies has the amount, the number and somewhere every approved
\* dimension; one that nobody edited has them on every line (qbo.ts:287-298).
MatchIsApproved ==
  verdict = "match" => \A b \in seen :
    /\ b.ours /\ SameMoney(b) /\ (draft.number # None => b.number = draft.number)
    /\ \A k \in DOMAIN Approved :
         /\ OnHeader(b, k) \/ \E n \in DOMAIN b.lines : OnLine(b, n, k)
         /\ ~b.touched => OnHeader(b, k) \/ \A n \in DOMAIN b.lines : OnLine(b, n, k)

\* A bill is held after its creation only for a reason: somebody edited it, its lines
\* do not add up to its total, or the provider added a tax.
NoFalseAlarm ==
  verdict \in {"amount", "docnumber", "dimension"} => \A b \in seen :
    b.touched \/ b.extra # 0 \/ (draft.lines # <<>> /\ Sum(draft.lines) # draft.total)

\* What is adopted and what is verified is the bill that was approved.
BillsHold == AdoptedIsSame /\ MatchIsApproved /\ NoFalseAlarm

\* "an approved+written dimension the provider dropped/altered -> unverified"
\* (posting.ts:352).
DroppedIsNoticed ==
  verdict = "match" => \A b \in seen, k \in DOMAIN Approved :
    OnHeader(b, k) \/ \A n \in DOMAIN b.lines : OnLine(b, n, k)

\* "Unsupported field (never silently dropped)" (qbo.ts:123).
NothingDropped ==
  call.at = "created" /\ ~books[call.id].touched =>
    \A k \in DOMAIN Mapped(Kinds) :
      \/ k \in gaps \/ OnHeader(books[call.id], k)
      \/ \E n \in DOMAIN books[call.id].lines : OnLine(books[call.id], n, k)
=============================================================================
