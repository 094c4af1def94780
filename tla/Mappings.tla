------------------------------ MODULE Mappings ------------------------------
(***************************************************************************)
(* The reviewed mappings a bill is written with (migration 007):           *)
(* tax codes of a company (src/mapping/taxMappingStore.ts,                 *)
(* src/services/taxMappings.ts) and the dimension of a proposal            *)
(* (src/mapping/dimensionMappingStore.ts, src/services/dimensionMappings.ts*)
(* and the propose job, mapping.ts:305-321), with the two gates that read  *)
(* them before a bill (posting.ts:222-270).  One proposal with one         *)
(* dimension is followed; its single bill is module Posting's concern.     *)
(*                                                                         *)
(* Each mutation is one transaction that locks its row.  What a provider   *)
(* is asked before it, is asked outside, so other mutations come between.  *)
(* A posting run reads the draft, the tax mapping and the dimension rows   *)
(* one after the other and then writes the bill.                           *)
(***************************************************************************)
EXTENDS Naturals, Sequences

CONSTANTS Companies, Codes,
          Ids,        \* entities of a provider a dimension can point to
          Proposers,  \* who proposes: the queue, the dry run
          MaxTax,     \* bound: rows of tax_mappings
          MaxDims,    \* bound: rows of dimension_mappings
          Changes     \* bound: proposals, mutations, reconnects

VARIABLES company,    \* the company the connector writes to
          oldest,     \* the company of the first row of connections: no row is ever
                      \* deactivated, so findActiveConnectionForTenant answers it
          tax,        \* tax_mappings: [of, code, active, stale, by]
          check,      \* revalidation whose answer is awaited: its row, or 0
          guess,      \* the dimension in proposed_txn: [state, id]
          dims,       \* dimension_mappings of the proposal
          writer,     \* each proposer, past its write of the proposal
          choice,     \* select-alternate whose answer is awaited
          rules,      \* active dimension_mapping_rules: [of, value]
          verdict,    \* what the person decided last of the dimension
          crossed,    \* history: ways a decision of the person was passed by
          word,       \* history: what was said last of a code at a company
          outdated,   \* history: the row under check changed since it was read
          poster,     \* the posting run: where it is and what it has read
          bill,       \* {} or the bill, with what it was written by
          changes

vars == <<company, oldest, tax, check, guess, dims, writer, choice, rules, verdict, crossed,
          word, outdated, poster, bill, changes>>
taxes == <<oldest, tax, check, word, outdated>>
dimension == <<guess, dims, writer, choice, rules, verdict, crossed>>
books == <<poster, bill>>

Idle == [at |-> "idle"]
NoGuess == [state |-> "none", id |-> "none"]
Spend == changes < Changes /\ changes' = changes + 1

Init ==
  /\ company \in Companies /\ oldest = company /\ tax = <<>> /\ check = 0
  /\ guess = NoGuess /\ dims = <<>> /\ writer = [x \in Proposers |-> Idle]
  /\ choice = Idle /\ rules = {} /\ verdict = "none" /\ crossed = {}
  /\ word = [x \in Companies \X Codes |-> "off"] /\ outdated = FALSE
  /\ poster = Idle /\ bill = {} /\ changes = 0
----------------------------------------------------------------------------
(* Tax codes *)

Active(of, code) ==
  {n \in DOMAIN tax : tax[n].active /\ tax[n].of = of /\ tax[n].code = code}

NewTax(of, code, stale) ==
  [of |-> of, code |-> code, active |-> TRUE, stale |-> stale, by |-> 0]

Says(of, code, w) == [word EXCEPT ![<<of, code>>] = w]

CreateTax(of, code) ==
  /\ Spend /\ Active(of, code) = {} /\ Len(tax) < MaxTax
  /\ tax' = Append(tax, NewTax(of, code, FALSE)) /\ word' = Says(of, code, "on")
  /\ UNCHANGED <<company, oldest, check, outdated, books, dimension>>

\* the person's change of an active row; one under check is not what was read
Changed(n) ==
  /\ Spend /\ tax[n].active /\ outdated' = (outdated \/ check = n)
  /\ UNCHANGED <<company, oldest, check, books, dimension>>

EditTax(n) ==
  /\ Changed(n) /\ tax' = [tax EXCEPT ![n].stale = TRUE]
  /\ word' = Says(tax[n].of, tax[n].code, "off")

DisableTax(n) ==
  /\ Changed(n) /\ tax' = [tax EXCEPT ![n].active = FALSE, ![n].stale = TRUE]
  /\ word' = Says(tax[n].of, tax[n].code, "off")

\* the old row gives up its place in the index before the new one takes one; a
\* place another active row holds refuses the whole transaction
ReplaceTax(n, code) ==
  /\ Changed(n) /\ Len(tax) < MaxTax
  /\ Active(tax[n].of, code) \subseteq {n}
  /\ tax' = Append([tax EXCEPT ![n].active = FALSE, ![n].stale = TRUE,
                               ![n].by = Len(tax) + 1],
                   NewTax(tax[n].of, code, TRUE))
  /\ word' = [word EXCEPT ![<<tax[n].of, tax[n].code>>] = "off",
                        ![<<tax[n].of, code>>] = "off"]

\* revalidateTaxMapping reads the row, active or not, and asks the provider
BeginCheck(n) ==
  /\ Spend /\ check = 0 /\ check' = n /\ outdated' = FALSE
  /\ UNCHANGED <<company, oldest, tax, word, books, dimension>>

\* the answer decides whether the row is active, whatever became of it since;
\* the index refuses a second active row of the code
EndCheck(valid) ==
  /\ check # 0 /\ check' = 0 /\ outdated' = FALSE
  /\ LET of == tax[check].of  code == tax[check].code
         others == Active(of, code) \ {check}
     IN  /\ tax' = IF valid /\ others # {} THEN tax
                   ELSE [tax EXCEPT ![check].active = valid, ![check].stale = ~valid]
         /\ word' = IF others # {} THEN word
                    ELSE Says(of, code, IF ~valid THEN "off" ELSE IF outdated THEN "late" ELSE "on")
  /\ UNCHANGED <<company, oldest, changes, books, dimension>>
----------------------------------------------------------------------------
(* The dimension of the proposal *)

Dimensions ==
  [state : {"mapped"}, id : Ids]
    \cup [state : {"not_mapped", "unsupported_by_provider", "intentionally_blank"},
          id : {"none"}]

\* toDimensionMappingInsert, for the oldest connection
RowOf(d) ==
  [of |-> oldest, state |-> d.state, id |-> d.id, offered |-> d.id, value |-> "raw",
   review |-> CASE d.state \in {"mapped", "intentionally_blank"} -> "accepted"
                [] d.state = "unsupported_by_provider" -> "held"
                [] OTHER -> "pending"]

\* the upsert of the proposal overwrites what an earlier run resolved
Propose(x, d) ==
  /\ Spend /\ writer[x] = Idle /\ guess' = d
  /\ writer' = [writer EXCEPT ![x] = [at |-> "find", dim |-> d]]
  /\ UNCHANGED <<company, books, taxes, dims, choice, rules, verdict, crossed>>

\* a row that is found is taken for none
FindNoRow(x) ==
  /\ writer[x].at = "find"
  /\ writer' = [writer EXCEPT ![x].at = "insert"]
  /\ UNCHANGED <<company, changes, books, taxes, guess, dims, choice, rules, verdict, crossed>>

\* a row of this proposal and type is left as it is, reviewed or not; another
\* proposer that has found none either is about to insert a second
FindRow(x) ==
  /\ writer[x].at = "find"
  /\ writer' = [writer EXCEPT ![x] = IF dims = <<>>
                    THEN [at |-> "insert", dim |-> writer[x].dim] ELSE Idle]
  /\ crossed' = IF dims = <<>> /\ \E y \in Proposers : writer[y].at = "insert"
                 THEN crossed \cup {"second row"} ELSE crossed
  /\ UNCHANGED <<company, changes, books, taxes, guess, dims, choice, rules, verdict>>

InsertRow(x) ==
  /\ writer[x].at = "insert" /\ Len(dims) < MaxDims
  /\ dims' = Append(dims, RowOf(writer[x].dim))
  /\ writer' = [writer EXCEPT ![x] = Idle]
  /\ UNCHANGED <<company, changes, books, taxes, guess, choice, rules, verdict, crossed>>

Resolved(n, id) ==
  [dims EXCEPT ![n].id = id, ![n].review = "accepted", ![n].state = "mapped"]

\* what the person decides, also while an alternative chosen before is awaited
Decides(decision) ==
  /\ Spend /\ verdict' = decision
  /\ choice' = IF choice = Idle THEN Idle ELSE [choice EXCEPT !.over = TRUE]
  /\ UNCHANGED <<company, books, taxes, guess, writer, rules, crossed>>

Accept(n) ==
  dims[n].offered # "none" /\ dims' = Resolved(n, dims[n].offered) /\ Decides("accepted")

Correct(n) ==
  /\ dims' = [dims EXCEPT ![n].value = "corrected", ![n].review = "corrected"]
  /\ Decides("corrected")

RejectOrHold(n, status) ==
  dims' = [dims EXCEPT ![n].review = status] /\ Decides(status)

\* selectAlternateDimensionMapping: the provider is asked before the row is locked
BeginAlternate(n, id) ==
  /\ Spend /\ choice = Idle
  /\ choice' = [at |-> "asked", row |-> n, id |-> id, over |-> FALSE]
  /\ UNCHANGED <<company, books, taxes, guess, dims, writer, rules, verdict, crossed>>

\* the row is resolved whatever was decided of it since
EndAlternate(valid) ==
  /\ choice # Idle /\ choice' = Idle
  /\ dims' = IF valid THEN Resolved(choice.row, choice.id) ELSE dims
  /\ verdict' = IF valid /\ ~choice.over THEN "accepted" ELSE verdict
  /\ crossed' = IF valid /\ choice.over THEN crossed \cup {"late answer"} ELSE crossed
  /\ UNCHANGED <<company, changes, books, taxes, guess, writer, rules>>

\* one active rule of a value and company; nothing reads the rules
SaveRule(n) ==
  /\ Spend /\ dims[n].id # "none"
  /\ [of |-> dims[n].of, value |-> dims[n].value] \notin rules
  /\ rules' = rules \cup {[of |-> dims[n].of, value |-> dims[n].value]}
  /\ UNCHANGED <<company, books, taxes, guess, dims, writer, choice, verdict, crossed>>
----------------------------------------------------------------------------
(* The posting run: the draft, the gates and the bill *)

\* codes alone, without the connection they belong to
MatchesAny(code) == {n \in DOMAIN tax : tax[n].code = code}

\* listTaxMappings of the connection the connector writes to
Matches(code) == {n \in DOMAIN tax : tax[n].of = poster.of /\ tax[n].code = code}

\* the active match, or else the newest one
Chosen(code) ==
  LET m == Matches(code)  active == {n \in m : tax[n].active} IN
  IF active # {} THEN active ELSE {n \in m : \A k \in m : k <= n}

\* evaluateTaxMappingRecord: no row, inactive or stale hold the bill
TaxPasses(n) == tax[n].active /\ ~tax[n].stale

\* evaluateDimensionMappingRecord on a row of the proposal, in no order
DimensionPasses ==
  \/ poster.draft.state = "intentionally_blank"
  \/ \E n \in DOMAIN dims : dims[n].state = "mapped"
                            /\ dims[n].review \in {"accepted", "corrected"}

\* a dimension that was not mapped keeps the proposal from being ready; the
\* connector is of the company connected now
ReadDraft(code) ==
  /\ poster = Idle /\ bill = {} /\ guess.state \in {"mapped", "intentionally_blank"}
  /\ poster' = [at |-> "tax", of |-> company, draft |-> guess, code |-> code, said |-> "on"]
  /\ UNCHANGED <<company, bill, changes, taxes, dimension>>

TaxGate ==
  /\ poster.at = "tax"
  /\ poster' = IF poster.code = "none" THEN [poster EXCEPT !.at = "dimension"]
               ELSE IF \E n \in Chosen(poster.code) : TaxPasses(n)
               THEN [poster EXCEPT !.at = "dimension", !.said = word[<<poster.of, poster.code>>]]
               ELSE Idle
  /\ UNCHANGED <<company, bill, changes, taxes, dimension>>

DimensionGate ==
  /\ poster.at = "dimension"
  /\ poster' = IF ~DimensionPasses THEN Idle
               ELSE [at |-> "create",
                     bill |-> [of |-> poster.of, id |-> poster.draft.id, said |-> poster.said,
                               verdict |-> verdict, crossed |-> crossed,
                               reviewed |-> {dims[k].id : k \in DOMAIN dims},
                               home |-> {dims[k].of : k \in DOMAIN dims}]]
  /\ UNCHANGED <<company, bill, changes, taxes, dimension>>

\* the bill carries what the draft said when it was read
Create ==
  /\ poster.at = "create" /\ poster' = Idle
  /\ bill' = {[poster.bill EXCEPT !.verdict = <<@, verdict>>]}
  /\ UNCHANGED <<company, changes, taxes, dimension>>

\* another company is connected
Reconnect(c) ==
  /\ c # company /\ Spend /\ company' = c
  /\ UNCHANGED <<books, taxes, dimension>>

Next ==
  \/ \E c \in Companies : \/ Reconnect(c) \/ \E k \in Codes : CreateTax(c, k)
  \/ \E n \in DOMAIN tax : \/ EditTax(n) \/ DisableTax(n) \/ BeginCheck(n)
                           \/ \E k \in Codes : ReplaceTax(n, k)
  \/ \E valid \in BOOLEAN : EndCheck(valid) \/ EndAlternate(valid)
  \/ \E x \in Proposers : \/ \E d \in Dimensions : Propose(x, d)
                          \/ FindRow(x) \/ InsertRow(x)
  \/ \E n \in DOMAIN dims : \/ Accept(n) \/ Correct(n) \/ SaveRule(n)
                            \/ \E id \in Ids : BeginAlternate(n, id)
                            \/ \E s \in {"rejected", "held"} : RejectOrHold(n, s)
  \/ \E k \in Codes \cup {"none"} : ReadDraft(k)
  \/ TaxGate \/ DimensionGate \/ Create

Spec == Init /\ [][Next]_vars
----------------------------------------------------------------------------
(* Properties *)

TypeOK ==
  /\ company \in Companies /\ check \in 0..Len(tax) /\ changes \in 0..Changes
  /\ \A n \in DOMAIN tax : /\ tax[n].of \in Companies /\ tax[n].code \in Codes
                           /\ tax[n].by \in 0..Len(tax)
  /\ \A n \in DOMAIN dims : dims[n].id \in Ids \cup {"none"}

Refusals == {"rejected", "held"}

\* The dimension gate passes no dimension that the person rejected or held last,
\* whatever runs of the propose job came after, unless two of them looked for the row
\* at once or an alternative the person chose before was answered after
\* (mapping.ts:305-313, posting.ts:251-270, dimensionMappings.ts:184-233).
RejectionHolds ==
  \A b \in bill : b.id # "none" /\ b.verdict[1] \in Refusals => b.crossed # {}

\* The tax gate passes no code unless the last thing said of it at the company the bill
\* goes to let it: a person who created the mapping or a provider who confirmed it, and
\* neither a change of the person nor a refusal of the provider; but for an answer that
\* was asked for before the person's change (posting.ts:222-244, taxMappings.ts:307-340).
TaxStands == \A b \in bill : b.said \in {"on", "late"}

\* What the reviews of a company promise of a bill.
MappingsHold == RejectionHolds /\ TaxStands

\* "a human-rejected mapping must be able to override it" (dimensions.ts:107-108): of a
\* rejection that comes before the gate, and of one that comes before the bill.
RejectionOverrides == \A b \in bill : b.id # "none" => b.verdict[1] \notin Refusals
RejectionStopsBill ==
  \A b \in bill : b.id # "none" /\ b.verdict[1] \notin Refusals => b.verdict[2] \notin Refusals

\* "Idempotent per (proposal, dimension_type)" (mapping.ts:307).
OneRowEach == Len(dims) <= 1

\* "Missing, inactive (disabled/superseded), or stale (needs_revalidation) all hold before
\* create" (tax.ts:147-148).
DisabledStays == \A b \in bill : b.said # "late"

\* "the human-reviewed source of truth, distinct from (and authoritative over) the
\* in-memory candidate match" (dimensions.ts:84-86).
ReviewIsAuthoritative == \A b \in bill : b.id # "none" => b.id \in b.reviewed

\* "superseded versions are retained (active=false)" (migration 007, line 32).
SupersededStays == \A n \in DOMAIN tax : tax[n].by # 0 => ~tax[n].active

\* "a mapping can NEVER be reused by another company" (migration 007, line 13).
DimensionOfCompany == \A b \in bill : b.id # "none" => b.home \subseteq {b.of}
=============================================================================
