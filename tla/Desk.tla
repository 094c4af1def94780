-------------------------------- MODULE Desk --------------------------------
(***************************************************************************)
(* The exceptions page (app/(app)/exceptions/page.tsx): a person goes      *)
(* through a list that was read once, approves and rejects by key, and     *)
(* moves on while the answer is still on its way.  The page knows a        *)
(* proposal only by the digits an exception's entity_ref ends with.        *)
(* A page that is left takes no answer any more; what its requests still   *)
(* do is among what happens elsewhere.  What the service does with one     *)
(* request is one step here (postOnce in all its steps is module Posting). *)
(***************************************************************************)
EXTENDS Naturals, SequencesExt

CONSTANTS Numbers,      \* ids of proposals
          Strays,       \* numbers that are no proposal's
          MaxExcs,      \* bound: exceptions
          MaxFlights    \* bound: requests under way

VARIABLES excs,     \* the exceptions table: what each is about, oldest first
          status,   \* of every proposal
          page,     \* the page that is open
          flights,  \* its requests under way
          looks     \* its requests for evidence

vars == <<excs, status, page, flights, looks>>

None == 0
\* entity_ref: its kind and the number it ends with, if any (extraction:, posting:,
\* forward:, message:, qbo: and attachment: are the others)
Ref(kind, number) == [kind |-> kind, number |-> number]
Refs == {Ref("proposal", n) : n \in Numbers} \cup {Ref("other", n) : n \in Numbers \cup Strays} \cup
        {Ref("gmail", None)}

-----------------------------------------------------------------------------
(* The page *)

Selected(p) == IF p.sel \in DOMAIN p.items THEN p.items[p.sel] ELSE None
\* proposalRefId: the digits at the end, whatever stands before them
ProposalRefId(row) == IF row = None THEN None ELSE excs[row].number

Opened == [items |-> <<>>, sel |-> 1, busy |-> FALSE, evidence |-> None,
           loaded |-> {}, done |-> {}]

Aside(asked) == {[l EXCEPT !.live = FALSE] : l \in asked}
\* the page is drawn anew: a new row has no evidence yet, and a new number asks for
\* its evidence, after it has put the request before aside
Draw(p, q) ==
  LET moved == Selected(p) # Selected(q)
      was   == ProposalRefId(Selected(p))
      is    == ProposalRefId(Selected(q))
  IN /\ page' = IF moved THEN [q EXCEPT !.evidence = None] ELSE q
     /\ looks' = IF was = is THEN looks
                 ELSE Aside(looks) \cup IF is = None THEN {} ELSE {[number |-> is, live |-> TRUE]}

\* the page is left and opened again
Open == /\ page' = Opened
        /\ flights' = {} /\ looks' = {}
        /\ UNCHANGED <<excs, status>>

\* the list arrives, the newest first
Load == /\ page.loaded = {} /\ excs # <<>>
        /\ Draw(page, [page EXCEPT !.items = Reverse([n \in DOMAIN excs |-> n]),
                                   !.loaded = DOMAIN excs])
        /\ UNCHANGED <<excs, status, flights>>

\* J and K, or a click on a row; J in an empty list ends before it
Navigate ==
  /\ \E s \in 0..Len(page.items) :
       /\ s = 0 => page.items = <<>>
       /\ Draw(page, [page EXCEPT !.sel = s])
  /\ UNCHANGED <<excs, status, flights>>

Send(verb) ==
  /\ Cardinality(flights) < MaxFlights
  /\ flights' = flights \cup {[verb |-> verb, row |-> Selected(page), at |-> page.sel,
                               number |-> ProposalRefId(Selected(page)),
                               answer |-> "none"]}
  /\ page' = [page EXCEPT !.busy = TRUE]
  /\ UNCHANGED <<excs, status, looks>>

\* a press that asks for no answer still under way
PressAgain(verb) == ProposalRefId(Selected(page)) # None /\ Send(verb)
\* doApprove, doReject
Press(verb) == ProposalRefId(Selected(page)) # None /\ ~page.busy /\ Send(verb)
\* doRemap, from a form that cannot be sent while the page is busy
Remap == Selected(page) # None /\ ~page.busy /\ Send("remap")

-----------------------------------------------------------------------------
(* The service *)

Raise(refs) == \E r \in refs : Len(excs) < MaxExcs /\ excs' = Append(excs, r)
Answered(f, answer) == flights' = (flights \ {f}) \cup {[f EXCEPT !.answer = answer]}
Set(n, to) == status' = [status EXCEPT ![n] = to]

\* approveProposal: what is not ready is held; "stays" is a failed post that may be tried
\* again, a job queued for the desktop, a locked or unknown proposal, a missing role
Approve(f) ==
  LET n == f.number
  IN \/ Answered(f, "stays") /\ UNCHANGED <<status, excs>>
     \/ Answered(f, "held") /\ n \in Numbers /\ UNCHANGED <<status, excs>>   \* or a duplicate
     \/ /\ n \in Numbers /\ status[n] = "ready"
        /\ \/ Set(n, "posted") /\ Answered(f, "posted") /\ UNCHANGED excs
           \/ Answered(f, "held") /\ UNCHANGED status
              /\ Raise({r \in Refs : r.kind = "other" \/ r = Ref("proposal", n)})
           \/ Answered(f, "stays") /\ UNCHANGED status /\ Raise({Ref("proposal", n)})

\* rejectProposal does not ask for the status
Reject(f) ==
  /\ UNCHANGED excs
  /\ \/ Answered(f, "stays") /\ UNCHANGED status
     \/ f.number \in Numbers /\ Set(f.number, "rejected") /\ Answered(f, "rejected")

Serve(f) == /\ f.answer = "none" /\ UNCHANGED <<page, looks>>
            /\ \/ f.verb = "approve" /\ Approve(f)
               \/ f.verb = "reject" /\ Reject(f)
               \/ f.verb = "remap" /\ Answered(f, "stays") /\ UNCHANGED <<excs, status>>

\* the pipeline and other people, beside the page
Elsewhere == /\ UNCHANGED <<page, flights, looks>>
             /\ \/ Raise(Refs) /\ UNCHANGED status
                \/ \E n \in Numbers : /\ UNCHANGED excs
                                      /\ \/ status[n] = "ready" /\ Set(n, "posted")
                                         \/ Set(n, "rejected")

-----------------------------------------------------------------------------
(* Answers *)

Settles == {"posted", "held", "rejected"}
Clamp(i, items) == Max({1, Min({i, Len(items)})})

\* the row that is shown when the answer comes leaves
RemoveShown(p, f) ==
  LET items == IF p.sel \in DOMAIN p.items THEN RemoveAt(p.items, p.sel) ELSE p.items
  IN [p EXCEPT !.items = items, !.sel = Clamp(p.sel, items)]
\* removeSelected: the row at the place of the press leaves, and the place that is
\* selected stays
RemoveSelected(p, f) ==
  LET items == RemoveAt(p.items, f.at)
  IN [p EXCEPT !.items = items, !.sel = Clamp(p.sel, items)]

Answer(f) ==
  /\ f.answer # "none"
  /\ flights' = flights \ {f}
  /\ LET p == [page EXCEPT !.busy = FALSE]
     IN Draw(page, IF f.answer \in Settles
                   THEN [RemoveSelected(p, f) EXCEPT !.done = page.done \cup {f.row}]
                   ELSE p)
  /\ UNCHANGED <<excs, status>>

\* evidence that arrives whatever the page shows by then
SeenAnyway(l) == page' = [page EXCEPT !.evidence = l.number]
\* onLoaded, unless the effect that asked was cleaned up
Seen(l) == page' = IF l.live THEN [page EXCEPT !.evidence = l.number] ELSE page
Look(l) == /\ looks' = looks \ {l}
           /\ \/ l.number \in Numbers /\ Seen(l)
              \/ UNCHANGED page     \* it failed
           /\ UNCHANGED <<excs, status, flights>>

Init == /\ excs \in [1..2 -> Refs]
        /\ status = [n \in Numbers |-> "ready"]
        /\ page = Opened /\ flights = {} /\ looks = {}

Next == \/ Open \/ Load \/ Navigate \/ Remap \/ Elsewhere
        \/ \E verb \in {"approve", "reject"} : Press(verb)
        \/ \E f \in flights : Serve(f) \/ Answer(f)
        \/ \E l \in looks : Look(l)

Spec == Init /\ [][Next]_vars

-----------------------------------------------------------------------------
TypeOK == /\ excs \in Seq(Refs) /\ Len(excs) <= MaxExcs
          /\ status \in [Numbers -> {"ready", "posted", "rejected"}]
          /\ ToSet(page.items) \subseteq DOMAIN excs /\ page.sel \in 0..MaxExcs

\* What the person was shown stays on the page until an answer to a request about
\* that very row settles it, wherever the person went meanwhile.
\* (page.tsx:70-76, removeSelected closes over the index of the press.)
RowsStay == ToSet(page.items) = page.loaded \ page.done /\ IsInjective(page.items)

\* The evidence beside a row is of the proposal of that row, however late an answer
\* about an earlier row comes.  (EvidencePanel.tsx:23-43, page.tsx:53-57.)
EvidenceIsOfTheRow ==
  page.evidence # None => page.evidence = ProposalRefId(Selected(page))

\* A page never has two requests under way: no second approval of what is being
\* approved, and no rejection over an approval.  (page.tsx:79, 112.)
OneAtATime == Cardinality(flights) <= 1

DeskHolds == RowsStay /\ EvidenceIsOfTheRow /\ OneAtATime

\* "Extract a numeric proposal id from an exception's entity_ref (e.g. "proposal:501" ->
\* 501)" (lib/api.ts:94): what a person decides on an exception befalls the proposal the
\* exception is about, and no proposal when it is about none.
DecidesItsOwn == \A f \in flights :
  f.answer \in {"posted", "rejected"} => excs[f.row] = Ref("proposal", f.number)
=============================================================================
