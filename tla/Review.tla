-------------------------------- MODULE Review --------------------------------
(***************************************************************************)
(* The offline review packet: a snapshot of the open proposals             *)
(* (src/services/review/snapshot.ts) is built into a page that keeps the   *)
(* reviewer's decisions in the browser's storage                           *)
(* (scripts/build-review-dashboard.mjs); an exported file is applied later *)
(* through the services of a person (apply-decisions.ts, src/cli.ts).      *)
(*                                                                         *)
(* Between snapshot and application the queue and other people go on.      *)
(***************************************************************************)
EXTENDS Naturals, Sequences, FiniteSets, FiniteSetsExt

CONSTANTS Rows,      \* proposals, numbered by their id
          Tabs,      \* pages open at a time
          Runs,      \* bound: snapshots
          Clicks, Exports,  \* bounds: on the pages
          Meddling   \* bound: what others do to the proposals

VARIABLES row,      \* proposals: their status
          billed,   \* the proposals that have a bill under their key
          noted,    \* the proposals a duplicate_in_qbo exception was raised for
          packets,  \* the pages built: the proposals each shows
          stored,   \* the browser's storage: what is kept under the key of a run
          tab,      \* an open page: [run, chosen, saves]; run 0 is none
          clicked,  \* history: the decisions clicked, as <<run, row, decision>>
          files,    \* exported decisions: [run, chosen]
          cli,      \* apply-review-decisions: its file, what is left, what it reported
          ended,    \* history: the last application that ended and nothing disturbed
          meddled

vars == <<row, billed, noted, packets, stored, tab, clicked, files, cli, ended, meddled>>
page == <<packets, stored, tab, clicked, files>>
books == <<row, billed, noted>>

Open == {"review", "ready", "exception"}
Undecided == [n \in Rows |-> "pending"]
NoTab == [run |-> 0, chosen |-> Undecided, saves |-> TRUE]
None == [chosen |-> Undecided, left |-> {}, told |-> {}, at |-> "idle"]
Spend == meddled < Meddling /\ meddled' = meddled + 1 /\ ended' = None
         /\ cli' = IF cli = None THEN None ELSE [cli EXCEPT !.at = "disturbed"]

Init ==
  /\ row \in [Rows -> {"review", "ready"}] /\ billed = {} /\ noted = {}
  /\ packets = <<>>
  /\ stored = [k \in 0..Runs |-> Undecided]
  /\ tab = [t \in Tabs |-> NoTab] /\ clicked = {} /\ files = {}
  /\ cli = None /\ ended = None /\ meddled = 0
----------------------------------------------------------------------------
(* The packet *)

\* buildReviewSnapshot under a new run id, and the page built from it
Snapshot ==
  /\ Len(packets) < Runs
  /\ packets' = Append(packets, {n \in Rows : row[n] \in Open})
  /\ UNCHANGED <<books, stored, tab, clicked, files, cli, ended, meddled>>

OneKey(run) == 0        \* Mutant: one key for every run
StorageKey(run) == run

\* loadDecisions; a browser that refuses its storage starts with none and saves none
OpenPage(t, run, allowed) ==
  /\ tab[t] = NoTab
  /\ tab' = [tab EXCEPT ![t] = [run |-> run, saves |-> allowed,
               chosen |-> IF allowed THEN stored[StorageKey(run)] ELSE Undecided]]
  /\ UNCHANGED <<books, packets, stored, clicked, files, cli, ended, meddled>>

\* a second click on the same button takes the decision back; the whole map is
\* saved, over what another page of the run has saved since
SetDecision(t, n, value) ==
  /\ tab[t].run # 0 /\ n \in packets[tab[t].run] /\ Cardinality(clicked) < Clicks
  /\ LET now == IF tab[t].chosen[n] = value THEN "pending" ELSE value IN
       /\ tab' = [tab EXCEPT ![t].chosen[n] = now]
       /\ stored' = IF tab[t].saves
                      THEN [stored EXCEPT ![StorageKey(tab[t].run)] = tab'[t].chosen]
                      ELSE stored
       /\ clicked' = clicked \cup {<<tab[t].run, n, now>>}
  /\ UNCHANGED <<books, packets, files, cli, ended, meddled>>

ClosePage(t) ==
  /\ tab[t] # NoTab /\ tab' = [tab EXCEPT ![t] = NoTab]
  /\ UNCHANGED <<books, packets, stored, clicked, files, cli, ended, meddled>>

\* the proposals of the packet, with what the page holds of each
Export(t) ==
  /\ tab[t].run # 0 /\ Cardinality(files) < Exports
  /\ files' = files \cup {[run |-> tab[t].run,
       chosen |-> [n \in Rows |-> IF n \in packets[tab[t].run] THEN tab[t].chosen[n]
                                  ELSE "pending"]]}
  /\ UNCHANGED <<books, packets, stored, tab, clicked, cli, ended, meddled>>
----------------------------------------------------------------------------
(* apply-review-decisions: one decision after the other *)

BeginApply ==
  /\ cli = None /\ ended' = None
  /\ \E f \in files : cli' = [chosen |-> f.chosen, left |-> Rows, told |-> {}, at |-> "on"]
  /\ UNCHANGED <<books, page, meddled>>

Turn(n) == cli.left # {} /\ n = Min(cli.left)
Decided(n) == cli.chosen[n]
Done(n) == cli' = [cli EXCEPT !.left = @ \ {n}]
Told(n) == cli' = [cli EXCEPT !.left = @ \ {n}, !.told = @ \cup {n}]

\* pending, or one that is posted already: nothing is written
Pass(n) ==
  /\ Turn(n) /\ Done(n)
  /\ Decided(n) = "pending" \/ (Decided(n) = "approved" /\ row[n] = "posted")
  /\ UNCHANGED <<books, page, ended, meddled>>

\* approveProposal: a bill of what is proposed by now, not of what the packet showed
ApplyApproved(n) ==
  /\ Turn(n) /\ Decided(n) = "approved" /\ row[n] = "ready" /\ n \notin billed /\ Done(n)
  /\ billed' = billed \cup {n} /\ row' = [row EXCEPT ![n] = "posted"]
  /\ UNCHANGED <<noted, page, ended, meddled>>

\* a bill under the key of the proposal is a duplicate, and so is what the provider
\* refuses as one (6190), which leaves neither a bill nor a row: counted as posted
Duplicate(n) ==
  /\ Turn(n) /\ Decided(n) = "approved" /\ row[n] = "ready" /\ Done(n)
  /\ noted' = noted \cup {n}
  /\ UNCHANGED <<row, billed, page, ended, meddled>>

\* Mutant: the reason is not reported
HeldQuietly(n) ==
  /\ Turn(n) /\ Decided(n) = "approved" /\ row[n] # "posted" /\ Done(n)
  /\ UNCHANGED <<books, page, ended, meddled>>

\* the gate holds it: reported, and the next decision is taken
Held(n) ==
  /\ Turn(n) /\ Decided(n) = "approved" /\ row[n] # "posted" /\ Told(n)
  /\ UNCHANGED <<books, page, ended, meddled>>

\* rejectProposal does not look at the status
ApplyRejected(n) ==
  /\ Turn(n) /\ Decided(n) = "rejected" /\ Done(n)
  /\ row' = [row EXCEPT ![n] = "rejected"]
  /\ UNCHANGED <<billed, noted, page, ended, meddled>>

EndApply ==
  /\ cli # None /\ cli.left = {} /\ cli' = None
  /\ ended' = IF cli.at = "on" THEN cli ELSE None
  /\ UNCHANGED <<books, page, meddled>>

\* the dry-run lock, a connector that is missing, a statement that fails: the rest
\* of the file is not applied and nothing is counted
Throws == /\ cli # None /\ cli.left # {} /\ cli' = None
          /\ UNCHANGED <<books, page, ended, meddled>>
----------------------------------------------------------------------------
(* Others *)

Repropose(n, status) == /\ Spend /\ row' = [row EXCEPT ![n] = status]
                        /\ UNCHANGED <<billed, noted, page>>

QueuePosts(n) ==
  /\ Spend /\ row[n] = "ready" /\ n \notin billed
  /\ billed' = billed \cup {n} /\ row' = [row EXCEPT ![n] = "posted"]
  /\ UNCHANGED <<noted, page>>

PersonRejects(n) == /\ Spend /\ row' = [row EXCEPT ![n] = "rejected"]
                    /\ UNCHANGED <<billed, noted, page>>

Next ==
  \/ Snapshot \/ BeginApply \/ EndApply \/ Throws
  \/ \E t \in Tabs : \/ \E k \in DOMAIN packets, b \in BOOLEAN : OpenPage(t, k, b)
                     \/ \E n \in Rows, v \in {"approved", "rejected"} : SetDecision(t, n, v)
                     \/ ClosePage(t) \/ Export(t)
  \/ \E n \in Rows : \/ Pass(n) \/ ApplyApproved(n) \/ Duplicate(n) \/ Held(n)
                     \/ ApplyRejected(n)
                     \/ QueuePosts(n) \/ PersonRejects(n)
                     \/ \E s \in Open : Repropose(n, s)

Spec == Init /\ [][Next]_vars
----------------------------------------------------------------------------
(* Properties *)

TypeOK ==
  /\ row \in [Rows -> Open \cup {"posted", "rejected"}] /\ billed \subseteq Rows
  /\ noted \subseteq Rows
  /\ \A k \in DOMAIN packets : packets[k] \subseteq Rows
  /\ \A t \in Tabs : tab[t].run \in 0..Len(packets)
  /\ cli.left \subseteq Rows /\ cli.told \subseteq Rows /\ meddled \in 0..Meddling

\* An exported decision was clicked on a page of its own run, whatever other pages,
\* earlier packets and the browser's storage hold (build-review-dashboard.mjs:305-327).
OwnDecisions ==
  \A f \in files : \A n \in Rows :
     f.chosen[n] # "pending" => <<f.run, n, f.chosen[n]>> \in clicked

\* After an application that ended, and before anybody else acts, an approved
\* proposal has its bill, was reported or has its exception, and a rejected one is
\* rejected (apply-decisions.ts:84-126, posting.ts:185-186, 277-279).
AppliedInFull ==
  \A n \in Rows :
     /\ ended.chosen[n] = "approved" => n \in billed \cup ended.told \cup noted
     /\ ended.chosen[n] = "rejected" => row[n] = "rejected"

\* "exits non-zero if any approved item fails to post safely" (SPEC-reviewer-dashboard,
\* line 51): an approved proposal without a bill is reported.
ApprovedOrReported ==
  \A n \in Rows : ended.chosen[n] = "approved" => n \in billed \cup ended.told

\* A reviewer's decisions are the reviewer's and take effect.
ReviewHolds == OwnDecisions /\ AppliedInFull
=============================================================================
