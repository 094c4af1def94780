----------------------------- MODULE ReplyDrafts -----------------------------
(***************************************************************************)
(* Reply drafts for one source message.                                    *)
(*                                                                         *)
(* src/reply-drafts/service.ts keeps a row of reply_drafts beside a draft  *)
(* in the person's Gmail.  Every operation is one or two statements with   *)
(* Gmail calls between them and no lock across them.  A call to Gmail may  *)
(* fail for sure, or fail so that nobody knows whether it was executed or  *)
(* will be (a timeout, 429, 5xx); the person works in Gmail meanwhile.     *)
(*                                                                         *)
(* sent_external is no status a row ever gets here: the client of          *)
(* src/gmail/drafts.ts projects every draft it can read as "created", and  *)
(* a draft that was sent is no draft any more (404).                       *)
(***************************************************************************)
EXTENDS Naturals, Sequences, FiniteSets

CONSTANTS
  Workers,     \* requests that may be under way at once
  Copies,      \* subject and body of a draft
  NoCopy,
  Faults,      \* the kinds of fault that happen: "lost", "read", "create refused"
               \* and "update refused" for sure, "crash", "crash while proposed"
  MaxFaults,   \* bound: how many happen
  MaxRows,     \* bound: rows created for the message
  MaxDrafts    \* bound: drafts created in Gmail

VARIABLES
  rows,    \* reply_drafts of the message, by id: status, gmail_draft_id, copy
  latest,  \* the row that was updated last
  drafts,  \* the drafts created in Gmail: their state and copy
  wire,    \* calls that create or update and are not executed yet
  op,      \* the requests: where they are and what they hold
  faults,  \* faults so far
  unsure   \* history: rows an update of whose draft was lost

vars == <<rows, latest, drafts, wire, op, faults, unsure>>
db == <<rows, latest>>
gmail == <<drafts, wire>>

(* Mutant: the index of migration 008, before result_unknown was added to it. *)
ActiveBefore010 == {"proposed", "created", "updated"}
Active == {"proposed", "result_unknown", "created", "updated"}
Steps == {"idle", "reconcile", "prepare", "send", "wait", "persist", "mark", "delete", "close"}

Idle == [step |-> "idle", row |-> 0, gid |-> 0, copy |-> NoCopy, then |-> "idle", as |-> "created"]
At(w, s) == op[w].step = s
Row(w) == rows[op[w].row]
Live(g) == g \in DOMAIN drafts /\ drafts[g].state = "live"
Unknown(r) == rows[r].status = "result_unknown"

Init ==
  /\ rows = <<>> /\ latest = 0
  /\ drafts = <<>> /\ wire = {}
  /\ op = [w \in Workers |-> Idle]
  /\ faults = 0 /\ unsure = {}

GoTo(w, s) == op' = [op EXCEPT ![w].step = s]
End(w) == op' = [op EXCEPT ![w] = Idle]
Fault(kind) == kind \in Faults /\ faults < MaxFaults /\ faults' = faults + 1
(* Every statement sets updated_at. *)
Write(r, row) == rows' = [rows EXCEPT ![r] = row] /\ latest' = r

(***************************************************************************)
(* Create and update.                                                      *)
(***************************************************************************)
(* One transaction: no row of the message is active, and the new one is.     *)
StartCreate(w, c) ==
  /\ At(w, "idle") /\ Len(rows) < MaxRows
  /\ \A r \in DOMAIN rows : rows[r].status \notin Active
  /\ rows' = Append(rows, [status |-> "proposed", gid |-> 0, copy |-> c])
  /\ latest' = Len(rows')
  /\ op' = [op EXCEPT ![w] = [Idle EXCEPT !.step = "send", !.row = Len(rows'), !.copy = c]]
  /\ UNCHANGED <<gmail, faults, unsure>>

(* Mutant: the copy is stored before the unknown result is looked into. *)
StartUpdateStored(w, r, c) ==
  /\ At(w, "idle") /\ rows[r].status \in Active
  /\ Write(r, [rows[r] EXCEPT !.copy = c])
  /\ op' = [op EXCEPT ![w] =
       [step |-> IF Unknown(r) THEN "reconcile" ELSE "prepare", row |-> r,
        gid |-> rows[r].gid, copy |-> c, then |-> "prepare", as |-> "updated"]]
  /\ UNCHANGED <<gmail, faults, unsure>>
(* The row is read once; the request works on that copy until it prepares.   *)
StartUpdate(w, r, c) ==
  /\ At(w, "idle") /\ rows[r].status \in Active
  /\ op' = [op EXCEPT ![w] =
       [step |-> IF Unknown(r) THEN "reconcile" ELSE "prepare", row |-> r,
        gid |-> rows[r].gid, copy |-> c, then |-> "prepare", as |-> "updated"]]
  /\ UNCHANGED <<db, gmail, faults, unsure>>

(* An unknown result is looked up in Gmail first: the known draft, or any    *)
(* draft of the conversation that carries the marker.  Without one nothing   *)
(* is changed, and a read answers with the row as it is.                     *)
Reconcile(w) ==
  /\ At(w, "reconcile")
  /\ \/ /\ op[w].gid # 0 /\ Live(op[w].gid) /\ GoTo(w, op[w].then) /\ UNCHANGED faults
     \/ /\ op[w].gid = 0 /\ UNCHANGED faults
        /\ \E g \in DOMAIN drafts :
             Live(g) /\ op' = [op EXCEPT ![w].step = op[w].then, ![w].gid = g]
     \/ /\ IF op[w].gid # 0 THEN ~Live(op[w].gid) ELSE \A g \in DOMAIN drafts : ~Live(g)
        /\ End(w) /\ UNCHANGED faults
     \/ Fault("read") /\ End(w)
  /\ UNCHANGED <<db, gmail, unsure>>

(* The new copy is stored; without a draft to update, one will be created.   *)
Prepare(w) ==
  /\ At(w, "prepare")
  /\ IF Row(w).status \in Active
     THEN /\ Write(op[w].row, [Row(w) EXCEPT !.status = "proposed", !.copy = op[w].copy])
          /\ op' = [op EXCEPT ![w].step = "send",
                              ![w].gid = IF @ # 0 THEN @ ELSE Row(w).gid]
     ELSE End(w) /\ UNCHANGED db
  /\ UNCHANGED <<gmail, faults, unsure>>

Call(w) == [from |-> w, gid |-> op[w].gid, copy |-> op[w].copy, late |-> 0]
(* A call that nobody waits for any more, told apart by the fault that cut it off. *)
Abandon(w) ==
  wire' = IF At(w, "wait") THEN (wire \ {Call(w)}) \cup {[Call(w) EXCEPT !.late = faults']} ELSE wire

Send(w) ==
  /\ At(w, "send") /\ GoTo(w, "wait") /\ wire' = wire \cup {Call(w)}
  /\ UNCHANGED <<db, drafts, faults, unsure>>

(* No client, no compose scope, or an answer that refuses the call for sure. *)
Refuse(w) ==
  /\ At(w, "send") /\ End(w)
  /\ Fault(IF op[w].gid = 0 THEN "create refused" ELSE "update refused")
  /\ UNCHANGED <<db, gmail, unsure>>

(* Gmail executes a create and answers with the draft.                       *)
ExecuteCreate(c) ==
  /\ c \in wire /\ c.gid = 0 /\ wire' = wire \ {c}
  /\ Len(drafts) < MaxDrafts /\ drafts' = Append(drafts, [state |-> "live", copy |-> c.copy])
  /\ op' = IF c.late # 0 THEN op
           ELSE [op EXCEPT ![c.from].step = "persist", ![c.from].gid = Len(drafts')]
  /\ UNCHANGED <<db, faults, unsure>>

(* An update of a draft that is no more is refused, and the request ends.    *)
ExecuteUpdate(c) ==
  /\ c \in wire /\ c.gid # 0 /\ wire' = wire \ {c}
  /\ drafts' = IF Live(c.gid) THEN [drafts EXCEPT ![c.gid].copy = c.copy] ELSE drafts
  /\ op' = CASE c.late # 0 -> op
             [] c.late = 0 /\ Live(c.gid) -> [op EXCEPT ![c.from].step = "persist"]
             [] c.late = 0 /\ ~Live(c.gid) -> [op EXCEPT ![c.from] = Idle]
  /\ UNCHANGED <<db, faults, unsure>>

(* The statement names the row by its id alone; only the unique index on the *)
(* active row of a message can refuse it.                                    *)
Persist(w) ==
  /\ At(w, "persist") /\ End(w)
  /\ IF \E r \in DOMAIN rows \ {op[w].row} : rows[r].status \in Active
     THEN UNCHANGED db
     ELSE Write(op[w].row, [Row(w) EXCEPT !.status = op[w].as, !.gid = op[w].gid])
  /\ UNCHANGED <<gmail, faults, unsure>>

Lose(w) ==
  /\ At(w, "wait") /\ Fault("lost") /\ Abandon(w) /\ GoTo(w, "mark")
  /\ unsure' = IF op[w].gid # 0 THEN unsure \cup {op[w].row} ELSE unsure
  /\ UNCHANGED <<db, drafts>>

(* Mutant: the row is left as proposed. *)
MarkNothing(w) == At(w, "mark") /\ End(w) /\ UNCHANGED <<db, gmail, faults, unsure>>
MarkUnknown(w) ==
  /\ At(w, "mark") /\ End(w)
  /\ IF Row(w).status = "proposed"
     THEN Write(op[w].row, [Row(w) EXCEPT !.status = "result_unknown"])
     ELSE UNCHANGED db
  /\ UNCHANGED <<gmail, faults, unsure>>

(***************************************************************************)
(* Discard and read.                                                       *)
(***************************************************************************)
(* Mutant: an unknown result is not looked into. *)
StartDiscardAnyway(w, r) ==
  /\ At(w, "idle") /\ rows[r].status \in Active
  /\ op' = [op EXCEPT ![w] = [Idle EXCEPT !.step = IF rows[r].gid = 0 THEN "close" ELSE "delete",
                                          !.row = r, !.gid = rows[r].gid]]
  /\ UNCHANGED <<db, gmail, faults, unsure>>
StartDiscard(w, r) ==
  /\ At(w, "idle") /\ rows[r].status \in Active
  /\ op' = [op EXCEPT ![w] =
       [Idle EXCEPT !.step = CASE rows[r].gid # 0 -> "delete"
                               [] rows[r].gid = 0 /\ Unknown(r) -> "reconcile"
                               [] rows[r].gid = 0 /\ ~Unknown(r) -> "close",
                    !.row = r, !.gid = rows[r].gid, !.then = "delete"]]
  /\ UNCHANGED <<db, gmail, faults, unsure>>

(* The draft is looked up and deleted; 404 ends the request, also when the   *)
(* deletion was repeated because the answer to the first one was lost.       *)
Delete(w) ==
  /\ At(w, "delete")
  /\ \/ Live(op[w].gid) /\ drafts' = [drafts EXCEPT ![op[w].gid].state = "deleted"]
        /\ GoTo(w, "close") /\ UNCHANGED faults
     \/ Live(op[w].gid) /\ drafts' = [drafts EXCEPT ![op[w].gid].state = "deleted"]
        /\ End(w) /\ Fault("lost")
     \/ ~Live(op[w].gid) /\ End(w) /\ UNCHANGED <<drafts, faults>>
     \/ Fault("read") /\ End(w) /\ UNCHANGED drafts
  /\ UNCHANGED <<db, wire, unsure>>

Close(w) ==
  /\ At(w, "close") /\ End(w)
  /\ IF Row(w).status \in Active
     THEN Write(op[w].row, [Row(w) EXCEPT !.status = "discarded"]) ELSE UNCHANGED db
  /\ UNCHANGED <<gmail, faults, unsure>>

(* A read of the message looks at the row that was updated last.  Only an    *)
(* unknown result can change by it.                                          *)
StartRead(w) ==
  /\ At(w, "idle") /\ latest # 0 /\ Unknown(latest)
  /\ op' = [op EXCEPT ![w] =
       [step |-> "reconcile", row |-> latest, gid |-> rows[latest].gid, copy |-> NoCopy,
        then |-> "persist", as |-> IF rows[latest].gid = 0 THEN "created" ELSE "updated"]]
  /\ UNCHANGED <<db, gmail, faults, unsure>>

(* The process dies or a statement fails; a call that was sent stays sent.   *)
Crash(w) ==
  /\ ~At(w, "idle") /\ End(w)
  /\ Fault(IF Row(w).status = "proposed" THEN "crash while proposed" ELSE "crash")
  /\ Abandon(w)
  /\ UNCHANGED <<db, drafts, unsure>>

(* The person sends the draft, or throws it away, in Gmail.                  *)
Human(g, s) ==
  /\ Live(g) /\ drafts' = [drafts EXCEPT ![g].state = s]
  /\ UNCHANGED <<db, wire, op, faults, unsure>>

Request(w) ==
  \/ \E c \in Copies : StartCreate(w, c)
  \/ \E r \in DOMAIN rows, c \in Copies : StartUpdate(w, r, c)
  \/ \E r \in DOMAIN rows : StartDiscard(w, r)
  \/ StartRead(w)

Step(w) ==
  \/ Reconcile(w) \/ Prepare(w) \/ Send(w) \/ Refuse(w) \/ Persist(w)
  \/ Lose(w) \/ MarkUnknown(w) \/ Delete(w) \/ Close(w)

Next ==
  \/ \E w \in Workers : Request(w) \/ Step(w) \/ Crash(w)
  \/ \E c \in wire : ExecuteCreate(c) \/ ExecuteUpdate(c)
  \/ \E g \in DOMAIN drafts, s \in {"sent", "deleted"} : Human(g, s)

Spec == Init /\ [][Next]_vars

(***************************************************************************)
(* Properties.  The first one holds for any number of concurrent requests; *)
(* the others are what holds while a message is worked on by one request   *)
(* at a time, no update is refused for sure and no request dies while its  *)
(* row says proposed: such a row does not tell that a draft may exist.     *)
(***************************************************************************)
(* Rows, drafts and requests have the values their schemas allow, and a      *)
(* message never has two rows that are neither discarded nor sent.           *)
TypeOK ==
  /\ rows \in Seq([status : Active \cup {"discarded"}, gid : 0 .. MaxDrafts, copy : Copies])
  /\ Len(rows) <= MaxRows /\ latest \in 0 .. Len(rows)
  /\ \A r, s \in DOMAIN rows :
       rows[r].status # "discarded" /\ rows[s].status # "discarded" => r = s
  /\ drafts \in Seq([state : {"live", "sent", "deleted"}, copy : Copies])
  /\ Len(drafts) <= MaxDrafts
  /\ wire \subseteq [from : Workers, gid : 0 .. MaxDrafts, copy : Copies, late : 0 .. MaxFaults]
  /\ op \in [Workers -> [step : Steps, row : 0 .. MaxRows, gid : 0 .. MaxDrafts,
                         copy : Copies \cup {NoCopy}, then : Steps,
                         as : {"created", "updated"}]]
  /\ faults \in 0 .. MaxFaults /\ unsure \subseteq DOMAIN rows

LiveDrafts == {g \in DOMAIN drafts : Live(g)}
Busy(r) == \E w \in Workers : op[w].row = r

(* A conversation has one draft: drafts that exist and creates that may      *)
(* still be executed are never two, whatever is lost, refused and repeated.  *)
OneLiveDraft == Cardinality(LiveDrafts) + Cardinality({c \in wire : c.gid = 0}) <= 1

(* No draft is left in Gmail that the hub has forgotten: while no request is *)
(* at work the active row names it, or waits to find it by its marker.       *)
DraftIsHeld ==
  \A g \in LiveDrafts : \E r \in DOMAIN rows :
    rows[r].status \in Active /\ (Busy(r) \/ rows[r].gid = g \/ Unknown(r))

(* What the hub shows as written is what stands in Gmail, also when a create *)
(* was only found again after later attempts to change it; only an update    *)
(* whose answer was lost leaves it open which copy Gmail has.                *)
ShownCopyIsInGmail ==
  \A r \in DOMAIN rows \ unsure :
    rows[r].status \in {"created", "updated"} /\ Live(rows[r].gid) /\ ~Busy(r)
      => drafts[rows[r].gid].copy = rows[r].copy

(* The three together.                                                       *)
DraftsHold == OneLiveDraft /\ DraftIsHeld /\ ShownCopyIsInGmail
=============================================================================
