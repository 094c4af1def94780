------------------------------ MODULE Mailroom ------------------------------
(***************************************************************************)
(* The mailbox poll (src/ingest/poll-cycle.ts, repo.ts, gmail/adapter.ts)  *)
(* and the gatekeeper that scans a mail and forwards it to the capture     *)
(* address or holds it (src/gatekeeper, src/services/reply.ts).            *)
(*                                                                         *)
(* One worker runs the poll jobs and one the gatekeep jobs, beside a       *)
(* person who releases held mails.  Between two steps the process may die; *)
(* the queue hands its job out again.                                      *)
(***************************************************************************)
EXTENDS Integers, FiniteSets, Sequences, SequencesExt

CONSTANTS Mails,      \* mails that reach the mailbox, numbered as they arrive
          Papers,     \* attachments, by their hash
          Loads,      \* sets of them that a mail may carry
          Oversized,  \* those of them above MAX_ATTACHMENT_BYTES
          Recent,     \* mails of the one answer of messages.list (maxResults)
          Page,       \* records of one answer of Gmail's history.list
          FirstPolls, \* whether the mailbox was never polled: BOOLEAN or less
          Releases,   \* clicks on the release of one mail
          Deaths

VARIABLES carries,    \* the attachments of each mail
          arrived,    \* mails in Gmail
          cursor,     \* tenants.gmail_history_id, None before the first poll
          poll,       \* the poll job: what it listed and how far it is
          stored,     \* rows of messages
          owner,      \* attachments: hash -> its one row's message
          sentJobs,   \* <<job, mail>> handed to the queue
          gateDone,   \* gatekeep jobs that ended
          forwards,   \* rows of forwards: key -> [mail, status]
          gate,       \* the gatekeep job: mail and statement
          clerk,      \* the person's release: key and statement
          clean,      \* attachments a scan found clean
          unlisted,   \* mails Gmail counted in a history id and did not list
          released,   \* how often a person released each mail
          copies,     \* copies of each mail in the capture address
          deaths

vars == <<carries, arrived, cursor, poll, stored, owner, sentJobs, gateDone,
          forwards, gate, clerk, clean, unlisted, released, copies,
          deaths>>
mailbox == <<carries, arrived>>
intake == <<cursor, poll, stored, owner, sentJobs, unlisted>>
relay == <<gateDone, forwards, gate, clerk, clean, released, copies>>

None == -1
Idle == [at |-> "idle", list |-> <<>>, upto |-> None]
NoJob == [at |-> "idle", mail |-> 0]
NoClick == [at |-> "idle", key |-> {}]
Messages == 1..Mails

Init ==
  /\ carries \in [Messages -> Loads]
  /\ arrived = 0
  /\ \E first \in FirstPolls : cursor = IF first THEN None ELSE 0
  /\ poll = Idle /\ stored = {} /\ owner = <<>> /\ sentJobs = {} /\ gateDone = {}
  /\ forwards = <<>> /\ gate = NoJob /\ clerk = NoClick /\ clean = {}
  /\ unlisted = {} /\ released = [m \in Messages |-> 0] /\ copies = [m \in Messages |-> 0] /\ deaths = 0
----------------------------------------------------------------------------
(* Gmail *)

Arrive == /\ arrived < Mails /\ arrived' = arrived + 1
          /\ UNCHANGED <<carries, deaths, intake, relay>>

\* messages.list of the first poll, the newest first and no second page, before
\* getProfile tells the history id
ListRecent ==
  /\ poll.at = "idle" /\ cursor = None
  /\ LET listed == IF arrived < Recent THEN arrived ELSE Recent
     IN  poll' = [at |-> "profile", upto |-> None,
                  list |-> [n \in 1..listed |-> arrived + 1 - n]]
  /\ UNCHANGED <<unlisted, cursor, stored, owner, sentJobs, deaths, mailbox, relay>>

GetProfile ==
  /\ poll.at = "profile"
  /\ poll' = [poll EXCEPT !.at = "next", !.upto = arrived]
  /\ unlisted' = unlisted \cup (1..arrived \ ToSet(poll.list))
  /\ UNCHANGED <<cursor, stored, owner, sentJobs, deaths, mailbox, relay>>

\* history.list: one page of what came since, and the id of now
ListHistory ==
  /\ poll.at = "idle" /\ cursor # None
  /\ LET listed == IF arrived - cursor < Page THEN arrived - cursor ELSE Page
     IN  /\ poll' = [at |-> "next", upto |-> arrived,
                     list |-> [n \in 1..listed |-> cursor + n]]
         /\ unlisted' = unlisted \cup (cursor + listed + 1)..arrived
  /\ UNCHANGED <<cursor, stored, owner, sentJobs, deaths, mailbox, relay>>
----------------------------------------------------------------------------
(* The poll cycle *)

\* an attachment that is too large is never fetched, nor stored
Fetched(m) == carries[m] \ Oversized

\* every mail of the list in one transaction
PersistPage ==
  /\ poll.at = "next" /\ poll.list # <<>>
  /\ LET new == ToSet(poll.list) \ stored
         Bearer(p) == CHOOSE m \in new : p \in Fetched(m)
     IN  IF Head(poll.list) \in stored
         THEN poll' = [poll EXCEPT !.list = Tail(@)] /\ UNCHANGED <<stored, owner>>
         ELSE /\ stored' = stored \cup new
              /\ owner' = [p \in DOMAIN owner \cup UNION {Fetched(m) : m \in new} |->
                             IF p \in DOMAIN owner THEN owner[p] ELSE Bearer(p)]
              /\ poll' = [poll EXCEPT !.at = "classify"]
  /\ UNCHANGED <<unlisted, cursor, sentJobs, deaths, mailbox, relay>>

\* getMessage, then persistMessage in one transaction: a known mail is skipped,
\* an attachment known by its hash keeps the row of the mail it first came with
Persist ==
  /\ poll.at = "next" /\ poll.list # <<>>
  /\ LET m == Head(poll.list) IN
       IF m \in stored
         THEN /\ poll' = [poll EXCEPT !.list = Tail(@)]
              /\ UNCHANGED <<stored, owner>>
         ELSE /\ stored' = stored \cup {m}
              /\ owner' = [p \in DOMAIN owner \cup Fetched(m) |->
                             IF p \in DOMAIN owner THEN owner[p] ELSE m]
              /\ poll' = [poll EXCEPT !.at = "classify"]
  /\ UNCHANGED <<unlisted, cursor, sentJobs, deaths, mailbox, relay>>

\* Gmail refuses (the token, or a mail deleted since it was listed, which it
\* refuses in every later cycle too): the cycle ends, the history id stays
FetchFails ==
  /\ poll.at = "next" /\ poll.list # <<>>
  /\ poll' = Idle
  /\ UNCHANGED <<unlisted, cursor, stored, owner, sentJobs, deaths, mailbox, relay>>

Send(job, from, to) ==
  /\ poll.at = from
  /\ sentJobs' = sentJobs \cup {<<job, Head(poll.list)>>}
  /\ poll' = [poll EXCEPT !.at = to,
                          !.list = IF to = "next" THEN Tail(@) ELSE @]
  /\ UNCHANGED <<unlisted, cursor, stored, owner, deaths, mailbox, relay>>

SendClassify == Send("classify", "classify", "gatekeep")
SendGatekeep == Send("gatekeep", "gatekeep", "next")

SaveCursorEarly ==
  /\ poll.at = "next" /\ cursor' = poll.upto
  /\ poll' = IF poll.list = <<>> THEN Idle ELSE poll
  /\ UNCHANGED <<unlisted, stored, owner, sentJobs, deaths, mailbox, relay>>

SaveCursor ==
  /\ poll.at = "next" /\ poll.list = <<>>
  /\ cursor' = poll.upto /\ poll' = Idle
  /\ UNCHANGED <<unlisted, stored, owner, sentJobs, deaths, mailbox, relay>>
----------------------------------------------------------------------------
(* The gatekeeper *)

Enclosed(m) == {p \in DOMAIN owner : owner[p] = m}
KeyOf(m) == IF Enclosed(m) = {} THEN {m} ELSE Enclosed(m)
SetStatus(k, s) == [forwards EXCEPT ![k].status = s]
GateGoes(to) == gate' = [gate EXCEPT !.at = to]
GateEnds == gate' = NoJob /\ gateDone' = gateDone \cup {gate.mail}

\* upsertForwardIntent
Intent ==
  /\ gate.at = "idle"
  /\ \E m \in Messages :
       /\ <<"gatekeep", m>> \in sentJobs /\ m \notin gateDone
       /\ LET k == KeyOf(m) IN
          \/ /\ k \notin DOMAIN forwards
             /\ forwards' = [x \in DOMAIN forwards \cup {k} |->
                  IF x = k THEN [mail |-> m, status |-> "scanning"] ELSE forwards[x]]
             /\ gate' = [at |-> "scan", mail |-> m] /\ UNCHANGED gateDone
          \/ /\ k \in DOMAIN forwards /\ UNCHANGED forwards
             /\ IF forwards[k].status \in {"forwarded", "held"}
                  THEN gateDone' = gateDone \cup {m} /\ UNCHANGED gate
                  ELSE gate' = [at |-> "scan", mail |-> m] /\ UNCHANGED gateDone
  /\ UNCHANGED <<clerk, clean, released, copies, deaths, mailbox, intake>>

\* InvoiceProof answers; nothing attached, a finding or no answer hold the mail
ScanHolds ==
  /\ gate.at = "scan" /\ GateEnds
  /\ forwards' = SetStatus(KeyOf(gate.mail), "held")
  /\ UNCHANGED <<clerk, clean, released, copies, deaths, mailbox, intake>>

\* a body-only mail is forwarded like the others
ScanCleanAny ==
  /\ gate.at = "scan"
  /\ clean' = clean \cup Enclosed(gate.mail)
  /\ GateGoes("forward")
  /\ forwards' = SetStatus(KeyOf(gate.mail), "forwarding")
  /\ UNCHANGED <<gateDone, clerk, released, copies, deaths, mailbox, intake>>

ScanClean ==
  /\ gate.at = "scan" /\ Enclosed(gate.mail) # {}
  /\ clean' = clean \cup Enclosed(gate.mail) /\ GateGoes("forward")
  /\ forwards' = SetStatus(KeyOf(gate.mail), "forwarding")
  /\ UNCHANGED <<gateDone, clerk, released, copies, deaths, mailbox, intake>>

ForwardEach ==
  /\ gate.at = "forward" /\ GateGoes("forwarded")
  /\ copies' = [copies EXCEPT ![gate.mail] = @ + Cardinality(Enclosed(gate.mail))]
  /\ UNCHANGED <<gateDone, forwards, clerk, clean, released, deaths, mailbox, intake>>

Forward ==
  /\ gate.at = "forward" /\ GateGoes("forwarded")
  /\ copies' = [copies EXCEPT ![gate.mail] = @ + 1]
  /\ UNCHANGED <<gateDone, forwards, clerk, clean, released, deaths, mailbox, intake>>

RecordForward ==
  /\ gate.at = "forwarded" /\ GateEnds
  /\ forwards' = SetStatus(KeyOf(gate.mail), "forwarded")
  /\ UNCHANGED <<clerk, clean, released, copies, deaths, mailbox, intake>>

\* Gmail refuses, or the answer is lost after the mail went
ForwardFails ==
  /\ gate.at = "forward" /\ deaths < Deaths /\ deaths' = deaths + 1
  /\ copies' \in {copies, [copies EXCEPT ![gate.mail] = @ + 1]}
  /\ GateEnds /\ forwards' = SetStatus(KeyOf(gate.mail), "failed")
  /\ UNCHANGED <<clerk, clean, released, mailbox, intake>>
----------------------------------------------------------------------------
(* sendReply: the person releases a forward; its status is not asked for *)

BeginRelease ==
  /\ clerk.at = "idle"
  /\ \E k \in DOMAIN forwards :
       /\ released[forwards[k].mail] < Releases
       /\ clerk' = [at |-> "send", key |-> k]
       /\ released' = [released EXCEPT ![forwards[k].mail] = @ + 1]
  /\ UNCHANGED <<gateDone, forwards, gate, clean, copies, deaths, mailbox, intake>>

Release ==
  /\ clerk.at = "send" /\ clerk' = [clerk EXCEPT !.at = "record"]
  /\ copies' = [copies EXCEPT ![forwards[clerk.key].mail] = @ + 1]
  /\ UNCHANGED <<gateDone, forwards, gate, clean, released, deaths, mailbox, intake>>

RecordRelease ==
  /\ clerk.at = "record" /\ clerk' = NoClick
  /\ forwards' = SetStatus(clerk.key, "forwarded")
  /\ UNCHANGED <<gateDone, gate, clean, released, copies, deaths, mailbox, intake>>

\* the process dies; the jobs are handed out again at the next start
Dies ==
  /\ deaths < Deaths /\ deaths' = deaths + 1
  /\ poll' = Idle /\ gate' = NoJob /\ clerk' = NoClick
  /\ UNCHANGED <<mailbox, cursor, stored, owner, sentJobs, unlisted, gateDone,
                 forwards, clean, released, copies>>

Cycle == ListRecent \/ GetProfile \/ ListHistory \/ Persist \/ FetchFails
         \/ SendClassify \/ SendGatekeep \/ SaveCursor
Gatekeeper == Intent \/ ScanHolds \/ ScanClean \/ Forward \/ RecordForward
              \/ ForwardFails
Person == BeginRelease \/ Release \/ RecordRelease

Next == Arrive \/ Cycle \/ Gatekeeper \/ Person \/ Dies

Spec == Init /\ [][Next]_vars
----------------------------------------------------------------------------
(* Properties *)

TypeOK ==
  /\ arrived \in 0..Mails /\ cursor \in None..Mails
  /\ unlisted \subseteq Messages /\ clean \subseteq Papers
  /\ poll.at \in {"idle", "profile", "next", "classify", "gatekeep"}
  /\ stored \subseteq Messages /\ DOMAIN owner \subseteq Papers
  /\ gate.at \in {"idle", "scan", "forward", "forwarded"}
  /\ clerk.at \in {"idle", "send", "record"}
  /\ \A k \in DOMAIN forwards :
       forwards[k].status \in {"scanning", "held", "forwarding", "forwarded", "failed"}

\* What the history id has passed is stored wherever a cycle dies, but for the mails
\* no page that was read had listed (poll-cycle.ts:55-91, adapter.ts:59-80).
PassedIsStored == \A m \in 1..cursor : m \in stored \cup unlisted

\* A mail leaves only by a person's release, or after a clean scan of something it
\* carries and of everything else it carries too, save what the gatekeeper cannot see:
\* an attachment too large to fetch, and one whose row is another mail's
\* (gatekeep.ts:58-64, 95-151, adapter.ts:97-106, repo.ts:82-100).
Unseen(m) ==
  {p \in carries[m] : p \in Oversized \/ (p \in DOMAIN owner /\ owner[p] # m)}
OnlyCleanLeaves ==
  \A m \in Messages : copies[m] > 0 =>
     released[m] > 0 \/ (Enclosed(m) # {} /\ carries[m] \subseteq clean \cup Unseen(m))

\* A row that says forwarded names a mail that left (gatekeep.ts:139-141).
ForwardedLeft ==
  \A k \in DOMAIN forwards : forwards[k].status = "forwarded" => copies[forwards[k].mail] > 0

\* A stored mail has both its jobs unless the cycle is about to send them or a death
\* came between: a later poll finds it known and sends none (poll-cycle.ts:68-79).
InHand == IF poll.at \in {"classify", "gatekeep"} THEN {Head(poll.list)} ELSE {}
Jobless ==
  {m \in stored \ InHand : ~({<<"classify", m>>, <<"gatekeep", m>>} \subseteq sentJobs)}
FewJobsLost == Cardinality(Jobless) <= deaths

\* A mail leaves once for the gatekeeper and once for each release, and once more only
\* for a death or a failure after it left (gatekeep.ts:135-151, reply.ts:54-62).
FewCopies == \A m \in Messages : copies[m] <= 1 + deaths + released[m]

\* What a death or an outage costs is one mail its jobs and one mail a second copy.
DeathsCostOne == FewJobsLost /\ FewCopies

\* The relay tells the truth about every mail, leaks none and loses little.
RelayHolds == PassedIsStored /\ OnlyCleanLeaves /\ ForwardedLeft /\ DeathsCostOne

\* Gatekeeper: "never forward-unscanned" (gatekeep.ts:19).
UnscannedNeverLeaves ==
  \A m \in Messages : copies[m] > 0 => released[m] > 0 \/ carries[m] \subseteq clean

\* "exactly one forward, ever" (03_phase0.5-gatekeeper-spec.md:52).
ForwardedOnce == \A m \in Messages : copies[m] <= 1

\* "each new message enqueues a `classify` job" (poll-cycle.ts:10-11).
NewMailIsClassified == \A m \in 1..cursor : <<"classify", m>> \in sentJobs
=============================================================================
