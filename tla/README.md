# A TLA+ model of ap-hub

ap-hub ("BookScout OS") is a desktop application that reads a company's mail,
extracts invoices and bank statements, proposes accounting transactions and, when
a person approves one, creates a bill in QuickBooks Desktop, QuickBooks Online or
Xero. It runs as an Electron shell with a private PostgreSQL database, a pg-boss
job queue and a handful of provider clients in one process; QuickBooks Desktop is
reached through the Web Connector, which polls a SOAP endpoint.

These modules model the parts of it where money, mail or history can go wrong and
where a unit test hardly reaches: what happens to a mail, a document, a bill, a
backup or a token when jobs, sessions, people and providers interleave, calls are
lost or executed late, and the process dies. TLC
checks the modules on small instances; TLAPS proves every safety property of the passing
runs for every instance, but for one about two finite tables.

Contents: [inventory](#inventory), [what is modelled](#what-is-modelled),
[runs](#runs), [fairness](#fairness), [findings](#findings), [proofs](#proofs),
[not covered](#what-is-not-covered), [plan](#plan). Paths such as
`src/pipeline/posting.ts` are relative to the repository.

## Inventory

All state that survives a restart is in PostgreSQL, in the operating system's
credential store, in a few files (backups, install file, restore marker) and at the
providers. Components share it through tables; they call each other through the
queue, through services, or through the IPC bridge of the shell.

| Component | State it keeps | Operations | What makes it correct |
|---|---|---|---|
| QuickBooks Desktop jobs (`src/qbdesktop/durable-jobs.ts`, `production.ts`) | `provider_jobs` with leases; leases and pending companies per session in memory | approve, lease, mark sent, settle each stage, hold, probe, adopt, finalize, retry | one bill per proposal through lost answers; one live lease; wrong company files get nothing; no create forgotten |
| Web Connector endpoint (`session.ts`, `soap.ts`) | tickets and one request per session, in memory | authenticate, sendRequestXML, receiveResponseXML, closeConnection | an answer reaches the request it belongs to |
| REST posting (`src/pipeline/posting.ts`, `services/approve.ts`) | `postings_ap`, `proposals`, `reconciliation`, `exceptions` | postOnce from the queue, approve, retry, reject | one bill per proposal; a row names a real bill; interrupted runs are settled |
| Connectors (`src/connectors`, `src/qbo`, `qbdesktop/production.ts`) | none | detectExisting, postBill, attachDocument, readBackVerify, create | a replay of a request id creates nothing; what is adopted or verified is the approved bill |
| Reply drafts (`src/reply-drafts`, `src/gmail/drafts.ts`) | `reply_drafts`; the draft in Gmail | create, update, discard, read | one draft per conversation; shown text is Gmail's text |
| Job queue (`src/queue.ts`, `pipeline/register.ts`) | pg-boss tables | send, work, retry three times | a failed job is run again |
| Mail ingest (`src/ingest`, `pipeline/poll.ts`) | `messages`, `attachments`, history id | poll cycle, persist, enqueue | what the history id has passed is stored, but for what no page listed |
| Gatekeeper (`src/gatekeeper`, `services/reply.ts`) | `forwards` | scan, hold, forward, release | only released mail leaves and mail whose attachments, those the gatekeeper sees, are clean; a row never claims a forward that was not |
| Extraction and proposals (`pipeline/extract.ts`, `pipeline/mapping.ts`, `swarmsync/proof.ts`) | `extractions`, `proof_refs`, `proposals`, exceptions | extract, verify, map, scan, propose, dry run, gate | a billed document has both proofs; no document vanishes |
| Document outbox (`accounting/document-review.ts`) | `classification_dispatches`, `accounting_documents` | stage, classify, dispatch | a document with a kind is never forgotten |
| Statements (`src/statements`) | `bank_statements`, their lines | import, match, exclude, correct, file | filed means balanced and resolved |
| Mapping stores (`src/mapping/*Store.ts`, `services/*Mappings.ts`) | `tax_mappings`, `dimension_mappings`, rules | create, edit, disable, replace, revalidate; accept, choose, correct, reject | a bill carries only what was reviewed, for its own company |
| Review packet (`services/review`, `scripts/build-review-dashboard.mjs`, `cli.ts`) | the page's decisions in the browser's storage, exported files | snapshot, open, decide, export, apply | a decision is applied to what it was made on, or reported |
| Tokens (`src/auth/tokens.ts`, `*-refresh.ts`) | credential store, `credential_refs`, legacy `oauth_tokens` | save, load, refresh, migrate | the token is one of the connected company, but for a refresh that writes an older one back; a cutover never blocks the boot |
| Connect flow (`src/auth/connect-loopback.ts`) | one pending attempt per provider, listeners, timers | start, callback, time out | every listener closes |
| Backups (`src/backup`) | encrypted files, `backups` rows, key | create, verify, prune, restore, export, import | the rotation never prunes the last good backup |
| Write gates and accounts (`connectors/factory.ts`, `services/providerConnections.ts`, `qbo/write.ts`) | `connections` with the owner's gate | connect, list, switch a gate, build a connector | a bill goes to the company that is configured, and unattended never to production |
| Restore and boot (`backup/restore.ts`, `db/local-database.ts`, `db/postgres-runtime.ts`) | databases by name, marker, install file, password, data directory | launch, restore, swap, roll back, recover | some database always holds the data, under the live name after a launch |
| Shell (`desktop/main.ts`) | database handle, engine state, window | start, hand over, pause, quit | the startup screen is left or explained |
| Audit anchor, digest, alerts (`pipeline/audit-anchor.ts`, `swarmsync/client.ts`, `services/digest.ts`) | `proof_refs`, notifications | daily jobs | the recorded proof of a day is its newest; a material exception has its alert unless its request broke off |
| Onboarding (`services/onboarding.ts`) | automation level, dry run | advance, dry run | a locked tenant posts nothing by itself |
| Window and IPC (`app/`, `app/lib/ipc-routes.ts`, `desktop/ipc/registry.ts`) | a page's list, selection and requests under way | load, decide, move on; map a call to a channel, validate, call the service | a call reaches what the page means; an answer settles the row it is about |
| Read services, sign-in, web connect, installers | little or none | request and response | permission checks |

What is hard in this system (`PROJECT.json` lists the hazards that matter most,
each at its line and with the properties that would catch it):

- *calls with unknown outcome*: a create at a provider is lost, times out, or is
  executed after its caller gave up; the durable jobs, `postOnce` and the reply
  drafts each have their own protocol for it;
- *interleaving without locks*: `postOnce` and the draft operations hold no
  transaction across a provider call, so two runs work on what they read earlier;
- *leases*: a slow connector goes on working under a lease that has expired;
- *crashes* between a provider call and the statement that records it, between
  two statements, or between two database renames;
- *people*: reject, retry, re-propose, close the write gate, edit in QuickBooks,
  or send a draft in Gmail while the machinery is at work.

## What is modelled

Twenty-two modules describe the system, five MC modules give TLC its instances, eight
hold the proofs ([proofs](#proofs)).

| Module | Models | Checked in |
|---|---|---|
| PostOnce | the promise of posting (abstract) | as `PostsOnce` in both posting runs |
| ProviderJobs | QuickBooks Desktop through the Web Connector | MCProviderJobs, MCProgress |
| Posting | `postOnce` for QuickBooks Online and Xero | MCPosting, MCProgress |
| ReplyDrafts | the draft of one message in Gmail | MCMachine |
| History | what a restore promises (abstract) | as `RestoresAtOnce` in `machine` |
| LocalDatabase | launch, restore swap, recovery, quit | MCMachine, MCProgress |
| Backups, Rotation | backups, their table, files and key; the retention rule | MCMachine |
| Tokens, ConnectFlow, Shell | OAuth tokens, connecting, the window at start | MCMachine, MCProgress |
| Accounts | connections, owner gates and which company a bill goes to | MCMachine |
| Routes | the two tables of the IPC against the calls of the pages | MCMachine |
| Desk | the exceptions page | MCMachine |
| Mailroom | mail poll, gatekeeper, release | MCOffice |
| Documents | outbox, statements | MCOffice, MCProgress |
| Proposals | extraction, verification, proposal, gate | MCOffice |
| Mappings | tax codes and dimensions, and the gates that read them | MCOffice |
| Bills | what the three connectors send, adopt and read back | MCOffice |
| Review | offline review packet | MCOffice |
| Nights | audit anchor, digest | MCOffice |
| Alerts | material exceptions and their alerts | MCOffice |

The pipeline is cut where one component hands a row to the next, and each module
begins with every row its predecessor can leave: Mailroom sends the classify job
with which Documents begins; Documents sends the extraction with which Proposals
begins; Proposals ends in the gate of a posting (`Bill` is one step there), and
Posting or ProviderJobs split that step at each of its calls.

### PostOnce - the promise

The abstract specification of posting: `created[p]` are the bills the program
created for a proposal, `posted[p]` the bill on record. A proposal gets at most
one bill; a posting is recorded at most once and never changes. Both posting paths
are shown to implement it through `INSTANCE PostOnce WITH ...` (`PostsOnce` in
ProviderJobs and in Posting).

### History - the promise of a restore

The second abstract specification: what the application shows, what the backup holds
and what each restore put aside are three sets of facts. A restore replaces the first by
the second in one step and puts it aside, or it does not happen; what is aside never
changes again. LocalDatabase, whose swap is a copy, a marker and two renames with a death
possible between any two of them, implements it (`AtOnce`): while no database has the
live name, what is shown is what the retired database of the restore under way holds,
and that one counts as put aside when the second rename has been made.

### ProviderJobs - QuickBooks Desktop

| TLA+ | Code |
|---|---|
| `jobs[Key(p, s)]` | the row of `provider_jobs` under the unique idempotency key; the source key names parent and stage, so a job is a proposal and a stage |
| `sess[t]` | `QbwcSession`, the `leases` map and `pendingCompany` of one ticket, in memory |
| `wire[t]` | the request or answer the Web Connector holds |
| `books` | the company files, in order of TxnID |
| `proposal`, `posting`, `gate` | `proposals`, `postings_ap`, the owner's gate in `connections.metadata` |
| `Approve`, `Reject`, `Repropose`, `Retry`, `ToggleGate` | what people do (services, `retry`, write gates) |
| `Authenticate` ... `CompanyDiffers` | the SOAP session up to the company check (`production.ts` onCompany) |
| `LeaseNext`, `LeaseUnrenderable`, `LeaseNothing` | `leaseNext`: one transaction that sweeps expired leases, holds uncertain creates and queues their probes, then leases the oldest job |
| `SendRequest`, `SendRefused` | `markSent` before the request leaves |
| `HearTransportError` ... `HearTooLate` | every way an answer is settled |
| `SessionLost`, `Lose`, `LeaseExpires` | faults |
| `ExecuteQuery`, `ExecuteCreate`, `Refuse`, `HandEnters`, `HandEdits` | QuickBooks and the bookkeeper in it |

A whole transaction is one action, `leaseNext` included, since an advisory lock
serialises it. Times are not modelled: a live lease may expire at any moment.

### Posting - QuickBooks Online and Xero

`postOnce` is one long function; every statement and provider call in it is an
action, and `run[w].step` is the await at which run `w` stands. `Workers` are the
runs that may be under way at once (the queue's job and a person's approve or
retry). `LocalAbsent` ... `LocalUnknown` are the branches on the existing row,
`Recover` the read of a persisted bill, `Probe`/`Adopt`/`Gates` what precedes a
create, `SendCreate`/`Execute`/`Answered`/`CreateFails` the create as a call that
may be executed after the run gave up (`wire`), `ProbeAgain`/`AdoptLate`/
`RecordAmbiguous` what follows a failure, `Persist` ... `Reconcile` the steps after
a success. `Crash` ends a run at any await. A call on the way (`wire`) carries the
request id it was sent under, and the providers honour it: a second create *under the
same id* returns the first bill (`Under`, `Execute`), which is what the connectors send
it for (`src/qbo/write.ts`). What is left to `postOnce` is that all creates of a
proposal go out under one id, through re-proposals, retries and late executions;
`OneBillPerProposal` is violated as soon as one does not (mutant `ReproposeKeyed`).

The key of a proposal is the hash of its attachment, which is unique in the tenant
(`001_init.sql`). `offered`, `cut` and `overtaken` (the proposals whose settled row a
slower run wrote over) are history variables for the properties, read by no action.

### ReplyDrafts - drafts for one message

`rows` is `reply_drafts` of one message, `drafts` Gmail's drafts with the marker,
`wire` the calls on their way, `op[w]` where a request stands. Each operation is
split at its Gmail calls: look-up by marker (`Reconcile`), the statement before
the call (`Prepare`), the call (`Send`, `Refuse`, `ExecuteCreate`,
`ExecuteUpdate`, `Lose`), the statement after it (`Persist`, `MarkUnknown`,
`Close`). `Human` is the person who sends or deletes the draft in Gmail.

### Machine: LocalDatabase, Backups, Rotation, Tokens, ConnectFlow, Shell, Accounts, Routes, Desk

*LocalDatabase*. `at` is the statement the one main process is about to execute;
`dbs` the databases of the cluster by name (live, staging, retired, each with its
restore), `cluster`, `clusterPw`, `sentinel` the data directory, `secret` the
password in the credential store, `marker` and `file` the swap marker and
`install.json`, `server` the PostgreSQL child, which a dead parent does not stop.
The actions are the launch in the order of `startLocalDatabase` (password,
sentinel, initdb, server, swap recovery, create, migrate, identity) and the restore
in the order of `restoreBackup` (staging, fill, marker, two renames, roll back,
settle), each with its failure; `Killed`, `Reboot`, `Quit` and `Spoil` (a file or
credential damaged outside) come at any of them.

*Backups*. `live` is the database together with its own `backups` table, because a
dump contains that table and a restore brings the old one back; `files`, `key`
and `exported` are outside the database. `lock` is `withBackupLock`; a request
(`req`) is split at every await, those that run outside the lock included. An import
inserts its row while a rotation may be at work (`http.ts:343`): `above` remembers that
one came above the backup this rotation has just verified.
*Rotation* is the algorithm of `selectBackupsToPrune` as operators; `RotationPolicy`
compares what it prunes with the rule stated in its comment (`MayGo`).

*Tokens*. `store` is the credential store, `ref` and `legacy` the two rows; a save
is put, check, commit; the boot's cutover is read, put, commit or undo. `accepted`
are the refresh tokens the provider still takes, since each refresh rotates one. A
connect and any number of refreshes overlap at every await; `crossed` remembers that a
refresh wrote back the token of a company the person has connected another one over.
*ConnectFlow*: attempts with their listener, timer and exchange, and the one map
entry `pending`. *Shell*: engine state, window, hand-over timer.

*Accounts*. `conf` is `loadConfig`, fixed for the life of the process; `rows` are the
rows of `connections` with the owner's gate, the one updated last at the end, which is
the order the factory takes them in; `token` the company of each provider's token.
Token and row of a connect are two statements (`SaveToken`, `UpsertConnection`), and a
caller (`runs`) builds its connector in the steps of the factory, each of which may
read a different company: row, write client, read client, name check, create.

*Routes*. `ipc-routes.ts` (path and method to channel) and `registry.ts` (channel to
schema, service request) were written apart and are two tables of the model;
`PageCalls` are the calls of the pages, taken from the pages. There is no behaviour:
`asked` is one of the calls, and `RoutesAgree` follows it through both tables. A value
is a shape (a text, a number, a flag, undefined), which is all the schemas look at.

*Desk*. `excs` is the exceptions table, `status` that of each proposal, `page` the
open page (its list, selection, evidence), `flights` its requests under way, `looks`
its requests for evidence. A page that is left drops its requests: what they still do
is among `Elsewhere`, what the pipeline and other people do. Answers come in any
order and settle the row they were asked about.

### Office: Mailroom, Documents, Proposals, Mappings, Review, Nights, Alerts, Bills

*Mailroom*. `cursor` is the history id, `poll` the cycle's list and place, `owner`
the one row an attachment hash has, `forwards` the relay's rows, `gate` and `clerk`
the gatekeeper and the person's release with the statement each stands at,
`copies` how often a mail reached the capture address, `released` how often a person
released it: the code asks for no status, so a mail that has left can be released again.
What a page of Gmail's answer did not list (`unlisted`: the first listing has at most
`Recent` mails and asks for the history id afterwards, a later one reads one page) and
what the gatekeeper cannot see (`Unseen`: an oversized attachment is not fetched, a known
one keeps the row of its first mail) are where the promises of the documents fail
(`NewMailIsClassified`, `UnscannedNeverLeaves`); `RelayHolds` names exactly these and
nothing else. The code can also
lose a mail's jobs and forward a mail twice; `DeathsCostOne`, a part of `RelayHolds`, says
how much of that there can be: one mail without its jobs for each death, and a copy for
the gatekeeper, one for each release and one for each death or outage.

*Documents*. A document is a paper and a kind, as in the unique key; `outbox` its
dispatch row, `sender[x]` a dispatcher's list and place, `reader` the statement
worker. Whether a statement balances is a choice at each reading or correction.

*Proposals*. Two readings stand for everything the model may answer. `ext`,
`verified`, `outage`, `scanned`, `rows` are the tables; `extractor`, `proposer[x]`,
`poster[x]` the workers, the dry run and the approving person, each at the statement
it stands at.

*Mappings*. One proposal with one tax code and one dimension; `tax` and `dims` are
the tables, `check` and `choice` the calls whose answers are awaited outside any
transaction, `writer[x]` the propose job and the dry run, each between its write of the
proposal, its look-up of the row and its insert. `poster` is a posting run at its four
awaits: it reads the draft, passes the tax gate, passes the dimension gate and sends the
create, while everybody goes on. `verdict`, `word` (what was said last of a code),
`crossed` (the two races that `RejectionHolds` exempts) and the fields of `bill` are
history.

*Review*. `stored` is the browser's storage under the key of a run, `tab` an open
page, `files` what was exported, `cli` the application of a file. An approval ends in a
bill, in either of the two answers *duplicate* (the row is there, or the provider refused
with error 6190 and there is none; the exception it raises is `noted`), or held.

*Nights*. A clock with three hours; jobs are sent at theirs while the application
is up; `wire` and `chain` are submissions under way and executed.

*Alerts*. `raiseException` writes the exception and then the alert. `raising` are its
calls between the two: of the propose job, which the queue hands out again
`Redeliveries` times, and of a person's request (a dry run, a rejection that marks a
duplicate), which nothing repeats. `unsaid` is what broke off for good.

*Bills*. One call of a connector, for each of the three providers: `draft` is the
proposal with its lines and dimensions, `books` the bills of the company, `call` where
the connector stands. What each provider's bill carries on its header and its lines,
what `detectExisting` takes for the same bill and what `readBackVerify` compares are
operators on these records; cents are small integers, compared to within one. QuickBooks
Desktop follows `qbdesktop/production.ts` (its preflight, `billMismatch`) with
`qbdBillInput` of `connectors/qbd.ts`: `createQbdConnector`, whose own query and
comparison differ, has no caller outside the tests (`Probe`, `Preflight`, `BillMismatch`).

## Runs

States are TLC's distinct states, after symmetry where the run uses it. A run that
shows several components side by side (`machine`, `office`, `progress`) exercises in
each behaviour the one the variable `focus` names, so their state spaces add up.

| Run | States | Question and answer |
|---|---|---|
| `jobs_one_proposal` | 225,200 | One bill, two sessions, two company files, every fault, retries of every stage, rejection, re-proposal and a bookkeeper who enters or edits the same bill. At most one bill is created (`PostsOnce`, the refinement of PostOnce), none forgotten (`NoOrphanBill`), none in another company, posting and jobs settle together, an uncertain create only ends by adoption. |
| `jobs_two_sessions` | 122,983 | Two bills, one of which cannot be rendered, two sessions, unreadable answers. One live lease, no create held by two connectors, a posting is a real bill. |
| `posting_one_run` | 130,400 | One run at a time with every kind of fault, rejection, re-proposal with another draft and a bookkeeper. A row's identity is a bill that is there and was the invoice; implements PostOnce, so a row stops every further create. |
| `posting_two_runs` | 168,412 | Two concurrent runs with crashes, lost and refused creates. Every create of a proposal goes out under one request id, so there is one bill; only drafts that were ready; no bill without a row unless the run died right after the create; only a slower run takes a settled row back (`OnlySlowerRunsDemote`). |
| `machine` | 1,074,207 | What one computer keeps beside the books. Two restores with deaths, failures and spoilt files at any step: history is neither lost nor shown empty, a restore happens at once or not at all (`RestoresAtOnce`, the refinement of History), an install keeps its identity and password (`HistoryKept`, `SameInstall`). Backups by night, by hand, exported and imported, under rotation: the rotation is its rule (`RotationPolicy`), and it takes the last usable backup only when an import came above the one it had verified (`LastOneStays`). Refreshes, connects and the cutover, overlapping in any way: a token can always be loaded, and it belongs to the connected company unless a refresh wrote an older one back (`ReconnectHolds`). Two companies and an organisation, gates switched while connectors are built: a bill goes to the configured company (`AccountsHold`). One request at a time on a message: never two drafts, none forgotten, what is shown is what Gmail has (`DraftsHold`). Every call of a page reaches the channel and service it means, and four kinds of call are refused (`RoutesAgree`). Answers that come while the person has moved on settle their own row (`DeskHolds`). |
| `office` | 1,693,788 | What the history id has passed and a page has listed is stored; a mail leaves by a release or after a clean scan of all the gatekeeper can see; a death costs at most one mail its jobs and one a second copy (`RelayHolds`). No classified document is forgotten and a filed statement is reconciled (`DocumentsHold`). A bill has both proofs and no document vanishes (`ProposalsHold`). Exported decisions are of their own packet, and an application that ends has applied or reported each or left the exception of a duplicate (`ReviewHolds`). The proof on record of a day is the newest made of it, and a material exception has its alert unless what raised it broke off for good (`NightsHold`). What a connector adopts is the same bill, what verifies is what was approved, and what it holds has a reason (`BillsHold`). Of tax and dimension mappings, with propose job and dry run at once, two companies, answers of the provider that come late and a posting run in four steps, the dimension gate passes nothing the person refused last unless two proposers looked for the row at once or an alternative chosen before was answered after, and the tax gate passes no code switched off last, but for an answer asked for before (`MappingsHold`). |
| `progress` | 43,346 | What happens in the end: an interrupted swap is put right and a cutover lets the application start (`ComesBack`), startup screen and connect listeners end (`FlowsEnd`), an approval is posted or parked where a person sees it, a persisted bill is settled, a dispatch is handed over and marked. |
| `jobs_garbled_answer` | violation | finding 1 |
| `unscanned_forwarded` | violation | finding 2 |
| `review_ignored` | violation | finding 3 |
| `xero_unguarded` | violation | finding 4 |
| `rotation_import` | violation | finding 5 |

**Bounds, and why they are enough.** All are CONSTANTS, marked `bound` or explained
where they are declared.

- *Proposals, Invoices*: rows of different proposals meet only in the order of the
  Desktop queue, in its single lease, and in bills that look alike. Two proposals
  (`jobs_two_sessions`) show the first two; a second invoice and a bookkeeper
  (`HandInvoices`, `Redrafts`, `Remaps`) produce foreign bills that match or do not.
- *Tickets = 2*: a stale session and its successor is the case the lease token is
  for; a third ticket only repeats the stale one.
- *Workers = 2* for `postOnce`: the queue runs one job per proposal and a person's
  click is the second run.
- *MaxBills = 2*: the smallest number at which "two bills for one proposal" and "a
  foreign bill beside ours" are states. A create with no room left does not
  happen, so every property about a second bill can still be violated.
- *MaxFaults* 2 or 3: a lost create followed by a crash and a failing look-up is
  the longest chain the protocols distinguish, and three is also the retry limit
  of the queue (`src/queue.ts`). *MaxRedrafts* 1: one change of draft while a run
  is under way.
- *MaxReplies 2, MaxCopies 3, Texts 2, DraftTroubles 2* (ReplyDrafts): one draft, one
  after a discard, and room for the one that must not appear; a lost create and a failing
  look-up or a crash after it. Any number of them is covered by `DraftsStay`, and with
  three TLC finds no violation either (475,227 states of this component alone).
- *Restores 2, Works 2, DbFaults 2* (`machine`): a restore whose interrupted swap
  meets the next one; a fact before and one after the backup; a death of the restore
  and one of the launch that recovers it.
- *Files 3, Days 1, Swaps 1, Imports 1*: one backup that must stay beside two that
  compete with it, a night between them, one table brought back by a restore. In
  MCMachine the retention numbers of Backups are 1 and 0, so that a prune happens
  with three files; *Rotation* has the real ones (7, 4 weeks, 3 months) and ages on
  both sides of every boundary.
- *Grants 3, Refreshers 2, TokenFaults 2, Attempts 3*: a token, the one a refresh returns and
  that of a reconnect, with two refreshes beside the connect; an attempt, the one that
  supersedes it and one after both.
- *Realms 2, Orgs 1, Connects 2, Toggles 2, MaxWritten 1* (Accounts): the company that
  is configured and another, connected while a connector is built and used; a gate
  opened and closed; every property is about a single bill.
- *Numbers 1, Strays 1, MaxExcs 3, MaxFlights 2* (Desk): three exceptions about one
  proposal or none let a row above, below or of the same number leave; a second
  request at once fits, so `DeskHolds` could be violated by one.
- *Amounts 2, MaxLines 2, Extra 2, MaxTries 2, Hands 1, Edits 1* (Bills): two lines
  whose sum is the total or is not; a tax the provider adds or does not; one bill of a
  bookkeeper that looks alike, and one edit of ours.
- *Mails 2, Enclosures 3, Oversized 1, Recent 1, Page 2, Releases 2, Deaths 1* (Mailroom):
  a mail of one attachment and one that carries the same, another and one that is too
  large; a first listing that leaves a mail out; a mail released when it was held and
  again when it has left.
- *Queued 2, Dispatchers 2, Mishaps 2* (Documents): two dispatchers that send one
  row twice, a death of each, or of one and a failed read. With three mishaps
  `DocumentsHold` holds as well (239,906 states), and `DocumentsStay` covers any number.
- *Readings 2, MaxRows 2, Troubles 1* (Proposals): a reading that passes every gate
  and one that does not; a proposal and its repetition; an outage, a death or a change
  of the automation level (any number of them by `ProposalsStay`).
  `Bodies` is empty in `office`: a mail whose text is the invoice gives a new row at
  every repetition (`OneProposalEach` below) and alone more states than the run may
  take.
- *Companies, Codes, Ids, Proposers 2, MaxTax 2, MaxDims 2, Changes 3* (Mappings): a mapping and its
  replacement, for the company and for another; two rows of one dimension; three changes
  by people, jobs or a reconnect beside the posting run and the answers, so that a row is
  proposed, asked about and decided again while a bill is under way: both races that
  `MappingsHold` exempts happen. With four changes `MappingsHold` holds as well (1,961,728
  states of this component alone).
- *Runs 2, Rows 2, Tabs 1, Meddling 1* (Review): a packet and a newer one, in the
  same browser; one change by somebody else between snapshot and application.
- *Days 1, Retries 1, NightMishaps 2* (Nights): a night, the next one and a
  submission that is repeated and executed late.
- *Risks 2, Redeliveries 1, Breaks 3* (Alerts): two findings between their statements when
  the process dies; a job whose last attempt breaks off as well.
- *Retryable, Rejectable, OwnerCloses, Garbling, LostCommits*: switch
  single actors or faults on where a run is about them. Symmetry is used for tickets,
  workers and copies in runs without liveness only; no action or property tells
  their members apart.

`progress` has smaller instances: one ticket, one worker, one restore. What happens
in the end hangs on the steps of one protocol with its faults, and rivals are bounded.

The `jobs` runs check for deadlock as well: a connector can always poll. The other
runs say `CHECK_DEADLOCK FALSE`, because a posted proposal, a mailbox that was read
or a message whose bounds are used up is a state in which the program rightly does
nothing more.

Every property of a passing run has at least one mutant in `PROJECT.json`: a
one-line change to a modelled definition that a programmer could plausibly make,
under which TLC finds the property violated. The mutants stand beside the
definitions they replace.

## Fairness

*ProviderJobs*: the Web Connector polls on a timer, so a session is always opened
again (weak fairness of `Authenticate`); messages that are lost and sessions that
hang do not stay so for ever (`Lose` and `SessionLost`, the time-outs of the
connector and of the server); a lease is a timestamp and expires (`LeaseExpires`). A
session may fail any number of times, but not at the same step every single time: the
steps of a session that can be interrupted are strongly fair. Beyond saying
which company file is open, QuickBooks is assumed neither to answer nor to execute
anything, and people to do nothing. `ApprovalEnds` is about a gate that is open from
some point on, and leaves out proposals that cannot be rendered.

*Posting*: a run that was started takes its next step unless it dies; calls on their
way are executed or refused; a ready proposal is run again, which is the queue's retry
of a failed job. Because the queue retries three times, the instance has at most three
faults.

*Documents*: the schedule runs the dispatcher every minute (`register.ts:90`), and a
dispatcher or worker that has begun goes on unless it dies.

*LocalDatabase*: the person launches the application again and the launch goes on
(weak fairness of its steps); a computer on which it keeps failing is restarted at
some point (strong fairness of `Reboot`), since only that ends a server nobody owns.
*Shell*: a database start ends, and a timer that is set fires. *Tokens*: a boot goes on.
*ConnectFlow*: the ten-minute timer fires, and a listener that was opened is entered
in the map, the statements in between being synchronous.

Nothing is assumed of a person's decisions. ReplyDrafts, Backups, Accounts, Desk,
Mailroom, Proposals, Mappings, Review, Nights, Alerts and Bills have no liveness property (and
Routes has no behaviour): what they should finish either waits for a person or, where a document promises it, is not kept by the
code (findings).

## Findings

Each of these has a run that checks exactly one property, quoted from the repository,
and whose counterexample is a behaviour of the code.

1. `jobs_garbled_answer`: an executed BillAdd whose answer has no readable status
   is settled as a *known* failure (`production.ts:318`), so the owner's retry
   creates the bill again, although line 398 says such an answer must stay
   uncertain.
2. `unscanned_forwarded`: an attachment has one row per hash, with the mail it first
   came in (`ingest/repo.ts:82`). A later mail with a known and a new attachment is
   scanned for the new one only and forwarded whole, although `gatekeep.ts:19` says
   "never forward-unscanned".
3. `review_ignored`: the dimension gate reads only whether a reviewed row lets the
   bill pass (`posting.ts:260`); the bill carries the entity of the proposal, whatever
   the person selected, although `dimensions.ts:84` calls the row authoritative.
4. `xero_unguarded`: with `XERO_PRODUCTION_WRITE_ENABLED=false` the factory calls the
   connected organisation `demo` whichever it is (`connectors/factory.ts:84`), so the
   queue job writes to a real one, although `config.ts:76` calls the flag "the explicit
   owner gate a real (non-demo) xero org write requires".
5. `rotation_import`: an import inserts its row as verified, outside the lock and before
   anything has read the file (`backup/http.ts:343-355`). A rotation at work takes it for
   the newest, its re-check lets the good backup go, and the refused import removes its
   own: no backup is left that opens, although `rotation.ts:20` says "never prunes down
   to zero verified copies" and `http.ts:361` that rotation "must never treat it as a
   keepable verified backup". `LastOneStays` shows that without such an import above the
   backup just verified the rotation keeps one.

TLC finds the following too. Each is a definition of the module in parentheses. Most are
restated in MCOffice or MCMachine, where naming them in a copy of `office.cfg` or
`machine.cfg`, with `Parts` the one component, shows the counterexample (another bound is
given where it needs one; `NewestWins` and `DecisionStands` are PROPERTIES); that of
Posting shows with `posting_two_runs.cfg`, and those of
Accounts need a configuration of that module alone.

- `InterruptedIsReachable` (Posting): the upsert that persists a bill's identity has no
  condition on the row (`posting.ts:314`). The slower of two runs puts the settled row of
  the faster one back to `provider_result_unknown` and dies; the proposal is posted by
  then, which holds every later run before the recovery, although line 311 says that
  "recovery reads this exact ID". `OnlySlowerRunsDemote` shows that this is the only way.
- `NewestStays` (Tokens): a refresh saves its answer under the company whose token it had
  loaded (`qbo-refresh.ts:53-61`), also when a connect has stored another company's token
  meanwhile: the tenant is connected to one company and holds the other's token, although
  line 8 says "the newest one is written back". `ReconnectHolds` shows that this is the
  only way to it.
- `DecidesItsOwn` (Desk): the digits at the end of any `entity_ref` are taken for a
  proposal's id (`app/lib/api.ts:97`), so a decision on `extraction:7` or `qbo:7` befalls
  proposal 7, although line 94 extracts a "proposal id" and `exceptions/page.tsx:270`
  foresees "no linked proposal".
- `UnscannedNeverLeaves` (Mailroom), in a second way beside finding 2: an attachment above
  the limit is not fetched (`gmail/adapter.ts:97`), so it has no row, and the gatekeeper,
  which scans the rows, forwards the whole mail, although `gatekeep.ts:18` says of the
  unscannable "HOLD" (`Loads` with single attachments, `Releases` 0).
- `NewMailIsClassified` (Mailroom), against `poll-cycle.ts:10`, "each new message enqueues",
  in three ways. Of a history answer one page is read and the history id moves past the
  rest (`gmail/adapter.ts:70`; `Page` 1, `FirstPolls` {FALSE}, `Deaths` 0). The first poll
  lists the mails and asks for the history id afterwards (line 67), and what arrives in
  between no cycle lists (`FirstPolls` {TRUE}, `Deaths` 0). A death between the commit of
  a message and its jobs leaves it known, and the next poll sends none
  (`poll-cycle.ts:68-80`).
- `RejectionOverrides` (Mappings): the answer to an alternative the person chose resolves
  the row whatever was decided since (`dimensionMappings.ts:214`), so a rejection is undone
  and the gate passes, although `dimensions.ts:107` says a rejection overrides.
- `RejectionStopsBill` (Mappings): the gate reads the dimension row and then awaits the
  create (`posting.ts:274`); a rejection answered in between does not stop the bill.
- `OneRowEach` (Mappings): propose job and dry run look for a row and insert it in two
  statements without an index to stop the second (`mapping.ts:309-314`), although line
  307 calls it idempotent; the gate then reads either row.
- `DisabledStays` (Mappings): a revalidation sets the row active from the provider's answer
  alone (`taxMappings.ts:326`, `taxMappingStore.ts:233`), so a mapping disabled while it
  was asked for is active again, although `tax.ts:147` says an inactive one holds
  (`Changes` 4).
- `ApprovedOrReported` (Review): error 6190 of the provider is answered as *duplicate*
  without a row or a bill (`posting.ts:277-280`), and the application of a packet counts it
  as posted and reports nothing (`apply-decisions.ts:107`), although the command must exit
  non-zero "if any approved item fails to post safely" (`SPEC-reviewer-dashboard.md:51`).
- `NeverTwice` (Nights): a lost answer, or a death before the record, makes the client or
  the job submit a day's proof again and SwarmSync executes both (`audit-anchor.ts:42`),
  although `proof.ts:6` says that retries never double-submit.
- `EveryRiskIsAlerted` (Alerts): a material exception raised in a person's request whose
  second statement fails has no alert and nothing raises it again (`exceptions.ts:95`,
  `proposals.ts:37`, `onboarding.ts:281`), although lines 92-94 promise an immediate one.
- `GateIsOfItsCompany` (Accounts): without a configured realm the gate is read from the
  row updated last and the bill goes to the company of the token, which a connect whose
  row is not yet written has changed (`factory.ts:27`, against
  `ProviderConnections.tsx:157`).
- `DisabledAtOnce` (Accounts): a connector built before the gate was closed still writes
  (against "disabled immediately", `ProviderConnections.tsx:148`).
- `DroppedIsNoticed`, `NothingDropped` (Bills): the read-back takes the class of the first
  line that has one, so a class missing on another line verifies (`connectors/qbo.ts:95-99`
  against `posting.ts:352`); the canonical `create` of QuickBooks Online sends neither
  class nor location and reports neither as unsupported (against `qbo.ts:123`).
- `NewestWins` (ConnectFlow): a connect attempt still exchanging its code when a newer
  one finishes saves its token last (`connect-loopback.ts:294` against line 88).
- `RetriedNextCycle` (Nights): a day whose anchor failed is not tried in the next cycle,
  which has its own day (`audit-anchor.ts:70` against line 14).
- `ForwardedOnce` (Mailroom): a death between the forward and its record, or a release beside
  the job, sends a mail twice (`gatekeep.ts:139`, `reply.ts:61`), against "exactly one
  forward, ever" (`03_phase0.5-gatekeeper-spec.md:52`).
- `HoldsAreTrue` (Documents): a late unreadable copy holds a document that was read or filed
  (`statements/ingest.ts:349`), and marking a dispatch can take a new hold away.
- `OneProposalEach` (Proposals): a mail without attachment gets a proposal at each repetition
  (`mapping.ts:288` against `01_phase1-spec.md:192`; `Bills` {} and `Bodies` {p}).
- `ReadyIsProven` (Proposals): a proposal is ready before its scan is recorded, or with a scan
  that is switched off (`mapping.ts:284`, 323 against `01_phase1-spec.md:397`);
  `posting.ts:113` holds such a proposal, so no bill lacks the proofs.
- `VerifiedIsStored` (Proposals): a repeated extraction stores what the model reads now, while
  the verification of the first reading stays (`extract.ts:186-256`).
- `DecisionStands` (Proposals): a repeated propose job sets a rejected or posted proposal back to
  ready or review (`mapping.ts:284-290`).
- `SupersededStays` (Mappings): revalidating a replaced tax mapping makes it active again
  (`taxMappings.ts:332` against `007_tax_dimension_mapping.sql:32`).
- `DimensionOfCompany` (Mappings): the dimension gate does not ask which company the row is of
  (`posting.ts:256` against `007_tax_dimension_mapping.sql:13`).

**Further gaps met while modelling**, visible in the models or beside them:

- *Desktop and REST posting*: a query whose answer was lost is held like a create whose
  outcome is unknown (`durable-jobs.ts:106`), `retry` refuses it and the probe looks at
  creates only, although `production.ts:387` calls queries safely retryable; the write gate is read once per session, so a create
  may leave after it was closed; two approved proposals of one invoice both create; a
  job that cannot be rendered returns to the head of the queue for ever; a refused REST
  create leaves a row no retry gets past; an attachment that failed is not tried again;
  a late adoption leaves its proposal ready; a recovery that reads a difference ends
  without an exception; a bill keeps the contents of its approval when a later
  correction changes the proposal. `defaultPostDeps` sets no `swarmSyncMode`, so the
  company policy about SwarmSync is not asked for approvals. The queue's package hands
  a worker an array of jobs (pg-boss 10) where `register.ts:71-85` takes one; the
  models follow the code's contract.
- *Drafts*: the draft found for a create of unknown outcome is held in memory only, so
  after a refused update the row says `proposed` without a draft and the next update
  creates a second one (`reply-drafts/service.ts:300`); the answer of a create that
  arrives after the discard turns the discarded row into `created` again (157); a death while a row says `proposed` forgets the draft; a draft sent or
  deleted in Gmail leaves its row active for ever.
- *Mail*: the first poll lists at most 50 mails (`gmail/adapter.ts:60`) and nothing lists
  the older ones; a message deleted in Gmail fails every later cycle; a paused tenant is
  polled until the next start.
- *Documents*: facts and lines of a filed statement can still be changed, which sends
  it back to review while `filed_at` stays; one transaction can be matched with two
  lines.
- *Proposals*: `recordProofRef` keeps the first verdict; an exception about an outage
  of the proof service is closed by nothing.
- *Mappings*: the saved rules are never read; a mutation whose read-back fails has no
  audit row.
- *Review*: an application bills what is proposed by then, not what the packet showed;
  a rejection overwrites a posted proposal; a thrown error ends the application without
  its counts; two tabs of a run overwrite each other's decisions.
- *Nights*: the anchor of 03:00 covers the first three hours of its day; a deferred digest
  is not written by "the next run" (`digest.ts:13`), which has another day; a finding
  raised twice has two exceptions and two alerts.
- *Backups and restore*: a restore brings the `backups` table of the dump
  (`015_backups.sql:3`); a failed external restore deletes a row by id in whichever
  database is live (`backup/http.ts:378`); the
  message after a failed roll back promises a staging copy that `finally` may drop
  (`restore.ts:357`).
- *Window and IPC*: four calls a page makes are refused by the registry (`Refused` in
  Routes), among them the `reason` a filing sends (`statements/[id]/page.tsx:133`,
  which `docs/build/interfaces/ipc-schema-registry.md:486` allows), saving and changing
  a reply draft (`registry.ts:147-154` wants a numeric message id and no further one),
  and replacing a tax mapping. On the exceptions page an approval that is queued is
  shown as failed; the selection moves to the following row when an answer removes one
  above it; of two exceptions about one proposal the second is shown without evidence
  (`page.tsx:53-57` with `EvidencePanel.tsx:23-43`); a posted proposal approved again is
  answered "held", not 409; a hold can be answered for which there is no exception row;
  a rejection does not ask for the status.
- *Accounts*: the scopes of a Gmail token are read, merged and saved outside a transaction
  (`connect-loopback.ts:148`).
- *Machine*: quitting while the database starts, or after a failed token cutover,
  leaves the server running (`desktop/main.ts:386`, 536-544); a lost acknowledgement of the cutover's commit
  (`secret-migration.ts:19`) removes the value it committed to (`LostCommits` off); two
  overlapping calls of `startConnectFlow` leave a listener without a timer of its own;
  a Gmail connect writes a row of `connections` (`connect-loopback.ts:155`); token and
  connection of a web connect are saved apart (`qbo-oauth.ts:112-122`); a session lasts
  12 hours and the desktop signs in at its start only (`config.ts:128`, `main.ts:358`),
  and `revokeSession` is never called.

## Proofs

All are checked by TLAPS from the definitions TLC runs, for every value of the
constants that the named assumptions and hypotheses allow. The assumptions are about
what a constant means: finitely many proposals, null values and names outside the sets
they are null for, an initial draft for every proposal, bounds that are numbers. The
bounds themselves (`MaxBills`, `Restores`, `Days` ...) are constants, so the theorems hold
for every bound. Where a hypothesis does more than that it is stated below with what
happens without it.

A property is seldom inductive alone: each proof rests on an invariant that says, for
every await at which an actor may stand, what it still knows. TLC found out first whether
such an invariant holds.

| Module | Theorems | About |
|---|---|---|
| ProviderJobs_proofs | `Invariance`, `TypeCorrect`, `OneLease` | the table of jobs and its leases |
| JobOutcomes_proofs | `CourseHolds`, `TransmittedOnce`, `RightCompany`, `RealPosting`, `Together`, `OnlyAdopted` | what becomes of the jobs |
| JobPromise_proofs | `OneCreate`, `NoneForgotten`, `KeepsPromise` | one bill and one posting for a proposal; the refinement of PostOnce |
| Posting_proofs | `TypeCorrect`, `OneBill`, `OfferedOnly` | `postOnce`: bills, drafts |
| PostingRows_proofs | `RowsNameBills`, `BillsOnRecord`, `SlowerRunsOnly`, `KeepsPromise` | `postOnce`: rows; the refinement of PostOnce |
| Machine_proofs | `HistoryStays`, `RestoresStayAtOnce`, `InstallStays`, `ReconnectStays`, `LastBackupStays` | database, tokens, backups; the refinement of History |
| MachineWork_proofs | `PolicyStays`, `AccountsStay`, `DraftsStay`, `DeskStays`, `MachineTypesStay` | rotation, write gates, reply drafts, exceptions page; the types of one machine |
| Office_proofs | `RelayStays`, `DocumentsStay`, `ProposalsStay`, `MappingsStay`, `ReviewStays`, `NightsStay`, `BillsStay`, `TypesStay` | mailbox to books, and their types |

MachineWork_proofs extends Machine_proofs, because the types of one machine need the
invariants of both.

### QuickBooks Desktop

- `Inv == Good(jobs) /\ MemoryOk /\ RestOk` gives types and `OneLiveLease` for any number
  of sessions. It needs that only leased and sent rows have a lease (`RowOk`), for that is
  what the check in `leaseNext` looks at, and that what sessions and connectors remember
  are rows that exist (`MemoryOk`). One lemma for each kind of update of the table (insert,
  settle, sweep, probe, hold, lease) shows that it keeps a table `Good` and deletes no row.
- `Course` adds how the stages of a proposal follow each other (`Chain`) and that what is
  on its way is what the table says. Most steps are `Calm`: they free nothing from
  uncertainty and queue only a preflight or a probe. With it: a create is carried by one
  connector (`CreateTransmittedOnce`), bills are only created in the company expected
  (`ExpectedCompanyOnly`), a posting names a real bill (`PostingIsRealBill`), posting and
  jobs are finalized together (`FinalizedTogether`), and an uncertain create ends only by
  adoption (`UncertainOnlyAdopted`).
- `Outcomes` says of each create what books, wire and table agree on, and gives one bill
  per proposal, `NoOrphanBill` and, step by step, `PostsOnce`. Its hypothesis is
  `~Garbling`: every answer has a readable status. It cannot be dropped, since run
  `jobs_garbled_answer` shows a second bill without it (finding 1).

### QuickBooks Online and Xero

- `Inv == RunsOk /\ WireOk /\ BooksOk /\ RowsOk /\ RestOk`, for any number of proposals,
  concurrent runs, faults and re-proposals. A late call is executed long after its run
  read the draft, so that the books only have drafts that were ready needs the same of
  the calls on the way, of the runs that will send them and of ready proposals. And the
  provider knows a create by its request id alone: one bill per proposal needs that every
  bill, call and run of a proposal has the id of its row, which a re-proposal keeps.
- `RefsNamed`: a row names a bill of its proposal, or the very invoice, because the runs
  that write rows hold such bills (`RowNamesItsBill`). `OnRecord`: as long as nothing was
  recorded, a bill has a run that stands between its create and the statement after it and
  can no longer be told that its create was a duplicate (`BillOnRecord`). Both for any
  number of runs.
- `Demotion`: a proposal is posted only behind a settled row, and a run about to mark it so
  has settled it, unless another run has written over that row since (`overtaken`). Hence
  `OnlySlowerRunsDemote`, for any number of runs: a slower run is the
  only way to a posted proposal whose row waits for a recovery (`InterruptedIsReachable`).
- `Alone`: with one run under way at a time, the step it stands at tells what its row says.
  The refinement `PostsOnce` alone needs that: PostOnce takes back no posting, and the
  slower of two runs does.

### One machine

- *LocalDatabase* (`DbInv`, any number of restores, works and faults): where the launch or
  the restore stands tells what the cluster holds under which name; a database that was
  retired is never overwritten or dropped; without a live database the newest retired one
  has the facts, and the marker names no other. `HistoryKept` needs all of it, since a
  death may come between any two statements of the swap and again in the recovery. The
  same invariant gives the refinement of History, step by step: the second rename is the
  restore, every launch step and the first rename are stutters, and the recovery after a
  death either rolls back to what was shown all the while or finds the swap made.
- *Tokens* (`TkInv`): the cutover precedes any load, whoever holds a token holds one that
  was issued, and until a refresh has crossed a connect it is one of the company connected
  last. Connects and refreshes overlap at any await. Hypothesis: the provider issues at
  least one token, and the person is no refresher.
- *Backups* (`BkInv`, no hypothesis): who works holds the lock; one row per file; one key;
  the backup just verified is the newest and usable while the rotation runs, unless an
  import put its claim above (`above`). With it, `LastOneStays`: without that the rotation
  leaves the newest, and that one can be restored; no other step takes the last usable one
  but a restore, which brings the table of its dump (finding 5 is the exception).
- *Rotation*: the buckets of the code, which divides ages, remove exactly what the
  comment's rule lets go, which names spans of days; hypotheses: the numbers of the policy
  are natural, weeks and months have days, ages are integers.
- *Accounts* (`AcInv`): which company a caller holds at each read of the factory, while the
  owner connects others and switches gates. Hypothesis: no organisation has the name of a
  realm and none the null name.
- *ReplyDrafts* (`RdInv`): what the active row and the request say about the drafts in
  Gmail and the calls on their way. The hypotheses are those stated beside the property,
  and each leaves out a gap listed under the findings: one request at a time, no update
  that Gmail refuses for certain, no death while a row says `proposed`.
- *Desk* (`DeInv`, no hypothesis): the row of a request stands where it stood, and an
  evidence request that still counts is of the selected row.
- *Types* (`MachineTypesStay`): `TypeOK` bounds what is counted, so it needs more than the
  ranges of the variables: a company has one row, however often it is connected; the list
  of the open page is never longer than the table and its selection within it; rows, calls
  and requests name a draft that was created; a dump is dated and counted before its row
  is. Hypotheses: the bounds are natural numbers, the person can write at least once,
  two exceptions can exist, and those of the components above.

### From mailbox to books

- *Mailroom* (`MrInv`): what a cycle holds, namely that every mail up to the history id it
  will save is stored, left out by Gmail or on its list; an attachment belongs to one
  stored mail for good, so no two mails have one key and a row of `forwards` stands under
  the key of its mail; what the gatekeeper and the person know at each await. `TakenIn`
  adds that every attachment of a stored mail has its row, with whichever mail, unless it
  was too large. Hypothesis: attachments are no mail numbers, since a mail without attachment is
  keyed by its number. `CostInv` adds the account of what goes wrong: the only mail
  without its jobs that no death pays for is the one in the cycle's hand, and a mail has
  left once for its gatekeeper's job, once for each release, and once for each death.
- *Documents* (`DcInv`, no hypothesis): what was handed to the queue is remembered by every
  place that works on it; a line that is not open was excluded or matched with a
  transaction of the books.
- *Proposals* (`PrInv`): an extraction ends only when the next job waits or the proposal
  stands; a propose job that goes on to its proof has its row; whoever is past the gate has
  a row with both proofs, and rows, proofs and verifications are never taken back.
  Hypothesis: no reading has the null name.
- *Mappings* (`MpInv`, no hypothesis): a row of a tax mapping keeps its company and says
  what `word` does, unless an answer is late; as long as nothing has crossed, a proposal
  has one row of a dimension, which says what the person decided last when that was a
  refusal; and what the posting run took through each gate it still has at the next. The
  races are in the statement and not in a hypothesis: any number of proposers.
- *Review* (`RvInv`): pages and storage hold only decisions that were clicked on a packet
  of their run; an application nobody disturbed has applied or reported what is not left
  of its file, or raised the exception of a duplicate.
- *Nights* and *Alerts* (`NtInv`, `AlInv`): the log of a day only grows, so a later submission of it
  has no fewer rows than an earlier one, and the one that is recorded is the last that was
  sent; a call between its two statements is of an exception that was written, and what is
  written without alert has such a call, its job, or is `unsaid`.
- *Bills* (`BlInv`): the id under which the connector reads a bill back is that of the bill
  it made, and until a bookkeeper touches that bill every line and the header carry what
  was approved for them (`Sent`); there is a verdict only after the read. The sum of the
  lines is a fold, of which the provers know nothing and need to know nothing: the proof
  only compares it with the total, as the code does. Hypotheses: the total is an integer,
  the number of lines natural, and no entity has the null name.
- *Types* (`TypesStay`): as above, one component after the other; a behaviour exercises
  one of them, which stays the same. Hypotheses: the bounds are natural numbers and those
  of the components.

### Only model-checked

- Liveness (`progress`): fairness and ENABLED are outside the prover's reach.
- `RoutesAgree`: a statement about two finite tables of the source, whose names are put
  together from strings; it is decided by evaluation.
- What the violation runs and the definitions listed under the findings refute.

## What is not covered

- The components marked `not_modelled` in `PROJECT.json`: reading of documents
  (parsers, prompts, schemas), web connect and sign-in (request and response over signed
  cookies), migrations and pools, queries, installers. They keep no state of their own that takes several steps to
  change, or they are I/O.
- Of the IPC its answers: response schemas, the check of the sender's frame, the
  canonical spelling of identity keys and the lists of channel names. Of the window
  everything but its calls, the exceptions page and the form of the write gates; the
  other pages wait for one answer and load again.
- Contents: text, qbXML and REST payloads, OCR, language-model answers, amounts.
  A bill is vendor, number, date and amount as one value; a statement balances or
  does not, and the parsing and summing of its cents (`statements/ingest.ts:141`) are
  left out.
- `adoptUncertain` (called by tests only), the read-only mode and the pre-session
  queue of the Web Connector session, which the durable transport never uses.
- More than one tenant, and for posting more than one connection: every statement
  filters on both. Mappings has two companies, because it follows a reconnect.
- Two components at once beyond one hand-over: the pipeline is checked module by
  module, each from every row its predecessor can leave.
- The database itself: transactions are atomic and isolated as the code's locks
  make them, committed rows survive a crash.
- The providers beyond what the code relies on (request ids, TxnIDs, the draft
  marker, Gmail's history ids).

## Plan

What would add most from here, in this order:

1. What the proofs have left: `RoutesAgree` as a theorem about the two tables; a promise
   weaker than PostOnce that two runs of Posting keep, in which the slower one may take
   back a posting.
2. A third refinement beside those of PostOnce and History: an abstract relay of mails
   that Mailroom implements.
3. The composition of Proposals with Posting: `Bill` refined by the steps of `postOnce`,
   so that the run reads the gate and the mappings of one moment and posts at another.
4. Sign-in and web connect as one module (cookies, state parameter, session rows), and
   migrations with the repair of an older install.
5. Statement arithmetic on integers with its bounds against a reference definition, and
   the readiness checks before a write gate is opened.
