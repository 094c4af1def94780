----------------------------- MODULE MCMachine -----------------------------
(***************************************************************************)
(* Small instances of the components of one machine, side by side: a       *)
(* behaviour exercises the one `focus` names and leaves the others in an   *)
(* initial state, so their state spaces add up and do not multiply.        *)
(***************************************************************************)
EXTENDS Naturals

CONSTANTS Parts,    \* components a run exercises
          Restores, Works, DbFaults,
          Files, Days, Writes, Imports, Swaps, BackupFaults,
          Daily, Weekly, WeekLen, Monthly, MonthLen,
          Ages,     \* of the backups the rotation is asked about
          Clicks, Refreshers, Companies, Grants, TokenFaults, Attempts,
          Realms, Orgs, RealOrgs, Callers, Connects, Toggles, MaxWritten,
          Requests, Texts, DraftFaults, DraftTroubles, MaxReplies, MaxCopies,
          Numbers, Strays, MaxExcs, MaxFlights

VARIABLES focus,
          at, found, secret, cluster, clusterPw, sentinel, server, dbs, marker,
          file, minted, restores, backup, last, exit, promised, dbFaults,
          live, files, exported, key, keys, lock, req, day, made, inserted,
          swaps, imports, backupFaults, above,
          sample,   \* the backups table the rotation looks at
          asked,    \* the call of a page that the tables of the IPC are asked about
          engine, starting, database, problem, window, visible, handOver, clicks,
          up, legacy, ref, store, copied, run, accepted, issued, chosen, tokenFaults,
          crossed,
          attempt, listening, timer, settled, pending, exchanges, connected,
          conf, rows, token, link, shown, opened, builders, written, connects, toggles,
          replies, latest, copies, sending, op, troubles, unsure,
          excs, status, page, flights, looks

Db == INSTANCE LocalDatabase WITH Faults <- DbFaults, faults <- dbFaults
Bk == INSTANCE Backups WITH Faults <- BackupFaults, faults <- backupFaults,
                            Serialised <- TRUE, Daily <- 1, Weekly <- 0,
                            WeekLen <- 1, Monthly <- 0, MonthLen <- 1
Rt == INSTANCE Rotation
Ro == INSTANCE Routes
Sh == INSTANCE Shell WITH timer <- handOver
Tk == INSTANCE Tokens WITH Faults <- TokenFaults, faults <- tokenFaults, LostCommits <- FALSE
Cf == INSTANCE ConnectFlow WITH at <- attempt
Ac == INSTANCE Accounts WITH MaxBills <- MaxWritten, runs <- builders, bills <- written
Rd == INSTANCE ReplyDrafts WITH
        Workers <- Requests, Copies <- Texts, NoCopy <- "none", Faults <- DraftFaults,
        MaxFaults <- DraftTroubles, MaxRows <- MaxReplies, MaxDrafts <- MaxCopies,
        rows <- replies, drafts <- copies, wire <- sending, faults <- troubles
De == INSTANCE Desk

Today == 200
\* tables of up to three backups, the newest last: verified or not, of two kinds,
\* of these ages; the clock may have been set back (day 203)
Days3 == {Today - a : a \in Ages} \cup {Today + 3}
Tables ==
  {{[kind |-> k[n], verified |-> v[n], day |-> d[n], born |-> n] : n \in 1..3} :
     k \in [1..3 -> {"scheduled", "pre_update"}], v \in [1..3 -> BOOLEAN],
     d \in {e \in [1..3 -> Days3] : e[1] <= e[2] /\ e[2] <= e[3]}}

dbVars == <<at, found, secret, cluster, clusterPw, sentinel, server, dbs, marker,
            file, minted, restores, backup, last, exit, promised, dbFaults>>
bkVars == <<live, files, exported, key, keys, lock, req, day, made, inserted,
            swaps, imports, backupFaults, above>>
shVars == <<engine, starting, database, problem, window, visible, handOver, clicks>>
tkVars == <<up, legacy, ref, store, copied, run, accepted, issued, chosen, tokenFaults,
            crossed>>
cfVars == <<attempt, listening, timer, settled, pending, exchanges, connected>>
acVars == <<conf, rows, token, link, shown, opened, builders, written, connects, toggles>>
rdVars == <<replies, latest, copies, sending, op, troubles, unsure>>
deVars == <<excs, status, page, flights, looks>>

Init == /\ focus \in Parts
        /\ Db!Init /\ (focus # "database" => cluster = "absent")
        /\ Bk!Init
        /\ Sh!Init
        /\ Tk!Init /\ (focus # "tokens" => issued = 0)
        /\ Cf!Init
        /\ Ac!Init /\ (focus # "accounts" => conf = CHOOSE c \in Ac!Configurations : TRUE)
        /\ Rd!Init
        /\ De!Init /\ (focus # "desk" => \A n \in DOMAIN excs : excs[n].kind = "gmail")
        /\ sample \in IF focus = "rotation" THEN Tables ELSE {{}}
        /\ asked \in IF focus = "routes" THEN Ro!PageCalls ELSE Ro!SessionCalls

Next == /\ UNCHANGED <<focus, sample, asked>>
        /\ \/ /\ focus = "database" /\ Db!Next
              /\ UNCHANGED <<bkVars, shVars, tkVars, cfVars, acVars, rdVars, deVars>>
           \/ /\ focus = "backups" /\ Bk!Next
              /\ UNCHANGED <<dbVars, shVars, tkVars, cfVars, acVars, rdVars, deVars>>
           \/ /\ focus = "shell" /\ Sh!Next
              /\ UNCHANGED <<dbVars, bkVars, tkVars, cfVars, acVars, rdVars, deVars>>
           \/ /\ focus = "tokens" /\ Tk!Next
              /\ UNCHANGED <<dbVars, bkVars, shVars, cfVars, acVars, rdVars, deVars>>
           \/ /\ focus = "connect" /\ Cf!Next
              /\ UNCHANGED <<dbVars, bkVars, shVars, tkVars, acVars, rdVars, deVars>>
           \/ /\ focus = "accounts" /\ Ac!Next
              /\ UNCHANGED <<dbVars, bkVars, shVars, tkVars, cfVars, rdVars, deVars>>
           \/ /\ focus = "drafts" /\ Rd!Next
              /\ UNCHANGED <<dbVars, bkVars, shVars, tkVars, cfVars, acVars, deVars>>
           \/ /\ focus = "desk" /\ De!Next
              /\ UNCHANGED <<dbVars, bkVars, shVars, tkVars, cfVars, acVars, rdVars>>

vars == <<focus, sample, asked, dbVars, bkVars, shVars, tkVars, cfVars, acVars, rdVars,
          deVars>>

Spec == Init /\ [][Next]_vars

\* the fairness of LocalDatabase, Shell, Tokens and ConnectFlow
MachineFair ==
  /\ WF_dbVars(focus = "database" /\ Db!Launch)
  /\ WF_dbVars(focus = "database" /\ Db!LaunchStep)
  /\ WF_dbVars(focus = "database" /\ Db!RestoreStep)
  /\ WF_dbVars(focus = "database" /\ Db!GivesUp)
  /\ SF_dbVars(focus = "database" /\ Db!Reboot)
  /\ WF_shVars(focus = "shell" /\ Sh!Comes)
  /\ WF_shVars(focus = "shell" /\ Sh!HandOver)
  /\ WF_tkVars(focus = "tokens" /\ Tk!BootStep)
  /\ \A k \in 1..Attempts : /\ WF_cfVars(focus = "connect" /\ Cf!Register(k))
                            /\ WF_cfVars(focus = "connect" /\ Cf!Expire(k))

\* Types of every component.
TypeOK == CASE focus = "database" -> Db!TypeOK [] focus = "backups" -> Bk!TypeOK
            [] focus = "shell" -> Sh!TypeOK [] focus = "tokens" -> Tk!TypeOK
            [] focus = "connect" -> Cf!TypeOK [] focus = "accounts" -> Ac!TypeOK
            [] focus = "drafts" -> Rd!TypeOK [] focus = "desk" -> De!TypeOK
            [] OTHER -> TRUE
\* LocalDatabase: the person's database survives every restore, and what is open
\* is what was left or backed up (restore.ts:188-222, local-database.ts:286-318).
HistoryKept == focus = "database" => Db!HistoryKept
\* LocalDatabase: the stored password opens the cluster, and an install has one
\* id for life (local-database.ts:386-394, 440-527).
SameInstall == focus = "database" => Db!SameInstall
\* LocalDatabase: a restore happens at once or not at all, and what it replaced stays
\* (restore.ts:188-222, 326-362).
RestoresAtOnce == Db!RestoresAtOnce
\* LocalDatabase: an interrupted swap is put right (local-database.ts:425-437).
SwapHeals == Db!SwapHeals
\* Of every table the rotation removes exactly what the policy lets go: one
\* backup stays of each of seven days, four weeks and three months, and every
\* pre_update one and the newest stay (rotation.ts:14-20, 65-80).
RotationPolicy == focus = "rotation" =>
  Rt!Prunable(sample, Today) = {r \in sample : Rt!MayGo(sample, r, Today)}
\* Routes: every call of a page reaches the channel the page means and the service
\* gets what the page wrote, save the four kinds of call the registry refuses
\* (app/lib/ipc-routes.ts, desktop/ipc/registry.ts:329-366).
RoutesAgree == focus = "routes" => Ro!RoutesAgree
\* Backups: the last proved backup is not removed, save behind an import's row
\* (rotation.ts:14-20, http.ts:343-379).
LastOneStays == Bk!LastOneStays
\* Backups: the rotation "never prunes down to zero verified copies" (rotation.ts:20).
NeverToZero == Bk!NeverToZero
\* Shell: the startup screen is left or explained (main.ts:100-131).
NeverStuckOnStartup == focus = "shell" => Sh!NeverStuckOnStartup
\* Tokens: a connected tenant can load a token, and only a refresh that ran across the
\* connect makes it one of another company (qbo-refresh.ts:53-61).
ReconnectHolds == focus = "tokens" => Tk!ReconnectHolds
\* Tokens: the rotated token is "the newest one" that "is written back"
\* (qbo-refresh.ts:8-9).
NewestStays == Tk!NewestStays
\* Accounts: a bill goes to the company that is configured, by its id and by its name,
\* and in production only by an approval (factory.ts:33-41, write.ts:132,
\* posting.ts:123-129, 471-481).
AccountsHold == focus = "accounts" => Ac!AccountsHold
\* Accounts: "the explicit owner gate a real (non-demo) xero org write requires"
\* (config.ts:76-77).
XeroNeedsOwnerGate == Ac!XeroNeedsOwnerGate
\* ReplyDrafts: a message has one draft, the hub holds it and shows what it says
\* (reply-drafts/service.ts:217-372, gmail/drafts.ts:99-159).
DraftsHold == focus = "drafts" => Rd!DraftsHold
\* Desk: what the person was shown stays until it is settled, beside its own evidence,
\* and one request is under way at a time (app/(app)/exceptions/page.tsx:70-127).
DeskHolds == focus = "desk" => De!DeskHolds
\* Desk: "Extract a numeric proposal id from an exception's entity_ref" (api.ts:94).
DecidesItsOwn == De!DecidesItsOwn
\* Tokens: a cutover never blocks the boot for good (tokens.ts:249-264).
BootsAgain == focus = "tokens" => Tk!BootsAgain
\* ConnectFlow: listeners close (connect-loopback.ts:317-325).
ListenerCloses == Cf!ListenerCloses
\* ConnectFlow: a superseded attempt does not replace a newer connection
\* (connect-loopback.ts:88-89).
NewestWins == Cf!NewestWins
=============================================================================
