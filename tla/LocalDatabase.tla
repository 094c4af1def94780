--------------------------- MODULE LocalDatabase ---------------------------
(***************************************************************************)
(* The private database of an install, from launch to quit: the bundled    *)
(* PostgreSQL cluster (src/db/postgres-runtime.ts), the launch sequence    *)
(* (src/db/local-database.ts, desktop/database.ts, desktop/main.ts) and    *)
(* the rename-swap of a restore (src/backup/restore.ts).                   *)
(*                                                                         *)
(* One Electron main process runs at a time: `at` is the statement it is   *)
(* about to execute.  Everything else survives it: the data directory, the *)
(* credential store, the files beside the directory, the databases of the  *)
(* cluster and the PostgreSQL child, which a dead parent does not stop.    *)
(***************************************************************************)
EXTENDS Naturals, FiniteSets

CONSTANTS Restores,  \* restores the person asks for
          Works,     \* facts the person adds to the live database
          Faults     \* deaths, early quits, failed statements, spoilt files

VARIABLES at,        \* next statement of the main process, "off" without one
          found,     \* clusterExists, as this launch read it
          secret,    \* the database password in the credential store, 0: none
          cluster,   \* the data directory
          clusterPw, \* the password the cluster was initialised with
          sentinel,  \* the init sentinel is beside the directory
          server,    \* a PostgreSQL server runs on the directory
          dbs,       \* the databases of the cluster, by name
          marker,    \* the restore the swap marker names, 0: no marker
          file,      \* install.json: 0 absent, Unreadable, or an install id
          minted,    \* install ids generated so far
          restores,  \* restores begun
          backup,    \* what the verified backup holds
          last,      \* what the live database held after the last change
          exit,      \* how the last main process ended
          promised,  \* the restore whose staging copy a message says is intact
          faults

durable == <<secret, cluster, clusterPw, sentinel, file, minted>>
ghosts == <<last, exit, promised>>
vars == <<at, found, durable, server, dbs, marker, restores, backup, ghosts, faults>>

Live == <<"live", 0>>
Staging(k) == <<"staging", k>>
Retired(k) == <<"retired", k>>
Stamps == 1..Restores
Names == {Live} \cup {Staging(k) : k \in Stamps} \cup {Retired(k) : k \in Stamps}

\* a database: the person's facts and the id in its local_install row, 0: none
Content == [facts : SUBSET (1..Works), id : Nat]
Empty == [facts |-> {}, id |-> 0]
NoBackup == [facts |-> {}, id |-> 0]
Unreadable == 1000

There(n) == n \in DOMAIN dbs
Create(n) == [m \in DOMAIN dbs \cup {n} |-> IF m = n THEN Empty ELSE dbs[m]]
Drop(n) == [m \in DOMAIN dbs \ {n} |-> dbs[m]]
Rename(n, m) == [o \in (DOMAIN dbs \ {n}) \cup {m} |-> IF o = m THEN dbs[n] ELSE dbs[o]]
Facts == UNION {dbs[n].facts : n \in DOMAIN dbs}

Boot == {"password", "cluster", "initdb", "unclaim", "start", "recover",
         "create", "migrate", "record", "file"}
Restore == {"fill", "mark", "retire", "promote", "rollback", "settle"}
\* main.ts holds a database it can stop: startDatabase() has returned
Held == {"wire", "open"} \cup Restore
\* processes that answer the person: jobs and screens reach the live database
Serving == {"open"} \cup Restore

Init == /\ at = "off" /\ found = FALSE /\ secret = 0 /\ clusterPw = 0
        /\ cluster \in {"absent", "foreign"}
        /\ sentinel = FALSE /\ server = FALSE /\ dbs = [n \in {} |-> Empty]
        /\ marker = 0 /\ file = 0 /\ minted = 0 /\ restores = 0
        /\ backup = NoBackup /\ last = {} /\ exit = "quit" /\ promised = 0
        /\ faults = 0

To(step) == at' = step
Fault == faults < Faults /\ faults' = faults + 1
----------------------------------------------------------------------------
(* Launch: startLocalDatabase, step by step *)

Launch ==
  /\ at = "off" /\ To("password")
  /\ found' = (cluster = "ready")
  /\ UNCHANGED <<durable, server, dbs, marker, restores, backup, ghosts, faults>>

\* a password is generated and stored before anything is created; a cluster
\* without one is refused and kept
Password ==
  /\ at = "password"
  /\ \/ secret # 0 /\ To("cluster") /\ UNCHANGED secret
     \/ secret = 0 /\ found /\ To("failed") /\ UNCHANGED secret
     \/ secret = 0 /\ ~found /\ To("cluster") /\ secret' = faults + 1
  /\ UNCHANGED <<found, cluster, clusterPw, sentinel, file, minted, server, dbs,
                 marker, restores, backup, ghosts, faults>>

Disposition ==
  CASE cluster = "ready" -> "ready"
    [] cluster = "absent" -> "fresh"
    [] cluster = "partial" /\ sentinel -> "resume-interrupted"
    [] OTHER -> "foreign"

Initialise ==
  /\ at = "cluster"
  /\ \/ Disposition = "ready" /\ To("start") /\ sentinel' = FALSE /\ UNCHANGED cluster
     \/ Disposition = "foreign" /\ To("failed") /\ UNCHANGED <<sentinel, cluster>>
     \/ /\ Disposition \in {"fresh", "resume-interrupted"}
        /\ To("initdb") /\ sentinel' = TRUE /\ cluster' = "partial"
  /\ UNCHANGED <<found, secret, clusterPw, file, minted, server, dbs, marker,
                 restores, backup, ghosts, faults>>

InitDb ==
  /\ at = "initdb" /\ To("unclaim")
  /\ cluster' = "ready" /\ clusterPw' = secret /\ dbs' = [n \in {} |-> Empty]
  /\ UNCHANGED <<found, secret, sentinel, file, minted, server, marker, restores,
                 backup, ghosts, faults>>

InitDbFails ==
  /\ at = "initdb" /\ Fault /\ To("failed")
  /\ UNCHANGED <<found, durable, server, dbs, marker, restores, backup, ghosts>>

Unclaim ==
  /\ at = "unclaim" /\ To("start") /\ sentinel' = FALSE
  /\ UNCHANGED <<found, secret, cluster, clusterPw, file, minted, server, dbs,
                 marker, restores, backup, ghosts, faults>>

\* a second server refuses a directory another one holds, and the port this
\* launch chose never answers
StartServer ==
  /\ at = "start"
  /\ IF server THEN To("failed") ELSE To("recover")
  /\ server' = TRUE
  /\ UNCHANGED <<found, durable, dbs, marker, restores, backup, ghosts, faults>>

PendingMarked ==
  {k \in Stamps : k = marker /\ found /\ ~There(Live) /\ There(Retired(k))}

\* the database an interrupted swap set aside: the marker's, else the newest
Pending ==
  LET aside == {k \in Stamps : There(Retired(k))}
  IN  IF ~found \/ There(Live) THEN {}
      ELSE IF marker \in aside THEN {marker}
      ELSE {k \in aside : \A j \in aside : j <= k}

RecoverSwap ==
  /\ at = "recover"
  /\ \E k \in Pending :
        /\ dbs' = Rename(Retired(k), Live)
        /\ marker' \in {0, marker}
  /\ To("create")
  /\ UNCHANGED <<found, durable, server, restores, backup, ghosts, faults>>

RecoveryFails ==
  /\ at = "recover" /\ Pending # {} /\ Fault /\ To("failed")
  /\ UNCHANGED <<found, durable, server, dbs, marker, restores, backup, ghosts>>

NothingToRecover ==
  /\ at = "recover" /\ Pending = {} /\ To("create")
  /\ UNCHANGED <<found, durable, server, dbs, marker, restores, backup, ghosts, faults>>

CreateDatabase ==
  /\ at = "create" /\ To("migrate")
  /\ dbs' = IF There(Live) THEN dbs ELSE Create(Live)
  /\ UNCHANGED <<found, durable, server, marker, restores, backup, ghosts, faults>>

\* every file of the runner is a transaction of its own
Migrate ==
  /\ at = "migrate" /\ To("record")
  /\ UNCHANGED <<found, durable, server, dbs, marker, restores, backup, ghosts, faults>>

MigrateFails ==
  /\ at = "migrate" /\ Fault /\ To("failed")
  /\ UNCHANGED <<found, durable, server, dbs, marker, restores, backup, ghosts>>

InstallIdFromFile == IF file \notin {0, Unreadable} THEN file ELSE minted + 1

\* install.json, else the row of a cluster that was there, else a new id
InstallId ==
  IF file \notin {0, Unreadable} THEN file
  ELSE IF found /\ dbs[Live].id # 0 THEN dbs[Live].id
  ELSE minted + 1

RecordInstall ==
  /\ at = "record" /\ To("file")
  /\ dbs' = [dbs EXCEPT ![Live].id = InstallId]
  /\ minted' = IF InstallId > minted THEN InstallId ELSE minted
  /\ UNCHANGED <<found, secret, cluster, clusterPw, sentinel, file, server, marker,
                 restores, backup, ghosts, faults>>

WriteInstallFile ==
  /\ at = "file" /\ To("wire") /\ file' = dbs[Live].id
  /\ UNCHANGED <<found, secret, cluster, clusterPw, sentinel, minted, server, dbs,
                 marker, restores, backup, ghosts, faults>>

\* identity, credential authority, queue; a failure forgets the database
Wire ==
  /\ at = "wire"
  /\ \/ To("open") /\ UNCHANGED faults
     \/ Fault /\ To("failed")
  /\ UNCHANGED <<found, durable, server, dbs, marker, restores, backup, ghosts>>
----------------------------------------------------------------------------
(* The open application *)

Work ==
  /\ at \in Serving /\ There(Live) /\ Cardinality(Facts \cup last) < Works
  /\ LET f == Cardinality(Facts) + 1 IN
       /\ dbs' = [dbs EXCEPT ![Live].facts = @ \cup {f}]
       /\ last' = dbs[Live].facts \cup {f}
  /\ UNCHANGED <<at, found, durable, server, marker, restores, backup, exit,
                 promised, faults>>

TakeBackup ==
  /\ at = "open" /\ There(Live) /\ backup' = dbs[Live]
  /\ UNCHANGED <<at, found, durable, server, dbs, marker, restores, ghosts, faults>>
----------------------------------------------------------------------------
(* restoreBackup: staging copy, marker, two renames, rollback, clean-up *)

k0 == restores  \* the stamp of the restore under way

BeginRestore ==
  /\ at = "open" /\ There(Live) /\ backup # NoBackup /\ restores < Restores
  /\ restores' = restores + 1
  /\ dbs' = Create(Staging(restores + 1))
  /\ promised' = 0
  /\ To("fill")
  /\ UNCHANGED <<found, durable, server, marker, backup, last, exit, faults>>

Fill ==
  /\ at = "fill" /\ To("mark")
  /\ dbs' = [dbs EXCEPT ![Staging(k0)] = backup]
  /\ UNCHANGED <<found, durable, server, marker, restores, backup, ghosts, faults>>

\* pg_restore, the row counts or the marker fail: the live one was not touched
GiveUp ==
  /\ at \in {"fill", "mark"} /\ Fault /\ To("open")
  /\ dbs' \in {dbs, Drop(Staging(k0))}
  /\ UNCHANGED <<found, durable, server, marker, restores, backup, ghosts>>

Mark ==
  /\ at = "mark" /\ To("retire") /\ marker' = k0
  /\ UNCHANGED <<found, durable, server, dbs, restores, backup, ghosts, faults>>

DropLive ==
  /\ at = "retire" /\ To("promote") /\ dbs' = Drop(Live)
  /\ UNCHANGED <<found, durable, server, marker, restores, backup, ghosts, faults>>

RetireLive ==
  /\ at = "retire" /\ To("promote")
  /\ dbs' = Rename(Live, Retired(k0))
  /\ UNCHANGED <<found, durable, server, marker, restores, backup, ghosts, faults>>

RetireFails ==
  /\ at = "retire" /\ Fault /\ To("open")
  /\ marker' \in {0, marker}
  /\ dbs' \in {dbs, Drop(Staging(k0))}
  /\ UNCHANGED <<found, durable, server, restores, backup, ghosts>>

Promote ==
  /\ at = "promote" /\ To("settle")
  /\ dbs' = Rename(Staging(k0), Live)
  /\ UNCHANGED <<found, durable, server, marker, restores, backup, ghosts, faults>>

PromoteFails ==
  /\ at = "promote" /\ Fault /\ To("rollback")
  /\ UNCHANGED <<found, durable, server, dbs, marker, restores, backup, ghosts>>

RollBack ==
  /\ at = "rollback" /\ To("open")
  /\ marker' \in {0, marker}
  /\ LET back == Rename(Retired(k0), Live)
     IN  dbs' \in {back, [n \in DOMAIN back \ {Staging(k0)} |-> back[n]]}
  /\ UNCHANGED <<found, durable, server, restores, backup, ghosts, faults>>

\* the marker is kept for the next launch; the outer finally still drops the
\* staging database the message calls intact
RollBackFails ==
  /\ at = "rollback" /\ Fault /\ To("open")
  /\ dbs' = Drop(Staging(k0)) /\ promised' = k0
  /\ UNCHANGED <<found, durable, server, marker, restores, backup, last, exit>>

\* the marker goes; the last row count may fail, after the fact
Settle ==
  /\ at = "settle" /\ To("open") /\ marker' \in {0, marker}
  /\ UNCHANGED <<found, durable, server, dbs, restores, backup, ghosts, faults>>
----------------------------------------------------------------------------
(* Ends of the process, and what happens to the machine between launches *)

\* before-quit stops the server only when main.ts holds a database
Quit ==
  /\ at # "off" /\ To("off") /\ exit' = "quit"
  /\ server' = IF at \in Held THEN FALSE ELSE server
  /\ IF at \in {"open", "failed"} THEN UNCHANGED faults ELSE Fault
  /\ UNCHANGED <<found, durable, dbs, marker, restores, backup, last, promised>>

Killed ==
  /\ at # "off" /\ Fault /\ To("off") /\ exit' = "killed"
  /\ server' \in {FALSE, server}   \* the machine went down, or only the process
  /\ UNCHANGED <<found, durable, dbs, marker, restores, backup, last, promised>>

Reboot ==
  /\ at = "off" /\ server /\ server' = FALSE
  /\ UNCHANGED <<at, found, durable, dbs, marker, restores, backup, ghosts, faults>>

Spoil ==
  /\ at = "off" /\ Fault
  /\ \/ secret' = 0 /\ UNCHANGED <<file, marker>>
     \/ file # 0 /\ file' \in {0, Unreadable} /\ UNCHANGED <<secret, marker>>
     \/ marker' = 0 /\ UNCHANGED <<secret, file>>
  /\ UNCHANGED <<at, found, cluster, clusterPw, sentinel, minted, server, dbs,
                 restores, backup, ghosts>>

LaunchStep == \/ Password \/ Initialise \/ InitDb \/ Unclaim \/ StartServer
              \/ RecoverSwap \/ NothingToRecover \/ CreateDatabase \/ Migrate
              \/ RecordInstall \/ WriteInstallFile \/ Wire
RestoreStep == \/ Fill \/ Mark \/ RetireLive \/ Promote \/ RollBack \/ Settle
Failure == \/ InitDbFails \/ RecoveryFails \/ MigrateFails \/ GiveUp
           \/ RetireFails \/ PromoteFails \/ RollBackFails

Next == \/ Launch \/ LaunchStep \/ Work \/ TakeBackup \/ BeginRestore
        \/ RestoreStep \/ Failure \/ Quit \/ Killed \/ Reboot \/ Spoil

Spec == Init /\ [][Next]_vars

GivesUp == Quit /\ (at = "failed" \/ (at = "open" /\ ~There(Live)))

\* The person opens the application again, closes one that shows no data, and
\* restarts a computer on which it does not start.
Persists == /\ WF_vars(Launch) /\ WF_vars(LaunchStep) /\ WF_vars(RestoreStep)
            /\ WF_vars(GivesUp)
            /\ SF_vars(Reboot)

FairSpec == Spec /\ Persists
----------------------------------------------------------------------------
(* Properties *)

TypeOK ==
  /\ at \in {"off", "failed"} \cup Boot \cup Held
  /\ found \in BOOLEAN /\ sentinel \in BOOLEAN /\ server \in BOOLEAN
  /\ secret \in 0..Faults + 1 /\ clusterPw \in 0..Faults + 1
  /\ cluster \in {"absent", "foreign", "partial", "ready"}
  /\ DOMAIN dbs \subseteq Names /\ \A n \in DOMAIN dbs : dbs[n] \in Content
  /\ marker \in 0..Restores /\ restores \in 0..Restores /\ promised \in 0..Restores
  /\ file \in Nat /\ minted \in Nat /\ backup \in Content
  /\ last \subseteq 1..Works /\ exit \in {"quit", "killed"} /\ faults \in 0..Faults

\* Whatever a restore does, wherever it dies, the database the person worked in
\* is still in the cluster, under the live or a retired name
\* (restore.ts:188-222).
NothingLost ==
  cluster = "ready" /\ last # {}
    => \E n \in DOMAIN dbs : n[1] # "staging" /\ dbs[n].facts = last

\* The open application shows what the person left or what the backup held,
\* never an empty database made because the live name was missing
\* (local-database.ts:286-318, restore.ts:331-342).
HistoryOrBackup ==
  at = "open" /\ There(Live) => dbs[Live].facts \in {last, backup.facts}

\* What the person recorded is never lost and never shown as an empty book.
HistoryKept == NothingLost /\ HistoryOrBackup

\* A password in the credential store opens the cluster: it is stored before
\* initdb and no launch replaces it (local-database.ts:386-394).
StoredPasswordOpens == cluster = "ready" /\ secret # 0 => secret = clusterPw

\* An install has one id for life, through lost or unreadable install files,
\* interrupted first launches and restores (local-database.ts:440-527).
OneIdentity ==
  \A n \in DOMAIN dbs : \A id \in {dbs[n].id, file} \ {0, Unreadable} :
     /\ id = minted
     /\ minted = 1

\* A launch finds the cluster and the identity of the first one.
SameInstall == StoredPasswordOpens /\ OneIdentity

\* A directory this install did not begin to initialise is never written to
\* (postgres-runtime.ts:127-135, 181-199).
ForeignUntouched == [][cluster = "foreign" => cluster' = "foreign"]_vars

\* A live database that is missing beside a retired one is put back with what
\* the person recorded, as long as the password is there
\* (local-database.ts:425-437).
SwapHeals ==
  (cluster = "ready" /\ ~There(Live) /\ \E k \in Stamps : There(Retired(k)))
    ~> \/ secret = 0
       \/ There(Live) /\ dbs[Live].facts \in {last, backup.facts}

\* A restore happens at once or not at all, and what it replaced stays: while the swap
\* has left no live database, the person's history is the one just set aside
\* (restore.ts:188-222, 326-362, local-database.ts:418-446).
AtOnce == INSTANCE History WITH
            shown <- IF There(Live) THEN dbs[Live].facts
                     ELSE IF There(Retired(restores)) THEN dbs[Retired(restores)].facts
                     ELSE {},
            saved <- IF backup = NoBackup THEN {} ELSE {backup.facts},
            aside <- [k \in {j \in Stamps : There(Retired(j)) /\ (There(Live) \/ j # restores)}
                        |-> dbs[Retired(k)].facts]
RestoresAtOnce == AtOnce!Spec

\* What restore.ts:357 tells the person after a failed rollback.
RestoredCopyIsIntact == promised # 0 => There(Staging(promised))

\* What specs/01_CHUNK_1_SHELL.md:45 asks of Quit.
QuitLeavesNoChild == at = "off" /\ exit = "quit" => ~server
=============================================================================
