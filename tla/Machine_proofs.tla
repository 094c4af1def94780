--------------------------- MODULE Machine_proofs ---------------------------
(***************************************************************************)
(* Proofs about the components of one machine, for every value of their    *)
(* constants.  A component's own steps are the only ones that touch its    *)
(* variables, so its invariant holds whichever component is in focus.      *)
(***************************************************************************)
EXTENDS MCMachine, FiniteSetTheorems, TLAPS

-----------------------------------------------------------------------------
(* LocalDatabase *)

DbBounds == Restores \in Nat /\ Works \in Nat /\ DbFaults \in Nat

Aside(k) == Db!There(Db!Retired(k))

DbType == Db!TypeOK /\ dbs \in [DOMAIN dbs -> Db!Content]

(* Before its first identity the install holds nothing; a cluster that is not *)
(* ready was never recorded in.                                               *)
Blank ==
  /\ minted \in {0, 1}
  /\ cluster # "ready" => DOMAIN dbs = {} /\ minted = 0
  /\ minted = 0 =>
       /\ last = {} /\ restores = 0 /\ backup = Db!NoBackup
       /\ \A n \in DOMAIN dbs : n = Db!Live /\ dbs[n] = Db!Empty
       /\ at \notin {"file"} \cup Db!Held

(* Where the launch is tells what it found. *)
Launching ==
  /\ at \in {"password", "cluster"} => (found <=> cluster = "ready")
  /\ at = "initdb" => ~found /\ cluster = "partial"
  /\ at \in {"unclaim", "start", "recover", "create", "migrate", "record", "file"} \cup Db!Held
       => cluster = "ready"
  /\ at \in Db!Boot \ {"file"} /\ ~found => minted = 0
  /\ at = "create" => Db!There(Db!Live) \/ minted = 0
  /\ at \in {"migrate", "record", "file", "wire"} => Db!There(Db!Live)

(* Every database that counts carries the one identity. *)
Identity ==
  /\ secret # 0 /\ cluster = "ready" => secret = clusterPw
  /\ file \in {0, Db!Unreadable, minted}
  /\ backup # Db!NoBackup => backup.id = 1
  /\ \A n \in DOMAIN dbs : dbs[n].id \in {0, minted}
  /\ minted = 1 /\ Db!There(Db!Live) => dbs[Db!Live].id = 1

(* Where the restore is tells what is in the cluster. *)
Restoring ==
  /\ at \in {"fill", "mark", "retire", "promote"} =>
       Db!There(Db!Staging(restores)) /\ backup # Db!NoBackup /\ restores # 0
  /\ at \in {"mark", "retire", "promote"} => dbs[Db!Staging(restores)] = backup
  /\ at \in {"fill", "mark", "retire"} => Db!There(Db!Live) /\ ~Aside(restores)
  /\ at \in {"promote", "rollback"} => ~Db!There(Db!Live)
  /\ at \in {"retire", "promote", "rollback"} => marker = restores

(* The live database is what was left or backed up; without one, the newest *)
(* retired one is, and the marker names no other.                           *)
Shown ==
  /\ Db!There(Db!Live) => dbs[Db!Live].facts \in {last, backup.facts}
  /\ \A k \in Db!Stamps : Aside(k) => k <= restores /\ dbs[Db!Retired(k)].id = 1
  /\ minted = 1 /\ ~Db!There(Db!Live) =>
       /\ restores \in Db!Stamps /\ Aside(restores) /\ marker \in {0, restores}
       /\ dbs[Db!Retired(restores)].facts \in {last, backup.facts}

(* What the person recorded last is in a database that is never dropped. *)
Kept ==
  last # {} =>
    \/ Db!There(Db!Live) /\ dbs[Db!Live].facts = last
    \/ \E k \in Db!Stamps : Aside(k) /\ dbs[Db!Retired(k)].facts = last

DbInv == DbType /\ Blank /\ Launching /\ Identity /\ Restoring /\ Shown /\ Kept

LEMMA NamesDiffer ==
  ASSUME NEW j, NEW k
  PROVE  /\ Db!Live # Db!Staging(k) /\ Db!Live # Db!Retired(k)
         /\ Db!Staging(j) # Db!Retired(k)
         /\ Db!Retired(j) = Db!Retired(k) => j = k
         /\ Db!Live[1] # "staging" /\ Db!Retired(k)[1] # "staging"
BY DEF Db!Live, Db!Staging, Db!Retired

LEMMA NamesListed ==
  /\ Db!Live \in Db!Names
  /\ \A k \in Db!Stamps : Db!Staging(k) \in Db!Names /\ Db!Retired(k) \in Db!Names
BY DEF Db!Names

LEMMA DbInvImplies == DbInv => Db!HistoryKept /\ Db!SameInstall
<1>. SUFFICES ASSUME DbInv PROVE Db!HistoryKept /\ Db!SameInstall OBVIOUS
<1>1. Db!NothingLost
  BY NamesDiffer DEF DbInv, Kept, Db!NothingLost, Aside, Db!There
<1>2. Db!HistoryOrBackup BY DEF DbInv, Shown, Db!HistoryOrBackup
<1>3. Db!SameInstall
  BY DEF DbInv, Blank, Identity, DbType, Db!TypeOK, Db!SameInstall, Db!StoredPasswordOpens,
         Db!OneIdentity, Db!Unreadable
<1>. QED BY <1>1, <1>2, <1>3 DEF Db!HistoryKept

LEMMA DbInit == ASSUME DbBounds, Db!Init PROVE DbInv
<1>1. DOMAIN dbs = {} BY DEF Db!Init
<1>2. /\ dbs \in [DOMAIN dbs -> Db!Content] /\ backup \in Db!Content
      /\ DOMAIN dbs \subseteq Db!Names /\ \A n \in DOMAIN dbs : dbs[n] \in Db!Content
  BY <1>1 DEF Db!Init, Db!Content, Db!NoBackup
<1>3. DbType
  <2>1. at \in {"off", "failed"} \cup Db!Boot \cup Db!Held BY DEF Db!Init
  <2>2. found \in BOOLEAN /\ sentinel \in BOOLEAN /\ server \in BOOLEAN BY DEF Db!Init
  <2>3. secret \in 0..DbFaults + 1 /\ clusterPw \in 0..DbFaults + 1 /\ dbFaults \in 0 .. DbFaults
        BY DEF Db!Init, DbBounds
  <2>4. marker \in 0..Restores /\ restores \in 0..Restores /\ promised \in 0..Restores
        BY DEF Db!Init, DbBounds
  <2>5. file \in Nat /\ minted \in Nat
     BY DEF Db!Init, DbBounds
  <2>6. last \subseteq 1..Works /\ exit \in {"quit", "killed"} 
     BY DEF Db!Init, DbBounds
  <2>7. cluster \in {"absent", "foreign", "partial", "ready"} 
     BY DEF Db!Init, DbBounds
  <2>. QED BY <1>2, <2>1, <2>2, <2>3, <2>4, <2>5, <2>6, <2>7 DEF DbType, Db!TypeOK
<1>. QED
  BY <1>1, <1>3 DEF Db!Init, DbInv, Blank, Launching, Identity, Restoring, Shown, Kept,
     Db!Boot, Db!Held, Db!Restore, Db!There, Aside

(* Steps that leave the databases alone. *)
LEMMA DbFaulty == ASSUME DbBounds, DbType, Db!Fault PROVE dbFaults' \in 0..DbFaults
BY DEF DbBounds, DbType, Db!TypeOK, Db!Fault

LEMMA PendingNewest ==
  ASSUME DbInv, at = "recover"
  PROVE  /\ Db!Pending \subseteq {restores}
         /\ minted = 1 /\ ~Db!There(Db!Live) => Db!Pending = {restores}
         /\ Db!Pending # {} => minted = 1 /\ ~Db!There(Db!Live)
<1>a. restores \in Nat /\ Db!Stamps \subseteq Nat /\ minted \in {0, 1} /\ cluster = "ready"
      /\ (~found => minted = 0)
  BY DEF DbInv, DbType, Db!TypeOK, Db!Stamps, Blank, Launching, Db!Boot
<1>b. minted = 0 => \A k \in Db!Stamps : ~Aside(k)
  BY NamesDiffer DEF DbInv, Blank, Aside, Db!There
<1>. DEFINE aside == {k \in Db!Stamps : Aside(k)}
<1>1. Db!Pending = IF ~found \/ Db!There(Db!Live) THEN {}
                   ELSE IF marker \in aside THEN {marker}
                   ELSE {k \in aside : \A j \in aside : j <= k}
  BY DEF Db!Pending, Aside
<1>2. CASE ~found \/ Db!There(Db!Live) \/ minted = 0
  BY <1>1, <1>2, <1>a, <1>b DEF DbInv, Shown
<1>3. CASE found /\ ~Db!There(Db!Live) /\ minted = 1
  <2>1. restores \in aside /\ marker \in {0, restores} /\ 0 \notin aside
        /\ \A k \in aside : k <= restores
    BY <1>3 DEF DbInv, Shown, Db!Stamps
  <2>2. ASSUME NEW k \in aside, \A j \in aside : j <= k PROVE k = restores
    BY <1>a, <2>1, <2>2
  <2>3. {k \in aside : \A j \in aside : j <= k} = {restores} BY <2>1, <2>2
  <2>. QED BY <1>1, <1>3, <2>1, <2>3
<1>. QED BY <1>2, <1>3, <1>a

LEMMA LaunchSteps ==
  ASSUME DbBounds, DbInv,
         \/ Db!Launch \/ Db!Password \/ Db!Initialise \/ Db!InitDbFails \/ Db!Unclaim
         \/ Db!StartServer \/ Db!RecoveryFails \/ Db!NothingToRecover \/ Db!Migrate
         \/ Db!MigrateFails \/ Db!WriteInstallFile \/ Db!Wire
  PROVE  DbInv'
<1>. USE DEF DbInv, Db!To, Db!durable, Db!ghosts, Db!Launch, Db!Password, Db!Initialise,
       Db!Disposition, Db!InitDbFails, Db!Unclaim, Db!StartServer, Db!RecoveryFails,
       Db!NothingToRecover, Db!Migrate, Db!MigrateFails, Db!WriteInstallFile, Db!Wire
<1>a. dbFaults' \in 0..DbFaults BY DbFaulty DEF DbType, Db!TypeOK
<1>1. DbType'
  <2>1. /\ at' \in {"off", "failed"} \cup Db!Boot \cup Db!Held
        /\ found' \in BOOLEAN /\ sentinel' \in BOOLEAN /\ server' \in BOOLEAN
        /\ cluster' \in {"absent", "foreign", "partial", "ready"}
    BY DEF DbType, Db!TypeOK, Db!Boot, Db!Held, Db!Restore
  <2>2. secret' \in 0..DbFaults + 1 BY DEF DbBounds, DbType, Db!TypeOK
  <2>3. file' \in Nat BY DEF DbType, Db!TypeOK, Launching, Db!There, Db!Content
  <2>4. UNCHANGED <<clusterPw, dbs, marker, restores, promised, minted, backup, last, exit>> OBVIOUS
  <2>. QED BY <1>a, <2>1, <2>2, <2>3, <2>4 DEF DbType, Db!TypeOK
<1>2. Blank' BY DEF Blank, Db!Boot, Db!Held, Db!Restore, Launching, Db!There
<1>b. Db!NothingToRecover => Db!There(Db!Live) \/ minted = 0 BY PendingNewest DEF Blank
<1>3. Launching'
  <2>. USE <1>b DEF DbType, Db!TypeOK, Blank, Launching, Db!Boot, Db!Held, Db!Restore, Db!There
  <2>1. CASE Db!Launch
    <3>1. found' <=> cluster' = "ready" BY <2>1
    <3>. QED BY <2>1, <3>1
  <2>6. CASE Db!Password BY <2>6
  <2>7. CASE Db!Unclaim \/ Db!StartServer BY <2>7
  <2>2. CASE Db!Initialise BY <2>2
  <2>3. CASE Db!InitDbFails \/ Db!RecoveryFails \/ Db!MigrateFails BY <2>3
  <2>4. CASE Db!NothingToRecover BY <2>4
  <2>5. CASE Db!Migrate \/ Db!WriteInstallFile \/ Db!Wire BY <2>5
  <2>. QED BY <2>1, <2>2, <2>3, <2>4, <2>5, <2>6, <2>7
<1>4. Identity' BY DEF Identity, Blank, Launching, DbType, Db!TypeOK, Db!There
<1>5. Restoring' BY DEF Restoring, Aside, Db!There
<1>6. Shown' BY DEF Blank, Shown, Aside, Db!Stamps, Db!There
<1>7. Kept' BY DEF Kept, Aside, Db!Stamps, Db!There
<1>. QED BY <1>1, <1>2, <1>3, <1>4, <1>5, <1>6, <1>7

LEMMA OpenSteps ==
  ASSUME DbBounds, DbInv, Db!TakeBackup \/ Db!Mark \/ Db!PromoteFails \/ Db!Settle
  PROVE  DbInv'
<1>. USE DEF DbInv, Db!To, Db!durable, Db!ghosts, Db!k0, Db!TakeBackup, Db!Mark, Db!PromoteFails,
       Db!Settle
<1>a. dbFaults' \in 0..DbFaults BY DbFaulty DEF DbType, Db!TypeOK
<1>1. DbType'
  <2>1. at' \in {"off", "failed"} \cup Db!Boot \cup Db!Held
    BY DEF DbType, Db!TypeOK, Db!Boot, Db!Held, Db!Restore
  <2>2. marker' \in 0..Restores BY DEF DbBounds, DbType, Db!TypeOK
  <2>3. backup' \in Db!Content BY DEF DbType, Db!TypeOK, Db!There
  <2>. QED BY <1>a, <2>1, <2>2, <2>3 DEF DbType, Db!TypeOK
<1>2. Blank' BY DEF Blank, Db!Boot, Db!Held, Db!Restore, Launching, Db!There
<1>3. Launching'
  BY DEF DbType, Db!TypeOK, Blank, Launching, Db!Boot, Db!Held, Db!Restore, Db!There
<1>4. Identity' BY DEF Identity, Blank, Db!Held, Launching, DbType, Db!TypeOK, Db!There
<1>5. Restoring' BY DEF Restoring, Aside, Db!There
<1>6. Shown' BY DEF Blank, Shown, Restoring, Aside, Db!Stamps, Db!There
<1>7. Kept' BY DEF Kept, Aside, Db!Stamps, Db!There
<1>. QED BY <1>1, <1>2, <1>3, <1>4, <1>5, <1>6, <1>7

LEMMA EndSteps ==
  ASSUME DbBounds, DbInv, Db!Quit \/ Db!Killed \/ Db!Reboot
  PROVE  DbInv'
<1>. USE DEF DbInv, Db!To, Db!durable, Db!ghosts, Db!Quit, Db!Killed, Db!Reboot
<1>a. dbFaults' \in 0..DbFaults BY DbFaulty DEF DbType, Db!TypeOK
<1>1. DbType'
  <2>1. at' \in {"off", "failed"} \cup Db!Boot \cup Db!Held
    BY DEF DbType, Db!TypeOK, Db!Boot, Db!Held, Db!Restore
  <2>2. exit' \in {"quit", "killed"} BY DEF DbType, Db!TypeOK
  <2>3. server' \in BOOLEAN BY DEF DbType, Db!TypeOK
  <2>. QED BY <1>a, <2>1, <2>2, <2>3 DEF DbType, Db!TypeOK
<1>2. Blank' BY DEF Blank, Db!Boot, Db!Held, Db!Restore, Launching, Db!There
<1>3. Launching'
  BY DEF DbType, Db!TypeOK, Blank, Launching, Db!Boot, Db!Held, Db!Restore, Db!There
<1>4. Identity' BY DEF Identity, Blank, Db!Held, Launching, DbType, Db!TypeOK, Db!There
<1>5. Restoring' BY DEF Restoring, Aside, Db!There
<1>6. Shown' BY DEF Blank, Shown, Restoring, Aside, Db!Stamps, Db!There
<1>7. Kept' BY DEF Kept, Aside, Db!Stamps, Db!There
<1>. QED BY <1>1, <1>2, <1>3, <1>4, <1>5, <1>6, <1>7

LEMMA SpoilStep ==
  ASSUME DbBounds, DbInv, Db!Spoil
  PROVE  DbInv'
<1>. USE DEF DbInv, Db!To, Db!durable, Db!ghosts, Db!Spoil
<1>a. dbFaults' \in 0..DbFaults BY DbFaulty DEF DbType, Db!TypeOK
<1>1. DbType'
  <2>1. at' \in {"off", "failed"} \cup Db!Boot \cup Db!Held
    BY DEF DbType, Db!TypeOK, Db!Boot, Db!Held, Db!Restore
  <2>2. secret' \in 0..DbFaults + 1 /\ marker' \in 0..Restores
    BY DEF DbBounds, DbType, Db!TypeOK
  <2>3. file' \in Nat BY DEF DbType, Db!TypeOK, Db!Unreadable
  <2>. QED BY <1>a, <2>1, <2>2, <2>3 DEF DbType, Db!TypeOK
<1>2. Blank' BY DEF Blank, Db!Boot, Db!Held, Db!Restore, Launching, Db!There
<1>3. Launching'
  BY DEF DbType, Db!TypeOK, Blank, Launching, Db!Boot, Db!Held, Db!Restore, Db!There
<1>4. Identity' BY DEF Identity, Blank, Db!Held, Launching, DbType, Db!TypeOK, Db!There
<1>5. Restoring' BY DEF Restoring, Aside, Db!There
<1>6. Shown' BY DEF Blank, Shown, Restoring, Aside, Db!Stamps, Db!There
<1>7. Kept' BY DEF Kept, Aside, Db!Stamps, Db!There
<1>. QED BY <1>1, <1>2, <1>3, <1>4, <1>5, <1>6, <1>7

(* What the statements of a restore make of the databases. *)
LEMMA Renamed ==
  ASSUME DbType, NEW n \in DOMAIN dbs, NEW m \in Db!Names, m \notin DOMAIN dbs
  PROVE  LET d == Db!Rename(n, m) IN
         /\ d \in [DOMAIN d -> Db!Content] /\ DOMAIN d \subseteq Db!Names
         /\ DOMAIN d = (DOMAIN dbs \ {n}) \cup {m}
         /\ d[m] = dbs[n] /\ \A o \in DOMAIN dbs \ {n} : d[o] = dbs[o]
<1>. DEFINE d == Db!Rename(n, m)
<1>1. /\ DOMAIN d = (DOMAIN dbs \ {n}) \cup {m}
      /\ \A o \in DOMAIN d : d[o] = IF o = m THEN dbs[n] ELSE dbs[o]
      /\ d = [o \in DOMAIN d |-> d[o]]
  BY DEF Db!Rename
<1>. QED BY <1>1 DEF DbType, Db!TypeOK

LEMMA Dropped ==
  ASSUME DbType, NEW n, NEW d, d \in {dbs, Db!Drop(n)}
  PROVE  /\ d \in [DOMAIN d -> Db!Content] /\ DOMAIN d \subseteq Db!Names
         /\ DOMAIN dbs \ {n} \subseteq DOMAIN d /\ DOMAIN d \subseteq DOMAIN dbs
         /\ \A o \in DOMAIN d : d[o] = dbs[o]
<1>1. CASE d = dbs BY <1>1 DEF DbType, Db!TypeOK
<1>2. CASE d = Db!Drop(n)
  <2>1. /\ DOMAIN d = DOMAIN dbs \ {n} /\ \A o \in DOMAIN d : d[o] = dbs[o]
        /\ d = [o \in DOMAIN d |-> d[o]]
    BY <1>2 DEF Db!Drop
  <2>. QED BY <2>1 DEF DbType, Db!TypeOK
<1>. QED BY <1>1, <1>2

LEMMA Created ==
  ASSUME DbType, NEW n \in Db!Names
  PROVE  LET d == Db!Create(n) IN
         /\ d \in [DOMAIN d -> Db!Content] /\ DOMAIN d \subseteq Db!Names
         /\ DOMAIN d = DOMAIN dbs \cup {n}
         /\ d[n] = Db!Empty /\ \A o \in DOMAIN dbs \ {n} : d[o] = dbs[o]
<1>. DEFINE d == Db!Create(n)
<1>1. /\ DOMAIN d = DOMAIN dbs \cup {n}
      /\ \A o \in DOMAIN d : d[o] = IF o = n THEN Db!Empty ELSE dbs[o]
      /\ d = [o \in DOMAIN d |-> d[o]]
  BY DEF Db!Create
<1>2. Db!Empty \in Db!Content BY DEF Db!Empty, Db!Content
<1>. QED BY <1>1, <1>2 DEF DbType, Db!TypeOK

LEMMA Replaced ==
  ASSUME DbType, NEW n \in DOMAIN dbs, NEW b \in Db!Content,
         NEW d, d = [dbs EXCEPT ![n] = b]
  PROVE  /\ d \in [DOMAIN d -> Db!Content] /\ DOMAIN d \subseteq Db!Names
         /\ DOMAIN d = DOMAIN dbs
         /\ d[n] = b /\ \A o \in DOMAIN dbs \ {n} : d[o] = dbs[o]
BY DEF DbType, Db!TypeOK

(* The databases and where the process is are all that such a statement changes. *)
LEMMA TypeKept ==
  ASSUME DbBounds, DbType, dbs' \in [DOMAIN dbs' -> Db!Content], DOMAIN dbs' \subseteq Db!Names,
         at' \in {"off", "failed"} \cup Db!Boot \cup Db!Held,
         dbFaults' \in 0..DbFaults, marker' \in {0, marker},
         UNCHANGED <<found, server, secret, cluster, clusterPw, sentinel, file, minted,
                     restores, backup, last, exit, promised>>
  PROVE  DbType'
BY DEF DbBounds, DbType, Db!TypeOK

LEMMA InitDbStep == ASSUME DbBounds, DbInv, Db!InitDb PROVE DbInv'
<1>. USE DEF DbInv, Db!InitDb, Db!To, Db!ghosts
<1>1. DOMAIN dbs' = {} /\ dbs' \in [DOMAIN dbs' -> Db!Content] /\ minted = 0
  BY DEF Launching, Blank
<1>2. DbType'
  <2>1. at' \in {"off", "failed"} \cup Db!Boot \cup Db!Held
    BY DEF DbType, Db!TypeOK, Db!Boot, Db!Held, Db!Restore
  <2>. QED BY <1>1, <2>1 DEF DbType, Db!TypeOK
<1>3. Blank' BY <1>1 DEF Blank, Db!Held, Db!Restore
<1>4. Launching' BY <1>1 DEF Launching, Db!Boot, Db!Held, Db!Restore
<1>5. Identity' BY <1>1 DEF Identity, Blank, Db!There
<1>6. Restoring' BY DEF Restoring
<1>7. Shown' /\ Kept' BY <1>1 DEF Blank, Shown, Kept, Aside, Db!There
<1>. QED BY <1>2, <1>3, <1>4, <1>5, <1>6, <1>7

LEMMA RecoverSwapStep == ASSUME DbBounds, DbInv, Db!RecoverSwap PROVE DbInv'
<1>r. PICK r : r = restores OBVIOUS
<1>a. /\ dbs' = Db!Rename(Db!Retired(r), Db!Live) /\ marker' \in {0, marker}
      /\ minted = 1 /\ ~Db!There(Db!Live) /\ Db!There(Db!Retired(r)) /\ r \in Db!Stamps
      /\ DbType
  BY <1>r, PendingNewest DEF Db!RecoverSwap, DbInv, Shown, Aside
<1>b. /\ dbs' \in [DOMAIN dbs' -> Db!Content] /\ DOMAIN dbs' \subseteq Db!Names
      /\ DOMAIN dbs' = (DOMAIN dbs \ {Db!Retired(r)}) \cup {Db!Live}
      /\ dbs'[Db!Live] = dbs[Db!Retired(r)]
      /\ \A o \in DOMAIN dbs \ {Db!Retired(r)} : dbs'[o] = dbs[o]
  <2>1. Db!Retired(r) \in DOMAIN dbs /\ Db!Live \notin DOMAIN dbs BY <1>a DEF Db!There
  <2>2. Db!Live \in Db!Names BY NamesListed
  <2>3. dbs' = Db!Rename(Db!Retired(r), Db!Live) /\ DbType BY <1>a
  <2>. QED BY <2>1, <2>2, <2>3, Renamed
<1>. USE DEF DbInv, Db!RecoverSwap, Db!To, Db!durable, Db!ghosts
<1>2. DbType'
  <2>1. at' \in {"off", "failed"} \cup Db!Boot \cup Db!Held BY DEF Db!Boot
  <2>. QED BY <1>a, <1>b, <2>1, TypeKept DEF DbType, Db!TypeOK
<1>3. Blank' BY <1>a, <1>b DEF Blank, Db!Held, Db!Restore, Launching
<1>4. Launching' BY <1>a, <1>b DEF Launching, Db!Boot, Db!Held, Db!Restore, Db!There
<1>5. Identity' BY <1>a, <1>b DEF Identity, Shown, Blank, Aside, Db!There
<1>6. Restoring' BY DEF Restoring
<1>7. Shown' BY <1>r, <1>a, <1>b, NamesDiffer DEF Shown, Aside, Db!There
<1>8. Kept' BY <1>a, <1>b, NamesDiffer DEF Kept, Aside, Db!There
<1>. QED BY <1>2, <1>3, <1>4, <1>5, <1>6, <1>7, <1>8

LEMMA CreateDatabaseStep == ASSUME DbBounds, DbInv, Db!CreateDatabase PROVE DbInv'
<1>. USE DEF DbInv, Db!CreateDatabase, Db!To, Db!durable, Db!ghosts
<1>a. CASE Db!There(Db!Live)
  <2>. USE <1>a
  <2>1. at' \in {"off", "failed"} \cup Db!Boot \cup Db!Held BY DEF Db!Boot
  <2>2. DbType' BY <2>1 DEF DbType, Db!TypeOK
  <2>3. Blank' BY DEF Blank, Db!Held, Db!Restore, Launching
  <2>4. Launching' BY DEF Launching, Db!Boot, Db!Held, Db!Restore, Db!There
  <2>5. Identity' BY DEF Identity, Db!There
  <2>6. Restoring' BY DEF Restoring
  <2>7. Shown' /\ Kept' BY DEF Shown, Kept, Aside, Db!There
  <2>. QED BY <2>2, <2>3, <2>4, <2>5, <2>6, <2>7
<1>b. CASE ~Db!There(Db!Live)
  <2>a. minted = 0 /\ dbs' = Db!Create(Db!Live) BY <1>b DEF Launching
  <2>b. DOMAIN dbs = {} BY <1>b, <2>a DEF Blank, Db!There
  <2>c. /\ dbs' \in [DOMAIN dbs' -> Db!Content] /\ DOMAIN dbs' \subseteq Db!Names
        /\ DOMAIN dbs' = {Db!Live} /\ dbs'[Db!Live] = Db!Empty
    BY <2>a, <2>b, Created, NamesListed
  <2>2. DbType'
    <3>1. at' \in {"off", "failed"} \cup Db!Boot \cup Db!Held BY DEF Db!Boot
    <3>. QED BY <2>c, <3>1, TypeKept DEF DbType, Db!TypeOK
  <2>3. Blank' BY <2>a, <2>c DEF Blank, Db!Held, Db!Restore, Launching
  <2>4. Launching' BY <2>a, <2>c DEF Launching, Db!Boot, Db!Held, Db!Restore, Db!There
  <2>5. Identity' BY <2>a, <2>c DEF Identity, Db!There, Db!Empty
  <2>6. Restoring' BY DEF Restoring
  <2>7. \A k : ~Aside(k)' BY <2>c, NamesDiffer DEF Aside, Db!There
  <2>9. last' = {} /\ minted' = 0 /\ dbs'[Db!Live].facts = {} BY <2>a, <2>c DEF Blank, Db!Empty
  <2>8. Shown' /\ Kept' BY <2>7, <2>9 DEF Shown, Kept
  <2>. QED BY <2>2, <2>3, <2>4, <2>5, <2>6, <2>8
<1>. QED BY <1>a, <1>b

LEMMA RecordInstallStep == ASSUME DbBounds, DbInv, Db!RecordInstall PROVE DbInv'
<1>. USE DEF DbInv, Db!RecordInstall, Db!To, Db!ghosts
<1>a. Db!There(Db!Live) /\ Db!InstallId = 1
  BY DEF Launching, Identity, Blank, Db!InstallId, Db!Unreadable, Db!There, Db!Boot
<1>b. minted' = 1 BY <1>a DEF Blank
<1>. DEFINE b == [dbs[Db!Live] EXCEPT !.id = 1]
<1>c. b \in Db!Content /\ b.facts = dbs[Db!Live].facts /\ b.id = 1
  BY <1>a DEF DbType, Db!TypeOK, Db!There, Db!Content
<1>d. dbs' = [dbs EXCEPT ![Db!Live] = b] BY <1>a
<1>. HIDE DEF b
<1>e. /\ dbs' \in [DOMAIN dbs' -> Db!Content] /\ DOMAIN dbs' \subseteq Db!Names
      /\ DOMAIN dbs' = DOMAIN dbs /\ dbs'[Db!Live] = b
      /\ \A o \in DOMAIN dbs \ {Db!Live} : dbs'[o] = dbs[o]
  BY <1>a, <1>c, <1>d, Replaced DEF Db!There
<1>2. DbType'
  <2>1. at' \in {"off", "failed"} \cup Db!Boot \cup Db!Held BY DEF Db!Boot
  <2>. QED BY <1>b, <1>e, <2>1 DEF DbType, Db!TypeOK
<1>3. Blank' BY <1>b, <1>e, <1>a DEF Blank, Db!Held, Db!Restore, Launching, Db!There
<1>4. Launching' BY <1>b, <1>e DEF Launching, Db!Boot, Db!Held, Db!Restore, Db!There
<1>5. Identity' BY <1>a, <1>b, <1>c, <1>e DEF Identity, Blank, Db!There
<1>6. Restoring' BY DEF Restoring
<1>7. Shown' /\ Kept'
  BY <1>a, <1>b, <1>c, <1>e, NamesDiffer DEF Blank, Shown, Kept, Aside, Db!There
<1>. QED BY <1>2, <1>3, <1>4, <1>5, <1>6, <1>7

LEMMA SameCount == ASSUME NEW S PROVE Db!Cardinality(S) = Cardinality(S)
BY DEF Db!Cardinality, Cardinality

(* What the person records is counted from the facts that are there. *)
LEMMA FactsCounted ==
  ASSUME DbBounds, DbType, Cardinality(Db!Facts \cup last) < Works
  PROVE  Cardinality(Db!Facts) + 1 \in 1..Works
<1>1. Db!Facts \cup last \subseteq 1..Works
  BY DEF DbType, Db!TypeOK, Db!Facts, Db!Content
<1>2. IsFiniteSet(Db!Facts \cup last)
  <2>1. IsFiniteSet(1..Works) BY FS_Interval DEF DbBounds
  <2>. QED BY <1>1, <2>1, FS_Subset
<1>3. /\ IsFiniteSet(Db!Facts) /\ Cardinality(Db!Facts) <= Cardinality(Db!Facts \cup last)
  BY <1>2, FS_Subset
<1>4. Cardinality(Db!Facts) \in Nat /\ Cardinality(Db!Facts \cup last) \in Nat
  BY <1>2, <1>3, FS_CardinalityType
<1>. QED BY <1>3, <1>4 DEF DbBounds

LEMMA WorkStep == ASSUME DbBounds, DbInv, Db!Work PROVE DbInv'
<1>1. PICK f \in 1..Works :
        /\ dbs' = [dbs EXCEPT ![Db!Live].facts = @ \cup {f}]
        /\ last' = dbs[Db!Live].facts \cup {f}
  <2>1. DbType BY DEF DbInv
  <2>2. Cardinality(Db!Facts \cup last) < Works BY SameCount DEF Db!Work
  <2>3. Cardinality(Db!Facts) + 1 \in 1..Works BY <2>1, <2>2, FactsCounted
  <2>4. PICK f : f = Cardinality(Db!Facts) + 1 OBVIOUS
  <2>5. /\ dbs' = [dbs EXCEPT ![Db!Live].facts = @ \cup {f}]
        /\ last' = dbs[Db!Live].facts \cup {f}
    BY <2>4, SameCount DEF Db!Work
  <2>. QED BY <2>3, <2>4, <2>5
<1>2. /\ Db!Live \in DOMAIN dbs /\ DbType
      /\ UNCHANGED <<at, found, secret, cluster, clusterPw, sentinel, file, minted, server,
                     marker, restores, backup, exit, promised, dbFaults>>
  BY DEF Db!Work, Db!There, DbInv, Db!durable
<1>. DEFINE b == [dbs[Db!Live] EXCEPT !.facts = @ \cup {f}]
<1>3. /\ b \in Db!Content /\ b.facts = last' /\ b.id = dbs[Db!Live].id
      /\ dbs' = [dbs EXCEPT ![Db!Live] = b]
  BY <1>1, <1>2 DEF DbType, Db!TypeOK, Db!Content
<1>. HIDE DEF b
<1>4. /\ dbs' \in [DOMAIN dbs' -> Db!Content] /\ DOMAIN dbs' \subseteq Db!Names
      /\ DOMAIN dbs' = DOMAIN dbs /\ dbs'[Db!Live] = b
      /\ \A o \in DOMAIN dbs \ {Db!Live} : dbs'[o] = dbs[o]
  BY <1>2, <1>3, Replaced
<1>5. last' \subseteq 1..Works BY <1>3 DEF Db!Content
<1>6. cluster = "ready" /\ minted = 1
  BY DEF Db!Work, DbInv, Blank, Launching, Db!Held, Db!Serving
<1>. USE DEF DbInv
<1>7. DbType' BY <1>2, <1>4, <1>5 DEF DbType, Db!TypeOK
<1>8. Blank' BY <1>2, <1>6 DEF Blank
<1>9. Launching' BY <1>2, <1>4 DEF Launching, Db!There
<1>10. Identity' BY <1>2, <1>3, <1>4 DEF Identity, Db!There
<1>11. Restoring' BY <1>2, <1>4, NamesDiffer DEF Restoring, Aside, Db!There
<1>12. Shown' BY <1>2, <1>3, <1>4, NamesDiffer DEF Shown, Aside, Db!There
<1>13. Kept' BY <1>2, <1>3, <1>4 DEF Kept, Db!There
<1>. QED BY <1>7, <1>8, <1>9, <1>10, <1>11, <1>12, <1>13

LEMMA BeginRestoreStep == ASSUME DbBounds, DbInv, Db!BeginRestore PROVE DbInv'
<1>1. PICK r : r = restores + 1 OBVIOUS
<1>2. /\ at' = "fill" /\ restores' = r /\ dbs' = Db!Create(Db!Staging(r)) /\ promised' = 0
      /\ Db!Live \in DOMAIN dbs /\ DbType /\ backup # Db!NoBackup
      /\ UNCHANGED <<found, secret, cluster, clusterPw, sentinel, file, minted, server,
                     marker, backup, last, exit, dbFaults>>
  BY <1>1 DEF Db!BeginRestore, Db!To, Db!There, DbInv, Db!durable
<1>3. r \in Db!Stamps /\ restores \in Nat /\ r = restores + 1
  BY <1>1 DEF Db!BeginRestore, DbBounds, DbInv, DbType, Db!TypeOK, Db!Stamps
<1>4. /\ dbs' \in [DOMAIN dbs' -> Db!Content] /\ DOMAIN dbs' \subseteq Db!Names
      /\ DOMAIN dbs' = DOMAIN dbs \cup {Db!Staging(r)} /\ dbs'[Db!Staging(r)] = Db!Empty
      /\ \A o \in DOMAIN dbs \ {Db!Staging(r)} : dbs'[o] = dbs[o]
  <2>1. Db!Staging(r) \in Db!Names BY <1>3, NamesListed
  <2>2. DbType /\ dbs' = Db!Create(Db!Staging(r)) BY <1>2
  <2>3. PICK n : n = Db!Staging(r) OBVIOUS
  <2>4. DbType /\ n \in Db!Names /\ dbs' = Db!Create(n) BY <2>1, <2>2, <2>3
  <2>5. /\ dbs' \in [DOMAIN dbs' -> Db!Content] /\ DOMAIN dbs' \subseteq Db!Names
        /\ DOMAIN dbs' = DOMAIN dbs \cup {n} /\ dbs'[n] = Db!Empty
        /\ \A o \in DOMAIN dbs \ {n} : dbs'[o] = dbs[o]
    BY <2>4, Created
  <2>. QED BY <2>3, <2>5
<1>5. cluster = "ready" /\ minted = 1
  BY DEF Db!BeginRestore, DbInv, Blank, Launching, Db!Held
<1>. USE DEF DbInv
<1>6. DbType'
  <2>1. at' \in {"off", "failed"} \cup Db!Boot \cup Db!Held BY <1>2 DEF Db!Held, Db!Restore
  <2>2. restores' \in 0..Restores /\ promised' \in 0..Restores
    BY <1>2, <1>3 DEF DbBounds, Db!Stamps
  <2>. QED BY <1>2, <1>4, <2>1, <2>2 DEF DbType, Db!TypeOK
<1>7. Blank' BY <1>2, <1>5 DEF Blank
<1>8. Launching' BY <1>2, <1>4, <1>5 DEF Launching, Db!There, Db!Boot
<1>9. Identity' BY <1>2, <1>4, NamesDiffer DEF Identity, Db!There, Db!Empty
<1>10. Restoring'
  <2>1. ~Aside(r)' BY <1>3, <1>4, NamesDiffer DEF Shown, Aside, Db!There
  <2>. QED BY <1>2, <1>3, <1>4, <2>1 DEF Restoring, Aside, Db!There
<1>11. Shown'
  <2>1. \A k \in Db!Stamps : Aside(k)' => Aside(k) /\ dbs'[Db!Retired(k)] = dbs[Db!Retired(k)]
    BY <1>4, NamesDiffer DEF Aside, Db!There
  <2>2. Db!There(Db!Live)' /\ dbs'[Db!Live] = dbs[Db!Live] BY <1>2, <1>4, NamesDiffer DEF Db!There
  <2>3. \A k \in Db!Stamps : k \in Nat BY DEF Db!Stamps
  <2>. QED BY <1>2, <1>3, <2>1, <2>2, <2>3 DEF Shown, Db!There
<1>12. Kept' BY <1>2, <1>4, NamesDiffer DEF Kept, Aside, Db!There
<1>. QED BY <1>6, <1>7, <1>8, <1>9, <1>10, <1>11, <1>12

LEMMA FillStep == ASSUME DbBounds, DbInv, Db!Fill PROVE DbInv'
<1>1. PICK r : r = restores OBVIOUS
<1>2. /\ at = "fill" /\ at' = "mark" /\ dbs' = [dbs EXCEPT ![Db!Staging(r)] = backup]
      /\ Db!Staging(r) \in DOMAIN dbs /\ DbType /\ backup \in Db!Content /\ backup # Db!NoBackup
      /\ UNCHANGED <<found, secret, cluster, clusterPw, sentinel, file, minted, server,
                     marker, restores, backup, last, exit, promised, dbFaults>>
  BY <1>1 DEF Db!Fill, Db!To, Db!There, DbInv, Db!durable, Db!ghosts, Db!k0, Restoring, DbType, Db!TypeOK
<1>3. /\ dbs' \in [DOMAIN dbs' -> Db!Content] /\ DOMAIN dbs' \subseteq Db!Names
      /\ DOMAIN dbs' = DOMAIN dbs /\ dbs'[Db!Staging(r)] = backup
      /\ \A o \in DOMAIN dbs \ {Db!Staging(r)} : dbs'[o] = dbs[o]
  BY <1>2, Replaced
<1>4. cluster = "ready" /\ minted = 1
  BY <1>2 DEF DbInv, Blank, Launching, Db!Held, Db!Restore
<1>. USE DEF DbInv
<1>5. DbType'
  <2>1. at' \in {"off", "failed"} \cup Db!Boot \cup Db!Held BY <1>2 DEF Db!Held, Db!Restore
  <2>2. dbFaults' \in 0..DbFaults BY <1>2 DEF DbType, Db!TypeOK
  <2>. QED BY <1>2, <1>3, <2>1, <2>2, TypeKept
<1>6. Blank' BY <1>2, <1>4 DEF Blank
<1>7. Launching' BY <1>2, <1>3, <1>4 DEF Launching, Db!There, Db!Boot
<1>8. Identity' BY <1>2, <1>3, <1>4, NamesDiffer DEF Identity, Db!There
<1>9. Restoring' BY <1>1, <1>2, <1>3, NamesDiffer DEF Restoring, Aside, Db!There
<1>a. \A k : Aside(k)' <=> Aside(k) BY <1>3 DEF Aside, Db!There
<1>b. \A k : Aside(k) => dbs'[Db!Retired(k)] = dbs[Db!Retired(k)]
  BY <1>3, NamesDiffer DEF Aside, Db!There
<1>c. /\ Db!There(Db!Live)' <=> Db!There(Db!Live)
      /\ Db!There(Db!Live) => dbs'[Db!Live] = dbs[Db!Live]
  BY <1>3, NamesDiffer DEF Db!There
<1>10. Shown'
  <2>1. Shown BY DEF DbInv
  <2>. QED BY <1>2, <1>a, <1>b, <1>c, <2>1 DEF Shown
<1>11. Kept'
  <2>1. Kept BY DEF DbInv
  <2>. QED BY <1>2, <1>a, <1>b, <1>c, <2>1 DEF Kept
<1>. QED BY <1>5, <1>6, <1>7, <1>8, <1>9, <1>10, <1>11

(* A restore that fails before the swap may or may not drop its copy. *)
LEMMA BackOutStep == ASSUME DbBounds, DbInv, Db!GiveUp \/ Db!RetireFails PROVE DbInv'
<1>1. PICK r : r = restores OBVIOUS
<1>2. /\ at \in {"fill", "mark", "retire"} /\ at' = "open" /\ dbs' \in {dbs, Db!Drop(Db!Staging(r))}
      /\ Db!Live \in DOMAIN dbs /\ DbType /\ marker' \in {0, marker} /\ Db!Fault
      /\ UNCHANGED <<found, secret, cluster, clusterPw, sentinel, file, minted, server,
                     restores, backup, last, exit, promised>>
  BY <1>1 DEF Db!GiveUp, Db!RetireFails, Db!To, Db!There, DbInv, Db!durable, Db!ghosts, Db!k0, Restoring
<1>3. /\ dbs' \in [DOMAIN dbs' -> Db!Content] /\ DOMAIN dbs' \subseteq Db!Names
      /\ DOMAIN dbs \ {Db!Staging(r)} \subseteq DOMAIN dbs' /\ DOMAIN dbs' \subseteq DOMAIN dbs
      /\ \A o \in DOMAIN dbs' : dbs'[o] = dbs[o]
  BY <1>2, Dropped
<1>4. cluster = "ready" /\ minted = 1
  BY <1>2 DEF DbInv, Blank, Launching, Db!Held, Db!Restore
<1>5. Db!Live \in DOMAIN dbs' BY <1>2, <1>3, NamesDiffer
<1>6. \A k : Db!Retired(k) \in DOMAIN dbs <=> Db!Retired(k) \in DOMAIN dbs' BY <1>3, NamesDiffer
<1>. USE DEF DbInv
<1>7. DbType'
  <2>1. at' \in {"off", "failed"} \cup Db!Boot \cup Db!Held BY <1>2 DEF Db!Held
  <2>. QED BY <1>2, <1>3, <2>1, DbFaulty, TypeKept
<1>8. Blank' BY <1>2, <1>4 DEF Blank
<1>9. Launching' BY <1>2, <1>4 DEF Launching, Db!Boot
<1>10. Identity' BY <1>2, <1>3, <1>4, <1>5 DEF Identity, Db!There
<1>11. Restoring' BY <1>2 DEF Restoring
<1>12. Shown' BY <1>2, <1>3, <1>5, <1>6 DEF Shown, Aside, Db!There
<1>13. Kept' BY <1>2, <1>3, <1>5, <1>6 DEF Kept, Aside, Db!There
<1>. QED BY <1>7, <1>8, <1>9, <1>10, <1>11, <1>12, <1>13

LEMMA RetireLiveStep == ASSUME DbBounds, DbInv, Db!RetireLive PROVE DbInv'
<1>1. PICK r : r = restores OBVIOUS
<1>2. /\ at = "retire" /\ at' = "promote" /\ dbs' = Db!Rename(Db!Live, Db!Retired(r))
      /\ Db!Live \in DOMAIN dbs /\ Db!Retired(r) \notin DOMAIN dbs /\ DbType
      /\ Db!Staging(r) \in DOMAIN dbs /\ dbs[Db!Staging(r)] = backup /\ marker = r
      /\ backup # Db!NoBackup /\ restores # 0
      /\ UNCHANGED <<found, secret, cluster, clusterPw, sentinel, file, minted, server,
                     marker, restores, backup, last, exit, promised, dbFaults>>
  BY <1>1 DEF Db!RetireLive, Db!To, Db!There, DbInv, Db!durable, Db!ghosts, Db!k0, Restoring, Aside
<1>3. r \in Db!Stamps BY <1>1, <1>2 DEF DbType, Db!TypeOK, Db!Stamps
<1>4. /\ dbs' \in [DOMAIN dbs' -> Db!Content] /\ DOMAIN dbs' \subseteq Db!Names
      /\ DOMAIN dbs' = (DOMAIN dbs \ {Db!Live}) \cup {Db!Retired(r)}
      /\ dbs'[Db!Retired(r)] = dbs[Db!Live]
      /\ \A o \in DOMAIN dbs \ {Db!Live} : dbs'[o] = dbs[o]
  <2>1. Db!Retired(r) \in Db!Names BY <1>3, NamesListed
  <2>2. DbType /\ dbs' = Db!Rename(Db!Live, Db!Retired(r)) BY <1>2
  <2>3. Db!Live \in DOMAIN dbs /\ Db!Retired(r) \notin DOMAIN dbs BY <1>2
  <2>4. PICK n, m : n = Db!Live /\ m = Db!Retired(r) OBVIOUS
  <2>5. DbType /\ n \in DOMAIN dbs /\ m \in Db!Names /\ m \notin DOMAIN dbs /\ dbs' = Db!Rename(n, m)
    BY <2>1, <2>2, <2>3, <2>4
  <2>6. /\ dbs' \in [DOMAIN dbs' -> Db!Content] /\ DOMAIN dbs' \subseteq Db!Names
        /\ DOMAIN dbs' = (DOMAIN dbs \ {n}) \cup {m}
        /\ dbs'[m] = dbs[n] /\ \A o \in DOMAIN dbs \ {n} : dbs'[o] = dbs[o]
    BY <2>5, Renamed
  <2>. QED BY <2>4, <2>6
<1>5. cluster = "ready" /\ minted = 1
  BY <1>2 DEF DbInv, Blank, Launching, Db!Held, Db!Restore
<1>6. /\ ~Db!There(Db!Live)' /\ Aside(r)' /\ Db!There(Db!Staging(r))'
      /\ dbs'[Db!Staging(r)] = backup
  BY <1>2, <1>4, NamesDiffer DEF Db!There, Aside
<1>7. \A k : k # r => /\ Aside(k)' <=> Aside(k)
                      /\ Aside(k) => dbs'[Db!Retired(k)] = dbs[Db!Retired(k)]
  BY <1>4, NamesDiffer DEF Db!There, Aside
<1>8. dbs[Db!Live].id = 1 /\ dbs[Db!Live].facts \in {last, backup.facts}
  BY <1>2, <1>5 DEF DbInv, Identity, Shown, Db!There
<1>9. DbType'
  <2>1. at' \in {"off", "failed"} \cup Db!Boot \cup Db!Held BY <1>2 DEF Db!Held, Db!Restore
  <2>2. dbFaults' \in 0..DbFaults BY <1>2 DEF DbType, Db!TypeOK
  <2>. QED BY <1>2, <1>4, <2>1, <2>2, TypeKept
<1>10. Blank' BY <1>2, <1>5 DEF DbInv, Blank
<1>11. Launching' BY <1>2, <1>5 DEF DbInv, Launching, Db!Boot
<1>12. Identity'
  <2>1. Identity BY DEF DbInv
  <2>. QED BY <1>2, <1>4, <1>6, <2>1 DEF Identity
<1>13. Restoring' BY <1>1, <1>2, <1>6 DEF Restoring
<1>14. Shown'
  <2>1. Shown BY DEF DbInv
  <2>2. restores' = r /\ marker' = r /\ last' = last /\ backup' = backup /\ restores = r
        /\ r \in Nat
    BY <1>1, <1>2, <1>3 DEF Db!Stamps
  <2>. QED BY <1>3, <1>4, <1>6, <1>7, <1>8, <2>1, <2>2 DEF Shown
<1>15. Kept'
  <2>. SUFFICES ASSUME last # {}
                PROVE  \E k \in Db!Stamps : Aside(k)' /\ dbs'[Db!Retired(k)].facts = last
    BY <1>2 DEF Kept
  <2>1. CASE dbs[Db!Live].facts = last BY <1>3, <1>4, <1>6, <2>1
  <2>2. CASE dbs[Db!Live].facts # last
    <3>1. PICK k \in Db!Stamps : Aside(k) /\ dbs[Db!Retired(k)].facts = last
      BY <2>2 DEF DbInv, Kept
    <3>2. k # r BY <1>2, <3>1 DEF Aside, Db!There
    <3>3. Aside(k)' /\ dbs'[Db!Retired(k)] = dbs[Db!Retired(k)] BY <1>7, <3>1, <3>2
    <3>. QED BY <3>1, <3>3
  <2>. QED BY <2>1, <2>2
<1>. QED BY <1>9, <1>10, <1>11, <1>12, <1>13, <1>14, <1>15 DEF DbInv

LEMMA PromoteStep == ASSUME DbBounds, DbInv, Db!Promote PROVE DbInv'
<1>1. PICK r : r = restores OBVIOUS
<1>2. /\ at = "promote" /\ at' = "settle" /\ dbs' = Db!Rename(Db!Staging(r), Db!Live)
      /\ Db!Live \notin DOMAIN dbs /\ DbType
      /\ Db!Staging(r) \in DOMAIN dbs /\ dbs[Db!Staging(r)] = backup /\ backup # Db!NoBackup
      /\ UNCHANGED <<found, secret, cluster, clusterPw, sentinel, file, minted, server,
                     marker, restores, backup, last, exit, promised, dbFaults>>
  BY <1>1 DEF Db!Promote, Db!To, Db!There, DbInv, Db!durable, Db!ghosts, Db!k0, Restoring
<1>4. /\ dbs' \in [DOMAIN dbs' -> Db!Content] /\ DOMAIN dbs' \subseteq Db!Names
      /\ DOMAIN dbs' = (DOMAIN dbs \ {Db!Staging(r)}) \cup {Db!Live}
      /\ dbs'[Db!Live] = backup
      /\ \A o \in DOMAIN dbs \ {Db!Staging(r)} : dbs'[o] = dbs[o]
  <2>1. Db!Live \in Db!Names BY NamesListed
  <2>2. DbType /\ dbs' = Db!Rename(Db!Staging(r), Db!Live) /\ dbs[Db!Staging(r)] = backup BY <1>2
  <2>3. Db!Staging(r) \in DOMAIN dbs /\ Db!Live \notin DOMAIN dbs BY <1>2
  <2>4. PICK n, m : n = Db!Staging(r) /\ m = Db!Live OBVIOUS
  <2>5. /\ DbType /\ n \in DOMAIN dbs /\ m \in Db!Names /\ m \notin DOMAIN dbs
        /\ dbs' = Db!Rename(n, m) /\ dbs[n] = backup
    BY <2>1, <2>2, <2>3, <2>4
  <2>6. /\ dbs' \in [DOMAIN dbs' -> Db!Content] /\ DOMAIN dbs' \subseteq Db!Names
        /\ DOMAIN dbs' = (DOMAIN dbs \ {n}) \cup {m}
        /\ dbs'[m] = dbs[n] /\ \A o \in DOMAIN dbs \ {n} : dbs'[o] = dbs[o]
    BY <2>5, Renamed
  <2>. QED BY <2>4, <2>5, <2>6
<1>5. cluster = "ready" /\ minted = 1
  BY <1>2 DEF DbInv, Blank, Launching, Db!Held, Db!Restore
<1>6. Db!There(Db!Live)' BY <1>4 DEF Db!There
<1>7. \A k : /\ Aside(k)' <=> Aside(k)
             /\ Aside(k) => dbs'[Db!Retired(k)] = dbs[Db!Retired(k)]
  BY <1>4, NamesDiffer DEF Db!There, Aside
<1>8. backup.id = 1 BY <1>2 DEF DbInv, Identity
<1>9. DbType'
  <2>1. at' \in {"off", "failed"} \cup Db!Boot \cup Db!Held BY <1>2 DEF Db!Held, Db!Restore
  <2>2. dbFaults' \in 0..DbFaults BY <1>2 DEF DbType, Db!TypeOK
  <2>. QED BY <1>2, <1>4, <2>1, <2>2, TypeKept
<1>10. Blank' BY <1>2, <1>5 DEF DbInv, Blank
<1>11. Launching' BY <1>2, <1>5 DEF DbInv, Launching, Db!Boot
<1>12. Identity'
  <2>1. Identity BY DEF DbInv
  <2>. QED BY <1>2, <1>4, <1>5, <1>8, <2>1 DEF Identity
<1>13. Restoring' BY <1>2 DEF Restoring
<1>14. Shown'
  <2>1. Shown BY DEF DbInv
  <2>. QED BY <1>2, <1>4, <1>6, <1>7, <2>1 DEF Shown
<1>15. Kept'
  <2>1. Kept /\ ~Db!There(Db!Live) BY <1>2 DEF DbInv, Db!There
  <2>. QED BY <1>2, <1>7, <2>1 DEF Kept
<1>. QED BY <1>9, <1>10, <1>11, <1>12, <1>13, <1>14, <1>15 DEF DbInv

LEMMA RollBackStep == ASSUME DbBounds, DbInv, Db!RollBack PROVE DbInv'
<1>1. PICK r : r = restores OBVIOUS
<1>. DEFINE back == Db!Rename(Db!Retired(r), Db!Live)
<1>2. /\ at = "rollback" /\ at' = "open"
      /\ dbs' \in {back, [n \in DOMAIN back \ {Db!Staging(r)} |-> back[n]]}
      /\ Db!Live \notin DOMAIN dbs /\ DbType /\ marker' \in {0, marker}
      /\ UNCHANGED <<found, secret, cluster, clusterPw, sentinel, file, minted, server,
                     restores, backup, last, exit, promised, dbFaults>>
  BY <1>1 DEF Db!RollBack, Db!To, Db!There, DbInv, Db!durable, Db!ghosts, Db!k0, Restoring
<1>3. cluster = "ready" /\ minted = 1
  BY <1>2 DEF DbInv, Blank, Launching, Db!Held, Db!Restore
<1>4. /\ r \in Db!Stamps /\ Db!Retired(r) \in DOMAIN dbs
      /\ dbs[Db!Retired(r)].facts \in {last, backup.facts} /\ dbs[Db!Retired(r)].id = 1
  BY <1>1, <1>2, <1>3 DEF DbInv, Shown, Db!There, Aside
<1>5. /\ back \in [DOMAIN back -> Db!Content] /\ DOMAIN back \subseteq Db!Names
      /\ DOMAIN back = (DOMAIN dbs \ {Db!Retired(r)}) \cup {Db!Live}
      /\ back[Db!Live] = dbs[Db!Retired(r)]
      /\ \A o \in DOMAIN dbs \ {Db!Retired(r)} : back[o] = dbs[o]
  <2>1. Db!Live \in Db!Names BY NamesListed
  <2>2. DbType /\ Db!Retired(r) \in DOMAIN dbs /\ Db!Live \notin DOMAIN dbs BY <1>2, <1>4
  <2>. HIDE DEF back
  <2>3. back = Db!Rename(Db!Retired(r), Db!Live) BY DEF back
  <2>. QED BY <2>1, <2>2, <2>3, Renamed
<1>. HIDE DEF back
<1>6. /\ dbs' \in [DOMAIN dbs' -> Db!Content]
      /\ DOMAIN back \ {Db!Staging(r)} \subseteq DOMAIN dbs' /\ DOMAIN dbs' \subseteq DOMAIN back
      /\ \A o \in DOMAIN dbs' : dbs'[o] = back[o]
  <2>1. CASE dbs' = back BY <1>5, <2>1
  <2>2. CASE dbs' = [n \in DOMAIN back \ {Db!Staging(r)} |-> back[n]] BY <1>5, <2>2
  <2>. QED BY <1>2, <2>1, <2>2
<1>7. /\ Db!There(Db!Live)' /\ dbs'[Db!Live] = dbs[Db!Retired(r)] /\ ~Aside(r)'
      /\ DOMAIN dbs' \subseteq Db!Names
  BY <1>5, <1>6, NamesDiffer DEF Db!There, Aside
<1>8. \A k : k # r => /\ Aside(k)' <=> Aside(k)
                      /\ Aside(k) => dbs'[Db!Retired(k)] = dbs[Db!Retired(k)]
  <2>. SUFFICES ASSUME NEW k, k # r
                PROVE  /\ Db!Retired(k) \in DOMAIN dbs' <=> Db!Retired(k) \in DOMAIN dbs
                       /\ Db!Retired(k) \in DOMAIN dbs => dbs'[Db!Retired(k)] = dbs[Db!Retired(k)]
    BY DEF Aside, Db!There
  <2>1. Db!Retired(k) \notin {Db!Live, Db!Retired(r), Db!Staging(r)} BY NamesDiffer
  <2>. QED BY <1>5, <1>6, <2>1
<1>9. DbType'
  <2>1. at' \in {"off", "failed"} \cup Db!Boot \cup Db!Held BY <1>2 DEF Db!Held
  <2>2. dbFaults' \in 0..DbFaults BY <1>2 DEF DbType, Db!TypeOK
  <2>. QED BY <1>2, <1>6, <1>7, <2>1, <2>2, TypeKept
<1>10. Blank' BY <1>2, <1>3 DEF DbInv, Blank
<1>11. Launching' BY <1>2, <1>3 DEF DbInv, Launching, Db!Boot
<1>12. Identity'
  <2>1. Identity BY DEF DbInv
  <2>2. \A n \in DOMAIN dbs' : dbs'[n].id \in {0, minted}
    BY <1>3, <1>4, <1>5, <1>6, <2>1 DEF Identity
  <2>. QED BY <1>2, <1>3, <1>4, <1>7, <2>1, <2>2 DEF Identity
<1>13. Restoring' BY <1>2 DEF Restoring
<1>14. Shown'
  <2>1. Shown BY DEF DbInv
  <2>. QED BY <1>2, <1>4, <1>7, <1>8, <2>1 DEF Shown
<1>15. Kept'
  <2>1. Kept /\ ~Db!There(Db!Live) BY <1>2 DEF DbInv, Db!There
  <2>. QED BY <1>2, <1>7, <1>8, <2>1 DEF Kept
<1>. QED BY <1>9, <1>10, <1>11, <1>12, <1>13, <1>14, <1>15 DEF DbInv

LEMMA RollBackFailsStep == ASSUME DbBounds, DbInv, Db!RollBackFails PROVE DbInv'
<1>1. PICK r : r = restores OBVIOUS
<1>2. /\ at = "rollback" /\ at' = "open" /\ dbs' \in {dbs, Db!Drop(Db!Staging(r))}
      /\ Db!Live \notin DOMAIN dbs /\ DbType /\ Db!Fault
      /\ promised' = restores
      /\ UNCHANGED <<found, secret, cluster, clusterPw, sentinel, file, minted, server,
                     marker, restores, backup, last, exit>>
  BY <1>1 DEF Db!RollBackFails, Db!To, Db!There, DbInv, Db!durable, Db!k0, Restoring
<1>3. /\ dbs' \in [DOMAIN dbs' -> Db!Content] /\ DOMAIN dbs' \subseteq Db!Names
      /\ DOMAIN dbs \ {Db!Staging(r)} \subseteq DOMAIN dbs' /\ DOMAIN dbs' \subseteq DOMAIN dbs
      /\ \A o \in DOMAIN dbs' : dbs'[o] = dbs[o]
  BY <1>2, Dropped
<1>4. cluster = "ready" /\ minted = 1
  BY <1>2 DEF DbInv, Blank, Launching, Db!Held, Db!Restore
<1>5. ~Db!There(Db!Live) /\ ~Db!There(Db!Live)' BY <1>2, <1>3 DEF Db!There
<1>6. \A k : /\ Aside(k)' <=> Aside(k)
             /\ Aside(k) => dbs'[Db!Retired(k)] = dbs[Db!Retired(k)]
  BY <1>3, NamesDiffer DEF Aside, Db!There
<1>7. DbType'
  <2>1. at' \in {"off", "failed"} \cup Db!Boot \cup Db!Held BY <1>2 DEF Db!Held
  <2>2. dbFaults' \in 0..DbFaults BY <1>2, DbFaulty
  <2>. QED BY <1>2, <1>3, <2>1, <2>2 DEF DbType, Db!TypeOK
<1>8. Blank' BY <1>2, <1>4 DEF DbInv, Blank
<1>9. Launching' BY <1>2, <1>4 DEF DbInv, Launching, Db!Boot
<1>10. Identity'
  <2>1. Identity BY DEF DbInv
  <2>. QED BY <1>2, <1>3, <1>5, <2>1 DEF Identity
<1>11. Restoring' BY <1>2 DEF Restoring
<1>12. Shown'
  <2>1. Shown BY DEF DbInv
  <2>. QED BY <1>2, <1>5, <1>6, <2>1 DEF Shown
<1>13. Kept'
  <2>1. Kept BY DEF DbInv
  <2>. QED BY <1>2, <1>5, <1>6, <2>1 DEF Kept
<1>. QED BY <1>7, <1>8, <1>9, <1>10, <1>11, <1>12, <1>13 DEF DbInv

LEMMA NextDb == ASSUME DbBounds, DbInv, [Db!Next]_(Db!vars) PROVE DbInv'
<1>1. CASE Db!Launch BY <1>1, LaunchSteps
<1>2. CASE Db!LaunchStep
  BY <1>2, LaunchSteps, InitDbStep, RecoverSwapStep, CreateDatabaseStep, RecordInstallStep
  DEF Db!LaunchStep
<1>3. CASE Db!Work BY <1>3, WorkStep
<1>4. CASE Db!TakeBackup BY <1>4, OpenSteps
<1>5. CASE Db!BeginRestore BY <1>5, BeginRestoreStep
<1>6. CASE Db!RestoreStep
  BY <1>6, OpenSteps, FillStep, RetireLiveStep, PromoteStep, RollBackStep DEF Db!RestoreStep
<1>7. CASE Db!Failure
  BY <1>7, LaunchSteps, OpenSteps, BackOutStep, RollBackFailsStep DEF Db!Failure
<1>8. CASE Db!Quit \/ Db!Killed \/ Db!Reboot BY <1>8, EndSteps
<1>9. CASE Db!Spoil BY <1>9, SpoilStep
<1>10. CASE UNCHANGED Db!vars
  BY <1>10
  DEF Db!vars, Db!durable, Db!ghosts, DbInv, DbType, Db!TypeOK, Blank, Launching, Identity,
      Restoring, Shown, Kept, Aside, Db!There
<1>. QED
  BY <1>1, <1>2, <1>3, <1>4, <1>5, <1>6, <1>7, <1>8, <1>9, <1>10 DEF Db!Next

(* The database keeps its invariant whichever component is in focus. *)
THEOREM DatabaseHolds == ASSUME DbBounds PROVE Spec => []DbInv
<1>1. Init => DbInv BY DbInit DEF Init
<1>2. DbInv /\ [Next]_vars => DbInv'
  <2>. SUFFICES ASSUME DbInv, [Next]_vars PROVE DbInv' OBVIOUS
  <2>1. Db!Next \/ UNCHANGED dbVars BY DEF Next, vars
  <2>2. [Db!Next]_(Db!vars) BY <2>1 DEF dbVars, Db!vars, Db!durable, Db!ghosts
  <2>. QED BY <2>2, NextDb
<1>. QED BY <1>1, <1>2, PTL DEF Spec

(* Whatever a restore does and wherever it dies, the database the person worked in  *)
(* is still in the cluster, and what is open is what was left or backed up          *)
(* (restore.ts:188-222, local-database.ts:286-318).                                 *)
THEOREM HistoryStays == ASSUME DbBounds PROVE Spec => []HistoryKept
<1>1. DbInv => HistoryKept BY DbInvImplies DEF HistoryKept
<1>. QED BY <1>1, DatabaseHolds, PTL

(* The stored password opens the cluster, and an install has one id for life        *)
(* (local-database.ts:386-394, 440-527).                                            *)
THEOREM InstallStays == ASSUME DbBounds PROVE Spec => []SameInstall
<1>1. DbInv => SameInstall BY DbInvImplies DEF SameInstall
<1>. QED BY <1>1, DatabaseHolds, PTL

(* The history the person sees, the one saved and those put aside, in the databases d of *)
(* a cluster on which r restores have begun.                                             *)
Seen(d, r) == IF Db!Live \in DOMAIN d THEN d[Db!Live].facts
              ELSE IF Db!Retired(r) \in DOMAIN d THEN d[Db!Retired(r)].facts
              ELSE {}
PutAside(d, r) ==
  [k \in {j \in Db!Stamps : Db!Retired(j) \in DOMAIN d /\ (Db!Live \in DOMAIN d \/ j # r)}
     |-> d[Db!Retired(k)].facts]
Saved(b) == IF b = Db!NoBackup THEN {} ELSE {b.facts}

SameHistory(d, r, e, s) == Seen(e, s) = Seen(d, r) /\ PutAside(e, s) = PutAside(d, r)

(* The restores that are not among ks put aside in e what they put aside in d. *)
OthersStay(d, e, ks) ==
  \A k : k \notin ks => /\ Db!Retired(k) \in DOMAIN e <=> Db!Retired(k) \in DOMAIN d
                        /\ Db!Retired(k) \in DOMAIN d =>
                             e[Db!Retired(k)].facts = d[Db!Retired(k)].facts

LEMMA MapsTo ==
  /\ Seen(dbs, restores) = {} /\ Saved(backup) = {} /\ PutAside(dbs, restores) = [k \in {} |-> {}]
       => Db!AtOnce!Init
  /\ SameHistory(dbs, restores, dbs', restores') /\ Saved(backup') = Saved(backup)
       => UNCHANGED Db!AtOnce!vars
  /\ \A f : /\ Seen(dbs', restores') = Seen(dbs, restores) \cup {f}
            /\ PutAside(dbs', restores') = PutAside(dbs, restores)
            /\ Saved(backup') = Saved(backup)
       => Db!AtOnce!Record(f)
  /\ SameHistory(dbs, restores, dbs', restores') /\ Saved(backup') = {Seen(dbs, restores)}
       => Db!AtOnce!Save
  /\ \A k : /\ \A j \in DOMAIN PutAside(dbs, restores) : j < k
            /\ Seen(dbs', restores') \in Saved(backup) /\ Saved(backup') = Saved(backup)
            /\ PutAside(dbs', restores') =
                 [j \in DOMAIN PutAside(dbs, restores) \cup {k} |->
                    IF j = k THEN Seen(dbs, restores) ELSE PutAside(dbs, restores)[j]]
       => Db!AtOnce!Restore(k)
<1>1. Seen(dbs, restores) = {} /\ Saved(backup) = {} /\ PutAside(dbs, restores) = [k \in {} |-> {}]
        => Db!AtOnce!Init
  BY DEF Db!AtOnce!Init, Seen, Saved, PutAside, Db!There
<1>2. SameHistory(dbs, restores, dbs', restores') /\ Saved(backup') = Saved(backup)
        => UNCHANGED Db!AtOnce!vars
  BY DEF Db!AtOnce!vars, SameHistory, Seen, Saved, PutAside, Db!There
<1>3. \A f : /\ Seen(dbs', restores') = Seen(dbs, restores) \cup {f}
             /\ PutAside(dbs', restores') = PutAside(dbs, restores)
             /\ Saved(backup') = Saved(backup)
        => Db!AtOnce!Record(f)
  BY DEF Db!AtOnce!Record, Seen, Saved, PutAside, Db!There
<1>4. SameHistory(dbs, restores, dbs', restores') /\ Saved(backup') = {Seen(dbs, restores)}
        => Db!AtOnce!Save
  BY DEF Db!AtOnce!Save, SameHistory, Seen, Saved, PutAside, Db!There
<1>5. \A k : /\ \A j \in DOMAIN PutAside(dbs, restores) : j < k
             /\ Seen(dbs', restores') \in Saved(backup) /\ Saved(backup') = Saved(backup)
             /\ PutAside(dbs', restores') =
                  [j \in DOMAIN PutAside(dbs, restores) \cup {k} |->
                     IF j = k THEN Seen(dbs, restores) ELSE PutAside(dbs, restores)[j]]
        => Db!AtOnce!Restore(k)
  BY DEF Db!AtOnce!Restore, Seen, Saved, PutAside, Db!There
<1>. QED BY <1>1, <1>2, <1>3, <1>4, <1>5

LEMMA LiveAndAside ==
  ASSUME NEW d, NEW e, NEW r, NEW s, r = s \/ Db!Live \in DOMAIN d, OthersStay(d, e, {}),
         Db!Live \in DOMAIN e <=> Db!Live \in DOMAIN d,
         Db!Live \in DOMAIN d => e[Db!Live].facts = d[Db!Live].facts
  PROVE  SameHistory(d, r, e, s)
BY DEF OthersStay, SameHistory, Seen, PutAside

LEMMA CopyApart ==
  ASSUME NEW d, NEW e, NEW r, NEW s, NEW k, r = s \/ Db!Live \in DOMAIN d,
         \A n : n # Db!Staging(k) => /\ n \in DOMAIN e <=> n \in DOMAIN d
                                     /\ n \in DOMAIN d => e[n] = d[n]
  PROVE  SameHistory(d, r, e, s)
<1>1. Db!Live # Db!Staging(k) /\ \A j : Db!Retired(j) # Db!Staging(k) BY NamesDiffer
<1>2. OthersStay(d, e, {}) BY <1>1 DEF OthersStay
<1>. QED BY <1>1, <1>2, LiveAndAside

(* The first rename of the swap, and backwards what undoes it. *)
LEMMA RenamedAside ==
  ASSUME NEW d, NEW e, NEW r, OthersStay(d, e, {r}),
         Db!Live \in DOMAIN d, Db!Retired(r) \notin DOMAIN d,
         Db!Live \notin DOMAIN e, Db!Retired(r) \in DOMAIN e,
         e[Db!Retired(r)].facts = d[Db!Live].facts
  PROVE  SameHistory(d, r, e, r) /\ SameHistory(e, r, d, r)
<1>1. Seen(e, r) = Seen(d, r) BY DEF Seen
<1>2. PutAside(e, r) = PutAside(d, r) BY DEF PutAside, OthersStay
<1>. QED BY <1>1, <1>2 DEF SameHistory

(* A restore that fills its copy, or drops it, shows and puts aside nothing. *)
LEMMA CopySteps ==
  ASSUME DbBounds, DbInv,
         Db!BeginRestore \/ Db!Fill \/ Db!GiveUp \/ Db!RetireFails \/ Db!RollBackFails
  PROVE  UNCHANGED Db!AtOnce!vars
<1>1. PICK k : /\ backup' = backup
               /\ restores' = restores \/ Db!Live \in DOMAIN dbs
               /\ \A n : n # Db!Staging(k) => /\ n \in DOMAIN dbs' <=> n \in DOMAIN dbs
                                              /\ n \in DOMAIN dbs => dbs'[n] = dbs[n]
  <2>1. CASE Db!BeginRestore
    <3>1. /\ dbs' = Db!Create(Db!Staging(restores + 1))
          /\ Db!Live \in DOMAIN dbs /\ backup' = backup
      BY <2>1 DEF Db!BeginRestore, Db!There
    <3>. QED BY <3>1 DEF Db!Create
  <2>2. CASE Db!Fill
    <3>1. /\ dbs' = [dbs EXCEPT ![Db!Staging(restores)] = backup]
          /\ UNCHANGED <<restores, backup>>
      BY <2>2 DEF Db!Fill, Db!k0
    <3>. QED BY <3>1
  <2>3. CASE Db!GiveUp \/ Db!RetireFails \/ Db!RollBackFails
    <3>1. dbs' \in {dbs, Db!Drop(Db!Staging(restores))} /\ UNCHANGED <<restores, backup>>
      BY <2>3 DEF Db!GiveUp, Db!RetireFails, Db!RollBackFails, Db!k0
    <3>. QED BY <3>1 DEF Db!Drop
  <2>. QED BY <2>1, <2>2, <2>3
<1>2. SameHistory(dbs, restores, dbs', restores') BY <1>1, CopyApart
<1>. QED BY <1>1, <1>2, MapsTo

(* Before anything is recorded there is nothing to show or to put aside. *)
LEMMA FirstSteps ==
  ASSUME DbBounds, DbInv, Db!InitDb \/ Db!CreateDatabase \/ Db!RecordInstall
  PROVE  UNCHANGED Db!AtOnce!vars
<1>1. UNCHANGED <<restores, backup>> BY DEF Db!InitDb, Db!CreateDatabase, Db!RecordInstall
<1>2. CASE Db!InitDb
  <2>1. DOMAIN dbs = {} BY <1>2 DEF Db!InitDb, DbInv, Launching, Blank
  <2>2. DOMAIN dbs' = {} BY <1>2 DEF Db!InitDb
  <2>3. OthersStay(dbs, dbs', {}) BY <2>1, <2>2 DEF OthersStay
  <2>4. SameHistory(dbs, restores, dbs', restores') BY <1>1, <2>1, <2>2, <2>3, LiveAndAside
  <2>. QED BY <1>1, <2>4, MapsTo
<1>3. CASE Db!CreateDatabase
  <2>1. CASE Db!Live \in DOMAIN dbs
    <3>1. dbs' = dbs BY <1>3, <2>1 DEF Db!CreateDatabase, Db!There
    <3>. QED BY <1>1, <3>1, MapsTo DEF SameHistory
  <2>2. CASE Db!Live \notin DOMAIN dbs
    <3>1. DOMAIN dbs = {}
      BY <1>3, <2>2 DEF Db!CreateDatabase, DbInv, Launching, Blank, Db!There
    <3>2. DOMAIN dbs' = {Db!Live} /\ dbs'[Db!Live].facts = {}
      BY <1>3, <2>2, <3>1 DEF Db!CreateDatabase, Db!There, Db!Create, Db!Empty
    <3>3. \A k : Db!Retired(k) \notin DOMAIN dbs' BY <3>2, NamesDiffer
    <3>4. Seen(dbs', restores') = Seen(dbs, restores) BY <3>1, <3>2 DEF Seen
    <3>5. PutAside(dbs', restores') = PutAside(dbs, restores) BY <3>1, <3>3 DEF PutAside
    <3>. QED BY <1>1, <3>4, <3>5, MapsTo DEF SameHistory
  <2>. QED BY <2>1, <2>2
<1>4. CASE Db!RecordInstall
  <2>1. /\ dbs' = [dbs EXCEPT ![Db!Live].id = Db!InstallId]
        /\ Db!Live \in DOMAIN dbs /\ dbs[Db!Live] \in Db!Content
    BY <1>4 DEF Db!RecordInstall, DbInv, DbType, Db!TypeOK, Launching, Db!There
  <2>2. /\ DOMAIN dbs' = DOMAIN dbs /\ dbs'[Db!Live].facts = dbs[Db!Live].facts
        /\ \A n : n \in DOMAIN dbs /\ n # Db!Live => dbs'[n] = dbs[n]
    BY <2>1 DEF Db!Content
  <2>3. OthersStay(dbs, dbs', {}) BY <2>2, NamesDiffer DEF OthersStay
  <2>4. SameHistory(dbs, restores, dbs', restores') BY <1>1, <2>2, <2>3, LiveAndAside
  <2>. QED BY <1>1, <2>4, MapsTo
<1>. QED BY <1>2, <1>3, <1>4

(* While the swap has left no live database, the one put aside stands for it. *)
LEMMA SwapSteps ==
  ASSUME DbBounds, DbInv, Db!RetireLive \/ Db!RollBack \/ Db!RecoverSwap
  PROVE  UNCHANGED Db!AtOnce!vars
<1>1. PICK r : r = restores OBVIOUS
<1>2. UNCHANGED <<restores, backup>> BY DEF Db!RetireLive, Db!RollBack, Db!RecoverSwap
<1>3. CASE Db!RetireLive
  <2>1. /\ dbs' = Db!Rename(Db!Live, Db!Retired(r))
        /\ Db!Live \in DOMAIN dbs /\ Db!Retired(r) \notin DOMAIN dbs
    BY <1>1, <1>3 DEF Db!RetireLive, Db!k0, DbInv, Restoring, Aside, Db!There
  <2>2. /\ DOMAIN dbs' = (DOMAIN dbs \ {Db!Live}) \cup {Db!Retired(r)}
        /\ dbs'[Db!Retired(r)] = dbs[Db!Live]
        /\ \A n \in DOMAIN dbs \ {Db!Live} : dbs'[n] = dbs[n]
    BY <2>1 DEF Db!Rename
  <2>3. OthersStay(dbs, dbs', {r}) BY <2>2, NamesDiffer DEF OthersStay
  <2>4. SameHistory(dbs, r, dbs', r) BY <2>1, <2>2, <2>3, NamesDiffer, RenamedAside
  <2>. QED BY <1>1, <1>2, <2>4, MapsTo
<1>4. CASE Db!RollBack \/ Db!RecoverSwap
  <2>1. Db!Live \notin DOMAIN dbs /\ Db!Retired(r) \in DOMAIN dbs
    <3>1. CASE Db!RollBack
      <4>1. minted = 1 /\ ~Db!There(Db!Live)
        BY <3>1 DEF Db!RollBack, DbInv, Restoring, Blank, Db!Held, Db!Restore
      <4>. QED BY <1>1, <4>1 DEF DbInv, Shown, Aside, Db!There
    <3>2. CASE Db!RecoverSwap
      <4>1. minted = 1 /\ ~Db!There(Db!Live) BY <3>2, PendingNewest DEF Db!RecoverSwap
      <4>. QED BY <1>1, <4>1 DEF DbInv, Shown, Aside, Db!There
    <3>. QED BY <1>4, <3>1, <3>2
  <2>2. /\ Db!Live \in DOMAIN dbs' /\ Db!Retired(r) \notin DOMAIN dbs'
        /\ dbs'[Db!Live] = dbs[Db!Retired(r)]
        /\ \A k : k # r => /\ Db!Retired(k) \in DOMAIN dbs' <=> Db!Retired(k) \in DOMAIN dbs
                           /\ Db!Retired(k) \in DOMAIN dbs =>
                                dbs'[Db!Retired(k)] = dbs[Db!Retired(k)]
    <3>1. PICK back : back = Db!Rename(Db!Retired(r), Db!Live) OBVIOUS
    <3>2. /\ DOMAIN back = (DOMAIN dbs \ {Db!Retired(r)}) \cup {Db!Live}
          /\ back[Db!Live] = dbs[Db!Retired(r)]
          /\ \A n \in DOMAIN dbs \ {Db!Retired(r)} : n # Db!Live => back[n] = dbs[n]
      BY <3>1 DEF Db!Rename
    <3>3. dbs' \in {back, [n \in DOMAIN back \ {Db!Staging(r)} |-> back[n]]}
      BY <1>1, <1>4, <3>1, PendingNewest DEF Db!RollBack, Db!RecoverSwap, Db!k0
    <3>4. \A n : n # Db!Staging(r) => /\ n \in DOMAIN dbs' <=> n \in DOMAIN back
                                      /\ n \in DOMAIN back => dbs'[n] = back[n]
      BY <3>3
    <3>5. Db!Live # Db!Staging(r) /\ \A k : Db!Retired(k) # Db!Staging(r) /\ Db!Retired(k) # Db!Live
      BY NamesDiffer
    <3>6. Db!Live \in DOMAIN dbs' /\ dbs'[Db!Live] = dbs[Db!Retired(r)] BY <3>2, <3>4, <3>5
    <3>7. Db!Retired(r) \notin DOMAIN dbs' BY <2>1, <3>2, <3>4, <3>5
    <3>8. ASSUME NEW k, k # r
          PROVE  /\ Db!Retired(k) \in DOMAIN dbs' <=> Db!Retired(k) \in DOMAIN dbs
                 /\ Db!Retired(k) \in DOMAIN dbs => dbs'[Db!Retired(k)] = dbs[Db!Retired(k)]
      <4>1. Db!Retired(k) # Db!Retired(r) BY <3>8, NamesDiffer
      <4>. QED BY <3>2, <3>4, <3>5, <4>1
    <3>. QED BY <3>6, <3>7, <3>8
  <2>3. OthersStay(dbs', dbs, {r}) BY <2>2 DEF OthersStay
  <2>4. SameHistory(dbs, r, dbs', r) BY <2>1, <2>2, <2>3, RenamedAside
  <2>. QED BY <1>1, <1>2, <2>4, MapsTo
<1>. QED BY <1>3, <1>4

(* The second rename is the restore: the history shown is the saved one, and the one it *)
(* replaced is put aside under a number above all earlier ones.                         *)
LEMMA PromoteRestores == ASSUME DbBounds, DbInv, Db!Promote PROVE Db!AtOnce!Next
<1>1. PICK r : r = restores OBVIOUS
<1>2. /\ dbs' = Db!Rename(Db!Staging(r), Db!Live) /\ UNCHANGED <<restores, backup>>
      /\ Db!Live \notin DOMAIN dbs /\ dbs[Db!Staging(r)] = backup /\ backup # Db!NoBackup
  BY <1>1 DEF Db!Promote, Db!k0, DbInv, Restoring, Db!There
<1>3. /\ minted = 1 /\ r \in Db!Stamps /\ Db!Retired(r) \in DOMAIN dbs
      /\ \A k \in Db!Stamps : Db!Retired(k) \in DOMAIN dbs => k <= r
  BY <1>1, <1>2 DEF Db!Promote, DbInv, Shown, Aside, Blank, Db!Held, Db!Restore, Db!There
<1>4. /\ Db!Live \in DOMAIN dbs' /\ dbs'[Db!Live] = backup
      /\ \A k : /\ Db!Retired(k) \in DOMAIN dbs' <=> Db!Retired(k) \in DOMAIN dbs
                /\ Db!Retired(k) \in DOMAIN dbs => dbs'[Db!Retired(k)] = dbs[Db!Retired(k)]
  BY <1>2, NamesDiffer DEF Db!Rename
<1>5. Seen(dbs', restores') \in Saved(backup) /\ Saved(backup') = Saved(backup)
  BY <1>2, <1>4 DEF Seen, Saved
<1>6. \A j \in DOMAIN PutAside(dbs, restores) : j < r
  BY <1>1, <1>2, <1>3 DEF PutAside, Db!Stamps
<1>7. PutAside(dbs', restores') =
        [j \in DOMAIN PutAside(dbs, restores) \cup {r} |->
           IF j = r THEN Seen(dbs, restores) ELSE PutAside(dbs, restores)[j]]
  <2>1. Seen(dbs, restores) = dbs[Db!Retired(r)].facts BY <1>1, <1>2, <1>3 DEF Seen
  <2>2. DOMAIN PutAside(dbs, restores) \cup {r} = {k \in Db!Stamps : Db!Retired(k) \in DOMAIN dbs}
    BY <1>1, <1>2, <1>3 DEF PutAside
  <2>3. \A j \in DOMAIN PutAside(dbs, restores) :
          PutAside(dbs, restores)[j] = dbs[Db!Retired(j)].facts
    BY DEF PutAside
  <2>4. PutAside(dbs', restores') =
          [k \in {j \in Db!Stamps : Db!Retired(j) \in DOMAIN dbs} |-> dbs[Db!Retired(k)].facts]
    BY <1>4 DEF PutAside
  <2>. QED BY <2>1, <2>2, <2>3, <2>4
<1>8. Db!AtOnce!Restore(r) BY <1>5, <1>6, <1>7, MapsTo
<1>9. r \in 1..Restores BY <1>3 DEF Db!Stamps
<1>. QED BY <1>8, <1>9 DEF Db!AtOnce!Next

LEMMA WorkRecords == ASSUME DbBounds, DbInv, Db!Work \/ Db!TakeBackup PROVE Db!AtOnce!Next
<1>1. Db!Live \in DOMAIN dbs /\ dbs[Db!Live] \in Db!Content /\ restores' = restores
  BY DEF Db!Work, Db!TakeBackup, DbInv, DbType, Db!TypeOK, Db!There
<1>2. CASE Db!Work
  <2>1. PICK f \in 1..Works : dbs' = [dbs EXCEPT ![Db!Live].facts = @ \cup {f}]
    <3>1. Db!Cardinality(Db!Facts) + 1 \in 1..Works
      BY <1>2, SameCount, FactsCounted DEF Db!Work, DbInv
    <3>. QED BY <1>2, <3>1 DEF Db!Work
  <2>2. /\ DOMAIN dbs' = DOMAIN dbs /\ dbs'[Db!Live].facts = dbs[Db!Live].facts \cup {f}
        /\ \A n : n \in DOMAIN dbs /\ n # Db!Live => dbs'[n] = dbs[n]
    BY <1>1, <2>1 DEF Db!Content
  <2>3. Seen(dbs', restores') = Seen(dbs, restores) \cup {f} BY <1>1, <2>2 DEF Seen
  <2>4. PutAside(dbs', restores') = PutAside(dbs, restores)
    BY <1>1, <2>2, NamesDiffer DEF PutAside
  <2>5. backup' = backup BY <1>2 DEF Db!Work
  <2>6. Db!AtOnce!Record(f) BY <2>3, <2>4, <2>5, MapsTo
  <2>. QED BY <2>6 DEF Db!AtOnce!Next
<1>3. CASE Db!TakeBackup
  <2>1. backup' = dbs[Db!Live] /\ dbs' = dbs BY <1>3 DEF Db!TakeBackup
  <2>2. dbs[Db!Live].id = 1
    BY <1>1, <1>3 DEF Db!TakeBackup, DbInv, Blank, Identity, Db!Held, Db!There
  <2>3. Saved(backup') = {Seen(dbs, restores)}
    BY <1>1, <2>1, <2>2 DEF Saved, Seen, Db!NoBackup
  <2>4. Db!AtOnce!Save BY <1>1, <2>1, <2>3, MapsTo DEF SameHistory
  <2>. QED BY <2>4 DEF Db!AtOnce!Next
<1>. QED BY <1>2, <1>3

(* What neither a database nor the backup sees. *)
LEMMA QuietSteps ==
  ASSUME UNCHANGED <<dbs, restores, backup>> PROVE UNCHANGED Db!AtOnce!vars
BY MapsTo DEF SameHistory

LEMMA NextAtOnce ==
  ASSUME DbBounds, DbInv, [Db!Next]_(Db!vars) PROVE [Db!AtOnce!Next]_(Db!AtOnce!vars)
<1>1. CASE Db!Launch BY <1>1, QuietSteps DEF Db!Launch
<1>2. CASE Db!LaunchStep
  <2>1. CASE Db!InitDb \/ Db!CreateDatabase \/ Db!RecordInstall BY <2>1, FirstSteps
  <2>2. CASE Db!RecoverSwap BY <2>2, SwapSteps
  <2>3. CASE \/ Db!Password \/ Db!Initialise \/ Db!Unclaim \/ Db!StartServer
             \/ Db!NothingToRecover \/ Db!Migrate \/ Db!WriteInstallFile \/ Db!Wire
    BY <2>3, QuietSteps
    DEF Db!Password, Db!Initialise, Db!Unclaim, Db!StartServer, Db!NothingToRecover,
        Db!Migrate, Db!WriteInstallFile, Db!Wire
  <2>. QED BY <1>2, <2>1, <2>2, <2>3 DEF Db!LaunchStep
<1>3. CASE Db!Work \/ Db!TakeBackup BY <1>3, WorkRecords
<1>4. CASE Db!BeginRestore BY <1>4, CopySteps
<1>5. CASE Db!RestoreStep
  <2>1. CASE Db!Mark \/ Db!Settle BY <2>1, QuietSteps DEF Db!Mark, Db!Settle
  <2>. QED BY <1>5, <2>1, CopySteps, SwapSteps, PromoteRestores DEF Db!RestoreStep
<1>6. CASE Db!Failure
  <2>1. CASE Db!InitDbFails \/ Db!RecoveryFails \/ Db!MigrateFails \/ Db!PromoteFails
    BY <2>1, QuietSteps
    DEF Db!InitDbFails, Db!RecoveryFails, Db!MigrateFails, Db!PromoteFails
  <2>. QED BY <1>6, <2>1, CopySteps DEF Db!Failure
<1>7. CASE Db!Quit \/ Db!Killed \/ Db!Reboot \/ Db!Spoil
  BY <1>7, QuietSteps DEF Db!Quit, Db!Killed, Db!Reboot, Db!Spoil
<1>8. CASE UNCHANGED Db!vars BY <1>8, QuietSteps DEF Db!vars
<1>. QED BY <1>1, <1>2, <1>3, <1>4, <1>5, <1>6, <1>7, <1>8 DEF Db!Next

(* To the person a restore is one step: through every death, failed rename, rollback and *)
(* recovery the history shown is the old one or, once, the saved one, and whatever a     *)
(* restore replaced stays as it was (restore.ts:188-222, 326-362).                       *)
THEOREM RestoresStayAtOnce == ASSUME DbBounds PROVE Spec => RestoresAtOnce
<1>1. Init => Db!AtOnce!Init
  <2>. SUFFICES ASSUME Init PROVE Db!AtOnce!Init OBVIOUS
  <2>1. DOMAIN dbs = {} /\ backup = Db!NoBackup BY DEF Init, Db!Init
  <2>2. Seen(dbs, restores) = {} /\ Saved(backup) = {} BY <2>1 DEF Seen, Saved
  <2>3. PutAside(dbs, restores) = [k \in {} |-> {}] BY <2>1 DEF PutAside
  <2>. QED BY <2>2, <2>3, MapsTo
<1>2. DbInv /\ [Next]_vars => [Db!AtOnce!Next]_(Db!AtOnce!vars)
  <2>. SUFFICES ASSUME DbInv, [Next]_vars PROVE [Db!AtOnce!Next]_(Db!AtOnce!vars) OBVIOUS
  <2>1. Db!Next \/ UNCHANGED dbVars BY DEF Next, vars
  <2>2. [Db!Next]_(Db!vars) BY <2>1 DEF dbVars, Db!vars, Db!durable, Db!ghosts
  <2>. QED BY <2>2, NextAtOnce
<1>. QED BY <1>1, <1>2, DatabaseHolds, PTL DEF Spec, RestoresAtOnce, Db!RestoresAtOnce,
            Db!AtOnce!Spec

-----------------------------------------------------------------------------
(* Tokens *)

TkBounds == Grants \in Nat \ {0} /\ TokenFaults \in Nat /\ Tk!Person \notin Refreshers

Busy(p) == Tk!At(p) # "idle"

(* The cutover has moved the row before anybody loads a token. *)
CutOver ==
  /\ \A p \in Tk!Procs : Busy(p) => up = "up"
  /\ up = "up" => legacy = Tk!None
  /\ ref => legacy = Tk!None
  /\ up \in {"put", "commit", "undo"} => legacy # Tk!None

(* Tokens that are saved or held were issued by the provider. *)
Issued ==
  /\ \A p \in Tk!Procs : Busy(p) => run[p].tok.id # 0
  /\ ref => store.id # 0
  /\ \A p \in Tk!Procs : Tk!At(p) \in {"check", "commit"} => store.id # 0
  /\ legacy # Tk!None => legacy.id # 0

(* What a connect wrote stays of its company until a refresh of another crosses it. *)
OfTheChosen ==
  /\ chosen # Tk!Unknown => ~Busy(Tk!Person)
  /\ chosen # Tk!Unknown => ref \/ (legacy # Tk!None /\ legacy.realm = chosen)
  /\ chosen # Tk!Unknown /\ ref /\ ~crossed => store.realm = chosen
  /\ Tk!At(Tk!Person) \in {"check", "commit"} /\ ~crossed =>
        store.realm = run[Tk!Person].tok.realm

TkInv == Tk!TypeOK /\ CutOver /\ Issued /\ OfTheChosen

LEMMA TkInvImplies == TkInv => Tk!ReconnectHolds
BY DEF TkInv, Issued, OfTheChosen, Tk!ReconnectHolds, Tk!Loaded, Tk!None

LEMMA TkInit == ASSUME TkBounds, Tk!Init PROVE TkInv
<1>. USE DEF Tk!Init, Tk!None, Tk!Idle, Tk!At, Busy
<1>1. Tk!TypeOK
  <2>1. store \in Tk!Token /\ copied \in Tk!Token BY DEF Tk!Token, TkBounds
  <2>2. legacy \in Tk!Token /\ issued \in 0..Grants /\ accepted \subseteq 1..Grants
    BY DEF Tk!Token, TkBounds
  <2>3. run \in [Tk!Procs -> [at : {"idle", "ask", "put", "check", "commit"}, tok : Tk!Token]]
    BY DEF Tk!Token, TkBounds
  <2>4. up \in {"down", "read", "put", "commit", "undo", "up"} /\ ref \in BOOLEAN
        /\ crossed \in BOOLEAN
    OBVIOUS
  <2>5. tokenFaults \in 0..TokenFaults BY DEF TkBounds
  <2>. QED BY <2>1, <2>2, <2>3, <2>4, <2>5 DEF Tk!TypeOK
<1>2. \A p \in Tk!Procs : ~Busy(p) OBVIOUS
<1>3. CutOver BY <1>2 DEF CutOver
<1>4. Issued BY <1>2 DEF Issued
<1>5. OfTheChosen BY <1>2 DEF OfTheChosen, Tk!Procs
<1>. QED BY <1>1, <1>3, <1>4, <1>5 DEF TkInv

LEMMA TkFaulty == ASSUME TkBounds, Tk!TypeOK, Tk!Fault PROVE tokenFaults' \in 0..TokenFaults
BY DEF TkBounds, Tk!TypeOK, Tk!Fault

(* The boot writes no token anybody has loaded. *)
LEMMA BootSteps == ASSUME TkBounds, TkInv, Tk!BootStep PROVE TkInv'
<1>. USE DEF TkInv, Tk!BootStep, Tk!Boot, Tk!MigrateRead, Tk!MigratePut, Tk!MigrateCommit, Tk!MigrateUndo
<1>1. UNCHANGED <<run, accepted, issued, chosen, crossed>> /\ up # "up" OBVIOUS
<1>2. Tk!TypeOK'
  <2>1. tokenFaults' \in 0..TokenFaults BY TkFaulty DEF Tk!TypeOK
  <2>2. Tk!None \in Tk!Token BY DEF Tk!None, Tk!Token, TkBounds
  <2>3. store' \in Tk!Token /\ copied' \in Tk!Token /\ legacy' \in Tk!Token
    BY <2>2 DEF Tk!TypeOK
  <2>4. ref' \in BOOLEAN BY DEF Tk!TypeOK
  <2>5. up' \in {"down", "read", "put", "commit", "undo", "up"} OBVIOUS
  <2>. QED BY <1>1, <2>1, <2>3, <2>4, <2>5 DEF Tk!TypeOK
<1>3. \A p \in Tk!Procs : ~Busy(p) /\ ~Busy(p)' BY <1>1 DEF CutOver, Busy, Tk!At
<1>4. CutOver'
  <2>1. CASE Tk!Boot BY <1>3, <2>1 DEF CutOver
  <2>2. CASE Tk!MigrateRead BY <1>3, <2>2 DEF CutOver
  <2>3. CASE Tk!MigratePut BY <1>3, <2>3 DEF CutOver
  <2>4. CASE Tk!MigrateCommit BY <1>3, <2>4 DEF CutOver
  <2>5. CASE Tk!MigrateUndo BY <1>3, <2>5 DEF CutOver
  <2>. QED BY <2>1, <2>2, <2>3, <2>4, <2>5
<1>5. Issued'
  <2>1. legacy' # Tk!None => legacy'.id # 0 BY DEF Issued
  <2>2. ref' => store'.id # 0 BY DEF Issued, CutOver
  <2>3. \A p \in Tk!Procs : Tk!At(p)' \notin {"check", "commit"} BY <1>3 DEF Busy, Tk!At
  <2>. QED BY <1>3, <2>1, <2>2, <2>3 DEF Issued
<1>6. OfTheChosen'
  <2>1. chosen # Tk!Unknown => ref' \/ (legacy' # Tk!None /\ legacy'.realm = chosen)
    BY DEF OfTheChosen
  <2>2. chosen # Tk!Unknown /\ ref' /\ ~crossed => store'.realm = chosen
    BY DEF OfTheChosen, CutOver
  <2>3. Tk!At(Tk!Person)' \notin {"check", "commit"} BY <1>3 DEF Busy, Tk!Procs, Tk!At
  <2>. QED BY <1>1, <1>3, <2>1, <2>2, <2>3 DEF OfTheChosen, Tk!Procs
<1>. QED BY <1>2, <1>4, <1>5, <1>6

(* What a process holds when it moves. *)
LEMMA Moved ==
  ASSUME Tk!TypeOK, NEW p \in Tk!Procs, NEW s \in {"idle", "ask", "put", "check", "commit"},
         NEW k \in Tk!Token, run' = [run EXCEPT ![p] = [at |-> s, tok |-> k]]
  PROVE  /\ run' \in [Tk!Procs -> [at : {"idle", "ask", "put", "check", "commit"}, tok : Tk!Token]]
         /\ run'[p].at = s /\ run'[p].tok = k
         /\ \A q \in Tk!Procs : q # p => run'[q] = run[q]
BY DEF Tk!TypeOK

(* A save stores, reads back and commits the token it was given. *)
LEMMA SaveSteps ==
  ASSUME TkBounds, TkInv, NEW p \in Tk!Procs, Tk!Save(p)
  PROVE  TkInv'
<1>. DEFINE Type == [at : {"idle", "ask", "put", "check", "commit"}, tok : Tk!Token]
<1>1. /\ Tk!TypeOK /\ Tk!None \in Tk!Token /\ run[p] \in Type /\ run \in [Tk!Procs -> Type]
      /\ TokenFaults \in Nat /\ tokenFaults \in 0..TokenFaults
  BY DEF TkInv, Tk!TypeOK, Tk!None, Tk!Token, TkBounds
<1>2. PICK step \in {"idle", "check", "commit"}, tok \in {Tk!None, run[p].tok} :
        run' = [run EXCEPT ![p] = [at |-> step, tok |-> tok]]
  BY DEF Tk!Save, Tk!Put, Tk!Check, Tk!Commit, Tk!Go, Tk!Stop, Tk!Idle
<1>3. /\ run' \in [Tk!Procs -> Type] /\ run'[p].at = step /\ run'[p].tok = tok
      /\ \A q \in Tk!Procs : q # p => run'[q] = run[q]
  BY <1>1, <1>2
<1>4. Busy(p) /\ up = "up" /\ legacy = Tk!None /\ up' = up
  BY DEF TkInv, CutOver, Busy, Tk!Save, Tk!Put, Tk!Check, Tk!Commit
<1>5. Tk!TypeOK'
  <2>1. tokenFaults' \in 0..TokenFaults
    BY <1>1, TkFaulty DEF Tk!Save, Tk!Put, Tk!Check, Tk!Commit
  <2>2. store' \in Tk!Token /\ legacy' \in Tk!Token /\ ref' \in BOOLEAN
    BY <1>1, <1>4 DEF Tk!Save, Tk!Put, Tk!Check, Tk!Commit, Tk!TypeOK
  <2>3. UNCHANGED <<up, copied, accepted, issued>>
    BY DEF Tk!Save, Tk!Put, Tk!Check, Tk!Commit
  <2>4. crossed' \in BOOLEAN
    BY <1>1 DEF Tk!Save, Tk!Put, Tk!Check, Tk!Commit, Tk!TypeOK
  <2>. QED BY <1>1, <1>3, <2>1, <2>2, <2>3, <2>4 DEF Tk!TypeOK
<1>6. \A q \in Tk!Procs : Busy(q)' => Busy(q)
  BY <1>3, <1>4 DEF Busy, Tk!At
<1>7. CutOver'
  <2>1. legacy' = Tk!None BY <1>4 DEF Tk!Save, Tk!Put, Tk!Check, Tk!Commit
  <2>. QED BY <1>4, <1>6, <2>1 DEF CutOver
<1>8. Issued'
  <2>1. run[p].tok.id # 0 BY <1>4 DEF TkInv, Issued
  <2>2. \A q \in Tk!Procs : Busy(q)' => run'[q].tok.id # 0
    <3>. SUFFICES ASSUME NEW q \in Tk!Procs, Busy(q)' PROVE run'[q].tok.id # 0 OBVIOUS
    <3>1. CASE q = p
      <4>1. run'[p].tok = run[p].tok
        BY <1>1, <3>1 DEF Tk!Save, Tk!Put, Tk!Check, Tk!Commit, Tk!Go, Tk!Stop, Tk!Idle, Busy, Tk!At
      <4>. QED BY <2>1, <3>1, <4>1
    <3>2. CASE q # p BY <1>3, <1>6, <3>2 DEF TkInv, Issued
    <3>. QED BY <3>1, <3>2
  <2>3. legacy' = Tk!None BY <1>4 DEF Tk!Save, Tk!Put, Tk!Check, Tk!Commit
  <2>4. ref' \/ Tk!At(p)' \in {"check", "commit"} => store'.id # 0
    <3>1. CASE Tk!Put(p) /\ store' = store /\ ~Tk!At(p)' \in {"check", "commit"}
      BY <3>1 DEF Tk!Put, TkInv, Issued
    <3>2. CASE Tk!Put(p) /\ (store' # store \/ Tk!At(p)' \in {"check", "commit"})
      BY <1>1, <2>1, <3>2 DEF Tk!Put, Tk!At, Tk!Stop, Tk!Idle
    <3>3. CASE Tk!Check(p) \/ Tk!Commit(p)
      BY <1>1, <2>1, <3>3 DEF Tk!Check, Tk!Commit, TkInv, Issued, Tk!At
    <3>. QED BY <3>1, <3>2, <3>3 DEF Tk!Save
  <2>5. \A q \in Tk!Procs : Tk!At(q)' \in {"check", "commit"} => store'.id # 0
    <3>. SUFFICES ASSUME NEW q \in Tk!Procs, Tk!At(q)' \in {"check", "commit"}
                  PROVE store'.id # 0
      OBVIOUS
    <3>1. CASE q = p BY <2>4, <3>1
    <3>2. CASE q # p
      <4>1. store.id # 0 BY <1>3, <3>2 DEF TkInv, Issued, Tk!At
      <4>2. store' \in {store, run[p].tok} BY DEF Tk!Save, Tk!Put, Tk!Check, Tk!Commit
      <4>. QED BY <2>1, <4>1, <4>2
    <3>. QED BY <3>1, <3>2
  <2>. QED BY <2>2, <2>3, <2>4, <2>5 DEF Issued
<1>9. OfTheChosen'
  <2>. USE DEF Tk!At, Tk!Procs
  <2>1. CASE p = Tk!Person
    <3>1. chosen = Tk!Unknown BY <1>4, <2>1 DEF TkInv, OfTheChosen
    <3>2. CASE Tk!Put(p)
      <4>1. chosen' = Tk!Unknown BY <3>1, <3>2 DEF Tk!Put
      <4>2. run'[p].at \in {"check", "commit"} => store' = run[p].tok /\ run'[p].tok = run[p].tok
        BY <1>1, <3>2 DEF Tk!Put, Tk!Go, Tk!Stop, Tk!Idle
      <4>. QED BY <2>1, <4>1, <4>2 DEF OfTheChosen
    <3>3. CASE Tk!Check(p)
      <4>1. chosen' = Tk!Unknown /\ store' = store BY <3>1, <3>3 DEF Tk!Check
      <4>2. run'[p].at \in {"check", "commit"} => store = run[p].tok /\ run'[p].tok = run[p].tok
        BY <1>1, <3>3 DEF Tk!Check, Tk!Go, Tk!Stop, Tk!Idle
      <4>. QED BY <2>1, <4>1, <4>2 DEF OfTheChosen
    <3>4. CASE Tk!Commit(p)
      <4>1. /\ store' = store /\ crossed' = crossed /\ run'[p].at = "idle"
            /\ chosen' # Tk!Unknown => ref' /\ chosen' = run[p].tok.realm
        BY <1>1, <2>1, <3>1, <3>4 DEF Tk!Commit, Tk!Stop, Tk!Idle
      <4>2. ~crossed => store.realm = run[p].tok.realm
        BY <2>1, <3>4 DEF Tk!Commit, TkInv, OfTheChosen
      <4>. QED BY <2>1, <4>1, <4>2 DEF OfTheChosen, Busy
    <3>. QED BY <3>2, <3>3, <3>4 DEF Tk!Save
  <2>2. CASE p # Tk!Person
    <3>1. chosen' = chosen /\ run'[Tk!Person] = run[Tk!Person]
      BY <1>3, <2>2 DEF Tk!Save, Tk!Put, Tk!Check, Tk!Commit
    <3>2. chosen # Tk!Unknown => ref /\ ref'
      BY <1>4 DEF TkInv, OfTheChosen, Tk!Save, Tk!Put, Tk!Check, Tk!Commit
    <3>3. CASE Tk!Put(p) /\ store' # store
      <4>1. store' = run[p].tok /\ (~crossed' => run[p].tok.realm = Tk!Meant)
        BY <1>1, <2>2, <3>3 DEF Tk!Put, Tk!TypeOK
      <4>. QED BY <3>1, <3>2, <4>1 DEF TkInv, OfTheChosen, Busy, Tk!Meant
    <3>4. CASE ~(Tk!Put(p) /\ store' # store)
      <4>1. store' = store /\ crossed' = crossed
        BY <3>4 DEF Tk!Save, Tk!Put, Tk!Check, Tk!Commit
      <4>. QED BY <3>1, <3>2, <4>1 DEF TkInv, OfTheChosen, Busy
    <3>. QED BY <3>3, <3>4
  <2>. QED BY <2>1, <2>2
<1>. QED BY <1>5, <1>7, <1>8, <1>9 DEF TkInv

LEMMA RunnerLoads == ASSUME TkBounds, TkInv, NEW p \in Tk!Procs, Tk!Load(p) PROVE TkInv'
<1>1. /\ p \in Refreshers /\ up = "up" /\ ref /\ Tk!Loaded = store
      /\ run' = [run EXCEPT ![p] = [at |-> "ask", tok |-> store]]
      /\ UNCHANGED <<up, legacy, ref, store, copied, accepted, issued, chosen, tokenFaults,
                     crossed>>
  BY DEF Tk!Load, TkInv, CutOver, Tk!Loaded, Tk!Go
<1>2. Tk!TypeOK /\ store \in Tk!Token /\ store.id # 0 BY <1>1 DEF TkInv, Tk!TypeOK, Issued
<1>3. /\ run' \in [Tk!Procs -> [at : {"idle", "ask", "put", "check", "commit"}, tok : Tk!Token]]
      /\ run'[p].at = "ask" /\ run'[p].tok = store
      /\ \A q \in Tk!Procs : q # p => run'[q] = run[q]
  BY <1>1, <1>2, Moved
<1>4. Tk!TypeOK' BY <1>1, <1>3, <1>2 DEF Tk!TypeOK
<1>5. CutOver' BY <1>1 DEF TkInv, CutOver
<1>6. Tk!Person \in Tk!Procs /\ run'[Tk!Person] = run[Tk!Person]
  BY <1>1, <1>3 DEF TkBounds, Tk!Procs
<1>7. Issued' BY <1>1, <1>2, <1>3 DEF TkInv, Issued, Busy, Tk!At
<1>8. OfTheChosen' BY <1>1, <1>6 DEF TkInv, OfTheChosen, Busy, Tk!At
<1>. QED BY <1>4, <1>5, <1>7, <1>8 DEF TkInv

LEMMA RefreshStep == ASSUME TkBounds, TkInv, NEW p \in Tk!Procs, Tk!Refresh(p) PROVE TkInv'
<1>1. Tk!TypeOK /\ run[p].tok \in Tk!Token /\ run[p].at = "ask" /\ Busy(p) /\ up = "up"
      /\ Tk!None \in Tk!Token /\ issued \in 0..Grants
  BY DEF TkInv, Tk!TypeOK, CutOver, Tk!Refresh, Busy, Tk!At, Tk!None, Tk!Token, TkBounds
<1>2. PICK s \in {"idle", "put"}, k \in Tk!Token :
        /\ run' = [run EXCEPT ![p] = [at |-> s, tok |-> k]]
        /\ s = "put" => k.realm = run[p].tok.realm /\ k.id # 0
  <2>. DEFINE new == [run[p].tok EXCEPT !.id = issued + 1]
  <2>1. /\ new.realm = run[p].tok.realm /\ (issued < Grants => new \in Tk!Token)
        /\ new.id # 0 /\ run[p].tok.id # 0
    BY <1>1 DEF Tk!Token, TkBounds, TkInv, Issued
  <2>. HIDE DEF new
  <2>2. \/ run' = [run EXCEPT ![p] = [at |-> "idle", tok |-> Tk!None]]
        \/ run' = [run EXCEPT ![p] = [at |-> "put", tok |-> run[p].tok]]
        \/ run' = [run EXCEPT ![p] = [at |-> "put", tok |-> new]] /\ issued < Grants
    BY DEF Tk!Refresh, Tk!Go, Tk!Stop, Tk!Idle, new
  <2>. QED BY <1>1, <2>1, <2>2
<1>3. /\ run' \in [Tk!Procs -> [at : {"idle", "ask", "put", "check", "commit"}, tok : Tk!Token]]
      /\ run'[p].at = s /\ run'[p].tok = k
      /\ \A q \in Tk!Procs : q # p => run'[q] = run[q]
  BY <1>1, <1>2, Moved
<1>4. UNCHANGED <<up, legacy, ref, store, copied, chosen, crossed>> BY DEF Tk!Refresh
<1>5. Tk!TypeOK'
  <2>1. tokenFaults' \in 0..TokenFaults BY <1>1, TkFaulty DEF Tk!Refresh, Tk!TypeOK
  <2>2. issued' \in 0..Grants /\ accepted' \subseteq 1..Grants
    BY <1>1 DEF Tk!Refresh, Tk!TypeOK, TkBounds
  <2>. QED BY <1>1, <1>3, <1>4, <2>1, <2>2 DEF Tk!TypeOK
<1>6. \A q \in Tk!Procs : Busy(q)' => Busy(q) BY <1>1, <1>3 DEF Busy, Tk!At
<1>7. CutOver' BY <1>4, <1>6 DEF TkInv, CutOver
<1>8. Issued' BY <1>2, <1>3, <1>4, <1>6 DEF TkInv, Issued, Busy, Tk!At
<1>9. OfTheChosen'
  <2>1. Tk!At(Tk!Person)' \in {"check", "commit"} => run'[Tk!Person] = run[Tk!Person]
    BY <1>2, <1>3 DEF Tk!At, Tk!Procs
  <2>. QED BY <1>4, <1>6, <2>1 DEF TkInv, OfTheChosen, Tk!At, Tk!Procs
<1>. QED BY <1>5, <1>7, <1>8, <1>9 DEF TkInv

LEMMA ConnectStep == ASSUME TkBounds, TkInv, Tk!Connect PROVE TkInv'
<1>1. PICK c \in Companies :
        run' = [run EXCEPT ![Tk!Person] = [at |-> "put", tok |-> [id |-> issued + 1, realm |-> c]]]
  BY DEF Tk!Connect, Tk!Go
<1>2. /\ up = "up" /\ chosen' = Tk!Unknown /\ issued' = issued + 1 /\ issued < Grants
      /\ accepted' = accepted \cup {issued + 1}
      /\ UNCHANGED <<up, legacy, ref, store, copied, tokenFaults, crossed>>
  BY DEF Tk!Connect
<1>3. Tk!TypeOK /\ issued + 1 \in 1..Grants /\ Tk!Person \in Tk!Procs
  BY <1>2 DEF TkInv, Tk!TypeOK, TkBounds, Tk!Procs
<1>4. PICK k \in Tk!Token : k = [id |-> issued + 1, realm |-> c]
  <2>1. [id |-> issued + 1, realm |-> c] \in Tk!Token BY <1>3 DEF Tk!Token, TkBounds
  <2>. QED BY <2>1
<1>5. /\ run' \in [Tk!Procs -> [at : {"idle", "ask", "put", "check", "commit"}, tok : Tk!Token]]
      /\ run'[Tk!Person].at = "put" /\ run'[Tk!Person].tok = k
      /\ \A q \in Tk!Procs : q # Tk!Person => run'[q] = run[q]
  <2>1. run' = [run EXCEPT ![Tk!Person] = [at |-> "put", tok |-> k]] BY <1>1, <1>4
  <2>. QED BY <1>3, <2>1, Moved
<1>6. Tk!TypeOK' BY <1>2, <1>3, <1>5 DEF Tk!TypeOK
<1>7. CutOver' BY <1>2 DEF TkInv, CutOver
<1>8. Issued'
  <2>1. k.id # 0 BY <1>3, <1>4
  <2>. QED BY <1>2, <1>5, <2>1 DEF TkInv, Issued, Busy, Tk!At
<1>9. OfTheChosen' BY <1>2, <1>5 DEF OfTheChosen, Tk!At
<1>. QED BY <1>6, <1>7, <1>8, <1>9 DEF TkInv

LEMMA TkDies == ASSUME TkBounds, TkInv, Tk!Dies PROVE TkInv'
<1>1. /\ up' = "down" /\ run' = [p \in Tk!Procs |-> Tk!Idle] /\ Tk!TypeOK
      /\ UNCHANGED <<legacy, ref, store, copied, accepted, issued, chosen, crossed>>
  BY DEF Tk!Dies, TkInv
<1>2. \A p \in Tk!Procs : ~Busy(p)' /\ run'[p].at = "idle" BY <1>1 DEF Busy, Tk!At, Tk!Idle
<1>3. Tk!TypeOK'
  <2>1. tokenFaults' \in 0..TokenFaults BY <1>1, TkFaulty DEF Tk!Dies
  <2>2. Tk!Idle \in [at : {"idle", "ask", "put", "check", "commit"}, tok : Tk!Token]
    BY DEF Tk!Idle, Tk!None, Tk!Token, TkBounds
  <2>3. run' \in [Tk!Procs -> [at : {"idle", "ask", "put", "check", "commit"}, tok : Tk!Token]]
    BY <1>1, <2>2
  <2>. QED BY <1>1, <2>1, <2>3 DEF Tk!TypeOK
<1>4. CutOver' BY <1>1, <1>2 DEF TkInv, CutOver
<1>5. Issued' BY <1>1, <1>2 DEF TkInv, Issued, Tk!At
<1>6. OfTheChosen' BY <1>1, <1>2 DEF TkInv, OfTheChosen, Tk!Procs, Tk!At
<1>. QED BY <1>3, <1>4, <1>5, <1>6 DEF TkInv

(* The refreshers and the person are told apart, and the provider issues a token. *)
THEOREM TokensHold == ASSUME TkBounds PROVE Spec => []TkInv
<1>1. Init => TkInv BY TkInit DEF Init
<1>2. TkInv /\ [Next]_vars => TkInv'
  <2>. SUFFICES ASSUME TkInv, [Next]_vars PROVE TkInv' OBVIOUS
  <2>1. CASE Tk!Next
    BY <2>1, BootSteps, SaveSteps, RunnerLoads, RefreshStep, ConnectStep, TkDies DEF Tk!Next
  <2>2. CASE UNCHANGED tkVars
    BY <2>2
    DEF tkVars, TkInv, Tk!TypeOK, CutOver, Issued, OfTheChosen, Busy, Tk!At
  <2>. QED BY <2>1, <2>2 DEF Next, vars
<1>. QED BY <1>1, <1>2, PTL DEF Spec

(* Through cutovers, connects and refreshes that overlap in any way, a tenant that has *)
(* connected can load a token, and only a refresh that wrote an older company's token  *)
(* back after the connect's own write makes it one of another company                  *)
(* (connect-loopback.ts:177-186, qbo-refresh.ts:27-61).                                *)
THEOREM ReconnectStays == ASSUME TkBounds PROVE Spec => []ReconnectHolds
<1>1. TkInv => ReconnectHolds BY TkInvImplies DEF ReconnectHolds
<1>. QED BY <1>1, TokensHold, PTL

-----------------------------------------------------------------------------
(* Backups *)

BkRow == [file : Nat, kind : Bk!Kinds, verified : BOOLEAN, day : Nat, born : Nat]
BkFile == [data : Nat, rows : SUBSET BkRow, good : BOOLEAN, key : Nat]
Backing == {"key", "mint", "count", "dump", "verify"}
Pruning == {"select", "prune", "delete"}
Working == {"restore"} \cup Backing \cup Pruning
BkReq == [at : {"idle", "wait", "restore", "unclaim"} \cup Backing \cup Pruning,
          kind : Bk!Kinds, key : Nat, counts : Nat, file : Nat, prune : SUBSET BkRow]

BkType ==
  /\ live \in [data : Nat, rows : SUBSET BkRow] /\ exported \in BkFile
  /\ files \in [DOMAIN files -> BkFile] /\ DOMAIN files \subseteq 1..made
  /\ key \in Nat /\ keys \in Nat /\ made \in Nat /\ inserted \in Nat /\ day \in Nat
  /\ req \in [Bk!Procs -> BkReq] /\ above \in BOOLEAN

Places(p) ==
  CASE p = "nightly" -> {"idle"} \cup Backing \cup Pruning
    [] p = "owner" -> {"idle", "wait", "restore"} \cup Backing
    [] p = "import" -> {"idle", "wait", "restore", "unclaim"}

(* Whoever makes, removes or restores a backup has the lock. *)
Locked ==
  /\ \A p \in Bk!Procs : Bk!At(p) \in Working => lock = p
  /\ \A p \in Bk!Procs : Bk!At(p) \in Places(p)

(* In every table, the live one and those in the dumps, a file has one row. *)
Table(t) ==
  /\ \A r \in t : r.file \in 1..made /\ r.born <= inserted
  /\ \A r, s \in t : r.file = s.file => r = s
OneRow ==
  Table(live.rows) /\ Table(exported.rows) /\ \A f \in DOMAIN files : Table(files[f].rows)

(* There is one key, and whatever is good is encrypted with a key. *)
OneKey ==
  /\ \A p \in Bk!Procs : Bk!At(p) = "mint" => key = 0
  /\ \A p \in Bk!Procs : Bk!At(p) \in {"count", "dump", "verify"} => req[p].key = key /\ key # 0
  /\ \A f \in DOMAIN files : files[f].good => files[f].key # 0
  /\ exported.good => exported.key # 0

(* The file being verified, the file being imported and the file being removed. *)
OwnFile ==
  /\ \A p \in Bk!Procs : Bk!At(p) = "verify" =>
       /\ req[p].file \in DOMAIN files /\ files[req[p].file].key = key
       /\ \A r \in live.rows : r.file # req[p].file
       /\ Bk!At("import") # "idle" => req["import"].file # req[p].file
  /\ Bk!At("import") # "idle" => req["import"].file \in 1..made
  /\ Bk!At("nightly") = "delete" =>
       req["nightly"].file \in 1..made /\ req["nightly"].file \notin DOMAIN files

(* While the rotation runs the newest backup is the one just verified, unless an *)
(* import has put its row above it.                                              *)
NewestUsable ==
  Bk!At("nightly") \in Pruning /\ ~above =>
    \E n \in Bk!Usable(live.rows, files, key) :
      /\ \A s \in live.rows : s.born <= n.born
      /\ Bk!At("import") # "idle" => n.file # req["import"].file

BkInv == BkType /\ Locked /\ OneRow /\ OneKey /\ OwnFile /\ NewestUsable

LEMMA BkInit == ASSUME Bk!Init PROVE BkInv
<1>. USE DEF Bk!Init, Bk!Idle, Bk!NoFile, Bk!At
<1>0. above = FALSE OBVIOUS
<1>1. DOMAIN files = {} /\ files \in [DOMAIN files -> BkFile] OBVIOUS
<1>2. BkType
  <2>1. Bk!Idle \in BkReq BY DEF BkReq, Bk!Kinds
  <2>2. req \in [Bk!Procs -> BkReq] BY <2>1
  <2>3. exported \in BkFile BY DEF BkFile
  <2>4. live \in [data : Nat, rows : SUBSET BkRow] OBVIOUS
  <2>. QED BY <1>0, <1>1, <2>2, <2>3, <2>4 DEF BkType
<1>3. \A p \in Bk!Procs : Bk!At(p) = "idle" OBVIOUS
<1>4. Locked BY <1>3 DEF Locked, Places, Working, Backing, Pruning, Bk!Procs
<1>5. OneRow BY <1>1 DEF OneRow, Table
<1>6. OneKey BY <1>1, <1>3 DEF OneKey
<1>7. OwnFile BY <1>3 DEF OwnFile, Bk!Procs
<1>8. NewestUsable BY <1>3 DEF NewestUsable, Pruning, Bk!Procs
<1>. QED BY <1>2, <1>4, <1>5, <1>6, <1>7, <1>8 DEF BkInv

LEMMA Asked ==
  ASSUME BkType, NEW p \in Bk!Procs, NEW x \in BkReq, req' = [req EXCEPT ![p] = x]
  PROVE  /\ req' \in [Bk!Procs -> BkReq] /\ req'[p] = x
         /\ \A q \in Bk!Procs : q # p => req'[q] = req[q]
BY DEF BkType

(* One who has the lock is alone at work. *)
LEMMA AloneAtWork ==
  ASSUME Locked, NEW p \in Bk!Procs, Bk!At(p) \in Working
  PROVE  lock = p /\ \A q \in Bk!Procs : q # p => Bk!At(q) \notin Working
BY DEF Locked

(* A request moves on and no table, file or key changes. *)
LEMMA Turn ==
  ASSUME BkInv, UNCHANGED <<live, files, exported, key, keys, made, inserted, day, above>>,
         NEW p \in Bk!Procs, NEW x \in BkReq, req' = [req EXCEPT ![p] = x],
         \A q \in Bk!Procs : q # p /\ Bk!At(q) \in Working => lock' = q,
         x.at \in Working => lock' = p,
         x.at \in Places(p) \ {"verify", "delete"},
         x.at = "mint" => key = 0,
         x.at \in {"count", "dump"} => x.key = key /\ key # 0,
         p = "import" /\ x.at # "idle" => Bk!At(p) # "idle" /\ x.file = req[p].file,
         p = "nightly" /\ x.at \in Pruning => Bk!At(p) \in Pruning
  PROVE  BkInv'
<1>1. /\ req' \in [Bk!Procs -> BkReq] /\ req'[p] = x
      /\ \A q \in Bk!Procs : q # p => req'[q] = req[q]
  BY Asked DEF BkInv
<1>2. BkType' BY <1>1 DEF BkInv, BkType
<1>3. Locked' BY <1>1 DEF BkInv, Locked, Bk!At
<1>4. OneRow' BY DEF BkInv, OneRow, Table
<1>5. OneKey' BY <1>1 DEF BkInv, OneKey, Bk!At
<1>6. OwnFile'
  <2>1. \A q \in Bk!Procs : Bk!At(q)' \in {"verify", "delete"} => q # p /\ req'[q] = req[q]
    BY <1>1 DEF Bk!At
  <2>2. Bk!At("import")' # "idle" =>
          Bk!At("import") # "idle" /\ req'["import"].file = req["import"].file
    BY <1>1 DEF Bk!At, Bk!Procs
  <2>3. "nightly" \in Bk!Procs BY DEF Bk!Procs
  <2>. QED BY <2>1, <2>2, <2>3 DEF BkInv, OwnFile, Bk!At
<1>7. NewestUsable'
  <2>1. Bk!At("nightly")' \in Pruning => Bk!At("nightly") \in Pruning
    BY <1>1 DEF Bk!At, Bk!Procs
  <2>2. Bk!At("import")' # "idle" =>
          Bk!At("import") # "idle" /\ req'["import"].file = req["import"].file
    BY <1>1 DEF Bk!At, Bk!Procs
  <2>3. Bk!Usable(live.rows, files, key)' = Bk!Usable(live.rows, files, key)
    BY DEF Bk!Usable, Bk!Verified
  <2>. QED BY <2>1, <2>2, <2>3 DEF BkInv, NewestUsable
<1>. QED BY <1>2, <1>3, <1>4, <1>5, <1>6, <1>7 DEF BkInv

LEMMA BeginStep ==
  ASSUME BkInv, NEW p \in {"nightly", "owner"}, NEW kind \in Bk!Kinds, Bk!Begin(p, kind)
  PROVE  BkInv'
<1>. DEFINE x == [Bk!Idle EXCEPT !.at = "key", !.kind = kind]
<1>1. x \in BkReq /\ x.at = "key" BY DEF Bk!Idle, BkReq, Backing
<1>2. req' = [req EXCEPT ![p] = x] /\ lock = Bk!None /\ lock' = p
      /\ UNCHANGED <<live, files, exported, key, keys, made, inserted, day, above>>
  BY DEF Bk!Begin, Bk!Acquire
<1>. HIDE DEF x
<1>3. \A q \in Bk!Procs : Bk!At(q) \notin Working
  BY <1>2 DEF BkInv, Locked, Bk!None, Bk!Procs
<1>4. p \in Bk!Procs /\ p # "import" /\ x.at \in Places(p) \ {"verify", "delete"} /\ x.at \notin Pruning
  BY <1>1 DEF Bk!Procs, Places, Backing, Pruning
<1>. QED BY <1>1, <1>2, <1>3, <1>4, Turn

LEMMA AskRestoreStep == ASSUME BkInv, Bk!AskRestore PROVE BkInv'
<1>1. PICK r \in live.rows :
        req' = [req EXCEPT !["owner"] = [Bk!Idle EXCEPT !.at = "wait", !.file = r.file]]
  BY Zenon DEF Bk!AskRestore
<1>2. r \in BkRow BY DEF BkInv, BkType
<1>3. PICK x \in BkReq : x = [Bk!Idle EXCEPT !.at = "wait", !.file = r.file]
  <2>1. [Bk!Idle EXCEPT !.at = "wait", !.file = r.file] \in BkReq
    BY <1>2 DEF Bk!Idle, BkReq, BkRow, Bk!Kinds
  <2>. QED BY <2>1
<1>4. x.at = "wait" BY <1>3 DEF Bk!Idle
<1>5. UNCHANGED <<live, files, exported, key, keys, made, inserted, day, lock, above>>
  BY DEF Bk!AskRestore
<1>6. \A q \in Bk!Procs : Bk!At(q) \in Working => lock' = q BY <1>5 DEF BkInv, Locked
<1>7. PICK p \in Bk!Procs : p = "owner" BY DEF Bk!Procs
<1>8. x.at \in Places(p) \ {"verify", "delete"} /\ x.at \notin Working /\ x.at \notin Pruning
  BY <1>4, <1>7 DEF Places, Working, Backing, Pruning
<1>9. req' = [req EXCEPT ![p] = x] BY <1>1, <1>3, <1>7
<1>. QED BY <1>4, <1>5, <1>6, <1>7, <1>8, <1>9, Turn

LEMMA WorkingSteps ==
  ASSUME BkInv, NEW p \in Bk!Procs,
         Bk!ReadKey(p) \/ Bk!Count(p) \/ Bk!Select(p) \/ Bk!PruneEnds(p)
  PROVE  BkInv'
<1>. USE DEF Bk!ReadKey, Bk!Count, Bk!Select, Bk!PruneEnds
<1>1. Bk!At(p) \in Working /\ Bk!At(p) \in Places(p) /\ req[p] \in BkReq
  BY DEF Bk!At, Working, Backing, Pruning, BkInv, Locked, BkType
<1>2. lock = p /\ \A q \in Bk!Procs : q # p => Bk!At(q) \notin Working
  BY <1>1, AloneAtWork DEF BkInv
<1>3. UNCHANGED <<live, files, exported, key, keys, made, inserted, day, above>> OBVIOUS
<1>4. PICK x \in BkReq :
        /\ req' = [req EXCEPT ![p] = x]
        /\ x.at \in Working => lock' = p
        /\ x.at \in Places(p) \ {"verify", "delete"} /\ p # "import"
        /\ x.at = "mint" => key = 0
        /\ x.at \in {"count", "dump"} => x.key = key /\ key # 0
        /\ x.at \in Pruning => Bk!At(p) \in Pruning
  <2>0. p # "import" BY <1>1 DEF Places, Bk!Procs, Bk!At
  <2>1. CASE Bk!ReadKey(p)
    <3>. DEFINE x == [req[p] EXCEPT !.key = key, !.at = IF key = 0 THEN "mint" ELSE "count"]
    <3>1. /\ x \in BkReq /\ x.key = key /\ x.at = IF key = 0 THEN "mint" ELSE "count"
      BY <1>1 DEF BkReq, Backing, BkInv, BkType
    <3>2. req' = [req EXCEPT ![p] = x] BY <2>1
    <3>3. lock' = p BY <1>2, <2>1
    <3>4. x.at \in Places(p) BY <2>0, <3>1 DEF Places, Backing, Bk!Procs
    <3>. HIDE DEF x
    <3>. QED BY <2>0, <3>1, <3>2, <3>3, <3>4 DEF Pruning
  <2>2. CASE Bk!Count(p)
    <3>. DEFINE x == [req[p] EXCEPT !.counts = live.data, !.at = "dump"]
    <3>1. /\ x \in BkReq /\ x.key = req[p].key /\ x.at = "dump"
      BY <1>1 DEF BkReq, Backing, BkInv, BkType
    <3>2. req' = [req EXCEPT ![p] = x] BY <2>2
    <3>3. lock' = p BY <1>2, <2>2
    <3>4. x.at \in Places(p) BY <2>0, <3>1 DEF Places, Backing, Bk!Procs
    <3>5. req[p].key = key /\ key # 0 BY <2>2 DEF BkInv, OneKey
    <3>. HIDE DEF x
    <3>. QED BY <2>0, <3>1, <3>2, <3>3, <3>4, <3>5 DEF Pruning
  <2>3. CASE Bk!Select(p)
    <3>. DEFINE gone == Bk!Prunable(live.rows, day)
                x == [req[p] EXCEPT !.prune = gone, !.at = "prune"]
    <3>1. gone \subseteq BkRow
      BY DEF Bk!Prunable, Bk!Verified, BkInv, BkType
    <3>2. req' = [req EXCEPT ![p] = x] BY <2>3
    <3>. HIDE DEF gone
    <3>3. x \in BkReq /\ x.at = "prune" BY <1>1, <3>1 DEF BkReq, Pruning
    <3>4. lock' = p BY <1>2, <2>3
    <3>5. p = "nightly" BY <1>1, <2>3 DEF Places, Bk!Procs, Backing
    <3>. HIDE DEF x
    <3>. QED BY <2>3, <3>2, <3>3, <3>4, <3>5 DEF Places, Pruning
  <2>4. CASE Bk!PruneEnds(p)
    <3>1. Bk!Idle \in BkReq /\ Bk!Idle.at = "idle" BY DEF BkReq, Bk!Idle, Bk!Kinds
    <3>2. req' = [req EXCEPT ![p] = Bk!Idle] BY <2>4 DEF Bk!Done
    <3>. QED BY <2>0, <3>1, <3>2 DEF Places, Pruning, Working, Backing, Bk!Procs
  <2>. QED BY <2>1, <2>2, <2>3, <2>4
<1>. QED BY <1>2, <1>3, <1>4, Turn

LEMMA RestoreTurns ==
  ASSUME BkInv, NEW p \in Bk!Procs,
         Bk!BeginRestore(p) \/ Bk!RestoreRefused(p) \/ Bk!ToolFails(p)
  PROVE  BkInv'
<1>1. req[p] \in BkReq /\ Bk!At(p) \in Places(p) BY DEF BkInv, BkType, Locked
<1>0. Bk!Idle \in BkReq /\ Bk!Idle.at = "idle" BY DEF BkReq, Bk!Idle, Bk!Kinds
<1>2. UNCHANGED <<live, files, exported, key, keys, made, inserted, day, above>>
  BY DEF Bk!BeginRestore, Bk!RestoreRefused, Bk!ToolFails
<1>3. CASE Bk!BeginRestore(p)
  <2>. DEFINE x == [req[p] EXCEPT !.at = "restore"]
  <2>1. req' = [req EXCEPT ![p] = x] /\ lock = Bk!None /\ lock' = p /\ Bk!At(p) = "wait"
    BY <1>3 DEF Bk!BeginRestore, Bk!To, Bk!Acquire
  <2>2. x \in BkReq /\ x.at = "restore" /\ x.file = req[p].file BY <1>1 DEF BkReq
  <2>. HIDE DEF x
  <2>3. \A q \in Bk!Procs : Bk!At(q) \notin Working
    BY <2>1 DEF BkInv, Locked, Bk!None, Bk!Procs
  <2>4. x.at \in Places(p) \ {"verify", "delete"} /\ p # "nightly"
    BY <1>1, <2>1, <2>2 DEF Places, Bk!Procs, Backing, Pruning
  <2>. QED BY <1>2, <2>1, <2>2, <2>3, <2>4, Turn
<1>4. CASE Bk!RestoreRefused(p) \/ Bk!ToolFails(p)
  <2>1. Bk!At(p) \in Working /\ (p = "import" => Bk!At(p) = "restore")
    BY <1>1, <1>4
    DEF Working, Bk!RestoreRefused, Bk!ToolFails, Places, Bk!Procs, Backing, Pruning
  <2>2. lock = p /\ \A q \in Bk!Procs : q # p => Bk!At(q) \notin Working
    BY <2>1, AloneAtWork DEF BkInv
  <2>3. PICK x \in BkReq :
          /\ req' = [req EXCEPT ![p] = x]
          /\ x.at \in {"idle", "unclaim"} /\ (x.at = "unclaim" => p = "import" /\ x.file = req[p].file)
    <3>. DEFINE y == [req[p] EXCEPT !.at = "unclaim"]
    <3>1. y \in BkReq /\ y.at = "unclaim" /\ y.file = req[p].file BY <1>1 DEF BkReq
    <3>2. req' = [req EXCEPT ![p] = Bk!Idle] \/ (p = "import" /\ req' = [req EXCEPT ![p] = y])
      BY <1>4 DEF Bk!RestoreRefused, Bk!ToolFails, Bk!Done, Bk!To
    <3>. HIDE DEF y
    <3>. QED BY <1>0, <3>1, <3>2
  <2>4. x.at \in Places(p) \ {"verify", "delete"} /\ x.at \notin Working
    BY <2>3 DEF Places, Bk!Procs, Working, Backing, Pruning
  <2>6. p = "import" /\ x.at # "idle" => Bk!At(p) # "idle" /\ x.file = req[p].file
    BY <2>1, <2>3
  <2>7. x.at \notin {"mint", "count", "dump"} BY <2>3
  <2>8. x.at \notin Pruning BY <2>4 DEF Working
  <2>. QED BY <1>2, <2>2, <2>3, <2>4, <2>6, <2>7, <2>8, Turn
<1>. QED BY <1>3, <1>4

(* What happens around the requests. *)
LEMMA WorldSteps ==
  ASSUME BkInv, Bk!Write \/ Bk!DayPasses \/ Bk!ExportRots \/ Bk!Export
  PROVE  BkInv'
<1>. USE DEF Bk!Write, Bk!DayPasses, Bk!ExportRots, Bk!Export
<1>1. /\ UNCHANGED <<files, key, keys, lock, req, made, inserted, above>>
      /\ live'.rows = live.rows /\ live' \in [data : Nat, rows : SUBSET BkRow]
      /\ day' \in Nat
  <2>1. live \in [data : Nat, rows : SUBSET BkRow] /\ day \in Nat BY DEF BkInv, BkType
  <2>2. CASE Bk!Write BY <2>1, <2>2
  <2>3. CASE ~Bk!Write BY <2>1, <2>3
  <2>. QED BY <2>2, <2>3
<1>2. /\ exported' \in BkFile
      /\ Table(exported.rows) => Table(exported'.rows)
      /\ exported'.good => exported'.key # 0
  <2>1. CASE Bk!Export
    <3>1. PICK f \in DOMAIN files : exported' = files[f] BY <2>1
    <3>. QED BY <3>1 DEF BkInv, BkType, OneKey, OneRow
  <2>2. CASE Bk!ExportRots
    <3>1. exported' = [exported EXCEPT !.good = FALSE] /\ exported \in BkFile
      BY <2>2 DEF BkInv, BkType
    <3>2. exported' \in BkFile /\ exported'.rows = exported.rows /\ exported'.good = FALSE
      BY <3>1 DEF BkFile
    <3>. QED BY <3>2
  <2>3. CASE Bk!Write \/ Bk!DayPasses BY <2>3 DEF BkInv, BkType, OneKey
  <2>. QED BY <2>1, <2>2, <2>3
<1>3. BkType' BY <1>1, <1>2 DEF BkInv, BkType
<1>4. Locked' BY <1>1 DEF BkInv, Locked, Bk!At
<1>5. OneRow'
  <2>1. Table(exported'.rows) BY <1>2 DEF BkInv, OneRow
  <2>. QED BY <1>1, <2>1 DEF BkInv, OneRow, Table
<1>6. OneKey' BY <1>1, <1>2 DEF BkInv, OneKey, Bk!At
<1>7. OwnFile' BY <1>1 DEF BkInv, OwnFile, Bk!At
<1>8. NewestUsable' BY <1>1 DEF BkInv, NewestUsable, Bk!At, Bk!Usable, Bk!Verified
<1>. QED BY <1>3, <1>4, <1>5, <1>6, <1>7, <1>8 DEF BkInv

LEMMA BkDies == ASSUME BkInv, Bk!Dies PROVE BkInv'
<1>1. /\ UNCHANGED <<live, files, exported, key, keys, made, inserted, day, above>>
      /\ req' = [p \in Bk!Procs |-> Bk!Idle]
  BY DEF Bk!Dies
<1>2. Bk!Idle \in BkReq BY DEF BkReq, Bk!Idle, Bk!Kinds
<1>3. \A p \in Bk!Procs : Bk!At(p)' = "idle" BY <1>1 DEF Bk!At, Bk!Idle
<1>4. BkType' BY <1>1, <1>2 DEF BkInv, BkType
<1>5. Locked' BY <1>3 DEF Locked, Places, Working, Backing, Pruning, Bk!Procs
<1>6. OneRow' BY <1>1 DEF BkInv, OneRow, Table
<1>7. OneKey' BY <1>1, <1>3 DEF BkInv, OneKey
<1>8. OwnFile' BY <1>3 DEF OwnFile, Bk!Procs
<1>9. NewestUsable' BY <1>3 DEF NewestUsable, Pruning, Bk!Procs
<1>. QED BY <1>4, <1>5, <1>6, <1>7, <1>8, <1>9 DEF BkInv

LEMMA MintKeyStep == ASSUME BkInv, NEW p \in Bk!Procs, Bk!MintKey(p) PROVE BkInv'
<1>1. /\ req[p] \in BkReq /\ keys \in Nat /\ Bk!At(p) = "mint" /\ key = 0 /\ key' = keys + 1 /\ keys' = keys + 1
      /\ UNCHANGED <<live, files, exported, lock, made, inserted, day, above>>
  BY DEF BkInv, BkType, Bk!MintKey, OneKey
<1>2. Bk!At(p) \in Working /\ Bk!At(p) \in Places(p) /\ lock = p
  BY <1>1 DEF Working, Backing, BkInv, Locked
<1>3. PICK x \in BkReq : req' = [req EXCEPT ![p] = x] /\ x.at = "count" /\ x.key = keys + 1
  <2>. DEFINE x == [req[p] EXCEPT !.key = keys + 1, !.at = "count"]
  <2>1. x \in BkReq /\ x.at = "count" /\ x.key = keys + 1
    <3>1. keys + 1 \in Nat /\ "count" \in Backing BY <1>1 DEF Backing
    <3>. QED BY <1>1, <3>1 DEF BkReq
  <2>2. req' = [req EXCEPT ![p] = x] BY DEF Bk!MintKey
  <2>. QED BY <2>1, <2>2
<1>4. /\ req' \in [Bk!Procs -> BkReq] /\ req'[p] = x
      /\ \A q \in Bk!Procs : q # p => req'[q] = req[q]
  BY <1>3, Asked DEF BkInv
<1>5. \A q \in Bk!Procs : q # p => Bk!At(q) \notin Working BY <1>2, AloneAtWork DEF BkInv
<1>6. BkType' BY <1>1, <1>4 DEF BkInv, BkType
<1>7. Locked'
  <2>1. x.at \in Places(p) BY <1>1, <1>2, <1>3 DEF Places, Backing, Bk!Procs
  <2>. QED BY <1>1, <1>2, <1>4, <2>1 DEF BkInv, Locked, Bk!At
<1>8. OneRow' BY <1>1 DEF BkInv, OneRow, Table
<1>9. OneKey'
  <2>1. \A q \in Bk!Procs : q # p => Bk!At(q)' \notin {"mint", "count", "dump", "verify"}
    BY <1>4, <1>5 DEF Bk!At, Working, Backing
  <2>2. key' # 0 /\ req'[p].at = "count" /\ req'[p].key = key' BY <1>1, <1>3, <1>4
  <2>. QED BY <1>1, <2>1, <2>2 DEF BkInv, OneKey, Bk!At
<1>10. OwnFile'
  <2>1. \A q \in Bk!Procs : Bk!At(q)' \notin {"verify", "delete"}
    BY <1>3, <1>4, <1>5 DEF Bk!At, Working, Backing, Pruning
  <2>2. p # "import" BY <1>1, <1>2 DEF Places, Bk!Procs
  <2>3. req'["import"] = req["import"] /\ "nightly" \in Bk!Procs BY <1>4, <2>2 DEF Bk!Procs
  <2>. QED BY <1>1, <2>1, <2>3 DEF BkInv, OwnFile, Bk!At
<1>11. NewestUsable'
  <2>1. Bk!At("nightly")' \notin Pruning
    BY <1>3, <1>4, <1>5 DEF Bk!At, Working, Pruning, Bk!Procs
  <2>. QED BY <2>1 DEF NewestUsable
<1>. QED BY <1>6, <1>7, <1>8, <1>9, <1>10, <1>11 DEF BkInv

LEMMA DumpStep == ASSUME BkInv, NEW p \in Bk!Procs, Bk!Dump(p) PROVE BkInv'
<1>1. /\ req[p] \in BkReq /\ made \in Nat /\ Bk!At(p) = "dump" /\ made' = made + 1
      /\ req[p].key = key /\ key # 0 /\ key \in Nat
      /\ UNCHANGED <<live, key, keys, exported, lock, inserted, day, above>>
  BY DEF BkInv, BkType, Bk!Dump, OneKey
<1>2. Bk!At(p) \in Working /\ Bk!At(p) \in Places(p) /\ lock = p
  BY <1>1 DEF Working, Backing, BkInv, Locked
<1>3. PICK x \in BkReq : req' = [req EXCEPT ![p] = x] /\ x.at = "verify" /\ x.file = made + 1 /\ x.key = key
  <2>. DEFINE x == [req[p] EXCEPT !.file = made + 1, !.at = "verify"]
  <2>1. x \in BkReq /\ x.at = "verify" /\ x.file = made + 1 /\ x.key = key
    <3>1. made + 1 \in Nat /\ "verify" \in Backing BY <1>1 DEF Backing
    <3>. QED BY <1>1, <3>1 DEF BkReq
  <2>2. req' = [req EXCEPT ![p] = x] BY DEF Bk!Dump
  <2>. QED BY <2>1, <2>2
<1>4. /\ req' \in [Bk!Procs -> BkReq] /\ req'[p] = x
      /\ \A q \in Bk!Procs : q # p => req'[q] = req[q]
  BY <1>3, Asked DEF BkInv
<1>5. \A q \in Bk!Procs : q # p => Bk!At(q) \notin Working BY <1>2, AloneAtWork DEF BkInv
<1>6. PICK c \in BkFile :
        /\ files' = [g \in DOMAIN files \cup {made + 1} |-> IF g = made + 1 THEN c ELSE files[g]]
        /\ c.rows = live.rows /\ c.key = key
  <2>1. PICK good \in BOOLEAN :
          Bk!Put(made + 1, [data |-> live.data, rows |-> live.rows, good |-> good, key |-> req[p].key])
    BY DEF Bk!Dump
  <2>2. [data |-> live.data, rows |-> live.rows, good |-> good, key |-> req[p].key] \in BkFile
    BY <1>1 DEF BkInv, BkType, BkFile
  <2>. QED BY <1>1, <2>1, <2>2 DEF Bk!Put
<1>7. /\ DOMAIN files' = DOMAIN files \cup {made + 1} /\ made + 1 \notin DOMAIN files
      /\ files'[made + 1] = c /\ \A f \in DOMAIN files : files'[f] = files[f]
      /\ files' \in [DOMAIN files' -> BkFile] /\ DOMAIN files' \subseteq 1..made'
  <2>1. DOMAIN files \subseteq 1..made /\ files \in [DOMAIN files -> BkFile] BY DEF BkInv, BkType
  <2>2. made + 1 \notin DOMAIN files BY <1>1, <2>1
  <2>. QED BY <1>1, <1>6, <2>1, <2>2
<1>8. BkType' BY <1>1, <1>4, <1>7 DEF BkInv, BkType
<1>9. Locked'
  <2>1. x.at \in Places(p) BY <1>1, <1>2, <1>3 DEF Places, Backing, Bk!Procs
  <2>. QED BY <1>1, <1>2, <1>4, <2>1 DEF BkInv, Locked, Bk!At
<1>10. OneRow'
  <2>1. Table(live.rows) /\ Table(exported.rows) /\ \A f \in DOMAIN files : Table(files[f].rows)
    BY DEF BkInv, OneRow
  <2>2. ASSUME NEW t, Table(t) PROVE Table(t)' BY <1>1, <2>2 DEF Table
  <2>. QED BY <1>1, <1>6, <1>7, <2>1, <2>2 DEF OneRow, Table
<1>11. OneKey'
  <2>1. \A q \in Bk!Procs : q # p => Bk!At(q)' \notin {"mint", "count", "dump", "verify"}
    BY <1>4, <1>5 DEF Bk!At, Working, Backing
  <2>. QED BY <1>1, <1>3, <1>4, <1>6, <1>7, <2>1 DEF BkInv, OneKey, Bk!At
<1>12. OwnFile'
  <2>1. \A q \in Bk!Procs : q # p => Bk!At(q)' \notin {"verify", "delete"}
    BY <1>4, <1>5 DEF Bk!At, Working, Backing, Pruning
  <2>2. p # "import" BY <1>1, <1>2 DEF Places, Bk!Procs
  <2>3. req'["import"] = req["import"] /\ "nightly" \in Bk!Procs BY <1>4, <2>2 DEF Bk!Procs
  <2>4. \A r \in live.rows : r.file # made + 1
    BY <1>1 DEF BkInv, OneRow, Table
  <2>5. Bk!At("import") # "idle" => req["import"].file \in 1..made BY DEF BkInv, OwnFile
  <2>6. Bk!At("import") # "idle" => req["import"].file # made + 1 /\ req["import"].file \in 1..made'
    BY <1>1, <2>5
  <2>. QED BY <1>1, <1>3, <1>4, <1>6, <1>7, <2>1, <2>3, <2>4, <2>6 DEF OwnFile, Bk!At
<1>13. NewestUsable'
  <2>1. Bk!At("nightly")' \notin Pruning
    BY <1>3, <1>4, <1>5 DEF Bk!At, Working, Pruning, Bk!Procs
  <2>. QED BY <2>1 DEF NewestUsable
<1>. QED BY <1>8, <1>9, <1>10, <1>11, <1>12, <1>13 DEF BkInv

(* A backup that was just verified is the newest of all. *)
LEMMA VerifyStep == ASSUME BkInv, NEW p \in Bk!Procs, Bk!Verify(p) PROVE BkInv'
<1>. DEFINE ok == files[req[p].file].good /\ files[req[p].file].data = req[p].counts
            n == Bk!Row(req[p].file, req[p].kind, ok)
<1>1. /\ req[p] \in BkReq /\ Bk!At(p) = "verify" /\ inserted' = inserted + 1 /\ inserted \in Nat
      /\ UNCHANGED <<files, key, keys, exported, made, day>>
      /\ live' = [live EXCEPT !.rows = @ \cup {n}]
      /\ req[p].file \in DOMAIN files /\ files[req[p].file].key = key
      /\ \A r \in live.rows : r.file # req[p].file
  BY DEF BkInv, BkType, Bk!Verify, OwnFile
<1>2. Bk!At(p) \in Working /\ Bk!At(p) \in Places(p) /\ lock = p
  BY <1>1 DEF Working, Backing, BkInv, Locked
<1>3. /\ n \in BkRow /\ n.file = req[p].file /\ n.born = inserted + 1 /\ n.verified = ok
      /\ n.file \in 1..made
  <2>1. ok \in BOOLEAN
    BY <1>1 DEF BkInv, BkType, BkFile
  <2>. HIDE DEF ok
  <2>2. n \in BkRow /\ n.file = req[p].file /\ n.born = inserted + 1 /\ n.verified = ok
    BY <1>1, <2>1 DEF Bk!Row, BkRow, BkReq, BkInv, BkType
  <2>. QED BY <1>1, <2>2 DEF BkInv, BkType
<1>4. PICK x \in BkReq :
        /\ req' = [req EXCEPT ![p] = x]
        /\ \/ x.at = "idle" /\ lock' # p
           \/ x.at = "select" /\ p = "nightly" /\ lock' = p /\ ok
  <2>. DEFINE y == [req[p] EXCEPT !.at = "select"]
  <2>1. y \in BkReq /\ y.at = "select" BY <1>1 DEF BkReq, Pruning
  <2>2. Bk!Idle \in BkReq /\ Bk!Idle.at = "idle" BY DEF BkReq, Bk!Idle, Bk!Kinds
  <2>3. \/ req' = [req EXCEPT ![p] = y] /\ lock' = lock /\ p = "nightly" /\ ok
        \/ req' = [req EXCEPT ![p] = Bk!Idle] /\ lock' = Bk!None
    BY <1>2 DEF Bk!Verify, Bk!To, Bk!Done, Bk!Release
  <2>. HIDE DEF y, ok
  <2>. QED BY <1>2, <2>1, <2>2, <2>3 DEF Bk!None, Bk!Procs
<1>. HIDE DEF ok, n
<1>5. /\ req' \in [Bk!Procs -> BkReq] /\ req'[p] = x
      /\ \A q \in Bk!Procs : q # p => req'[q] = req[q]
  BY <1>4, Asked DEF BkInv
<1>6. \A q \in Bk!Procs : q # p => Bk!At(q) \notin Working BY <1>2, AloneAtWork DEF BkInv
<1>7. live'.rows = live.rows \cup {n} /\ live' \in [data : Nat, rows : SUBSET BkRow]
  BY <1>1, <1>3 DEF BkInv, BkType
<1>8. BkType'
  <2>1. above' \in BOOLEAN BY DEF Bk!Verify, BkInv, BkType
  <2>. QED BY <1>1, <1>5, <1>7, <2>1 DEF BkInv, BkType
<1>9. Locked'
  <2>1. x.at \in Places(p) BY <1>1, <1>2, <1>4 DEF Places, Backing, Pruning, Bk!Procs
  <2>2. x.at \in Working => lock' = p BY <1>4 DEF Working, Backing, Pruning
  <2>. QED BY <1>5, <1>6, <2>1, <2>2 DEF BkInv, Locked, Bk!At
<1>10. OneRow'
  <2>1. Table(live.rows) /\ Table(exported.rows) /\ \A f \in DOMAIN files : Table(files[f].rows)
    BY DEF BkInv, OneRow
  <2>2. \A t \in {live.rows, exported.rows} \cup {files[f].rows : f \in DOMAIN files} : t \subseteq BkRow
    BY DEF BkInv, BkType, BkFile
  <2>3. ASSUME NEW t \in SUBSET BkRow, Table(t) PROVE Table(t)'
    BY <1>1, <2>3 DEF Table, BkRow
  <2>4. PICK u : u = live.rows \cup {n} OBVIOUS
  <2>5. Table(u)'
    <3>1. \A r \in live.rows : r.born \in Nat BY <2>2 DEF BkRow
    <3>2. \A r \in live.rows : r.file \in 1..made' /\ r.born <= inserted' /\ r.file # n.file
      BY <1>1, <1>3, <2>1, <3>1 DEF Table
    <3>3. n.file \in 1..made' /\ n.born <= inserted' BY <1>1, <1>3
    <3>. QED BY <2>1, <2>4, <3>2, <3>3 DEF Table
  <2>6. Table(live.rows)' BY <1>7, <2>4, <2>5
  <2>7. Table(exported.rows)'
    <3>1. PICK e \in SUBSET BkRow : e = exported.rows /\ Table(e) BY <2>1, <2>2
    <3>. QED BY <1>1, <2>3, <3>1
  <2>8. ASSUME NEW f \in DOMAIN files' PROVE Table(files[f].rows)'
    <3>1. PICK e \in SUBSET BkRow : e = files[f].rows /\ Table(e) BY <1>1, <2>1, <2>2
    <3>. QED BY <1>1, <2>3, <3>1
  <2>. QED BY <2>6, <2>7, <2>8 DEF OneRow
<1>11. OneKey'
  <2>1. \A q \in Bk!Procs : Bk!At(q)' \notin {"mint", "count", "dump", "verify"}
    BY <1>4, <1>5, <1>6 DEF Bk!At, Working, Backing
  <2>. QED BY <1>1, <2>1 DEF BkInv, OneKey, Bk!At
<1>12. OwnFile'
  <2>1. \A q \in Bk!Procs : Bk!At(q)' \notin {"verify", "delete"}
    BY <1>4, <1>5, <1>6 DEF Bk!At, Working, Backing, Pruning
  <2>2. p # "import" BY <1>1, <1>2 DEF Places, Bk!Procs
  <2>3. req'["import"] = req["import"] /\ "nightly" \in Bk!Procs BY <1>5, <2>2 DEF Bk!Procs
  <2>. QED BY <1>1, <2>1, <2>3 DEF BkInv, OwnFile, Bk!At
<1>13. NewestUsable'
  <2>. SUFFICES ASSUME Bk!At("nightly")' \in Pruning
                PROVE  /\ n \in Bk!Usable(live.rows, files, key)'
                       /\ \A s \in live'.rows : s.born <= n.born
                       /\ Bk!At("import")' # "idle" => n.file # req'["import"].file
    BY DEF NewestUsable
  <2>1. p = "nightly" /\ ok
    BY <1>4, <1>5, <1>6 DEF Bk!At, Working, Pruning, Bk!Procs
  <2>2. req'["import"] = req["import"] BY <1>5, <2>1 DEF Bk!Procs
  <2>3. n.verified BY <1>3, <2>1
  <2>4. files[n.file].good BY <1>3, <2>1 DEF ok
  <2>5. n \in Bk!Usable(live.rows, files, key)'
    BY <1>1, <1>3, <1>7, <2>3, <2>4 DEF Bk!Usable, Bk!Verified
  <2>6. \A s \in live'.rows : s.born <= n.born
    <3>1. \A s \in live.rows : s.born <= inserted BY DEF BkInv, OneRow, Table
    <3>2. \A s \in live.rows : s.born \in Nat BY DEF BkInv, BkType, BkRow
    <3>. SUFFICES ASSUME NEW s \in live'.rows PROVE s.born <= n.born OBVIOUS
    <3>3. CASE s = n BY <1>1, <1>3, <3>3
    <3>4. CASE s \in live.rows BY <1>1, <1>3, <3>1, <3>2, <3>4
    <3>. QED BY <1>7, <3>3, <3>4
  <2>7. Bk!At("import")' # "idle" => n.file # req'["import"].file
    BY <1>1, <1>3, <2>2 DEF BkInv, OwnFile, Bk!At
  <2>. QED BY <2>5, <2>6, <2>7
<1>. QED BY <1>8, <1>9, <1>10, <1>11, <1>12, <1>13 DEF BkInv

(* The rotation never selects the newest verified backup. *)
LEMMA NewestKept ==
  ASSUME BkInv, NEW n \in live.rows, n.verified, \A s \in live.rows : s.born <= n.born,
         NEW r \in Bk!Prunable(live.rows, day)
  PROVE  r \in live.rows /\ r # n /\ r.file # n.file
<1>1. n \in Bk!Newest(Bk!Verified(live.rows)) BY DEF Bk!Newest, Bk!Verified
<1>2. n \in Bk!Kept(live.rows, day) BY <1>1 DEF Bk!Kept
<1>3. r \in live.rows /\ r # n BY <1>2 DEF Bk!Prunable, Bk!Verified
<1>. QED BY <1>3 DEF BkInv, OneRow, Table

LEMMA UnlinkStep == ASSUME BkInv, NEW p \in Bk!Procs, Bk!Unlink(p) PROVE BkInv'
<1>1. /\ req[p] \in BkReq /\ Bk!At(p) = "prune"
      /\ UNCHANGED <<live, exported, key, keys, lock, made, inserted, day, above>>
  BY DEF BkInv, BkType, Bk!Unlink
<1>2. Bk!At(p) \in Working /\ Bk!At(p) \in Places(p) /\ lock = p
  BY <1>1 DEF Working, Pruning, BkInv, Locked
<1>3. p = "nightly" BY <1>1, <1>2 DEF Places, Backing, Bk!Procs
<1>4. \A q \in Bk!Procs : q # p => Bk!At(q) \notin Working BY <1>2, AloneAtWork DEF BkInv
<1>5. PICK r \in req[p].prune :
        IF r \in Bk!Prunable(live.rows, day)
          THEN /\ Bk!Remove(r.file)
               /\ req' = [req EXCEPT ![p].file = r.file, ![p].prune = @ \ {r}, ![p].at = "delete"]
          ELSE files' = files /\ req' = [req EXCEPT ![p].prune = @ \ {r}]
  BY DEF Bk!Unlink
<1>6. CASE r \notin Bk!Prunable(live.rows, day)
  <2>. DEFINE x == [req[p] EXCEPT !.prune = @ \ {r}]
  <2>1. x \in BkReq /\ x.at = "prune" BY <1>1 DEF BkReq, Bk!At
  <2>2. req' = [req EXCEPT ![p] = x] /\ files' = files BY <1>5, <1>6
  <2>. HIDE DEF x
  <2>. QED BY <1>1, <1>2, <1>3, <1>4, <2>1, <2>2, Turn DEF Pruning, Places
<1>7. CASE r \in Bk!Prunable(live.rows, day)
  <2>0. r \in BkRow /\ r \in live.rows /\ r.file \in 1..made
    BY <1>7 DEF Bk!Prunable, Bk!Verified, BkInv, BkType, OneRow, Table
  <2>1. PICK x \in BkReq : req' = [req EXCEPT ![p] = x] /\ x.at = "delete" /\ x.file = r.file
    <3>. DEFINE x == [req[p] EXCEPT !.file = r.file, !.prune = @ \ {r}, !.at = "delete"]
    <3>1. r.file \in Nat BY <2>0 DEF BkRow
    <3>2. x \in BkReq /\ x.at = "delete" /\ x.file = r.file BY <1>1, <3>1 DEF BkReq, Pruning
    <3>3. req' = [req EXCEPT ![p] = x] BY <1>5, <1>7
    <3>. QED BY <3>2, <3>3
  <2>2. /\ req' \in [Bk!Procs -> BkReq] /\ req'[p] = x
        /\ \A q \in Bk!Procs : q # p => req'[q] = req[q]
    BY <2>1, Asked DEF BkInv
  <2>3. /\ DOMAIN files' = DOMAIN files \ {r.file} /\ \A f \in DOMAIN files' : files'[f] = files[f]
        /\ files' \in [DOMAIN files' -> BkFile]
    <3>1. files' = [g \in DOMAIN files \ {r.file} |-> files[g]] /\ files \in [DOMAIN files -> BkFile]
      BY <1>5, <1>7 DEF Bk!Remove, BkInv, BkType
    <3>. QED BY <3>1
  <2>4. BkType' BY <1>1, <2>2, <2>3 DEF BkInv, BkType
  <2>5. Locked'
    <3>1. x.at \in Places(p) BY <1>3, <2>1 DEF Places, Pruning
    <3>. QED BY <1>1, <1>2, <2>2, <3>1 DEF BkInv, Locked, Bk!At
  <2>6. OneRow' BY <1>1, <2>3 DEF BkInv, OneRow, Table
  <2>7. OneKey' BY <1>1, <2>1, <2>2, <2>3 DEF BkInv, OneKey, Bk!At
  <2>8. OwnFile'
    <3>1. \A q \in Bk!Procs : Bk!At(q)' # "verify"
      BY <1>4, <2>1, <2>2 DEF Bk!At, Working, Backing
    <3>2. req'["import"] = req["import"] /\ req'["nightly"] = x BY <1>3, <2>2 DEF Bk!Procs
    <3>. QED BY <1>1, <2>0, <2>1, <2>3, <3>1, <3>2 DEF BkInv, OwnFile, Bk!At
  <2>9. NewestUsable'
    <3>1. req'["import"] = req["import"] BY <1>3, <2>2 DEF Bk!Procs
    <3>. SUFFICES ASSUME ~above
                  PROVE  \E n \in Bk!Usable(live.rows, files, key)' :
                           /\ \A s \in live.rows : s.born <= n.born
                           /\ Bk!At("import") # "idle" => n.file # req["import"].file
      BY <1>1, <3>1 DEF NewestUsable, Bk!At
    <3>2. PICK n \in Bk!Usable(live.rows, files, key) :
            /\ \A s \in live.rows : s.born <= n.born
            /\ Bk!At("import") # "idle" => n.file # req["import"].file
      BY <1>1, <1>3 DEF BkInv, NewestUsable, Pruning
    <3>3. n \in live.rows /\ n.verified BY DEF Bk!Usable, Bk!Verified
    <3>4. r.file # n.file BY <1>7, <3>2, <3>3, NewestKept
    <3>5. n \in Bk!Usable(live.rows, files, key)'
      BY <1>1, <2>3, <3>4 DEF Bk!Usable, Bk!Verified
    <3>. QED BY <3>2, <3>5
  <2>. QED BY <2>4, <2>5, <2>6, <2>7, <2>8, <2>9 DEF BkInv
<1>. QED BY <1>6, <1>7

(* Rows that leave take no other row's file with them. *)
LEMMA RowsLeave ==
  ASSUME BkInv, NEW f, live' = [live EXCEPT !.rows = {r \in @ : r.file # f}]
  PROVE  /\ live' \in [data : Nat, rows : SUBSET BkRow]
         /\ live'.rows = {r \in live.rows : r.file # f}
<1>1. live \in [data : Nat, rows : SUBSET BkRow] BY DEF BkInv, BkType
<1>2. PICK kept \in SUBSET BkRow : kept = {r \in live.rows : r.file # f} BY <1>1
<1>3. live' = [live EXCEPT !.rows = kept] BY <1>2
<1>. QED BY <1>1, <1>2, <1>3

LEMMA DeleteRowStep == ASSUME BkInv, NEW p \in Bk!Procs, Bk!DeleteRow(p) PROVE BkInv'
<1>1. /\ req[p] \in BkReq /\ Bk!At(p) = "delete" /\ "import" \in Bk!Procs
      /\ UNCHANGED <<files, exported, key, keys, lock, made, inserted, day, above>>
  BY DEF BkInv, BkType, Bk!DeleteRow, Bk!Procs
<1>2. Bk!At(p) \in Working /\ Bk!At(p) \in Places(p) /\ lock = p
  BY <1>1 DEF Working, Pruning, BkInv, Locked
<1>3. p = "nightly" BY <1>1, <1>2 DEF Places, Backing, Bk!Procs
<1>4. \A q \in Bk!Procs : q # p => Bk!At(q) \notin Working BY <1>2, AloneAtWork DEF BkInv
<1>5. PICK f : f = req[p].file /\ f \notin DOMAIN files BY <1>1, <1>3 DEF BkInv, OwnFile
<1>6. /\ live' \in [data : Nat, rows : SUBSET BkRow]
      /\ live'.rows = {r \in live.rows : r.file # f}
  <2>1. live' = [live EXCEPT !.rows = {r \in @ : r.file # f}] BY <1>5 DEF Bk!DeleteRow
  <2>. QED BY <2>1, RowsLeave
<1>7. PICK x \in BkReq : req' = [req EXCEPT ![p] = x] /\ x.at = "prune"
  <2>. DEFINE x == [req[p] EXCEPT !.at = "prune"]
  <2>1. x \in BkReq /\ x.at = "prune" BY <1>1 DEF BkReq, Pruning
  <2>2. req' = [req EXCEPT ![p] = x] BY DEF Bk!DeleteRow, Bk!To
  <2>. QED BY <2>1, <2>2
<1>8. /\ req' \in [Bk!Procs -> BkReq] /\ req'[p] = x
      /\ \A q \in Bk!Procs : q # p => req'[q] = req[q]
  BY <1>7, Asked DEF BkInv
<1>9. BkType' BY <1>1, <1>6, <1>8 DEF BkInv, BkType
<1>10. Locked'
  <2>1. x.at \in Places(p) BY <1>3, <1>7 DEF Places, Pruning
  <2>. QED BY <1>1, <1>2, <1>8, <2>1 DEF BkInv, Locked, Bk!At
<1>11. OneRow' BY <1>1, <1>6 DEF BkInv, OneRow, Table
<1>12. OneKey' BY <1>1, <1>7, <1>8 DEF BkInv, OneKey, Bk!At
<1>13. OwnFile'
  <2>1. \A q \in Bk!Procs : Bk!At(q)' \notin {"verify", "delete"}
    BY <1>3, <1>4, <1>7, <1>8 DEF Bk!At, Working, Backing, Pruning
  <2>2. req'["import"] = req["import"] BY <1>1, <1>3, <1>8
  <2>3. Bk!At("nightly")' # "delete" BY <1>3, <2>1
  <2>. QED BY <1>1, <2>1, <2>2, <2>3 DEF BkInv, OwnFile, Bk!At
<1>14. NewestUsable'
  <2>1. req'["import"] = req["import"] BY <1>1, <1>3, <1>8
  <2>. SUFFICES ASSUME ~above
                PROVE  \E n \in Bk!Usable(live.rows, files, key)' :
                         /\ \A s \in live'.rows : s.born <= n.born
                         /\ Bk!At("import") # "idle" => n.file # req["import"].file
    BY <1>1, <2>1 DEF NewestUsable, Bk!At
  <2>2. PICK n \in Bk!Usable(live.rows, files, key) :
          /\ \A s \in live.rows : s.born <= n.born
          /\ Bk!At("import") # "idle" => n.file # req["import"].file
    BY <1>1, <1>3 DEF BkInv, NewestUsable, Pruning
  <2>3. n \in Bk!Usable(live.rows, files, key)'
    BY <1>1, <1>5, <1>6 DEF Bk!Usable, Bk!Verified
  <2>. QED BY <1>6, <2>2, <2>3
<1>. QED BY <1>9, <1>10, <1>11, <1>12, <1>13, <1>14 DEF BkInv

LEMMA RestoreSucceedsStep == ASSUME BkInv, NEW p \in Bk!Procs, Bk!RestoreSucceeds(p) PROVE BkInv'
<1>1. /\ Bk!At(p) = "restore" /\ req' = [req EXCEPT ![p] = Bk!Idle] /\ lock' # p
      /\ UNCHANGED <<files, exported, key, keys, made, inserted, day, above>>
  BY DEF Bk!RestoreSucceeds, Bk!Done, Bk!Release, Bk!None, Bk!Procs
<1>2. Bk!At(p) \in Working BY <1>1 DEF Working
<1>3. \A q \in Bk!Procs : q # p => Bk!At(q) \notin Working BY <1>2, AloneAtWork DEF BkInv
<1>4. PICK f \in DOMAIN files : live' = [data |-> files[f].data, rows |-> files[f].rows]
  BY DEF Bk!RestoreSucceeds, Bk!Restorable
<1>5. Bk!Idle \in BkReq /\ Bk!Idle.at = "idle" BY DEF BkReq, Bk!Idle, Bk!Kinds
<1>6. /\ req' \in [Bk!Procs -> BkReq] /\ req'[p] = Bk!Idle
      /\ \A q \in Bk!Procs : q # p => req'[q] = req[q]
  BY <1>1, <1>5, Asked DEF BkInv
<1>7. \A q \in Bk!Procs : Bk!At(q)' \notin Working
  BY <1>3, <1>5, <1>6 DEF Bk!At, Working, Backing, Pruning
<1>8. BkType'
  <2>1. files[f] \in BkFile BY DEF BkInv, BkType
  <2>2. live' \in [data : Nat, rows : SUBSET BkRow] BY <1>4, <2>1 DEF BkFile
  <2>. QED BY <1>1, <1>6, <2>2 DEF BkInv, BkType
<1>9. Locked'
  <2>1. \A q \in Bk!Procs : "idle" \in Places(q) BY DEF Places, Bk!Procs
  <2>. QED BY <1>5, <1>6, <1>7, <2>1 DEF BkInv, Locked, Bk!At
<1>10. OneRow' BY <1>1, <1>4 DEF BkInv, OneRow, Table
<1>11. OneKey'
  <2>1. \A q \in Bk!Procs : Bk!At(q)' \notin {"mint", "count", "dump", "verify"}
    BY <1>7 DEF Working, Backing
  <2>. QED BY <1>1, <2>1 DEF BkInv, OneKey
<1>12. OwnFile'
  <2>1. \A q \in Bk!Procs : Bk!At(q)' \notin {"verify", "delete"} BY <1>7 DEF Working, Backing, Pruning
  <2>2. Bk!At("import")' # "idle" => Bk!At("import") # "idle" /\ req'["import"] = req["import"]
    BY <1>5, <1>6 DEF Bk!At, Bk!Procs
  <2>3. Bk!At("nightly")' # "delete" BY <2>1 DEF Bk!Procs
  <2>. QED BY <1>1, <2>1, <2>2, <2>3 DEF BkInv, OwnFile
<1>13. NewestUsable'
  <2>1. Bk!At("nightly")' \notin Pruning BY <1>7 DEF Working, Bk!Procs
  <2>. QED BY <2>1 DEF NewestUsable
<1>. QED BY <1>8, <1>9, <1>10, <1>11, <1>12, <1>13 DEF BkInv

LEMMA ImportStep == ASSUME BkInv, Bk!Import PROVE BkInv'
<1>. DEFINE n == Bk!Row(made + 1, "manual", TRUE)
<1>1. /\ Bk!At("import") = "idle" /\ made' = made + 1 /\ inserted' = inserted + 1
      /\ live' = [live EXCEPT !.rows = @ \cup {n}]
      /\ files' = [g \in DOMAIN files \cup {made + 1} |-> IF g = made + 1 THEN exported ELSE files[g]]
      /\ UNCHANGED <<exported, key, keys, lock, day>>
  BY DEF Bk!Import, Bk!Put
<1>2. made \in Nat /\ inserted \in Nat /\ DOMAIN files \subseteq 1..made /\ exported \in BkFile
      /\ files \in [DOMAIN files -> BkFile]
  BY DEF BkInv, BkType
<1>3. n \in BkRow /\ n.file = made + 1 /\ n.born = inserted + 1
  BY <1>2 DEF Bk!Row, BkRow, BkInv, BkType, Bk!Kinds
<1>. HIDE DEF n
<1>4. live'.rows = live.rows \cup {n} /\ live' \in [data : Nat, rows : SUBSET BkRow]
  BY <1>1, <1>3 DEF BkInv, BkType
<1>5. /\ DOMAIN files' = DOMAIN files \cup {made + 1} /\ made + 1 \notin DOMAIN files
      /\ files'[made + 1] = exported /\ \A f \in DOMAIN files : files'[f] = files[f]
      /\ files' \in [DOMAIN files' -> BkFile] /\ DOMAIN files' \subseteq 1..made'
  <2>1. made + 1 \notin DOMAIN files BY <1>2
  <2>. QED BY <1>1, <1>2, <2>1
<1>6. PICK p \in Bk!Procs, x \in BkReq :
        p = "import" /\ req' = [req EXCEPT ![p] = x] /\ x.at = "wait" /\ x.file = made + 1
  <2>. DEFINE x == [Bk!Idle EXCEPT !.at = "wait", !.file = made + 1]
  <2>1. made + 1 \in Nat BY <1>2
  <2>2. x \in BkReq /\ x.at = "wait" /\ x.file = made + 1
    BY <2>1 DEF Bk!Idle, BkReq, Bk!Kinds
  <2>3. req' = [req EXCEPT !["import"] = x] BY DEF Bk!Import
  <2>. QED BY <2>2, <2>3 DEF Bk!Procs
<1>7. /\ req' \in [Bk!Procs -> BkReq] /\ req'[p] = x
      /\ \A q \in Bk!Procs : q # p => req'[q] = req[q]
  BY <1>6, Asked DEF BkInv
<1>8. BkType'
  <2>1. above' \in BOOLEAN BY DEF Bk!Import
  <2>. QED BY <1>1, <1>2, <1>4, <1>5, <1>7, <2>1 DEF BkInv, BkType
<1>9. Locked'
  <2>1. x.at \in Places(p) /\ x.at \notin Working
    BY <1>6 DEF Places, Working, Backing, Pruning
  <2>. QED BY <1>1, <1>7, <2>1 DEF BkInv, Locked, Bk!At
<1>10. OneRow'
  <2>1. Table(live.rows) /\ Table(exported.rows) /\ \A f \in DOMAIN files : Table(files[f].rows)
    BY DEF BkInv, OneRow
  <2>2. \A u \in {live.rows, exported.rows} \cup {files[f].rows : f \in DOMAIN files} : u \subseteq BkRow
    BY DEF BkInv, BkType, BkFile
  <2>3. ASSUME NEW u \in SUBSET BkRow, Table(u) PROVE Table(u)'
    BY <1>1, <1>2, <2>3 DEF Table, BkRow
  <2>4. PICK u : u = live.rows \cup {n} OBVIOUS
  <2>5. Table(u)'
    <3>1. \A r \in live.rows : r.born \in Nat BY <2>2 DEF BkRow
    <3>2. \A r \in live.rows : r.file \in 1..made' /\ r.born <= inserted' /\ r.file # n.file
      BY <1>1, <1>2, <1>3, <2>1, <3>1 DEF Table
    <3>3. n.file \in 1..made' /\ n.born <= inserted' BY <1>1, <1>2, <1>3
    <3>. QED BY <2>1, <2>4, <3>2, <3>3 DEF Table
  <2>6. Table(live.rows)' BY <1>4, <2>4, <2>5
  <2>7. PICK e \in SUBSET BkRow : e = exported.rows /\ Table(e) BY <2>1, <2>2
  <2>8. Table(exported.rows)' BY <1>1, <2>3, <2>7
  <2>9. ASSUME NEW f \in DOMAIN files' PROVE Table(files[f].rows)'
    <3>1. CASE f = made + 1 BY <1>5, <2>3, <2>7, <3>1
    <3>2. CASE f \in DOMAIN files
      <4>1. PICK d \in SUBSET BkRow : d = files[f].rows /\ Table(d) BY <2>1, <2>2, <3>2
      <4>. QED BY <1>5, <2>3, <3>2, <4>1
    <3>. QED BY <1>5, <3>1, <3>2
  <2>. QED BY <2>6, <2>8, <2>9 DEF OneRow
<1>11. OneKey' BY <1>1, <1>5, <1>6, <1>7 DEF BkInv, OneKey, Bk!At
<1>12. OwnFile'
  <2>1. ASSUME NEW q \in Bk!Procs, Bk!At(q)' = "verify"
        PROVE  /\ req'[q].file \in DOMAIN files' /\ files'[req'[q].file].key = key
               /\ \A r \in live'.rows : r.file # req'[q].file
               /\ req'["import"].file # req'[q].file
    <3>1. Bk!At(q) = "verify" /\ req'[q] = req[q] BY <1>6, <1>7, <2>1 DEF Bk!At
    <3>2. /\ req[q].file \in DOMAIN files /\ files[req[q].file].key = key
          /\ \A r \in live.rows : r.file # req[q].file
      BY <3>1 DEF BkInv, OwnFile
    <3>3. req[q].file # made + 1 BY <1>5, <3>2
    <3>. QED BY <1>3, <1>4, <1>5, <1>6, <1>7, <3>1, <3>2, <3>3
  <2>2. req'["import"].file \in 1..made' BY <1>1, <1>2, <1>6, <1>7
  <2>3. Bk!At("nightly")' = "delete" =>
          req'["nightly"].file \in 1..made' /\ req'["nightly"].file \notin DOMAIN files'
    <3>1. req'["nightly"] = req["nightly"] BY <1>6, <1>7 DEF Bk!Procs
    <3>. SUFFICES ASSUME Bk!At("nightly") = "delete"
                  PROVE  req["nightly"].file \in 1..made' /\ req["nightly"].file \notin DOMAIN files'
      BY <3>1 DEF Bk!At
    <3>2. req["nightly"].file \in 1..made /\ req["nightly"].file \notin DOMAIN files
      BY DEF BkInv, OwnFile
    <3>. QED BY <1>1, <1>2, <1>5, <3>2
  <2>. QED BY <1>1, <2>1, <2>2, <2>3 DEF OwnFile
<1>13. NewestUsable'
  <2>1. req'["nightly"] = req["nightly"] BY <1>6, <1>7 DEF Bk!Procs
  <2>2. Bk!At("nightly")' \in Pruning => above' BY <2>1 DEF Bk!Import, Bk!At, Pruning
  <2>. QED BY <2>2 DEF NewestUsable
<1>. QED BY <1>8, <1>9, <1>10, <1>11, <1>12, <1>13 DEF BkInv

LEMMA UnclaimStep == ASSUME BkInv, Bk!Unclaim PROVE BkInv'
<1>1. PICK p \in Bk!Procs : p = "import" BY DEF Bk!Procs
<1>2. /\ Bk!At(p) = "unclaim" /\ req' = [req EXCEPT ![p] = Bk!Idle]
      /\ UNCHANGED <<exported, key, keys, lock, made, inserted, day, above>>
  BY <1>1 DEF Bk!Unclaim, Bk!Done
<1>3. PICK f : f = req[p].file OBVIOUS
<1>4. /\ live' \in [data : Nat, rows : SUBSET BkRow]
      /\ live'.rows \in {live.rows, {r \in live.rows : r.file # f}}
  <2>1. live' = live \/ live' = [live EXCEPT !.rows = {r \in @ : r.file # f}]
    BY <1>1, <1>3 DEF Bk!Unclaim
  <2>. QED BY <2>1, RowsLeave DEF BkInv, BkType
<1>5. /\ DOMAIN files' \in {DOMAIN files, DOMAIN files \ {f}}
      /\ \A g \in DOMAIN files' : files'[g] = files[g]
      /\ files' \in [DOMAIN files' -> BkFile]
  <2>1. /\ files' = files \/ files' = [g \in DOMAIN files \ {f} |-> files[g]]
        /\ files \in [DOMAIN files -> BkFile]
    BY <1>1, <1>3 DEF Bk!Unclaim, Bk!Remove, BkInv, BkType
  <2>. QED BY <2>1
<1>6. Bk!Idle \in BkReq /\ Bk!Idle.at = "idle" BY DEF BkReq, Bk!Idle, Bk!Kinds
<1>7. /\ req' \in [Bk!Procs -> BkReq] /\ req'[p] = Bk!Idle
      /\ \A q \in Bk!Procs : q # p => req'[q] = req[q]
  BY <1>2, <1>6, Asked DEF BkInv
<1>8. BkType' BY <1>2, <1>4, <1>5, <1>7 DEF BkInv, BkType
<1>9. Locked'
  <2>1. "idle" \in Places(p) /\ "idle" \notin Working BY <1>1 DEF Places, Working, Backing, Pruning
  <2>. QED BY <1>2, <1>6, <1>7, <2>1 DEF BkInv, Locked, Bk!At
<1>10. OneRow' BY <1>2, <1>4, <1>5 DEF BkInv, OneRow, Table
<1>11. OneKey' BY <1>2, <1>5, <1>6, <1>7 DEF BkInv, OneKey, Bk!At
<1>12. OwnFile'
  <2>1. Bk!At("import")' = "idle" BY <1>1, <1>6, <1>7 DEF Bk!At
  <2>2. ASSUME NEW q \in Bk!Procs, Bk!At(q)' = "verify"
        PROVE  /\ req'[q].file \in DOMAIN files' /\ files'[req'[q].file].key = key'
               /\ \A r \in live'.rows : r.file # req'[q].file
    <3>1. Bk!At(q) = "verify" /\ req'[q] = req[q] BY <1>6, <1>7, <2>2 DEF Bk!At
    <3>2. /\ req[q].file \in DOMAIN files /\ files[req[q].file].key = key
          /\ \A r \in live.rows : r.file # req[q].file /\ f # req[q].file
          /\ f # req[q].file
      BY <1>1, <1>2, <1>3, <3>1 DEF BkInv, OwnFile
    <3>. QED BY <1>2, <1>4, <1>5, <3>1, <3>2
  <2>3. req'["nightly"] = req["nightly"] BY <1>1, <1>7 DEF Bk!Procs
  <2>4. Bk!At("nightly")' = "delete" =>
          req'["nightly"].file \in 1..made' /\ req'["nightly"].file \notin DOMAIN files'
    BY <1>2, <1>5, <2>3 DEF BkInv, OwnFile, Bk!At
  <2>. QED BY <2>1, <2>2, <2>4 DEF OwnFile
<1>13. NewestUsable'
  <2>1. Bk!At("import")' = "idle" BY <1>1, <1>6, <1>7 DEF Bk!At
  <2>2. req'["nightly"] = req["nightly"] BY <1>1, <1>7 DEF Bk!Procs
  <2>. SUFFICES ASSUME Bk!At("nightly") \in Pruning, ~above
                PROVE  \E n \in Bk!Usable(live.rows, files, key)' :
                         \A s \in live'.rows : s.born <= n.born
    BY <1>2, <2>1, <2>2 DEF NewestUsable, Bk!At
  <2>3. PICK n \in Bk!Usable(live.rows, files, key) :
          (\A s \in live.rows : s.born <= n.born) /\ n.file # f
    BY <1>1, <1>2, <1>3 DEF BkInv, NewestUsable
  <2>4. n \in Bk!Usable(live.rows, files, key)'
    BY <1>2, <1>4, <1>5, <2>3 DEF Bk!Usable, Bk!Verified
  <2>. QED BY <1>4, <2>3, <2>4
<1>. QED BY <1>8, <1>9, <1>10, <1>11, <1>12, <1>13 DEF BkInv

LEMMA NextBk == ASSUME BkInv, Bk!Next PROVE BkInv'
<1>1. CASE Bk!BeginNightly \/ Bk!BeginManual
  BY <1>1, BeginStep DEF Bk!BeginNightly, Bk!BeginManual, Bk!Kinds
<1>2. ASSUME NEW p \in Bk!Procs, Bk!Step(p) \/ Bk!ToolFails(p) PROVE BkInv'
  BY <1>2, WorkingSteps, RestoreTurns, MintKeyStep, DumpStep, VerifyStep, UnlinkStep,
     DeleteRowStep, RestoreSucceedsStep
  DEF Bk!Step
<1>3. CASE Bk!Write \/ Bk!DayPasses \/ Bk!ExportRots \/ Bk!Export BY <1>3, WorldSteps
<1>. QED
  BY <1>1, <1>2, <1>3, AskRestoreStep, ImportStep, UnclaimStep, BkDies DEF Bk!Next

(* The backups keep their invariant, however many files, faults and restores. *)
THEOREM BackupsHold == Spec => []BkInv
<1>1. Init => BkInv BY BkInit DEF Init
<1>2. BkInv /\ [Next]_vars => BkInv'
  <2>. SUFFICES ASSUME BkInv, [Next]_vars PROVE BkInv' OBVIOUS
  <2>1. CASE Bk!Next BY <2>1, NextBk
  <2>2. CASE UNCHANGED bkVars
    BY <2>2
    DEF bkVars, BkInv, BkType, Locked, OneRow, Table, OneKey, OwnFile, NewestUsable, Bk!At,
        Bk!Usable, Bk!Verified
  <2>. QED BY <2>1, <2>2 DEF Next, vars
<1>. QED BY <1>1, <1>2, PTL DEF Spec

(* A step that leaves a proved backup its row and its file, and its place. *)
LEMMA SoundStays ==
  ASSUME NEW n \in Bk!Sound, n \in live'.rows, n.file \in DOMAIN files',
         files'[n.file] = files[n.file], key' = key,
         Bk!At("import")' # "idle" => n.file # req'["import"].file
  PROVE  Bk!Sound' # {}
BY DEF Bk!Sound, Bk!Usable, Bk!Verified

LEMMA NoneTaken ==
  ASSUME BkInv, BkInv', swaps \in Nat, Bk!Next, Bk!Sound # {}, swaps' = swaps,
         ~(Bk!At("nightly") = "prune" /\ above)
  PROVE  Bk!Sound' # {}
<1>0. /\ live \in [data : Nat, rows : SUBSET BkRow] /\ req \in [Bk!Procs -> BkReq]
      /\ "nightly" \in Bk!Procs /\ "import" \in Bk!Procs
  BY DEF BkInv, BkType, Bk!Procs
<1>n. PICK n \in Bk!Sound : TRUE OBVIOUS
<1>s. /\ n \in live.rows /\ n.verified /\ n.file \in DOMAIN files /\ files[n.file].good
      /\ files[n.file].key = key /\ n.file \in 1..made
      /\ Bk!At("import") # "idle" => n.file # req["import"].file
  BY <1>n DEF Bk!Sound, Bk!Usable, Bk!Verified, BkInv, OneRow, Table
<1>m. made \in Nat BY DEF BkInv, BkType
<1>1. ASSUME NEW p \in Bk!Procs, Bk!MintKey(p) PROVE FALSE
  BY <1>1, <1>s DEF Bk!MintKey, BkInv, OneKey
<1>2. ASSUME NEW p \in Bk!Procs, Bk!Unlink(p) PROVE Bk!Sound' # {}
  <2>1. Bk!At(p) = "prune" /\ Bk!At(p) \in Places(p) BY <1>2 DEF Bk!Unlink, BkInv, Locked
  <2>2. p = "nightly" /\ ~above /\ above' = above /\ req[p] \in BkReq
    BY <1>2, <2>1 DEF Places, Backing, Bk!Procs, BkInv, BkType, Bk!Unlink
  <2>3. PICK r \in req[p].prune :
          \/ req' = [req EXCEPT ![p].file = r.file, ![p].prune = @ \ {r}, ![p].at = "delete"]
          \/ req' = [req EXCEPT ![p].prune = @ \ {r}]
    BY <1>2 DEF Bk!Unlink
  <2>4. Bk!At("nightly")' \in Pruning /\ req'["import"] = req["import"]
    BY <1>0, <2>1, <2>2, <2>3 DEF BkReq, Bk!At, Pruning
  <2>5. PICK k \in Bk!Usable(live.rows, files, key)' :
          Bk!At("import")' # "idle" => k.file # req'["import"].file
    BY <2>2, <2>4 DEF BkInv, NewestUsable
  <2>. QED BY <2>5 DEF Bk!Sound, Bk!Usable, Bk!Verified
<1>3. ASSUME NEW p \in Bk!Procs, Bk!DeleteRow(p) PROVE Bk!Sound' # {}
  <2>1. Bk!At(p) = "delete" /\ Bk!At(p) \in Places(p) BY <1>3 DEF Bk!DeleteRow, BkInv, Locked
  <2>2. p = "nightly" BY <2>1 DEF Places, Backing, Bk!Procs
  <2>3. req[p].file \notin DOMAIN files BY <2>1, <2>2 DEF BkInv, OwnFile
  <2>4. live' = [live EXCEPT !.rows = {r \in @ : r.file # req[p].file}]
        /\ UNCHANGED <<files, key>> /\ req' = [req EXCEPT ![p].at = "prune"]
    BY <1>3 DEF Bk!DeleteRow, Bk!To
  <2>5. n \in live'.rows /\ req'["import"] = req["import"] BY <1>0, <1>s, <2>2, <2>3, <2>4
  <2>. QED BY <1>s, <2>4, <2>5, SoundStays DEF Bk!At
<1>4. ASSUME NEW p \in Bk!Procs, Bk!Dump(p) PROVE Bk!Sound' # {}
  <2>1. PICK c : files' = [g \in DOMAIN files \cup {made + 1} |-> IF g = made + 1 THEN c ELSE files[g]]
    BY <1>4 DEF Bk!Dump, Bk!Put
  <2>2. made + 1 \notin 1..made BY <1>m
  <2>3. n.file \in DOMAIN files' /\ files'[n.file] = files[n.file] BY <1>s, <2>1, <2>2
  <2>4. /\ UNCHANGED <<live, key>> /\ Bk!At(p) = "dump"
        /\ req' = [req EXCEPT ![p].file = made + 1, ![p].at = "verify"]
    BY <1>4 DEF Bk!Dump
  <2>5. p # "import" BY <2>4 DEF BkInv, Locked, Places
  <2>6. req'["import"] = req["import"] BY <1>0, <2>4, <2>5
  <2>7. n \in live'.rows /\ key' = key BY <1>s, <2>4
  <2>8. Bk!At("import")' # "idle" => n.file # req'["import"].file BY <1>s, <2>6 DEF Bk!At
  <2>. QED BY <1>n, <2>3, <2>7, <2>8, SoundStays
<1>5. CASE Bk!Import
  <2>1. /\ files' = [g \in DOMAIN files \cup {made + 1} |->
                     IF g = made + 1 THEN exported ELSE files[g]]
        /\ live'.rows = live.rows \cup {Bk!Row(made + 1, "manual", TRUE)} /\ key' = key
        /\ req' = [req EXCEPT !["import"] = [Bk!Idle EXCEPT !.at = "wait", !.file = made + 1]]
    BY <1>0, <1>5 DEF Bk!Import, Bk!Put
  <2>2. n.file # made + 1 BY <1>m, <1>s
  <2>3. n.file \in DOMAIN files' /\ files'[n.file] = files[n.file] BY <1>s, <2>1, <2>2
  <2>4. req'["import"].file = made + 1 BY <1>0, <2>1 DEF Bk!Idle
  <2>. QED BY <1>s, <2>1, <2>2, <2>3, <2>4, SoundStays
<1>6. ASSUME NEW p \in Bk!Procs, Bk!Verify(p) PROVE Bk!Sound' # {}
  <2>1. live.rows \subseteq live'.rows /\ UNCHANGED <<files, key>> /\ Bk!At(p) = "verify"
    BY <1>0, <1>6 DEF Bk!Verify
  <2>2. p # "import" BY <2>1 DEF BkInv, Locked, Places
  <2>3. req'["import"] = req["import"]
    BY <1>0, <1>6, <2>2 DEF Bk!Verify, Bk!To, Bk!Done
  <2>. QED BY <1>s, <2>1, <2>3, SoundStays DEF Bk!At
<1>7. ASSUME NEW p \in Bk!Procs, Bk!RestoreSucceeds(p) PROVE FALSE
  BY <1>7 DEF Bk!RestoreSucceeds
<1>8. CASE Bk!Unclaim
  <2>1. Bk!At("import") # "idle" /\ key' = key BY <1>8 DEF Bk!Unclaim
  <2>2. n.file # req["import"].file BY <1>s, <2>1
  <2>3. n \in live'.rows
    <3>1. live' = live \/ live' = [live EXCEPT !.rows = {r \in @ : r.file # req["import"].file}]
      BY <1>8 DEF Bk!Unclaim
    <3>. QED BY <1>0, <1>s, <2>2, <3>1
  <2>4. n.file \in DOMAIN files' /\ files'[n.file] = files[n.file]
    <3>1. \/ files' = files
          \/ files' = [g \in DOMAIN files \ {req["import"].file} |-> files[g]]
      BY <1>8 DEF Bk!Unclaim, Bk!Remove
    <3>. QED BY <1>s, <2>2, <3>1
  <2>5. Bk!At("import")' = "idle" BY <1>0, <1>8 DEF Bk!Unclaim, Bk!Done, Bk!Idle, Bk!At
  <2>. QED BY <2>1, <2>3, <2>4, <2>5, SoundStays
<1>9. ASSUME UNCHANGED <<live.rows, files, key>>,
             Bk!At("import")' # "idle" =>
               Bk!At("import") # "idle" /\ req'["import"].file = req["import"].file
      PROVE  Bk!Sound' # {}
  BY <1>9, <1>s, SoundStays
<1>10. CASE Bk!Write \/ Bk!Export \/ Bk!DayPasses \/ Bk!ExportRots
  <2>1. UNCHANGED <<live.rows, files, key, req>>
    BY <1>0, <1>10 DEF Bk!Write, Bk!Export, Bk!DayPasses, Bk!ExportRots
  <2>. QED BY <1>9, <2>1 DEF Bk!At
<1>11. CASE Bk!BeginNightly \/ Bk!BeginManual \/ Bk!AskRestore
  <2>1. UNCHANGED <<live.rows, files, key>>
    BY <1>11 DEF Bk!BeginNightly, Bk!BeginManual, Bk!Begin, Bk!AskRestore
  <2>2. req'["import"] = req["import"]
    BY <1>0, <1>11 DEF Bk!BeginNightly, Bk!BeginManual, Bk!Begin, Bk!AskRestore
  <2>. QED BY <1>9, <2>1, <2>2 DEF Bk!At
<1>12. CASE Bk!Dies
  <2>1. UNCHANGED <<live.rows, files, key>> BY <1>12 DEF Bk!Dies
  <2>2. Bk!At("import")' = "idle" BY <1>0, <1>12 DEF Bk!Dies, Bk!At, Bk!Idle
  <2>. QED BY <1>9, <2>1, <2>2
<1>13. ASSUME NEW p \in Bk!Procs,
              \/ Bk!ReadKey(p) \/ Bk!Count(p) \/ Bk!Select(p) \/ Bk!PruneEnds(p)
              \/ Bk!BeginRestore(p) \/ Bk!RestoreRefused(p) \/ Bk!ToolFails(p)
       PROVE  Bk!Sound' # {}
  <2>1. UNCHANGED <<live.rows, files, key>>
    BY <1>13 DEF Bk!ReadKey, Bk!Count, Bk!Select, Bk!PruneEnds, Bk!BeginRestore,
                 Bk!RestoreRefused, Bk!ToolFails
  <2>2. CASE p # "import"
    <3>1. req'["import"] = req["import"]
      BY <1>0, <1>13, <2>2 DEF Bk!ReadKey, Bk!Count, Bk!Select, Bk!PruneEnds, Bk!BeginRestore,
                 Bk!RestoreRefused, Bk!ToolFails, Bk!To, Bk!Done
    <3>. QED BY <1>9, <2>1, <3>1 DEF Bk!At
  <2>3. CASE p = "import"
    <3>1. Bk!At(p) # "idle"
      BY <1>13 DEF Bk!ReadKey, Bk!Count, Bk!Select, Bk!PruneEnds, Bk!BeginRestore,
                 Bk!RestoreRefused, Bk!ToolFails
    <3>2. Bk!At(p) \in Places(p) BY DEF BkInv, Locked
    <3>3. Bk!BeginRestore(p) \/ Bk!RestoreRefused(p)
      BY <1>13, <2>3, <3>2 DEF Places, Bk!ReadKey, Bk!Count, Bk!Select, Bk!PruneEnds, Bk!ToolFails
    <3>4. \E step : req' = [req EXCEPT ![p].at = step]
      BY <2>3, <3>3 DEF Bk!BeginRestore, Bk!RestoreRefused, Bk!To
    <3>5. req[p] \in BkReq BY <1>0
    <3>6. req'[p].file = req[p].file BY <1>0, <3>4, <3>5 DEF BkReq
    <3>. QED BY <1>9, <2>1, <2>3, <3>1, <3>6 DEF Bk!At
  <2>. QED BY <2>2, <2>3
<1>14. ASSUME NEW p \in Bk!Procs, Bk!Step(p) \/ Bk!ToolFails(p) PROVE Bk!Sound' # {}
  BY <1>1, <1>2, <1>3, <1>4, <1>6, <1>7, <1>13, <1>14 DEF Bk!Step
<1>. QED BY <1>5, <1>8, <1>10, <1>11, <1>12, <1>14 DEF Bk!Next

SwapsCounted == swaps \in Nat

(* Rotation, and whatever runs beside it, never takes the last backup that was proved to *)
(* be restorable, nor the key it opens with, unless an import came above the backup the   *)
(* rotation had just verified (rotation.ts:14-20, lock.ts:5-8, http.ts:343-379).          *)
THEOREM LastBackupStays == Spec => LastOneStays
<1>1. BkInv /\ BkInv' /\ SwapsCounted /\ [Next]_vars =>
        [Bk!Sound # {} /\ swaps' = swaps => Bk!Sound' # {} \/ (Bk!At("nightly") = "prune" /\ above)]_(Bk!vars)
  <2>. SUFFICES ASSUME BkInv, BkInv', SwapsCounted, [Next]_vars, ~UNCHANGED Bk!vars,
                       Bk!Sound # {}, swaps' = swaps, ~(Bk!At("nightly") = "prune" /\ above)
                PROVE  Bk!Sound' # {}
    OBVIOUS
  <2>1. Bk!Next BY DEF Next, vars, bkVars, Bk!vars
  <2>. QED BY <2>1, NoneTaken DEF SwapsCounted
<1>2. Spec => []SwapsCounted
  <2>1. Init => SwapsCounted BY DEF Init, Bk!Init, SwapsCounted
  <2>2. SwapsCounted /\ [Next]_vars => SwapsCounted'
    <3>1. ASSUME NEW p \in Bk!Procs, Bk!Step(p) \/ Bk!ToolFails(p)
          PROVE  swaps' = swaps \/ swaps' = swaps + 1
      <4>1. CASE Bk!RestoreSucceeds(p) BY <4>1 DEF Bk!RestoreSucceeds
      <4>2. CASE Bk!RestoreRefused(p) BY <4>2 DEF Bk!RestoreRefused
      <4>3. CASE Bk!Unlink(p) \/ Bk!Dump(p) \/ Bk!Verify(p)
        BY <4>3 DEF Bk!Unlink, Bk!Dump, Bk!Verify
      <4>4. CASE Bk!ReadKey(p) \/ Bk!MintKey(p) \/ Bk!Count(p) \/ Bk!Select(p)
        BY <4>4 DEF Bk!ReadKey, Bk!MintKey, Bk!Count, Bk!Select
      <4>5. CASE Bk!DeleteRow(p) \/ Bk!PruneEnds(p) \/ Bk!BeginRestore(p) \/ Bk!ToolFails(p)
        BY <4>5 DEF Bk!DeleteRow, Bk!PruneEnds, Bk!BeginRestore, Bk!ToolFails
      <4>. QED BY <3>1, <4>1, <4>2, <4>3, <4>4, <4>5 DEF Bk!Step
    <3>2. Bk!Next => swaps' = swaps \/ swaps' = swaps + 1
      BY <3>1 DEF Bk!Next, Bk!BeginNightly, Bk!BeginManual, Bk!Begin, Bk!AskRestore,
              Bk!Export, Bk!Import, Bk!Unclaim, Bk!Write, Bk!DayPasses, Bk!ExportRots, Bk!Dies
    <3>. QED BY <3>2 DEF Next, vars, bkVars, Bk!vars, SwapsCounted
  <2>. QED BY <2>1, <2>2, PTL DEF Spec
<1>. QED BY <1>1, <1>2, BackupsHold, PTL DEF Spec, LastOneStays, Bk!LastOneStays

-----------------------------------------------------------------------------
(* Types: what the invariants above leave open of them.  MachineWork_proofs puts them *)
(* together with those of the other components.                                       *)

(* Days, files and rows are counted; each backup and each import writes one row at most, *)
(* and there is one key.                                                                 *)
BkLimits == Files \in Nat /\ Days \in Nat /\ Imports \in Nat /\ Writes \in Nat \ {0}
RowsDated(t) == \A r \in t : r.day <= Days /\ r.born # 0
BkCounted ==
  /\ made <= Files /\ day <= Days /\ inserted <= made
  /\ \A p \in Bk!Procs : Bk!At(p) = "verify" => inserted < made
BkData ==
  /\ live.data \in 1..Writes /\ RowsDated(live.rows)
  /\ \A f \in DOMAIN files : files[f].data \in 1..Writes /\ RowsDated(files[f].rows)
  /\ RowsDated(exported.rows) /\ (exported # Bk!NoFile => exported.data \in 1..Writes)
BkTyped == BkCounted /\ BkData /\ lock \in Bk!Procs \cup {Bk!None}
           /\ key \in 0..1 /\ keys = key

(* A key is made when there is none. *)
LEMMA KeysTyped ==
  ASSUME BkInv, BkTyped, Bk!Next PROVE key' \in 0..1 /\ keys' = key'
<1>1. ASSUME NEW p \in Bk!Procs, Bk!MintKey(p) PROVE key' \in 0..1 /\ keys' = key'
  BY <1>1 DEF Bk!MintKey, BkTyped, BkInv, OneKey
<1>2. ASSUME ~\E p \in Bk!Procs : Bk!MintKey(p) PROVE UNCHANGED <<key, keys>>
  <2>1. ASSUME NEW p \in Bk!Procs, Bk!Step(p) \/ Bk!ToolFails(p) PROVE UNCHANGED <<key, keys>>
    BY <1>2, <2>1 DEF Bk!Step, Bk!ReadKey, Bk!Count, Bk!Dump, Bk!Verify, Bk!Select, Bk!Unlink,
       Bk!DeleteRow, Bk!PruneEnds, Bk!BeginRestore, Bk!RestoreSucceeds, Bk!RestoreRefused,
       Bk!ToolFails
  <2>. QED BY <2>1 DEF Bk!Next, Bk!BeginNightly, Bk!BeginManual, Bk!Begin, Bk!AskRestore,
              Bk!Export, Bk!Import, Bk!Unclaim, Bk!Write, Bk!DayPasses, Bk!ExportRots, Bk!Dies
<1>. QED BY <1>1, <1>2 DEF BkTyped

LEMMA LockTyped ==
  ASSUME BkTyped, Bk!Next PROVE lock' \in Bk!Procs \cup {Bk!None}
<1>1. ASSUME NEW p \in Bk!Procs, Bk!Step(p) \/ Bk!ToolFails(p)
      PROVE  lock' \in Bk!Procs \cup {Bk!None}
  BY <1>1 DEF Bk!Step, Bk!ReadKey, Bk!MintKey, Bk!Count, Bk!Dump, Bk!Verify, Bk!Select, Bk!Unlink,
     Bk!DeleteRow, Bk!PruneEnds, Bk!BeginRestore, Bk!RestoreSucceeds, Bk!RestoreRefused,
     Bk!ToolFails, Bk!Release, Bk!Acquire, BkTyped
<1>. QED BY <1>1 DEF Bk!Next, Bk!BeginNightly, Bk!BeginManual, Bk!Begin, Bk!AskRestore, Bk!Acquire,
            Bk!Export, Bk!Import, Bk!Unclaim, Bk!Write, Bk!DayPasses, Bk!ExportRots, Bk!Dies,
            BkTyped, Bk!Procs

(* Who is verifying after a step was verifying before, unless the step is his dump. *)
LEMMA VerifyingBefore ==
  ASSUME BkInv, Bk!Next, NEW q \in Bk!Procs, Bk!At(q)' = "verify", ~Bk!Dump(q)
  PROVE  Bk!At(q) = "verify" /\ ~Bk!Verify(q)
<1>0. req \in [Bk!Procs -> BkReq] BY DEF BkInv, BkType
<1>i. Bk!Idle.at = "idle" /\ "nightly" \in Bk!Procs /\ "owner" \in Bk!Procs /\ "import" \in Bk!Procs
  BY DEF Bk!Idle, Bk!Procs
<1>1. ASSUME NEW p \in Bk!Procs, NEW x, req' = [req EXCEPT ![p] = x], x.at # "verify"
      PROVE  Bk!At(q) = "verify" /\ q # p
  BY <1>0, <1>1 DEF Bk!At
<1>2. ASSUME NEW p \in Bk!Procs, Bk!Verify(p) PROVE Bk!At(q) = "verify" /\ q # p
  <2>1. \E x : req' = [req EXCEPT ![p] = x] /\ x.at # "verify"
    <3>1. CASE req' = [req EXCEPT ![p] = Bk!Idle] BY <1>i, <3>1
    <3>2. CASE req' = [req EXCEPT ![p].at = "select"]
      <4>. DEFINE x == [req[p] EXCEPT !.at = "select"]
      <4>1. x.at = "select" /\ req' = [req EXCEPT ![p] = x] BY <1>0, <3>2 DEF BkReq
      <4>. QED BY <4>1
    <3>. QED BY <1>2, <3>1, <3>2 DEF Bk!Verify, Bk!Done, Bk!To
  <2>. QED BY <1>1, <2>1
<1>3. ASSUME NEW p \in Bk!Procs, Bk!Dump(p) PROVE Bk!At(q) = "verify"
  <2>1. q # p BY <1>3
  <2>. QED BY <1>0, <1>3, <2>1 DEF Bk!Dump, Bk!At
<1>4. ASSUME NEW p \in Bk!Procs, Bk!Step(p) \/ Bk!ToolFails(p), ~Bk!Verify(p), ~Bk!Dump(p)
      PROVE  Bk!At(q) = "verify"
  <2>1. CASE Bk!PruneEnds(p) \/ Bk!RestoreSucceeds(p) \/ Bk!ToolFails(p)
    <3>1. req' = [req EXCEPT ![p] = Bk!Idle]
      BY <2>1 DEF Bk!PruneEnds, Bk!RestoreSucceeds, Bk!ToolFails, Bk!Done
    <3>. QED BY <1>1, <1>i, <3>1
  <2>2. CASE Bk!RestoreRefused(p)
    BY <1>0, <2>2 DEF Bk!RestoreRefused, Bk!Done, Bk!To, Bk!Idle, Bk!At, BkReq
  <2>3. CASE Bk!ReadKey(p) \/ Bk!MintKey(p) \/ Bk!Count(p) \/ Bk!Select(p)
    BY <1>0, <2>3 DEF Bk!ReadKey, Bk!MintKey, Bk!Count, Bk!Select, Bk!At, BkReq
  <2>4. CASE Bk!DeleteRow(p) \/ Bk!BeginRestore(p)
    BY <1>0, <2>4 DEF Bk!DeleteRow, Bk!BeginRestore, Bk!To, Bk!At, BkReq
  <2>5. CASE Bk!Unlink(p)
    <3>1. PICK r \in req[p].prune :
            \/ req' = [req EXCEPT ![p].file = r.file, ![p].prune = @ \ {r}, ![p].at = "delete"]
            \/ req' = [req EXCEPT ![p].prune = @ \ {r}]
      BY <2>5 DEF Bk!Unlink
    <3>. QED BY <1>0, <3>1 DEF Bk!At, BkReq
  <2>. QED BY <1>4, <2>1, <2>2, <2>3, <2>4, <2>5 DEF Bk!Step
<1>5. ASSUME Bk!BeginNightly \/ Bk!BeginManual PROVE Bk!At(q) = "verify"
  <2>1. ASSUME NEW kind PROVE [Bk!Idle EXCEPT !.at = "key", !.kind = kind].at = "key"
    BY DEF Bk!Idle
  <2>2. \E p \in Bk!Procs : \E kind :
          req' = [req EXCEPT ![p] = [Bk!Idle EXCEPT !.at = "key", !.kind = kind]]
    BY <1>5, <1>i DEF Bk!BeginNightly, Bk!BeginManual, Bk!Begin
  <2>. QED BY <1>1, <2>1, <2>2
<1>6. ASSUME Bk!AskRestore PROVE Bk!At(q) = "verify"
  <2>1. ASSUME NEW f PROVE [Bk!Idle EXCEPT !.at = "wait", !.file = f].at = "wait"
    BY DEF Bk!Idle
  <2>2. \E f : req' = [req EXCEPT !["owner"] = [Bk!Idle EXCEPT !.at = "wait", !.file = f]]
    BY <1>6 DEF Bk!AskRestore
  <2>. QED BY <1>1, <1>i, <2>1, <2>2
<1>7. ASSUME Bk!Import \/ Bk!Unclaim PROVE Bk!At(q) = "verify"
  <2>1. ASSUME NEW f PROVE [Bk!Idle EXCEPT !.at = "wait", !.file = f].at = "wait"
    BY DEF Bk!Idle
  <2>2. \/ req' = [req EXCEPT !["import"] = Bk!Idle]
        \/ \E f : req' = [req EXCEPT !["import"] = [Bk!Idle EXCEPT !.at = "wait", !.file = f]]
    BY <1>7 DEF Bk!Import, Bk!Unclaim, Bk!Done
  <2>. QED BY <1>1, <1>i, <2>1, <2>2
<1>8. ASSUME Bk!Dies PROVE Bk!At(q) = "verify" BY <1>8 DEF Bk!Dies, Bk!Idle, Bk!At
<1>9. ASSUME Bk!Export \/ Bk!Write \/ Bk!DayPasses \/ Bk!ExportRots PROVE Bk!At(q) = "verify"
  <2>1. UNCHANGED req BY <1>9 DEF Bk!Export, Bk!Write, Bk!DayPasses, Bk!ExportRots
  <2>. QED BY <2>1 DEF Bk!At
<1>10. Bk!At(q) = "verify"
  BY <1>2, <1>3, <1>4, <1>5, <1>6, <1>7, <1>8, <1>9 DEF Bk!Next
<1>. QED BY <1>2, <1>10

LEMMA CountsTyped ==
  ASSUME BkLimits, BkInv, BkTyped, Bk!Next PROVE BkCounted'
<1>0. /\ made \in Nat /\ inserted \in Nat /\ day \in Nat /\ Files \in Nat /\ Days \in Nat
      /\ made <= Files /\ day <= Days /\ inserted <= made
  BY DEF BkInv, BkType, BkLimits, BkTyped, BkCounted
<1>1. ASSUME NEW q \in Bk!Procs, Bk!At(q)' = "verify", ~Bk!Dump(q)
      PROVE  inserted < made /\ ~Bk!Verify(q)
  BY <1>1, VerifyingBefore DEF BkTyped, BkCounted
<1>2. CASE \E p \in Bk!Procs : Bk!Dump(p)
  <2>1. made < Files /\ made' = made + 1 /\ UNCHANGED <<inserted, day>> BY <1>2 DEF Bk!Dump
  <2>. QED BY <1>0, <2>1 DEF BkCounted
<1>3. CASE Bk!Import
  <2>1. made < Files /\ made' = made + 1 /\ inserted' = inserted + 1 /\ UNCHANGED day
    BY <1>3 DEF Bk!Import
  <2>2. ASSUME NEW q \in Bk!Procs, Bk!At(q)' = "verify" PROVE inserted < made
    <3>1. ~Bk!Dump(q) BY <2>1 DEF Bk!Dump, BkInv, BkType
    <3>. QED BY <1>1, <2>2, <3>1
  <2>. QED BY <1>0, <2>1, <2>2 DEF BkCounted
<1>4. ASSUME NEW p \in Bk!Procs, Bk!Verify(p) PROVE BkCounted'
  <2>1. inserted < made /\ inserted' = inserted + 1 /\ UNCHANGED <<made, day>>
    BY <1>4 DEF Bk!Verify, BkTyped, BkCounted
  <2>2. ASSUME NEW q \in Bk!Procs, Bk!At(q)' = "verify" PROVE FALSE
    <3>1. ~Bk!Dump(q) BY <1>0, <2>1 DEF Bk!Dump
    <3>2. Bk!At(q) = "verify" /\ ~Bk!Verify(q) BY <2>2, <3>1, VerifyingBefore
    <3>3. lock = q /\ lock = p BY <1>4, <3>2 DEF Bk!Verify, BkInv, Locked, Working, Backing
    <3>. QED BY <1>4, <3>2, <3>3
  <2>. QED BY <1>0, <2>1, <2>2 DEF BkCounted
<1>5. CASE ~Bk!Import /\ ~\E p \in Bk!Procs : Bk!Dump(p) \/ Bk!Verify(p)
  <2>1. ASSUME NEW p \in Bk!Procs, Bk!Step(p) \/ Bk!ToolFails(p)
        PROVE  UNCHANGED <<made, inserted, day>>
    BY <1>5, <2>1 DEF Bk!Step, Bk!ReadKey, Bk!MintKey, Bk!Count, Bk!Select, Bk!Unlink,
       Bk!DeleteRow, Bk!PruneEnds, Bk!BeginRestore, Bk!RestoreSucceeds, Bk!RestoreRefused,
       Bk!ToolFails
  <2>2. UNCHANGED <<made, inserted>> /\ (UNCHANGED day \/ (day < Days /\ day' = day + 1))
    BY <1>5, <2>1 DEF Bk!Next, Bk!BeginNightly, Bk!BeginManual, Bk!Begin, Bk!AskRestore,
              Bk!Export, Bk!Unclaim, Bk!Write, Bk!DayPasses, Bk!ExportRots, Bk!Dies
  <2>. QED BY <1>0, <1>1, <1>5, <2>2 DEF BkCounted
<1>. QED BY <1>2, <1>3, <1>4, <1>5

LEMMA DataTyped ==
  ASSUME BkLimits, BkInv, BkTyped, Bk!Next PROVE BkData'
<1>0. /\ live \in [data : Nat, rows : SUBSET BkRow] /\ exported \in BkFile
      /\ \A f \in DOMAIN files : files[f] \in BkFile
      /\ day \in Nat /\ inserted \in Nat /\ Days \in Nat /\ day <= Days
  BY DEF BkInv, BkType, BkLimits, BkTyped, BkCounted
<1>. DEFINE Whole(c) == c.data \in 1..Writes /\ RowsDated(c.rows)
<1>1. /\ Whole(live) /\ \A f \in DOMAIN files : Whole(files[f])
      /\ RowsDated(exported.rows) /\ (exported # Bk!NoFile => exported.data \in 1..Writes)
  BY DEF BkTyped, BkData
<1>2. ASSUME NEW f, NEW kind, NEW v PROVE RowsDated(live.rows \cup {Bk!Row(f, kind, v)})
  BY <1>0, <1>1 DEF RowsDated, Bk!Row
<1>3. ASSUME NEW p \in Bk!Procs, Bk!Dump(p) PROVE BkData'
  <2>1. PICK good : files' = [g \in DOMAIN files \cup {made + 1} |-> IF g = made + 1
                     THEN [data |-> live.data, rows |-> live.rows, good |-> good,
                           key |-> req[p].key] ELSE files[g]]
    BY <1>3 DEF Bk!Dump, Bk!Put
  <2>2. UNCHANGED <<live, exported>> BY <1>3 DEF Bk!Dump
  <2>. QED BY <1>1, <2>1, <2>2 DEF BkData, RowsDated
<1>4. CASE Bk!Import
  <2>1. /\ files' = [g \in DOMAIN files \cup {made + 1} |->
                     IF g = made + 1 THEN exported ELSE files[g]]
        /\ live' = [live EXCEPT !.rows = @ \cup {Bk!Row(made + 1, "manual", TRUE)}]
        /\ exported # Bk!NoFile /\ UNCHANGED exported
    BY <1>4 DEF Bk!Import, Bk!Put
  <2>2. live'.data = live.data /\ live'.rows = live.rows \cup {Bk!Row(made + 1, "manual", TRUE)}
    BY <1>0, <2>1
  <2>3. RowsDated(live.rows \cup {Bk!Row(made + 1, "manual", TRUE)}) BY <1>2
  <2>. QED BY <1>1, <2>1, <2>2, <2>3 DEF BkData, RowsDated
<1>5. ASSUME NEW p \in Bk!Procs, Bk!Verify(p) PROVE BkData'
  <2>1. PICK v : live' = [live EXCEPT !.rows = @ \cup {Bk!Row(req[p].file, req[p].kind, v)}]
    BY <1>5 DEF Bk!Verify
  <2>2. live'.data = live.data
        /\ live'.rows = live.rows \cup {Bk!Row(req[p].file, req[p].kind, v)}
    BY <1>0, <2>1
  <2>3. RowsDated(live.rows \cup {Bk!Row(req[p].file, req[p].kind, v)}) BY <1>2
  <2>4. UNCHANGED <<files, exported>> BY <1>5 DEF Bk!Verify
  <2>. QED BY <1>1, <2>2, <2>3, <2>4 DEF BkData, RowsDated
<1>6. ASSUME NEW p \in Bk!Procs, Bk!RestoreSucceeds(p) PROVE BkData'
  <2>1. /\ req[p].file \in DOMAIN files /\ UNCHANGED <<files, exported>>
        /\ live' = [data |-> files[req[p].file].data, rows |-> files[req[p].file].rows]
    BY <1>6 DEF Bk!RestoreSucceeds, Bk!Restorable
  <2>. QED BY <1>1, <2>1 DEF BkData, RowsDated
<1>7. ASSUME NEW p \in Bk!Procs, Bk!DeleteRow(p) PROVE BkData'
  <2>1. /\ live' = [live EXCEPT !.rows = {r \in @ : r.file # req[p].file}]
        /\ UNCHANGED <<files, exported>>
    BY <1>7 DEF Bk!DeleteRow
  <2>2. live'.data = live.data /\ live'.rows \subseteq live.rows BY <1>0, <2>1
  <2>. QED BY <1>1, <2>1, <2>2 DEF BkData, RowsDated
<1>8. ASSUME NEW p \in Bk!Procs, Bk!Unlink(p) PROVE BkData'
  <2>1. UNCHANGED <<live, exported>> BY <1>8 DEF Bk!Unlink
  <2>2. PICK g : files' = files \/ files' = [f \in DOMAIN files \ {g} |-> files[f]]
    BY <1>8 DEF Bk!Unlink, Bk!Remove
  <2>. QED BY <1>1, <2>1, <2>2 DEF BkData, RowsDated
<1>9. CASE Bk!Unclaim
  <2>1. /\ \/ live' = live
           \/ live' = [live EXCEPT !.rows = {r \in @ : r.file # req["import"].file}]
        /\ \/ files' = files
           \/ files' = [f \in DOMAIN files \ {req["import"].file} |-> files[f]]
        /\ UNCHANGED exported
    BY <1>9 DEF Bk!Unclaim, Bk!Remove
  <2>2. live'.data = live.data /\ live'.rows \subseteq live.rows BY <1>0, <2>1
  <2>. QED BY <1>1, <2>1, <2>2 DEF BkData, RowsDated
<1>10. CASE Bk!Write
  <2>1. live.data < Writes /\ live' = [live EXCEPT !.data = @ + 1] /\ UNCHANGED <<files, exported>>
    BY <1>10 DEF Bk!Write
  <2>2. live'.data = live.data + 1 /\ live'.rows = live.rows BY <1>0, <2>1
  <2>3. live'.data \in 1..Writes BY <1>1, <2>1, <2>2 DEF BkLimits
  <2>. QED BY <1>1, <2>1, <2>2, <2>3 DEF BkData, RowsDated
<1>11. CASE Bk!Export
  <2>1. UNCHANGED <<live, files>> /\ \E f \in DOMAIN files : exported' = files[f]
    BY <1>11 DEF Bk!Export
  <2>. QED BY <1>1, <2>1 DEF BkData, RowsDated
<1>12. CASE Bk!ExportRots
  <2>1. exported.good /\ exported' = [exported EXCEPT !.good = FALSE] /\ UNCHANGED <<live, files>>
    BY <1>12 DEF Bk!ExportRots
  <2>2. exported # Bk!NoFile BY <2>1 DEF Bk!NoFile
  <2>3. exported'.data = exported.data /\ exported'.rows = exported.rows BY <1>0, <2>1 DEF BkFile
  <2>. QED BY <1>1, <2>1, <2>2, <2>3 DEF BkData, RowsDated
<1>13. CASE UNCHANGED <<live, files, exported>> BY <1>1, <1>13 DEF BkData, RowsDated
<1>14. ASSUME NEW p \in Bk!Procs, Bk!Step(p) \/ Bk!ToolFails(p) PROVE BkData'
  <2>1. CASE Bk!ReadKey(p) \/ Bk!MintKey(p) \/ Bk!Count(p) \/ Bk!Select(p) \/ Bk!PruneEnds(p)
    BY <1>13, <2>1 DEF Bk!ReadKey, Bk!MintKey, Bk!Count, Bk!Select, Bk!PruneEnds
  <2>2. CASE Bk!BeginRestore(p) \/ Bk!RestoreRefused(p) \/ Bk!ToolFails(p)
    BY <1>13, <2>2 DEF Bk!BeginRestore, Bk!RestoreRefused, Bk!ToolFails
  <2>. QED BY <1>3, <1>5, <1>6, <1>7, <1>8, <1>14, <2>1, <2>2 DEF Bk!Step
<1>15. CASE Bk!BeginNightly \/ Bk!BeginManual \/ Bk!AskRestore \/ Bk!DayPasses \/ Bk!Dies
  BY <1>13, <1>15 DEF Bk!BeginNightly, Bk!BeginManual, Bk!Begin, Bk!AskRestore, Bk!DayPasses,
                      Bk!Dies
<1>. QED BY <1>4, <1>9, <1>10, <1>11, <1>12, <1>14, <1>15 DEF Bk!Next

(* The table, the files and the copies hold rows of the install, and there are two keys at *)
(* most.                                                                                   *)
LEMMA BackupsTyped == ASSUME BkLimits PROVE Spec => []Bk!TypeOK
<1>1. Init => BkTyped
  <2>. SUFFICES ASSUME Bk!Init PROVE BkTyped BY DEF Init
  <2>1. \A p \in Bk!Procs : Bk!At(p) = "idle" BY DEF Bk!Init, Bk!At, Bk!Idle
  <2>2. BkCounted BY <2>1 DEF Bk!Init, BkCounted, BkLimits
  <2>3. exported.rows = {} /\ exported = Bk!NoFile /\ DOMAIN files = {}
    BY DEF Bk!Init, Bk!NoFile
  <2>4. live.data = 1 /\ live.rows = {} BY DEF Bk!Init
  <2>5. BkData BY <2>3, <2>4 DEF BkData, BkLimits, RowsDated
  <2>. QED BY <2>2, <2>5 DEF Bk!Init, BkTyped
<1>2. BkInv /\ BkTyped /\ [Next]_vars => BkTyped'
  <2>. SUFFICES ASSUME BkInv, BkTyped, [Next]_vars PROVE BkTyped' OBVIOUS
  <2>1. CASE Bk!Next
    BY <2>1, KeysTyped, LockTyped, CountsTyped, DataTyped DEF BkTyped
  <2>2. CASE UNCHANGED bkVars
    BY <2>2 DEF bkVars, BkTyped, BkCounted, BkData, RowsDated, Bk!At
  <2>. QED BY <2>1, <2>2 DEF Next, vars
<1>3. BkInv /\ BkTyped => Bk!TypeOK
  <2>. SUFFICES ASSUME BkInv, BkTyped PROVE Bk!TypeOK OBVIOUS
  <2>0. above \in BOOLEAN BY DEF BkInv, BkType
  <2>1. /\ Files \in Nat /\ Imports \in Nat /\ Days \in Nat /\ made \in Nat /\ inserted \in Nat
        /\ made <= Files /\ inserted <= made
    BY DEF BkLimits, BkInv, BkType, BkTyped, BkCounted
  <2>2. live.rows \subseteq Bk!RowType
    <3>1. ASSUME NEW r \in live.rows PROVE r \in Bk!RowType
      <4>1. r \in BkRow /\ r.file \in 1..made /\ r.born <= inserted /\ r.day <= Days /\ r.born # 0
        BY DEF BkInv, BkType, OneRow, Table, BkTyped, BkData, RowsDated
      <4>2. r.file \in 1..Files /\ r.born \in 1..Files + Imports /\ r.day \in 0..Days
        BY <2>1, <4>1 DEF BkRow
      <4>. QED BY <4>1, <4>2 DEF BkRow, Bk!RowType
    <3>. QED BY <3>1
  <2>3. DOMAIN files \subseteq 1..Files BY <2>1 DEF BkInv, BkType
  <2>. QED BY <2>0, <2>2, <2>3 DEF BkTyped, BkData, Bk!TypeOK
<1>. QED BY <1>1, <1>2, <1>3, BackupsHold, PTL DEF Spec

(* The window, the tray and the engine are always in one of their states. *)
LEMMA ShellTyped == Spec => []Sh!TypeOK
<1>1. Init => Sh!TypeOK BY DEF Init, Sh!Init, Sh!TypeOK
<1>2. Sh!TypeOK /\ [Next]_vars => Sh!TypeOK'
  <2>. SUFFICES ASSUME Sh!TypeOK, [Next]_vars PROVE Sh!TypeOK' OBVIOUS
  <2>1. CASE UNCHANGED shVars BY <2>1 DEF shVars, Sh!TypeOK
  <2>2. CASE Sh!DatabaseStarts \/ Sh!Wired \/ Sh!StartFails \/ Sh!Pause \/ Sh!Resume
    BY <2>2 DEF Sh!DatabaseStarts, Sh!Wired, Sh!StartFails, Sh!Pause, Sh!Resume,
                Sh!SetEngineState, Sh!TypeOK
  <2>3. CASE Sh!HandOver \/ Sh!Hide \/ Sh!Destroyed \/ Sh!ShowWindow \/ Sh!Quit
    BY <2>3 DEF Sh!HandOver, Sh!Hide, Sh!Destroyed, Sh!ShowWindow, Sh!Quit, Sh!RendererEntry,
                Sh!TypeOK
  <2>. QED BY <2>1, <2>2, <2>3 DEF Next, vars, Sh!Next
<1>. QED BY <1>1, <1>2, PTL DEF Spec

(* An attempt that has not ended has exchanged no code. *)
CfTyped == Cf!TypeOK /\ \A k \in Cf!Ids : attempt[k] # "over" => exchanges[k] = 0

(* Whatever closes a listener and in whatever order, a code is exchanged once at most. *)
LEMMA ConnectTyped == ASSUME Attempts \in Nat PROVE Spec => []Cf!TypeOK
<1>1. Init => CfTyped BY DEF Init, Cf!Init, CfTyped, Cf!TypeOK, Cf!Ids, Cf!Starting
<1>2. CfTyped /\ [Next]_vars => CfTyped'
  <2>. SUFFICES ASSUME CfTyped, [Next]_vars PROVE CfTyped' OBVIOUS
  <2>0. Cf!Ids \cup {0} = 0..Attempts BY DEF Cf!Ids
  <2>1. CASE UNCHANGED cfVars BY <2>1 DEF cfVars, CfTyped, Cf!TypeOK
  <2>2. ASSUME NEW k \in Cf!Ids, NEW step \in {"waiting", "exchange", "over"} \cup Cf!Starting,
               attempt[k] # "over", Cf!Go(k, step), UNCHANGED exchanges
        PROVE  /\ attempt' \in [Cf!Ids -> {"none", "waiting", "exchange", "over"} \cup Cf!Starting]
               /\ \A j \in Cf!Ids : attempt'[j] # "over" => exchanges'[j] = 0
    BY <2>2 DEF Cf!Go, CfTyped, Cf!TypeOK
  <2>3. ASSUME NEW k \in Cf!Ids, Cf!Start(k) \/ Cf!Listen(k) \/ Cf!ListenFails(k) \/ Cf!Register(k)
        PROVE  CfTyped'
    <3>1. attempt[k] # "over" /\ UNCHANGED <<exchanges, settled, connected>>
          /\ \E step \in {"waiting", "exchange", "over"} \cup Cf!Starting : Cf!Go(k, step)
      BY <2>3 DEF Cf!Start, Cf!Listen, Cf!ListenFails, Cf!Register, Cf!Starting
    <3>2. /\ listening' \subseteq listening \cup {k} /\ timer' \subseteq timer \cup {k}
          /\ pending' \in {0, k, pending}
      BY <2>3 DEF Cf!Start, Cf!Listen, Cf!ListenFails, Cf!Register, Cf!CloseFlow
    <3>. QED BY <2>0, <2>2, <3>1, <3>2 DEF CfTyped, Cf!TypeOK
  <2>4. ASSUME NEW k \in Cf!Ids, Cf!Callback(k) PROVE CfTyped'
    <3>1. attempt[k] # "over" /\ UNCHANGED <<exchanges, connected>>
          /\ \E step \in {"exchange", "over"} : Cf!Go(k, step)
      BY <2>4 DEF Cf!Callback
    <3>2. /\ listening' \subseteq listening /\ timer' \subseteq timer
          /\ pending' = 0 /\ settled' = settled \cup {k}
      BY <2>4 DEF Cf!Callback, Cf!CloseFlow
    <3>. QED BY <2>0, <2>2, <3>1, <3>2 DEF CfTyped, Cf!TypeOK
  <2>5. ASSUME NEW k \in Cf!Ids, Cf!Exchange(k) PROVE CfTyped'
    <3>1. exchanges[k] = 0 BY <2>5 DEF Cf!Exchange, CfTyped
    <3>2. /\ attempt' = [attempt EXCEPT ![k] = "over"]
          /\ exchanges' = [exchanges EXCEPT ![k] = @ + 1] /\ connected' \in {k, connected}
          /\ UNCHANGED <<listening, timer, settled, pending>>
      BY <2>5 DEF Cf!Exchange, Cf!Go
    <3>3. exchanges' \in [Cf!Ids -> 0..1] BY <3>1, <3>2 DEF CfTyped, Cf!TypeOK
    <3>. QED BY <2>0, <3>2, <3>3 DEF CfTyped, Cf!TypeOK
  <2>6. ASSUME NEW k \in Cf!Ids, Cf!Expire(k) PROVE CfTyped'
    BY <2>0, <2>6 DEF Cf!Expire, CfTyped, Cf!TypeOK
  <2>. QED BY <2>1, <2>3, <2>4, <2>5, <2>6 DEF Next, vars, Cf!Next
<1>. QED BY <1>1, <1>2, PTL DEF Spec, CfTyped
=============================================================================
