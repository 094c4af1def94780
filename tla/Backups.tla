------------------------------ MODULE Backups ------------------------------
(***************************************************************************)
(* Encrypted backups of the private database (src/backup/): making and     *)
(* verifying one, the nightly rotation, restoring, exporting and importing,*)
(* all behind one in-process lock, except what the code does outside it.   *)
(*                                                                         *)
(* The `backups` table is part of the database it describes: a dump holds  *)
(* the table as it was, and a restore brings that table back.  Files and   *)
(* the encryption key live outside the database.  The rename-swap itself   *)
(* is in LocalDatabase; here a restore replaces the database in one step.  *)
(***************************************************************************)
EXTENDS Rotation, FiniteSets

CONSTANTS Files,     \* backup files the install can make or import
          Days,      \* days that pass
          Writes,    \* changes of the live data
          Swaps,     \* restores that succeed
          Imports,   \* restores from an exported file
          Faults,    \* tools that fail, files that rot, deaths
          Serialised \* TRUE: withBackupLock

VARIABLES live,      \* the live database: its data version and its backups table
          files,     \* the files in the backup directory
          exported,  \* the last exported copy, with its sidecar
          key,       \* the backup key in the credential store, 0: none
          keys,      \* keys generated so far
          lock,      \* the request withBackupLock is running, None
          req,       \* the requests: where each is, and its locals
          day, made, inserted, swaps, imports, faults,
          above      \* history: an import came while the rotation under way was
                     \* removing, so its row is above the one just verified

vars == <<live, files, exported, key, keys, lock, req, day, made, inserted, swaps, imports,
          faults, above>>

Procs == {"nightly", "owner", "import"}
None == "none"
Kinds == {"scheduled", "manual", "pre_update"}

\* a dump: the data and the table it was taken from, readable or not, and the
\* key it is encrypted with
NoFile == [data |-> 0, rows |-> {}, good |-> FALSE, key |-> 0]
Idle == [at |-> "idle", kind |-> "manual", key |-> 0, counts |-> 0, file |-> 0, prune |-> {}]

Init == /\ live = [data |-> 1, rows |-> {}]
        /\ files = [f \in {} |-> NoFile] /\ exported = NoFile
        /\ key = 0 /\ keys = 0 /\ lock = None
        /\ req = [p \in Procs |-> Idle]
        /\ day = 0 /\ made = 0 /\ inserted = 0 /\ swaps = 0 /\ imports = 0 /\ faults = 0
        /\ above = FALSE

At(p) == req[p].at
To(p, step) == req' = [req EXCEPT ![p].at = step]
Done(p) == req' = [req EXCEPT ![p] = Idle]
Release(p) == lock' = IF lock = p THEN None ELSE lock
Fault == faults < Faults /\ faults' = faults + 1
Put(f, c) == files' = [g \in DOMAIN files \cup {f} |-> IF g = f THEN c ELSE files[g]]
Remove(f) == files' = [g \in DOMAIN files \ {f} |-> files[g]]
----------------------------------------------------------------------------
(* The lock, and the requests *)

AcquireNothing(p) == lock' = p

\* withBackupLock runs one request at a time; a request that waits holds nothing
Acquire(p) == /\ Serialised => lock = None
              /\ lock' = p

Begin(p, kind) ==
  /\ At(p) = "idle" /\ made < Files /\ Acquire(p)
  /\ req' = [req EXCEPT ![p] = [Idle EXCEPT !.at = "key", !.kind = kind]]
  /\ UNCHANGED <<live, files, exported, key, keys, day, made, inserted, swaps, imports,
                 faults, above>>

BeginNightly == Begin("nightly", "scheduled")
BeginManual == Begin("owner", "manual")
----------------------------------------------------------------------------
(* createBackup: key, counts, dump, encryption, verification, row *)

ReadKeyAnew(p) ==
  /\ At(p) = "key"
  /\ req' = [req EXCEPT ![p].key = key, ![p].at = "mint"]
  /\ UNCHANGED <<live, files, exported, key, keys, lock, day, made, inserted, swaps, imports,
                 faults, above>>

\* getOrCreateBackupKey reads, and stores a new key in a later step
ReadKey(p) ==
  /\ At(p) = "key"
  /\ req' = [req EXCEPT ![p].key = key, ![p].at = IF key = 0 THEN "mint" ELSE "count"]
  /\ UNCHANGED <<live, files, exported, key, keys, lock, day, made, inserted, swaps, imports,
                 faults, above>>

MintKey(p) ==
  /\ At(p) = "mint"
  /\ keys' = keys + 1 /\ key' = keys + 1
  /\ req' = [req EXCEPT ![p].key = keys + 1, ![p].at = "count"]
  /\ UNCHANGED <<live, files, exported, lock, day, made, inserted, swaps, imports, faults, above>>

Count(p) ==
  /\ At(p) = "count"
  /\ req' = [req EXCEPT ![p].counts = live.data, ![p].at = "dump"]
  /\ UNCHANGED <<live, files, exported, key, keys, lock, day, made, inserted, swaps, imports,
                 faults, above>>

\* pg_dump and encryption; what reaches the disk may be damaged
Dump(p) ==
  /\ At(p) = "dump" /\ made < Files
  /\ \E good \in BOOLEAN :
        /\ Put(made + 1, [data |-> live.data, rows |-> live.rows, good |-> good,
                          key |-> req[p].key])
        /\ IF good THEN UNCHANGED faults ELSE Fault
  /\ made' = made + 1
  /\ req' = [req EXCEPT ![p].file = made + 1, ![p].at = "verify"]
  /\ UNCHANGED <<live, exported, key, keys, lock, day, inserted, swaps, imports, above>>

Row(f, kind, verified) ==
  [file |-> f, kind |-> kind, verified |-> verified, day |-> day, born |-> inserted + 1]

\* verifyBackup restores the file into a scratch database and counts again; the
\* row is written whatever it found, and only a verified nightly one prunes
Verify(p) ==
  /\ At(p) = "verify"
  /\ LET c == files[req[p].file]
         ok == c.good /\ c.data = req[p].counts
     IN  /\ live' = [live EXCEPT !.rows = @ \cup {Row(req[p].file, req[p].kind, ok)}]
         /\ inserted' = inserted + 1
         /\ IF ok /\ p = "nightly" THEN To(p, "select") /\ above' = FALSE /\ UNCHANGED lock
                                   ELSE Done(p) /\ Release(p) /\ UNCHANGED above
  /\ UNCHANGED <<files, exported, key, keys, day, made, swaps, imports, faults>>

\* a tool fails or the disk is full: no row, whatever file there is stays
ToolFails(p) ==
  /\ At(p) \in {"dump", "verify"} /\ Fault
  /\ Done(p) /\ Release(p)
  /\ UNCHANGED <<live, files, exported, key, keys, day, made, inserted, swaps, imports, above>>
----------------------------------------------------------------------------
(* pruneBackups, after a verified nightly backup *)

Select(p) ==
  /\ At(p) = "select"
  /\ req' = [req EXCEPT ![p].prune = Prunable(live.rows, day), ![p].at = "prune"]
  /\ UNCHANGED <<live, files, exported, key, keys, lock, day, made, inserted, swaps, imports,
                 faults, above>>

\* each candidate is checked again on fresh rows just before its file goes
Unlink(p) ==
  /\ At(p) = "prune"
  /\ \E r \in req[p].prune :
       IF r \in Prunable(live.rows, day)
         THEN /\ Remove(r.file)
              /\ req' = [req EXCEPT ![p].file = r.file, ![p].prune = @ \ {r}, ![p].at = "delete"]
         ELSE /\ UNCHANGED files
              /\ req' = [req EXCEPT ![p].prune = @ \ {r}]
  /\ UNCHANGED <<live, exported, key, keys, lock, day, made, inserted, swaps, imports, faults,
                 above>>

DeleteRow(p) ==
  /\ At(p) = "delete" /\ To(p, "prune")
  /\ live' = [live EXCEPT !.rows = {r \in @ : r.file # req[p].file}]
  /\ UNCHANGED <<files, exported, key, keys, lock, day, made, inserted, swaps, imports,
                 faults, above>>

PruneEnds(p) ==
  /\ At(p) = "prune" /\ req[p].prune = {}
  /\ Done(p) /\ Release(p)
  /\ UNCHANGED <<live, files, exported, key, keys, day, made, inserted, swaps, imports,
                 faults, above>>
----------------------------------------------------------------------------
(* Restoring, exporting, importing *)

\* the row is looked up once before the lock is asked for
AskRestore ==
  /\ At("owner") = "idle" /\ swaps < Swaps
  /\ \E r \in live.rows :
       req' = [req EXCEPT !["owner"] = [Idle EXCEPT !.at = "wait", !.file = r.file]]
  /\ UNCHANGED <<live, files, exported, key, keys, lock, day, made, inserted, swaps, imports,
                 faults, above>>

\* restoreBackup accepts a row the live table calls verified and a file that is
\* there, opens with the stored key and is what was dumped
Restorable(f) ==
  /\ \E r \in live.rows : r.file = f /\ r.verified
  /\ f \in DOMAIN files /\ files[f].good /\ key # 0 /\ files[f].key = key

BeginRestore(p) ==
  /\ At(p) = "wait" /\ Acquire(p) /\ To(p, "restore")
  /\ UNCHANGED <<live, files, exported, key, keys, day, made, inserted, swaps, imports,
                 faults, above>>

RestoreSucceeds(p) ==
  /\ At(p) = "restore" /\ Restorable(req[p].file)
  /\ live' = [data |-> files[req[p].file].data, rows |-> files[req[p].file].rows]
  /\ swaps' = swaps + 1
  /\ Done(p) /\ Release(p)
  /\ UNCHANGED <<files, exported, key, keys, day, made, inserted, imports, faults, above>>

RestoreRefused(p) ==
  /\ At(p) = "restore"
  /\ \/ ~Restorable(req[p].file) /\ UNCHANGED faults
     \/ Fault
  /\ Release(p)
  /\ IF p = "import" THEN To(p, "unclaim") ELSE Done(p)
  /\ UNCHANGED <<live, files, exported, key, keys, day, made, inserted, swaps, imports, above>>

\* runExportBackup copies the file and the row's facts beside it, without the lock
Export ==
  /\ At("owner") = "idle"
  /\ \E r \in Verified(live.rows) : r.file \in DOMAIN files /\ exported' = files[r.file]
  /\ UNCHANGED <<live, files, key, keys, lock, req, day, made, inserted, swaps, imports,
                 faults, above>>

\* runRestoreExternalBackup inserts the row as verified before it holds the lock
Import ==
  /\ At("import") = "idle" /\ exported # NoFile
  /\ swaps < Swaps /\ made < Files
  /\ imports < Imports /\ imports' = imports + 1
  /\ Put(made + 1, exported) /\ made' = made + 1
  /\ live' = [live EXCEPT !.rows = @ \cup {Row(made + 1, "manual", TRUE)}]
  /\ inserted' = inserted + 1
  /\ req' = [req EXCEPT !["import"] = [Idle EXCEPT !.at = "wait", !.file = made + 1]]
  /\ above' = (above \/ At("nightly") \in {"select", "prune", "delete"})
  /\ UNCHANGED <<exported, key, keys, lock, day, swaps, faults>>

\* the claim of an import that failed is withdrawn, again without the lock; what
\* fails of it is ignored
Unclaim ==
  /\ At("import") = "unclaim" /\ Done("import")
  /\ LET f == req["import"].file
         withdrawn == [live EXCEPT !.rows = {r \in @ : r.file # f}]
     IN  \/ live' = withdrawn /\ Remove(f) /\ UNCHANGED faults
         \/ live' \in {live, withdrawn} /\ (Remove(f) \/ UNCHANGED files) /\ Fault
  /\ UNCHANGED <<exported, key, keys, lock, day, made, inserted, swaps, imports, above>>
----------------------------------------------------------------------------
(* The world around *)

Write == /\ live.data < Writes /\ live' = [live EXCEPT !.data = @ + 1]
         /\ UNCHANGED <<files, exported, key, keys, lock, req, day, made, inserted, swaps,
                        imports, faults, above>>
DayPasses == /\ day < Days /\ day' = day + 1
             /\ UNCHANGED <<live, files, exported, key, keys, lock, req, made, inserted,
                            swaps, imports, faults, above>>
\* a copy outside the install is damaged; the process dies
ExportRots == /\ exported.good /\ Fault /\ exported' = [exported EXCEPT !.good = FALSE]
              /\ UNCHANGED <<live, files, key, keys, lock, req, day, made, inserted, swaps,
                             imports, above>>
Dies == /\ \E p \in Procs : At(p) # "idle"
        /\ Fault /\ req' = [p \in Procs |-> Idle] /\ lock' = None
        /\ UNCHANGED <<live, files, exported, key, keys, day, made, inserted, swaps, imports,
                       above>>

Step(p) == \/ ReadKey(p) \/ MintKey(p) \/ Count(p) \/ Dump(p) \/ Verify(p)
           \/ Select(p) \/ Unlink(p) \/ DeleteRow(p) \/ PruneEnds(p)
           \/ BeginRestore(p) \/ RestoreSucceeds(p) \/ RestoreRefused(p)

Next == \/ BeginNightly \/ BeginManual \/ AskRestore \/ Export \/ Import \/ Unclaim
        \/ \E p \in Procs : Step(p) \/ ToolFails(p)
        \/ Write \/ DayPasses \/ ExportRots \/ Dies

Spec == Init /\ [][Next]_vars
----------------------------------------------------------------------------
Usable(rows, fs, k) ==
  {r \in Verified(rows) : r.file \in DOMAIN fs /\ fs[r.file].good /\ fs[r.file].key = k}

RowType == [file : 1..Files, kind : Kinds, verified : BOOLEAN, day : 0..Days, born : 1..Files + Imports]

TypeOK ==
  /\ live.data \in 1..Writes /\ live.rows \subseteq RowType
  /\ DOMAIN files \subseteq 1..Files /\ lock \in Procs \cup {None}
  /\ key \in 0..keys /\ keys \in 0..2 /\ above \in BOOLEAN

\* the row of an import under way says it was verified; nothing has read its file
Sound ==
  {r \in Usable(live.rows, files, key) : At("import") # "idle" => r.file # req["import"].file}

\* Rotation, and whatever else runs beside it, never takes the last backup that was
\* proved to be restorable, nor the key it opens with: the first two backups do not
\* each make one, and a failed import takes only its own.  Only a restore brings an
\* older table back, and only a rotation that an import's row came above while it was
\* removing may take the last (rotation.ts:14-20, lock.ts:5-8, http.ts:343-379).
LastOneStays ==
  [][Sound # {} /\ swaps' = swaps => Sound' # {} \/ (At("nightly") = "prune" /\ above)]_vars

\* "never prunes down to zero verified copies" (rotation.ts:20); of the row of an
\* import "rotation must never treat it as a keepable verified backup" (http.ts:362).
NeverToZero ==
  [][Usable(live.rows, files, key) # {} /\ swaps' = swaps
     => Usable(live'.rows, files', key') # {}]_vars
=============================================================================
