------------------------------- MODULE Tokens -------------------------------
(***************************************************************************)
(* The OAuth tokens of one tenant and provider: saving and loading         *)
(* (auth/tokens.ts), refreshing (qbo-refresh.ts, xero-refresh.ts), the last*)
(* part of a connect (connect-loopback.ts) and the cutover of an older row *)
(* into the credential store at boot (host/secret-migration.ts).           *)
(*                                                                         *)
(* The secret is in the credential store; the database has a reference to  *)
(* it, or, before the cutover, the encrypted row itself.  Nothing makes a  *)
(* write of the store and one of the database a single step.               *)
(***************************************************************************)
EXTENDS Naturals

CONSTANTS Refreshers,  \* jobs and requests that find the access token due
          Companies,
          Grants,      \* refresh tokens the provider issues
          Faults,
          LostCommits  \* TRUE: a commit can be executed and reported as failed

VARIABLES up,       \* the process: down, a step of its boot, or up
          legacy,   \* the oauth_tokens row
          ref,      \* a credential_refs row
          store,    \* what the credential store holds
          copied,   \* the value this cutover attempt may have written
          run,      \* the refreshes and the connect: where each is, its locals
          accepted, \* refresh tokens the provider accepts
          issued,
          chosen,   \* company of the last connect, Unknown while one is under way
          faults,
          crossed   \* history: the last write of the store was a refresh's, and it
                    \* put back another company than the one a connect had written

vars == <<up, legacy, ref, store, copied, run, accepted, issued, chosen, faults,
          crossed>>

Person == "person"
Procs == Refreshers \cup {Person}
None == [id |-> 0, realm |-> "none"]
Idle == [at |-> "idle", tok |-> None]
Unknown == "unknown"

Init == /\ up = "down" /\ ref = FALSE /\ store = None /\ copied = None
        /\ \/ legacy = None /\ issued = 0 /\ chosen = Unknown /\ accepted = {}
           \/ \E c \in Companies :
                /\ legacy = [id |-> 1, realm |-> c] /\ issued = 1
                /\ chosen = c /\ accepted = {1}
        /\ run = [p \in Procs |-> Idle] /\ faults = 0 /\ crossed = FALSE

Fault == faults < Faults /\ faults' = faults + 1
At(p) == run[p].at
Go(p, step, tok) == run' = [run EXCEPT ![p] = [at |-> step, tok |-> tok]]
Stop(p) == run' = [run EXCEPT ![p] = Idle]
Quiet == \A p \in Refreshers : At(p) = "idle"
----------------------------------------------------------------------------
(* Boot: initializeTokenCredentialAuthority, migrateLegacySecret *)

Boot == /\ up = "down" /\ up' = "read" /\ copied' = None
        /\ UNCHANGED <<legacy, ref, store, run, accepted, issued, chosen, faults, crossed>>

\* a value of an earlier attempt is taken up, another one is a conflict
MigrateRead ==
  /\ up = "read"
  /\ \/ legacy = None /\ up' = "up" /\ UNCHANGED copied
     \/ legacy # None /\ store = None /\ up' = "put" /\ copied' = legacy
     \/ legacy # None /\ store = legacy /\ up' = "commit" /\ UNCHANGED copied
     \/ legacy # None /\ store \notin {None, legacy} /\ up' = "undo" /\ UNCHANGED copied
  /\ UNCHANGED <<legacy, ref, store, run, accepted, issued, chosen, faults, crossed>>

\* an exception may mean that nothing was written or that the answer was lost
MigratePut ==
  /\ up = "put"
  /\ \/ store' = copied /\ up' = "commit" /\ UNCHANGED faults
     \/ store' \in {store, copied} /\ up' = "undo" /\ Fault
  /\ UNCHANGED <<legacy, ref, copied, run, accepted, issued, chosen, crossed>>

MigrateCommitApart ==
  /\ up = "commit"
  /\ \/ ref' = TRUE /\ legacy' = None /\ up' = "up" /\ UNCHANGED faults
     \/ up' = "undo" /\ Fault /\ UNCHANGED ref /\ legacy' \in {legacy, None}
  /\ UNCHANGED <<store, copied, run, accepted, issued, chosen, crossed>>

\* read back, reference and deletion: one transaction
MigrateCommit ==
  /\ up = "commit"
  /\ \/ store = legacy /\ ref' = TRUE /\ legacy' = None /\ up' = "up" /\ UNCHANGED faults
     \/ up' = "undo" /\ Fault
        /\ \/ UNCHANGED <<ref, legacy>>
           \/ LostCommits /\ ref' = TRUE /\ legacy' = None
  /\ UNCHANGED <<store, copied, run, accepted, issued, chosen, crossed>>

\* only the exact value of this attempt is removed; the boot is aborted
MigrateUndo ==
  /\ up = "undo" /\ up' = "down"
  /\ \/ store' = (IF copied # None /\ store = copied THEN None ELSE store)
        /\ UNCHANGED faults
     \/ UNCHANGED store /\ Fault
  /\ UNCHANGED <<legacy, ref, copied, run, accepted, issued, chosen, crossed>>
----------------------------------------------------------------------------
(* loadToken and saveToken *)

Loaded == IF ref THEN store ELSE legacy

\* the company the store was last meant to hold
Meant == IF At(Person) \in {"check", "commit"} THEN run[Person].tok.realm ELSE chosen

Put(p) ==
  /\ At(p) = "put"
  /\ \/ store' = run[p].tok /\ Go(p, "check", run[p].tok) /\ UNCHANGED faults
     \/ store' \in {store, run[p].tok} /\ Stop(p) /\ Fault
  /\ crossed' = IF store' = store THEN crossed
                ELSE p # Person /\ run[p].tok.realm # Meant
  /\ UNCHANGED <<up, legacy, ref, copied, accepted, issued, chosen>>

Check(p) ==
  /\ At(p) = "check"
  /\ IF store = run[p].tok THEN Go(p, "commit", run[p].tok) ELSE Stop(p)
  /\ UNCHANGED <<up, legacy, ref, store, copied, accepted, issued, chosen, faults, crossed>>

Commit(p) ==
  /\ At(p) = "commit" /\ Stop(p)
  /\ \/ ref' = TRUE /\ legacy' = None /\ UNCHANGED faults
        /\ chosen' = IF p = Person THEN run[p].tok.realm ELSE chosen
     \/ UNCHANGED <<ref, legacy, chosen>> /\ Fault
  /\ UNCHANGED <<up, store, copied, accepted, issued, crossed>>
----------------------------------------------------------------------------
(* refreshQboToken, refreshXeroToken; a connect after its code exchange *)

Load(p) ==
  /\ up = "up" /\ p \in Refreshers /\ At(p) = "idle" /\ Loaded # None
  /\ Go(p, "ask", Loaded)
  /\ UNCHANGED <<up, legacy, ref, store, copied, accepted, issued, chosen, faults, crossed>>

\* the provider rotates the token, honouring the old one a little longer or not,
\* or returns none and the old one stays; realm and scope are the loaded ones
Refresh(p) ==
  /\ At(p) = "ask"
  /\ LET old == run[p].tok
         new == [old EXCEPT !.id = issued + 1]
     IN  \/ old.id \notin accepted /\ Stop(p) /\ UNCHANGED <<accepted, issued, faults>>
         \/ old.id \in accepted /\ Go(p, "put", old) /\ UNCHANGED <<accepted, issued, faults>>
         \/ /\ old.id \in accepted /\ issued < Grants
            /\ issued' = issued + 1
            /\ accepted' \in {accepted \cup {new.id}, (accepted \ {old.id}) \cup {new.id}}
            /\ \/ Go(p, "put", new) /\ UNCHANGED faults
               \/ Stop(p) /\ Fault
  /\ UNCHANGED <<up, legacy, ref, store, copied, chosen, crossed>>

Connect ==
  /\ up = "up" /\ At(Person) = "idle" /\ issued < Grants
  /\ \E c \in Companies : Go(Person, "put", [id |-> issued + 1, realm |-> c])
  /\ issued' = issued + 1 /\ accepted' = accepted \cup {issued + 1} /\ chosen' = Unknown
  /\ UNCHANGED <<up, legacy, ref, store, copied, faults, crossed>>

Dies == /\ up # "down" /\ Fault /\ up' = "down" /\ run' = [p \in Procs |-> Idle]
        /\ UNCHANGED <<legacy, ref, store, copied, accepted, issued, chosen, crossed>>

BootStep == Boot \/ MigrateRead \/ MigratePut \/ MigrateCommit \/ MigrateUndo
Save(p) == Put(p) \/ Check(p) \/ Commit(p)

Next == \/ BootStep \/ Connect \/ Dies
        \/ \E p \in Procs : Load(p) \/ Refresh(p) \/ Save(p)

Spec == Init /\ [][Next]_vars
\* the person starts the application again
FairSpec == Spec /\ WF_vars(BootStep)
----------------------------------------------------------------------------
Token == [id : 0..Grants, realm : Companies \cup {"none"}]

TypeOK ==
  /\ up \in {"down", "read", "put", "commit", "undo", "up"} /\ ref \in BOOLEAN
  /\ legacy \in Token /\ store \in Token /\ copied \in Token
  /\ run \in [Procs -> [at : {"idle", "ask", "put", "check", "commit"}, tok : Token]]
  /\ accepted \subseteq 1..Grants /\ issued \in 0..Grants /\ faults \in 0..Faults
  /\ crossed \in BOOLEAN

\* A tenant that has connected can always load a token again, through failed
\* cutovers, refreshes and connects, and it is one for the company connected last
\* unless a refresh that had loaded another company's token wrote it back after the
\* connect's own write (secret-migration.ts:16-21, qbo-refresh.ts:53-61).
ReconnectHolds == chosen # Unknown => Loaded # None /\ (Loaded.realm = chosen \/ crossed)

\* "the newest one is written back" (qbo-refresh.ts:8-9): with no refresh under way
\* the token is one for the company connected last.
NewestStays == chosen # Unknown /\ Quiet => Loaded.realm = chosen

\* Whatever the cutover leaves behind, a later boot gets past it
\* (tokens.ts:249-264).
BootsAgain == []<>(up = "up")
=============================================================================
