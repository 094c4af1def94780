------------------------------ MODULE Accounts ------------------------------
(***************************************************************************)
(* Which company a bill goes to (src/connectors/factory.ts with the two    *)
(* clients of src/qbo, src/accounting/write-gates.ts, the connect flows    *)
(* of src/auth, the callers in pipeline/posting.ts and services/approve.ts *)
(* and the owner's page).  A connection has a row per company, there is    *)
(* one token per provider, the configuration may name a company, and each  *)
(* is read and written apart from the others: a queue job and an approval  *)
(* build their connectors while the owner connects companies and opens and *)
(* closes gates.  Tokens and their refresh are in Tokens, the listener of  *)
(* a connect attempt in ConnectFlow, the posting itself in Posting.        *)
(***************************************************************************)
EXTENDS Naturals, Sequences, FiniteSets, SequencesExt

CONSTANTS Realms,    \* companies of QuickBooks Online
          Orgs,      \* organisations of Xero
          RealOrgs,  \* those that are no demo organisation
          Callers,   \* of {"queue", "approve"}
          Connects,  \* bound: companies connected
          Toggles,   \* bound: changes of a gate
          MaxBills   \* bound

VARIABLES conf,     \* the configuration, the same for the life of the process
          rows,     \* connections, the one updated last at the end
          token,    \* the company of the token of each provider
          link,     \* the company whose token is saved and whose row is not yet
          shown,    \* what the owner's page shows
          opened,   \* companies whose gate the owner ever opened
          runs,     \* per caller: the connector it builds
          bills, connects, toggles

vars == <<conf, rows, token, link, shown, opened, runs, bills, connects, toggles>>

None == "none"
Provider(c) == IF c \in Realms THEN "qbo" ELSE "xero"
NoRun == [at |-> "idle", row |-> None, write |-> None, read |-> None, swapped |-> FALSE]

\* loadConfig
Configurations ==
  {c \in [production : BOOLEAN, realm : Realms \cup {None}, name : Realms \cup {None},
          xeroWrites : BOOLEAN, xeroName : Orgs \cup {None}] :
     /\ c.production => c.realm # None /\ c.name # None
     /\ c.xeroWrites => c.xeroName # None}

Init ==
  /\ conf \in Configurations
  /\ rows = <<>> /\ token = [p \in {"qbo", "xero"} |-> None] /\ link = None
  /\ shown = {} /\ opened = {} /\ runs = [w \in Callers |-> NoRun]
  /\ bills = {} /\ connects = 0 /\ toggles = 0
----------------------------------------------------------------------------
(* Connecting a company: the token, then the row *)

RowsOf(c) == {n \in DOMAIN rows : rows[n].company = c}
Gate(c) == \E n \in RowsOf(c) : rows[n].gate
\* an update makes the row the newest
Renewed(c, gate) ==
  LET others == IF RowsOf(c) = {} THEN rows ELSE RemoveAt(rows, CHOOSE n \in RowsOf(c) : TRUE)
  IN  Append(others, [company |-> c, gate |-> gate])

\* completeQbo and completeXero take the company the consent was given for, the
\* callback of the web edition only the configured one
Accepts(flow, c) ==
  flow = "web" => c \in Realms /\ conf.name = c /\ (conf.production => conf.realm = c)

SaveToken(c) ==
  /\ link = None /\ connects < Connects /\ connects' = connects + 1
  /\ \E flow \in {"loopback", "web"} : Accepts(flow, c)
  /\ token' = [token EXCEPT ![Provider(c)] = c] /\ link' = c
  /\ runs' = [w \in Callers |-> [runs[w] EXCEPT !.swapped = runs[w].at # "idle"]]
  /\ UNCHANGED <<conf, rows, shown, opened, bills, toggles>>

UpsertConnection ==
  /\ link # None /\ link' = None
  /\ rows' = Renewed(link, Gate(link))
  /\ UNCHANGED <<conf, token, shown, opened, runs, bills, connects, toggles>>

\* the statement fails
UpsertFails ==
  /\ link # None /\ link' = None
  /\ UNCHANGED <<conf, rows, token, shown, opened, runs, bills, connects, toggles>>
----------------------------------------------------------------------------
(* The owner's page *)

\* listProviderCapabilities: a Xero connection has no gate to show
ListConnections ==
  /\ shown' = {[company |-> rows[n].company, open |-> rows[n].gate] : n \in DOMAIN rows}
  /\ UNCHANGED <<conf, rows, token, link, opened, runs, bills, connects, toggles>>

\* setOwnerWriteGate: the page asks for the identity it expects, the service takes
\* the company of the row
Expected(c) == IF conf.realm # None THEN conf.realm ELSE c
SetOwnerWriteGate(c, enable) ==
  /\ toggles < Toggles /\ toggles' = toggles + 1
  /\ [company |-> c, open |-> ~enable] \in shown /\ c \in Realms
  /\ enable => Expected(c) = c
  /\ rows' = Renewed(c, enable)
  /\ opened' = IF enable THEN opened \cup {c} ELSE opened
  /\ UNCHANGED <<conf, token, link, shown, runs, bills, connects>>
----------------------------------------------------------------------------
(* A connector is built and used *)

Goes(w, to) == runs' = [runs EXCEPT ![w].at = to]
Ends(w) == runs' = [runs EXCEPT ![w] = NoRun]
Others == UNCHANGED <<conf, rows, token, link, shown, opened, connects, toggles>>

\* getConnectorForProvider: the provider of the newest row; an approval asks for
\* QuickBooks Online; callers share nothing they write, so one at a time will do
Begin(w) ==
  /\ \A v \in Callers : runs[v].at = "idle"
  /\ rows # <<>> /\ Cardinality(bills) < MaxBills
  /\ Goes(w, IF w = "queue" /\ Last(rows).company \in Orgs THEN "org" ELSE "row")
  /\ UNCHANGED bills /\ Others

\* getQboConnector: the newest row of QuickBooks Online, its gate and its realm
NewestQbo ==
  {n \in DOMAIN rows : /\ rows[n].company \in Realms
                       /\ \A m \in DOMAIN rows : rows[m].company \in Realms => m <= n}
ReadRow(w) ==
  /\ runs[w].at = "row"
  /\ \E n \in NewestQbo : LET r == rows[n] IN
       /\ r.gate /\ (conf.realm # None => r.company = conf.realm)
       /\ runs' = [runs EXCEPT ![w].at = "write", ![w].row = r.company]
  /\ UNCHANGED bills /\ Others

\* the realm of a token: production needs the configured one, a sandbox may name one
Usable == token["qbo"] # None /\ (conf.realm # None => token["qbo"] = conf.realm)
UsableUnchecked == token["qbo"] # None
LoadWriteClient(w) ==
  /\ runs[w].at = "write" /\ Usable
  /\ runs' = [runs EXCEPT ![w].at = "read", ![w].write = token["qbo"]]
  /\ UNCHANGED bills /\ Others

LoadReadClient(w) ==
  /\ runs[w].at = "read" /\ Usable
  /\ runs' = [runs EXCEPT ![w].at = "built", ![w].read = token["qbo"]]
  /\ UNCHANGED bills /\ Others

BuildXero(w) ==
  /\ runs[w].at = "org" /\ token["xero"] # None
  /\ runs' = [runs EXCEPT ![w].at = "built", ![w].write = token["xero"],
                          ![w].read = token["xero"]]
  /\ UNCHANGED bills /\ Others

\* postSandboxHandler refuses production, whatever the provider calls it
Production(c) == IF c \in Realms THEN conf.production ELSE conf.xeroWrites
MayPost(w) == w = "queue" => ~Production(runs[w].write)
MayPostAny(w) == TRUE
\* postOnce: the company must have the configured name, if one is configured
Name(c) == IF c \in Realms THEN conf.name ELSE conf.xeroName
IdentifiedNot(w) == TRUE
Identified(w) == Name(runs[w].write) # None => runs[w].read = Name(runs[w].write)

Verify(w) ==
  /\ runs[w].at = "built" /\ MayPost(w) /\ Identified(w) /\ Goes(w, "verified")
  /\ UNCHANGED bills /\ Others

Create(w) ==
  /\ runs[w].at = "verified" /\ Ends(w)
  /\ bills' = bills \cup {[company |-> runs[w].write, row |-> runs[w].row, by |-> w,
                           swapped |-> runs[w].swapped, gate |-> Gate(runs[w].write)]}
  /\ Others

\* any of these refuses, throws or is held
Stop(w) == runs[w].at # "idle" /\ Ends(w) /\ UNCHANGED bills /\ Others

Next ==
  \/ \E c \in Realms \cup Orgs : SaveToken(c)
  \/ UpsertConnection \/ UpsertFails \/ ListConnections
  \/ \E c \in Realms, e \in BOOLEAN : SetOwnerWriteGate(c, e)
  \/ \E w \in Callers : \/ Begin(w) \/ ReadRow(w) \/ LoadWriteClient(w) \/ LoadReadClient(w)
                        \/ BuildXero(w) \/ Verify(w) \/ Create(w) \/ Stop(w)

Spec == Init /\ [][Next]_vars
----------------------------------------------------------------------------
(* Properties *)

TypeOK ==
  /\ conf \in Configurations
  /\ \A n \in DOMAIN rows : rows[n].company \in Realms \cup Orgs /\ rows[n].gate \in BOOLEAN
  /\ \A m, n \in DOMAIN rows : rows[m].company = rows[n].company => m = n
  /\ token["qbo"] \in Realms \cup {None} /\ token["xero"] \in Orgs \cup {None}

OfQbo == {b \in bills : b.company \in Realms}

\* With a realm configured a bill goes to that company, through the row of that
\* company, and after its owner opened that row's gate (factory.ts:33-41, write.ts:132).
BoundCompanyOnly ==
  conf.realm # None => \A b \in OfQbo :
    b.company = conf.realm /\ b.row = b.company /\ b.company \in opened

\* With a name configured a bill goes to the company of that name, unless another one
\* was connected while the connector was built and used (posting.ts:123-129).
NamedCompanyOnly ==
  \A b \in bills : Name(b.company) # None /\ ~b.swapped => b.company = Name(b.company)

\* No bill is written in production mode but by an approval (posting.ts:471-481).
UnattendedNeverProduction == \A b \in bills : b.by = "queue" => ~Production(b.company)

AccountsHold == BoundCompanyOnly /\ NamedCompanyOnly /\ UnattendedNeverProduction

\* "the explicit owner gate a real (non-demo) xero org write requires" (config.ts:76).
XeroNeedsOwnerGate == \A b \in bills : b.company \in RealOrgs => conf.xeroWrites

\* "Writes are enabled for" the company of the row (ProviderConnections.tsx:157).
GateIsOfItsCompany == \A b \in OfQbo : b.row = b.company

\* "Owner write gate disabled immediately." (ProviderConnections.tsx:148)
DisabledAtOnce == \A b \in OfQbo : b.gate
=============================================================================
