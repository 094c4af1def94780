------------------------------ MODULE PostOnce ------------------------------
(***************************************************************************)
(* What the posting of proposals promises, whatever the provider and the   *)
(* machinery in between: the program creates at most one bill for a        *)
(* proposal, and records at most one posting for it, which never changes.  *)
(* The recorded bill need not be the created one: a bill that was there    *)
(* already is adopted instead.                                             *)
(***************************************************************************)
CONSTANTS
  Proposals,  \* what may be posted
  Refs,       \* the provider's identities of bills
  NoRef       \* no posting recorded

VARIABLES
  created,  \* the bills the program created for a proposal
  posted    \* the bill recorded as its posting

vars == <<created, posted>>

TypeOK ==
  /\ created \in [Proposals -> SUBSET Refs]
  /\ posted \in [Proposals -> Refs \cup {NoRef}]

Init ==
  /\ created = [p \in Proposals |-> {}]
  /\ posted = [p \in Proposals |-> NoRef]

Create(p, r) ==
  /\ created[p] = {} /\ \A q \in Proposals : r \notin created[q]
  /\ created' = [created EXCEPT ![p] = {r}]
  /\ UNCHANGED posted

Record(p, r) ==
  /\ posted[p] = NoRef
  /\ posted' = [posted EXCEPT ![p] = r]
  /\ UNCHANGED created

Next == \E p \in Proposals, r \in Refs : Create(p, r) \/ Record(p, r)

Spec == Init /\ [][Next]_vars
=============================================================================
