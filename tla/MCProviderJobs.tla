--------------------------- MODULE MCProviderJobs ---------------------------
(* Small instances of ProviderJobs for TLC. *)
EXTENDS ProviderJobs, TLC

CONSTANTS p1, p2, i1, i2, t1, t2, ours, other

OneDraft  == [p \in Proposals |-> i1]
TwoDrafts == (p1 :> i1) @@ (p2 :> i2)
TicketSymmetry == Permutations(Tickets)
=============================================================================
