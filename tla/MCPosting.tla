------------------------------ MODULE MCPosting ------------------------------
(* Small instances of Posting for TLC. *)
EXTENDS Posting, TLC

CONSTANTS p1, p2, i1, i2, w1, w2

OneDraft  == [p \in Proposals |-> i1]
OwnSha == [p \in Proposals |-> <<p>>]
WorkerSymmetry == Permutations(Workers)
=============================================================================
