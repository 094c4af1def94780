------------------------------ MODULE History ------------------------------
(***************************************************************************)
(* What a restore promises the person: the history that the application    *)
(* shows, the one that the backup holds, and each one that a restore put   *)
(* aside.  A restore happens at once or not at all, whatever becomes of    *)
(* the process, and what was put aside stays there as it was.              *)
(*                                                                         *)
(* The program has no such step: module LocalDatabase fills a copy, writes *)
(* a marker and renames two databases, rolls back, and puts an interrupted *)
(* swap right at the next launch.                                          *)
(***************************************************************************)
EXTENDS Naturals

CONSTANTS Restores, Works

VARIABLES shown,  \* what the person has recorded, as the application shows it
          saved,  \* {} or the history in the backup
          aside   \* by restore, the history it replaced

vars == <<shown, saved, aside>>

Init == shown = {} /\ saved = {} /\ aside = [k \in {} |-> {}]

Record(f) == shown' = shown \cup {f} /\ UNCHANGED <<saved, aside>>

Save == saved' = {shown} /\ UNCHANGED <<shown, aside>>

Restore(k) ==
  /\ \A j \in DOMAIN aside : j < k
  /\ shown' \in saved
  /\ aside' = [j \in DOMAIN aside \cup {k} |-> IF j = k THEN shown ELSE aside[j]]
  /\ UNCHANGED saved

Next == \/ \E f \in 1..Works : Record(f)
        \/ Save
        \/ \E k \in 1..Restores : Restore(k)

Spec == Init /\ [][Next]_vars
=============================================================================
