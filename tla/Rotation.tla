----------------------------- MODULE Rotation ------------------------------
(***************************************************************************)
(* Which backups the nightly rotation removes (selectBackupsToPrune in     *)
(* src/backup/rotation.ts): a pure decision over the rows of `backups`.    *)
(* A row has the fields kind, verified, day (of created_at) and born (its  *)
(* place in the order of created_at).                                      *)
(***************************************************************************)
EXTENDS Naturals

CONSTANTS Daily,   \* one backup a day is kept for so many days,
          Weekly,  \* then one a week
          WeekLen,
          Monthly, \* and then one a month
          MonthLen

Verified(rows) == {r \in rows : r.verified}
Newest(rows) == {r \in rows : \A s \in rows : s.born <= r.born}

\* whole days, never negative after the clock was set back
Age(r, now) == IF r.day > now THEN 0 ELSE now - r.day

Outside == <<"outside", 0>>

BucketLate(age) ==
  LET weekly == Daily + Weekly * WeekLen
      monthly == weekly + Monthly * MonthLen
  IN  IF age <= Daily THEN <<"daily", age>>
      ELSE IF age < weekly THEN <<"weekly", (age - Daily) \div WeekLen>>
      ELSE IF age < monthly THEN <<"monthly", (age - weekly) \div MonthLen>>
      ELSE Outside

Bucket(age) ==
  LET weekly == Daily + Weekly * WeekLen
      monthly == weekly + Monthly * MonthLen
  IN  IF age < Daily THEN <<"daily", age>>
      ELSE IF age < weekly THEN <<"weekly", (age - Daily) \div WeekLen>>
      ELSE IF age < monthly THEN <<"monthly", (age - weekly) \div MonthLen>>
      ELSE Outside

Rotating(rows) == {r \in Verified(rows) : r.kind # "pre_update"}
InBucket(rows, b, now) == {r \in Rotating(rows) : Bucket(Age(r, now)) = b}
Buckets(rows, now) == {Bucket(Age(r, now)) : r \in Rotating(rows)} \ {Outside}

Kept(rows, now) ==
  Newest(Verified(rows)) \cup (Verified(rows) \ Rotating(rows))
    \cup UNION {Newest(InBucket(rows, b, now)) : b \in Buckets(rows, now)}

Prunable(rows, now) == Verified(rows) \ Kept(rows, now)
----------------------------------------------------------------------------
(* What the policy promises (rotation.ts:14-20, 65-80), stated on its own *)

\* the periods of which one backup is kept, as sets of ages
Periods ==
  {{d} : d \in {n \in 0..Daily : n < Daily}}
    \cup {{Daily + w * WeekLen + d : d \in 0..(WeekLen - 1)} :
             w \in {n \in 0..Weekly : n < Weekly}}
    \cup {{Daily + Weekly * WeekLen + m * MonthLen + d : d \in 0..(MonthLen - 1)} :
             m \in {n \in 0..Monthly : n < Monthly}}

SamePeriod(r, s, now) == \E p \in Periods : Age(r, now) \in p /\ Age(s, now) \in p
Young(r, now) == \E p \in Periods : Age(r, now) \in p

MayGo(rows, r, now) ==
  /\ r.verified /\ r.kind # "pre_update"
  /\ \E s \in Verified(rows) : s.born > r.born
  /\ \/ ~Young(r, now)
     \/ \E s \in Rotating(rows) : s.born > r.born /\ SamePeriod(r, s, now)
=============================================================================
