------------------------- MODULE MachineWork_proofs -------------------------
(***************************************************************************)
(* Proofs about what is done through one machine, for every value of the   *)
(* constants: which backups a rotation removes, which company a bill goes  *)
(* to, what stands in the person's Gmail and what the exceptions page      *)
(* shows.  (Machine_proofs has those about the machine's own data.)  The   *)
(* types of all components come last.                                      *)
(***************************************************************************)
EXTENDS Machine_proofs, Integers, Sequences

-----------------------------------------------------------------------------
(* Rotation: the code divides ages, the policy names spans of days.  The two agree. *)

(* A policy counts its days, weeks and months, and weeks and months have days. *)
RtBounds == Daily \in Nat /\ Weekly \in Nat /\ Monthly \in Nat
            /\ WeekLen \in Nat \ {0} /\ MonthLen \in Nat \ {0}

(* Multiples of a length are that length apart. *)
LEMMA Monotone == ASSUME NEW p \in Nat, NEW q \in Nat, NEW l \in Nat, p < q PROVE p * l + l <= q * l
<1>1. PICK k \in Nat : q = p + 1 + k
  <2>1. q - p - 1 \in Nat OBVIOUS
  <2>2. q = p + 1 + (q - p - 1) OBVIOUS
  <2>. QED BY <2>1, <2>2
<1>2. q * l = p * l + l + k * l BY <1>1
<1>3. k * l \in Nat OBVIOUS
<1>. QED BY <1>2, <1>3

(* What a quotient is, and that nothing else is one. *)
LEMMA Quotient == ASSUME NEW n \in Nat, NEW l \in Nat \ {0}
  PROVE /\ n \div l \in Nat /\ (n \div l) * l <= n /\ n <= (n \div l) * l + (l - 1)
OBVIOUS

LEMMA QuotientIs ==
  ASSUME NEW n \in Nat, NEW l \in Nat \ {0}, NEW q \in Nat, q * l <= n, n <= q * l + (l - 1)
  PROVE  n \div l = q
<1>1. ~ n \div l < q BY Monotone, Quotient
<1>2. ~ q < n \div l  BY Monotone, Quotient
<1>. QED BY <1>1, <1>2, Quotient

Week(w) == {Daily + w * WeekLen + d : d \in 0..(WeekLen - 1)}
Month(m) == {Daily + Weekly * WeekLen + m * MonthLen + d : d \in 0..(MonthLen - 1)}
OfWeeks == Daily + Weekly * WeekLen
OfMonths == OfWeeks + Monthly * MonthLen

LEMMA Spans ==
  ASSUME RtBounds
  PROVE  /\ OfWeeks \in Nat /\ OfMonths \in Nat /\ Daily <= OfWeeks /\ OfWeeks <= OfMonths
         /\ Weekly * WeekLen \in Nat /\ Monthly * MonthLen \in Nat
BY DEF RtBounds, OfWeeks, OfMonths

(* The bucket of an age, by the borders between days, weeks and months. *)
LEMMA BucketCases ==
  ASSUME NEW a \in Nat
  PROVE  Rt!Bucket(a) = IF a < Daily THEN <<"daily", a>>
                        ELSE IF a < OfWeeks THEN <<"weekly", (a - Daily) \div WeekLen>>
                        ELSE IF a < OfMonths THEN <<"monthly", (a - OfWeeks) \div MonthLen>>
                        ELSE Rt!Outside
BY DEF Rt!Bucket, OfWeeks, OfMonths

(* A week is the ages one weekly bucket collects, and a month those of a monthly one. *)
LEMMA WeekBucket ==
  ASSUME RtBounds, NEW a \in Nat, NEW w \in Nat, w < Weekly
  PROVE  a \in Week(w) <=> Rt!Bucket(a) = <<"weekly", w>>
<1>. USE DEF RtBounds
<1>0. w * WeekLen \in Nat /\ w * WeekLen + WeekLen <= Weekly * WeekLen BY Monotone
<1>1. a \in Week(w) <=> Daily + w * WeekLen <= a /\ a <= Daily + w * WeekLen + (WeekLen - 1)
  <2>1. ASSUME Daily + w * WeekLen <= a, a <= Daily + w * WeekLen + (WeekLen - 1)
        PROVE  a \in Week(w)
    <3>1. a - (Daily + w * WeekLen) \in 0..(WeekLen - 1) BY <1>0, <2>1
    <3>2. a = Daily + w * WeekLen + (a - (Daily + w * WeekLen)) BY <1>0
    <3>. QED BY <3>1, <3>2 DEF Week
  <2>. QED BY <1>0, <2>1 DEF Week
<1>2. ASSUME a \in Week(w) PROVE Rt!Bucket(a) = <<"weekly", w>>
  <2>1. a - Daily \in Nat /\ w * WeekLen <= a - Daily /\ a - Daily <= w * WeekLen + (WeekLen - 1)
    BY <1>0, <1>1, <1>2
  <2>2. (a - Daily) \div WeekLen = w BY <2>1, QuotientIs
  <2>3. ~(a < Daily) /\ a < OfWeeks BY <1>0, <2>1 DEF OfWeeks
  <2>. QED BY <2>2, <2>3, BucketCases
<1>3. ASSUME Rt!Bucket(a) = <<"weekly", w>> PROVE a \in Week(w)
  <2>1. ~(a < Daily) /\ a < OfWeeks /\ (a - Daily) \div WeekLen = w
    BY <1>3, BucketCases DEF Rt!Outside
  <2>2. a - Daily \in Nat BY <2>1
  <2>3. w * WeekLen <= a - Daily /\ a - Daily <= w * WeekLen + (WeekLen - 1)
    BY <2>1, <2>2, Quotient
  <2>. QED BY <1>0, <1>1, <2>2, <2>3
<1>. QED BY <1>2, <1>3

LEMMA MonthBucket ==
  ASSUME RtBounds, NEW a \in Nat, NEW m \in Nat, m < Monthly
  PROVE  a \in Month(m) <=> Rt!Bucket(a) = <<"monthly", m>>
<1>0. m * MonthLen \in Nat /\ m * MonthLen + MonthLen <= Monthly * MonthLen
  BY Monotone DEF RtBounds
<1>1. a \in Month(m) <=> OfWeeks + m * MonthLen <= a /\ a <= OfWeeks + m * MonthLen + (MonthLen - 1)
  <2>1. ASSUME OfWeeks + m * MonthLen <= a, a <= OfWeeks + m * MonthLen + (MonthLen - 1)
        PROVE  a \in Month(m)
    <3>1. a - (OfWeeks + m * MonthLen) \in 0..(MonthLen - 1) BY <1>0, <2>1, Spans DEF RtBounds
    <3>2. a = OfWeeks + m * MonthLen + (a - (OfWeeks + m * MonthLen)) BY <1>0, Spans
    <3>. QED BY <3>1, <3>2 DEF Month, OfWeeks
  <2>2. ASSUME NEW d \in 0..(MonthLen - 1), a = OfWeeks + m * MonthLen + d
        PROVE  OfWeeks + m * MonthLen <= a /\ a <= OfWeeks + m * MonthLen + (MonthLen - 1)
    BY <1>0, <2>2, Spans DEF RtBounds
  <2>. QED BY <2>1, <2>2 DEF Month, OfWeeks
<1>2. ASSUME a \in Month(m) PROVE Rt!Bucket(a) = <<"monthly", m>>
  <2>1. /\ a - OfWeeks \in Nat /\ m * MonthLen <= a - OfWeeks
        /\ a - OfWeeks <= m * MonthLen + (MonthLen - 1)
    BY <1>0, <1>1, <1>2, Spans DEF RtBounds
  <2>2. (a - OfWeeks) \div MonthLen = m BY <2>1, QuotientIs DEF RtBounds
  <2>3. ~(a < Daily) /\ ~(a < OfWeeks) /\ a < OfMonths
    BY <1>0, <2>1, Spans DEF OfMonths, RtBounds
  <2>. QED BY <2>2, <2>3, BucketCases
<1>3. ASSUME Rt!Bucket(a) = <<"monthly", m>> PROVE a \in Month(m)
  <2>1. ~(a < OfWeeks) /\ (a - OfWeeks) \div MonthLen = m
    BY <1>3, BucketCases DEF Rt!Outside
  <2>2. a - OfWeeks \in Nat BY <2>1, Spans
  <2>3. m * MonthLen <= a - OfWeeks /\ a - OfWeeks <= m * MonthLen + (MonthLen - 1)
    BY <2>1, <2>2, Quotient DEF RtBounds
  <2>. QED BY <1>0, <1>1, <2>2, <2>3, Spans DEF RtBounds
<1>. QED BY <1>2, <1>3

(* Every period of the policy is a bucket, and every bucket is one of its periods. *)
LEMMA PeriodIsBucket ==
  ASSUME RtBounds, NEW p \in Rt!Periods
  PROVE  \E b : b # Rt!Outside /\ \A a \in Nat : a \in p <=> Rt!Bucket(a) = b
<1>1. \/ \E d \in 0..Daily : d < Daily /\ p = {d}
      \/ \E w \in 0..Weekly : w < Weekly /\ p = Week(w)
      \/ \E m \in 0..Monthly : m < Monthly /\ p = Month(m)
  BY DEF Rt!Periods, Week, Month
<1>2. ASSUME NEW d \in 0..Daily, d < Daily, p = {d}
      PROVE  <<"daily", d>> # Rt!Outside /\ \A a \in Nat : a \in p <=> Rt!Bucket(a) = <<"daily", d>>
  BY <1>2, BucketCases DEF RtBounds, Rt!Outside
<1>3. ASSUME NEW w \in 0..Weekly, w < Weekly, p = Week(w)
      PROVE  <<"weekly", w>> # Rt!Outside /\ \A a \in Nat : a \in p <=> Rt!Bucket(a) = <<"weekly", w>>
  BY <1>3, WeekBucket DEF RtBounds, Rt!Outside
<1>4. ASSUME NEW m \in 0..Monthly, m < Monthly, p = Month(m)
      PROVE  <<"monthly", m>> # Rt!Outside /\ \A a \in Nat : a \in p <=> Rt!Bucket(a) = <<"monthly", m>>
  BY <1>4, MonthBucket DEF RtBounds, Rt!Outside
<1>. QED BY <1>1, <1>2, <1>3, <1>4

LEMMA BucketHasPeriod ==
  ASSUME RtBounds, NEW a \in Nat, Rt!Bucket(a) # Rt!Outside
  PROVE  \E p \in Rt!Periods : a \in p
<1>1. CASE a < Daily
  <2>1. a \in {n \in 0..Daily : n < Daily} BY <1>1 DEF RtBounds
  <2>2. {a} \in Rt!Periods BY <2>1 DEF Rt!Periods
  <2>. QED BY <2>2
<1>2. CASE ~(a < Daily) /\ a < OfWeeks
  <2>. DEFINE w == (a - Daily) \div WeekLen
  <2>1. a - Daily \in Nat BY <1>2 DEF RtBounds
  <2>2. w \in Nat /\ w * WeekLen <= a - Daily BY <2>1, Quotient DEF RtBounds
  <2>3. Rt!Bucket(a) = <<"weekly", w>> BY <1>2, BucketCases
  <2>. HIDE DEF w
  <2>4. w < Weekly
    <3>1. SUFFICES ASSUME Weekly <= w PROVE FALSE BY <2>2 DEF RtBounds
    <3>2. Weekly * WeekLen <= w * WeekLen
      <4>1. CASE Weekly = w
        <5>1. w * WeekLen \in Nat BY <2>2 DEF RtBounds
        <5>. QED BY <4>1, <5>1
      <4>2. CASE Weekly < w BY <2>2, <4>2, Monotone DEF RtBounds
      <4>. QED BY <2>2, <3>1, <4>1, <4>2 DEF RtBounds
    <3>. QED BY <1>2, <2>1, <2>2, <3>2 DEF OfWeeks, RtBounds
  <2>5. w \in {n \in 0..Weekly : n < Weekly} BY <2>2, <2>4 DEF RtBounds
  <2>6. Week(w) \in Rt!Periods BY <2>5 DEF Rt!Periods, Week
  <2>. QED BY <2>2, <2>3, <2>4, <2>6, WeekBucket
<1>3. CASE ~(a < OfWeeks) /\ a < OfMonths
  <2>. DEFINE m == (a - OfWeeks) \div MonthLen
  <2>1. a - OfWeeks \in Nat BY <1>3, Spans
  <2>2. m \in Nat /\ m * MonthLen <= a - OfWeeks BY <2>1, Quotient DEF RtBounds
  <2>3. Rt!Bucket(a) = <<"monthly", m>> BY <1>3, BucketCases, Spans DEF RtBounds
  <2>. HIDE DEF m
  <2>4. m < Monthly
    <3>1. SUFFICES ASSUME Monthly <= m PROVE FALSE BY <2>2 DEF RtBounds
    <3>2. Monthly * MonthLen <= m * MonthLen
      <4>1. CASE Monthly = m
        <5>1. m * MonthLen \in Nat BY <2>2 DEF RtBounds
        <5>. QED BY <4>1, <5>1
      <4>2. CASE Monthly < m BY <2>2, <4>2, Monotone DEF RtBounds
      <4>. QED BY <2>2, <3>1, <4>1, <4>2 DEF RtBounds
    <3>. QED BY <1>3, <2>1, <2>2, <3>2, Spans DEF OfMonths, RtBounds
  <2>5. m \in {n \in 0..Monthly : n < Monthly} BY <2>2, <2>4 DEF RtBounds
  <2>6. Month(m) \in Rt!Periods BY <2>5 DEF Rt!Periods, Month
  <2>. QED BY <2>2, <2>3, <2>4, <2>6, MonthBucket
<1>. QED BY <1>1, <1>2, <1>3, BucketCases, Spans DEF RtBounds

(* Whatever the table and the clock, ages of which may be in the future. *)
LEMMA PolicyOf ==
  ASSUME RtBounds, NEW table, NEW now \in Int,
         \A r \in table : r.day \in Int /\ r.born \in Int
  PROVE  Rt!Prunable(table, now) = {r \in table : Rt!MayGo(table, r, now)}
<1>1. \A r \in table : Rt!Age(r, now) \in Nat BY DEF Rt!Age
<1>2. \A r, s \in table : Rt!SamePeriod(r, s, now) <=>
         /\ Rt!Bucket(Rt!Age(r, now)) = Rt!Bucket(Rt!Age(s, now))
         /\ Rt!Bucket(Rt!Age(r, now)) # Rt!Outside
  BY <1>1, PeriodIsBucket, BucketHasPeriod DEF Rt!SamePeriod
<1>3. \A r \in table : Rt!Young(r, now) <=> Rt!Bucket(Rt!Age(r, now)) # Rt!Outside
  BY <1>1, PeriodIsBucket, BucketHasPeriod DEF Rt!Young
<1>4. ASSUME NEW t \in SUBSET table, NEW r \in t
      PROVE  r \in Rt!Newest(t) <=> ~\E s \in t : s.born > r.born
  BY <1>4 DEF Rt!Newest
<1>. DEFINE V == Rt!Verified(table)
            R == Rt!Rotating(table)
<1>5. V \in SUBSET table /\ R \in SUBSET V BY DEF Rt!Verified, Rt!Rotating
<1>6. ASSUME NEW r \in R
      PROVE  r \in UNION {Rt!Newest(Rt!InBucket(table, b, now)) : b \in Rt!Buckets(table, now)}
             <=> Rt!Young(r, now) /\ ~\E s \in R : s.born > r.born /\ Rt!SamePeriod(r, s, now)
  <2>. DEFINE c == Rt!Bucket(Rt!Age(r, now))
              I == Rt!InBucket(table, c, now)
  <2>1. r \in I /\ I \in SUBSET table BY <1>5, <1>6 DEF Rt!InBucket, Rt!Rotating
  <2>2. r \in UNION {Rt!Newest(Rt!InBucket(table, b, now)) : b \in Rt!Buckets(table, now)}
        <=> c # Rt!Outside /\ r \in Rt!Newest(I)
    <3>1. ASSUME NEW b, r \in Rt!Newest(Rt!InBucket(table, b, now)) PROVE b = c
      BY <3>1 DEF Rt!Newest, Rt!InBucket
    <3>2. c # Rt!Outside => c \in Rt!Buckets(table, now) BY <1>6 DEF Rt!Buckets
    <3>3. c \in Rt!Buckets(table, now) => c # Rt!Outside BY DEF Rt!Buckets
    <3>. QED BY <3>1, <3>2, <3>3
  <2>3. r \in Rt!Newest(I) <=> ~\E s \in I : s.born > r.born BY <1>4, <2>1
  <2>4. c # Rt!Outside =>
          ((\E s \in I : s.born > r.born) <=> \E s \in R : s.born > r.born /\ Rt!SamePeriod(r, s, now))
    BY <1>2, <1>5, <1>6 DEF Rt!InBucket
  <2>. QED BY <1>3, <1>5, <1>6, <2>2, <2>3, <2>4
<1>7. ASSUME NEW r \in V, r.kind # "pre_update"
      PROVE  r \in R
  BY <1>7 DEF Rt!Rotating
<1>8. ASSUME NEW r \in V
      PROVE  r \notin Rt!Kept(table, now) <=> Rt!MayGo(table, r, now)
  <2>1. r \in Rt!Newest(V) <=> ~\E s \in V : s.born > r.born BY <1>4, <1>5, <1>8
  <2>2. CASE r.kind = "pre_update"
    BY <1>8, <2>2 DEF Rt!Kept, Rt!MayGo, Rt!Rotating
  <2>3. CASE r.kind # "pre_update"
    BY <1>6, <1>7, <1>8, <2>1, <2>3 DEF Rt!Kept, Rt!MayGo, Rt!Verified
  <2>. QED BY <2>2, <2>3
<1>9. \A r \in table : Rt!MayGo(table, r, now) => r \in V BY DEF Rt!MayGo, Rt!Verified
<1>. QED BY <1>5, <1>8, <1>9 DEF Rt!Prunable

(* Of every table the rotation removes exactly what the policy lets go: the newest of *)
(* each day, week and month it looks back on stays, and every pre_update backup and   *)
(* the newest of all (rotation.ts:14-20, 65-80).                                      *)
THEOREM PolicyStays == ASSUME RtBounds, Ages \subseteq Int PROVE Spec => []RotationPolicy
<1>. DEFINE Dated == \A r \in sample : r.day \in Int /\ r.born \in Int
<1>1. Init => Dated
  <2>1. ASSUME NEW t \in Tables, NEW r \in t PROVE r.day \in Int /\ r.born \in Int
    <3>1. PICK d \in [1..3 -> Days3], n \in 1..3 : r.day = d[n] /\ r.born = n
      BY <2>1 DEF Tables
    <3>2. d[n] \in Days3 BY <3>1
    <3>. QED BY <3>1, <3>2 DEF Days3, Today
  <2>. QED BY <2>1 DEF Init
<1>2. Dated /\ [Next]_vars => Dated' BY DEF Next, vars
<1>3. Dated => RotationPolicy BY PolicyOf DEF RotationPolicy, Today
<1>. HIDE DEF Dated
<1>. QED BY <1>1, <1>2, <1>3, PTL DEF Spec

-----------------------------------------------------------------------------
(* Accounts: the company a bill goes to.  The companies of the two providers are *)
(* told apart, by the prefix of their ids and the provider of their row.         *)

AcBounds == Realms \cap Orgs = {} /\ "none" \notin Realms \cup Orgs

Company == Realms \cup Orgs
AcRow == [company : Company, gate : BOOLEAN]
AcRun == [at : {"idle", "org", "row", "write", "read", "built", "verified"},
          row : Realms \cup {"none"}, write : Company \cup {"none"}, read : Company \cup {"none"},
          swapped : BOOLEAN]

AcType ==
  /\ conf \in Ac!Configurations /\ rows \in Seq(AcRow) /\ builders \in [Callers -> AcRun]
  /\ token \in [{"qbo", "xero"} -> Company \cup {"none"}]
  /\ token["qbo"] \in Realms \cup {"none"} /\ token["xero"] \in Orgs \cup {"none"}
  /\ link \in Company \cup {"none"} /\ opened \subseteq Realms
  /\ written \subseteq [company : Company, row : Realms \cup {"none"}, by : Callers,
                      swapped : BOOLEAN, gate : BOOLEAN]

(* A gate that is open was opened by the owner. *)
GatesOpened == \A n \in DOMAIN rows : rows[n].gate => rows[n].company \in opened

(* What a caller holds on its way through the factory: a row of the configured company *)
(* whose gate was opened, the write client of that company, and a read client of the   *)
(* same one unless another company was connected meanwhile.                            *)
OfItsCompany(r) ==
  /\ r.at \in {"read", "built", "verified"} => r.write \in Company
  /\ conf.realm # "none" /\ r.at \in {"write", "read", "built", "verified"}
       /\ (r.at # "write" => r.write \in Realms)
     => r.row = conf.realm /\ r.row \in opened /\ (r.at # "write" => r.write = conf.realm)
  /\ ~r.swapped /\ r.at = "read" => r.write = token["qbo"]
  /\ ~r.swapped /\ r.at \in {"built", "verified"} => r.read = r.write
RunsKept == \A w \in Callers :
  /\ OfItsCompany(builders[w])
  /\ builders[w].at = "verified" => Ac!MayPost(w) /\ Ac!Identified(w)

AcInv == AcType /\ GatesOpened /\ RunsKept /\ Ac!AccountsHold

LEMMA AcInit == ASSUME AcBounds, Ac!Init PROVE AcInv
<1>. USE DEF Ac!Init, Ac!NoRun, Ac!None
<1>1. AcType
  <2>1. conf \in Ac!Configurations /\ rows \in Seq(AcRow) OBVIOUS
  <2>2. builders \in [Callers -> AcRun] BY DEF AcRun
  <2>. QED BY <2>1, <2>2 DEF AcType
<1>2. GatesOpened BY DEF GatesOpened
<1>3. RunsKept BY DEF RunsKept, OfItsCompany
<1>4. Ac!AccountsHold
  BY DEF Ac!AccountsHold, Ac!BoundCompanyOnly, Ac!NamedCompanyOnly, Ac!UnattendedNeverProduction,
         Ac!OfQbo
<1>. QED BY <1>1, <1>2, <1>3, <1>4 DEF AcInv

(* Rows that are taken out and put at the end are the rows there were. *)
LEMMA WithoutOne ==
  ASSUME NEW S, NEW s \in Seq(S), NEW n \in 1..Len(s)
  PROVE  /\ Ac!RemoveAt(s, n) \in Seq(S)
         /\ \A k \in DOMAIN Ac!RemoveAt(s, n) : \E m \in DOMAIN s : Ac!RemoveAt(s, n)[k] = s[m]
<1>. DEFINE a == SubSeq(s, 1, n - 1)
            b == SubSeq(s, n + 1, Len(s))
<1>1. a \in Seq(S) /\ b \in Seq(S) /\ Len(a) = n - 1 /\ Len(b) = Len(s) - n OBVIOUS
<1>0. Len(s) \in Nat /\ n \in Nat OBVIOUS
<1>2. \A k \in 1..(n - 1) : a[k] = s[k] OBVIOUS
<1>3. \A k \in 1..(Len(s) - n) : b[k] = s[n + k] OBVIOUS
<1>4. Ac!RemoveAt(s, n) = a \o b BY DEF Ac!RemoveAt
<1>. HIDE DEF a, b
<1>5. a \o b \in Seq(S) /\ Len(a \o b) = Len(s) - 1 BY <1>1
<1>6. ASSUME NEW k \in 1..(Len(s) - 1) PROVE \E m \in 1..Len(s) : (a \o b)[k] = s[m]
  <2>1. CASE k <= n - 1
    <3>1. (a \o b)[k] = a[k] BY <1>1, <2>1
    <3>2. k \in 1..Len(s) /\ k \in 1..(n - 1) BY <2>1
    <3>. QED BY <1>2, <3>1, <3>2
  <2>2. CASE k > n - 1
    <3>1. (a \o b)[k] = b[k - (n - 1)] BY <1>1, <2>2
    <3>2. k - (n - 1) \in 1..(Len(s) - n) /\ k + 1 \in 1..Len(s) /\ n + (k - (n - 1)) = k + 1
      BY <2>2
    <3>. QED BY <1>3, <3>1, <3>2
  <2>3. k <= n - 1 \/ k > n - 1 BY <1>0
  <2>. QED BY <2>1, <2>2, <2>3
<1>7. DOMAIN (a \o b) = 1..(Len(s) - 1) /\ DOMAIN s = 1..Len(s) BY <1>5
<1>. QED BY <1>4, <1>5, <1>6, <1>7

LEMMA RenewedRows ==
  ASSUME AcType, GatesOpened, NEW c \in Company, NEW g \in BOOLEAN
  PROVE  LET t == Ac!Renewed(c, g) IN
         /\ t \in Seq(AcRow)
         /\ \A k \in DOMAIN t : t[k].gate => t[k].company \in opened \/ (t[k].company = c /\ g)
<1>. DEFINE n == CHOOSE m \in Ac!RowsOf(c) : TRUE
            others == IF Ac!RowsOf(c) = {} THEN rows ELSE Ac!RemoveAt(rows, n)
            e == [company |-> c, gate |-> g]
<1>1. rows \in Seq(AcRow) /\ e \in AcRow BY DEF AcType, AcRow
<1>2. /\ others \in Seq(AcRow)
      /\ \A k \in DOMAIN others : \E m \in DOMAIN rows : others[k] = rows[m]
  <2>1. CASE Ac!RowsOf(c) = {} BY <1>1, <2>1
  <2>2. CASE Ac!RowsOf(c) # {}
    <3>1. n \in 1..Len(rows) BY <1>1, <2>2 DEF Ac!RowsOf
    <3>. HIDE DEF n
    <3>. QED BY <1>1, <2>2, <3>1, WithoutOne
  <2>. QED BY <2>1, <2>2
<1>3. Ac!Renewed(c, g) = Append(others, e) BY DEF Ac!Renewed
<1>. HIDE DEF others, n, e
<1>4. /\ Append(others, e) \in Seq(AcRow) /\ Len(Append(others, e)) = Len(others) + 1
      /\ \A k \in 1..Len(others) : Append(others, e)[k] = others[k]
      /\ Append(others, e)[Len(others) + 1] = e
  BY <1>1, <1>2
<1>5. ASSUME NEW k \in DOMAIN Append(others, e), Append(others, e)[k].gate
      PROVE  \/ Append(others, e)[k].company \in opened
             \/ Append(others, e)[k].company = c /\ g
  <2>1. k \in 1..Len(others) \/ k = Len(others) + 1 BY <1>2, <1>4
  <2>2. CASE k \in 1..Len(others)
    <3>1. k \in DOMAIN others BY <1>2, <2>2
    <3>. QED BY <1>2, <1>4, <1>5, <2>2, <3>1 DEF GatesOpened
  <2>3. CASE k = Len(others) + 1 BY <1>4, <1>5, <2>3 DEF e
  <2>. QED BY <2>1, <2>2, <2>3
<1>. QED BY <1>3, <1>4, <1>5

(* What a step that leaves the bills alone has to keep. *)
LEMMA BillsStay ==
  ASSUME Ac!AccountsHold, written' = written, conf' = conf, opened \subseteq opened'
  PROVE  Ac!AccountsHold'
<1>1. Ac!BoundCompanyOnly' BY DEF Ac!AccountsHold, Ac!BoundCompanyOnly, Ac!OfQbo
<1>2. Ac!NamedCompanyOnly' BY DEF Ac!AccountsHold, Ac!NamedCompanyOnly, Ac!Name
<1>3. Ac!UnattendedNeverProduction'
  BY DEF Ac!AccountsHold, Ac!UnattendedNeverProduction, Ac!Production
<1>. QED BY <1>1, <1>2, <1>3 DEF Ac!AccountsHold

LEMMA SaveTokenStep ==
  ASSUME AcBounds, AcInv, NEW c \in Company, Ac!SaveToken(c)
  PROVE  AcInv'
<1>1. /\ token' = [token EXCEPT ![Ac!Provider(c)] = c] /\ link' = c
      /\ builders' = [w \in Callers |-> [builders[w] EXCEPT !.swapped = builders[w].at # "idle"]]
      /\ UNCHANGED <<conf, rows, opened, written>>
  BY DEF Ac!SaveToken
<1>2. builders \in [Callers -> AcRun] BY DEF AcInv, AcType
<1>3. \A w \in Callers : builders'[w] = [builders[w] EXCEPT !.swapped = builders[w].at # "idle"]
  BY <1>1
<1>4. \A w \in Callers :
        /\ builders'[w] \in AcRun /\ builders'[w].at = builders[w].at
        /\ builders'[w].row = builders[w].row /\ builders'[w].write = builders[w].write
        /\ builders'[w].read = builders[w].read
        /\ builders'[w].swapped = (builders[w].at # "idle")
  <2>. SUFFICES ASSUME NEW w \in Callers
                PROVE  /\ builders'[w] \in AcRun /\ builders'[w].at = builders[w].at
                       /\ builders'[w].row = builders[w].row
                       /\ builders'[w].write = builders[w].write
                       /\ builders'[w].read = builders[w].read
                       /\ builders'[w].swapped = (builders[w].at # "idle")
    OBVIOUS
  <2>1. PICK b \in BOOLEAN : b = (builders[w].at # "idle") OBVIOUS
  <2>2. builders[w] \in AcRun BY <1>2
  <2>3. builders'[w] = [builders[w] EXCEPT !.swapped = b] BY <1>3, <2>1
  <2>4. builders'[w] \in AcRun /\ builders'[w].swapped = b BY <2>2, <2>3 DEF AcRun
  <2>. QED BY <2>1, <2>2, <2>3, <2>4 DEF AcRun
<1>5. AcType'
  <2>1. builders' \in [Callers -> AcRun] BY <1>1, <1>4
  <2>2. /\ token' \in [{"qbo", "xero"} -> Company \cup {"none"}]
        /\ token'["qbo"] \in Realms \cup {"none"} /\ token'["xero"] \in Orgs \cup {"none"}
    BY <1>1 DEF AcInv, AcType, AcBounds, Company, Ac!Provider
  <2>. QED BY <1>1, <2>1, <2>2 DEF AcInv, AcType
<1>6. GatesOpened' BY <1>1 DEF AcInv, GatesOpened
<1>7. RunsKept'
  <2>1. ASSUME NEW w \in Callers PROVE OfItsCompany(builders[w])'
    <3>1. OfItsCompany(builders[w]) BY DEF AcInv, RunsKept
    <3>2. builders[w].at = "idle" \/ builders'[w].swapped BY <1>4
    <3>3. conf' = conf /\ opened' = opened BY <1>1
    <3>. QED BY <1>4, <3>1, <3>2, <3>3 DEF OfItsCompany
  <2>2. ASSUME NEW w \in Callers, builders'[w].at = "verified"
        PROVE  Ac!MayPost(w)' /\ Ac!Identified(w)'
    BY <1>1, <1>4, <2>2 DEF AcInv, RunsKept, Ac!MayPost, Ac!Identified, Ac!Name, Ac!Production
  <2>. QED BY <2>1, <2>2 DEF RunsKept
<1>8. Ac!AccountsHold' BY <1>1, BillsStay DEF AcInv
<1>. QED BY <1>5, <1>6, <1>7, <1>8 DEF AcInv

(* The rows change, and the gates that are open in them were opened. *)
LEMMA RowsChange ==
  ASSUME AcInv, UNCHANGED <<conf, token, builders, written>>, rows' \in Seq(AcRow), GatesOpened',
         link' \in Company \cup {"none"}, opened \subseteq opened', opened' \subseteq Realms
  PROVE  AcInv'
<1>1. AcType' BY DEF AcInv, AcType
<1>2. RunsKept'
  BY DEF AcInv, RunsKept, OfItsCompany, Ac!MayPost, Ac!Identified, Ac!Name, Ac!Production
<1>3. Ac!AccountsHold' BY BillsStay DEF AcInv
<1>. QED BY <1>1, <1>2, <1>3 DEF AcInv

LEMMA PageSteps ==
  ASSUME AcInv, \/ Ac!UpsertConnection \/ Ac!UpsertFails \/ Ac!ListConnections
                \/ \E c \in Realms, e \in BOOLEAN : Ac!SetOwnerWriteGate(c, e)
  PROVE  AcInv'
<1>1. CASE Ac!UpsertFails \/ Ac!ListConnections
  BY <1>1, RowsChange
  DEF Ac!UpsertFails, Ac!ListConnections, AcInv, AcType, GatesOpened, Ac!None
<1>2. CASE Ac!UpsertConnection
  <2>1. link \in Company /\ rows' = Ac!Renewed(link, Ac!Gate(link)) /\ link' = "none"
        /\ UNCHANGED <<conf, token, opened, builders, written>>
    BY <1>2 DEF Ac!UpsertConnection, Ac!None, AcInv, AcType
  <2>2. Ac!Gate(link) \in BOOLEAN /\ (Ac!Gate(link) => link \in opened)
    BY DEF Ac!Gate, Ac!RowsOf, AcInv, GatesOpened
  <2>3. rows' \in Seq(AcRow) /\ GatesOpened'
    <3>. DEFINE t == Ac!Renewed(link, Ac!Gate(link))
    <3>1. /\ t \in Seq(AcRow)
          /\ \A k \in DOMAIN t : t[k].gate => t[k].company \in opened
      BY <2>1, <2>2, RenewedRows DEF AcInv
    <3>. HIDE DEF t
    <3>2. rows' = t BY <2>1 DEF t
    <3>. QED BY <2>1, <3>1, <3>2 DEF GatesOpened
  <2>. QED BY <2>1, <2>3, RowsChange DEF AcInv, AcType
<1>3. ASSUME NEW c \in Realms, NEW e \in BOOLEAN, Ac!SetOwnerWriteGate(c, e) PROVE AcInv'
  <2>1. /\ rows' = Ac!Renewed(c, e) /\ opened' = IF e THEN opened \cup {c} ELSE opened
        /\ UNCHANGED <<conf, token, link, builders, written>>
    BY <1>3 DEF Ac!SetOwnerWriteGate
  <2>2. rows' \in Seq(AcRow) /\ GatesOpened'
    <3>. DEFINE t == Ac!Renewed(c, e)
    <3>1. /\ t \in Seq(AcRow)
          /\ \A k \in DOMAIN t : t[k].gate => t[k].company \in opened \/ (t[k].company = c /\ e)
      BY RenewedRows DEF AcInv, Company
    <3>. HIDE DEF t
    <3>2. rows' = t BY <2>1 DEF t
    <3>. QED BY <2>1, <3>1, <3>2 DEF GatesOpened
  <2>. QED BY <2>1, <2>2, RowsChange DEF AcInv, AcType
<1>. QED BY <1>1, <1>2, <1>3

(* A caller goes on with a record that is as it should be. *)
LEMMA RunGoesOn ==
  ASSUME AcInv, NEW w \in Callers, NEW r \in AcRun,
         builders' = [builders EXCEPT ![w] = r], OfItsCompany(r),
         r.at = "verified" => (w = "queue" => ~Ac!Production(r.write))
                              /\ (Ac!Name(r.write) # "none" => r.read = Ac!Name(r.write)),
         UNCHANGED <<conf, rows, token, link, opened, written>>
  PROVE  AcInv'
<1>1. builders' \in [Callers -> AcRun] /\ builders'[w] = r
      /\ \A v \in Callers : v # w => builders'[v] = builders[v]
  BY DEF AcInv, AcType
<1>2. AcType' BY <1>1 DEF AcInv, AcType
<1>3. GatesOpened' BY DEF AcInv, GatesOpened
<1>4. RunsKept'
  <2>. SUFFICES ASSUME NEW v \in Callers
                PROVE  /\ OfItsCompany(builders[v])'
                       /\ (builders[v].at = "verified" => Ac!MayPost(v) /\ Ac!Identified(v))'
    BY DEF RunsKept
  <2>1. CASE v = w
    BY <1>1, <2>1
    DEF OfItsCompany, Ac!MayPost, Ac!Identified, Ac!Name, Ac!Production, Ac!None
  <2>2. CASE v # w
    BY <1>1, <2>2
    DEF AcInv, RunsKept, OfItsCompany, Ac!MayPost, Ac!Identified, Ac!Name, Ac!Production, Ac!None
  <2>. QED BY <2>1, <2>2
<1>5. Ac!AccountsHold' BY BillsStay DEF AcInv
<1>. QED BY <1>2, <1>3, <1>4, <1>5 DEF AcInv

LEMMA CallerSteps ==
  ASSUME AcBounds, AcInv, NEW w \in Callers,
         \/ Ac!Begin(w) \/ Ac!ReadRow(w) \/ Ac!LoadWriteClient(w) \/ Ac!LoadReadClient(w)
         \/ Ac!BuildXero(w) \/ Ac!Verify(w) \/ Ac!Stop(w)
  PROVE  AcInv'
<1>1. /\ builders \in [Callers -> AcRun] /\ builders[w] \in AcRun /\ OfItsCompany(builders[w])
      /\ UNCHANGED <<conf, rows, token, link, opened, written>>
      /\ token["qbo"] \in Realms \cup {"none"} /\ token["xero"] \in Orgs \cup {"none"}
  BY DEF AcInv, AcType, RunsKept, Ac!Begin, Ac!ReadRow, Ac!LoadWriteClient, Ac!LoadReadClient,
         Ac!BuildXero, Ac!Verify, Ac!Stop, Ac!Others
<1>2. CASE Ac!Begin(w)
  <2>1. PICK to \in {"org", "row"} : builders' = [builders EXCEPT ![w].at = to]
    BY <1>2 DEF Ac!Begin, Ac!Goes
  <2>2. builders[w].at = "idle" BY <1>2 DEF Ac!Begin
  <2>. DEFINE r == [builders[w] EXCEPT !.at = to]
  <2>3. r \in AcRun /\ r.at = to /\ builders' = [builders EXCEPT ![w] = r] BY <1>1, <2>1 DEF AcRun
  <2>. HIDE DEF r
  <2>4. OfItsCompany(r) BY <2>3 DEF OfItsCompany
  <2>. QED BY <1>1, <2>3, <2>4, RunGoesOn
<1>3. CASE Ac!ReadRow(w)
  <2>1. PICK n \in Ac!NewestQbo :
          /\ rows[n].gate /\ (conf.realm # "none" => rows[n].company = conf.realm)
          /\ builders' = [builders EXCEPT ![w].at = "write", ![w].row = rows[n].company]
    BY <1>3 DEF Ac!ReadRow, Ac!None
  <2>2. n \in DOMAIN rows /\ rows[n].company \in Realms /\ rows[n].company \in opened
    BY <2>1 DEF Ac!NewestQbo, AcInv, GatesOpened
  <2>. DEFINE r == [builders[w] EXCEPT !.at = "write", !.row = rows[n].company]
  <2>3. /\ r \in AcRun /\ r.at = "write" /\ r.row = rows[n].company
        /\ builders' = [builders EXCEPT ![w] = r]
    BY <1>1, <2>1, <2>2 DEF AcRun
  <2>. HIDE DEF r
  <2>4. OfItsCompany(r) BY <2>1, <2>2, <2>3 DEF OfItsCompany
  <2>. QED BY <1>1, <2>3, <2>4, RunGoesOn
<1>4. CASE Ac!LoadWriteClient(w)
  <2>. DEFINE c == token["qbo"]
              r == [builders[w] EXCEPT !.at = "read", !.write = c]
  <2>1. builders[w].at = "write" /\ c \in Realms /\ (conf.realm # "none" => c = conf.realm)
    BY <1>1, <1>4 DEF Ac!LoadWriteClient, Ac!Usable, Ac!None
  <2>2. builders' = [builders EXCEPT ![w] = r] BY <1>1, <1>4 DEF Ac!LoadWriteClient
  <2>3. /\ r \in AcRun /\ r.at = "read" /\ r.row = builders[w].row /\ r.write = token["qbo"]
        /\ r.swapped = builders[w].swapped
    BY <1>1, <2>1 DEF AcRun, Company
  <2>. HIDE DEF r
  <2>4. OfItsCompany(r) BY <1>1, <2>1, <2>3 DEF OfItsCompany, Company
  <2>. QED BY <1>1, <2>2, <2>3, <2>4, RunGoesOn
<1>5. CASE Ac!LoadReadClient(w)
  <2>. DEFINE c == token["qbo"]
              r == [builders[w] EXCEPT !.at = "built", !.read = c]
  <2>1. builders[w].at = "read" /\ c \in Realms
    BY <1>1, <1>5 DEF Ac!LoadReadClient, Ac!Usable, Ac!None
  <2>2. builders' = [builders EXCEPT ![w] = r] BY <1>1, <1>5 DEF Ac!LoadReadClient
  <2>3. /\ r \in AcRun /\ r.at = "built" /\ r.row = builders[w].row
        /\ r.write = builders[w].write /\ r.read = token["qbo"]
        /\ r.swapped = builders[w].swapped
    BY <1>1, <2>1 DEF AcRun, Company
  <2>. HIDE DEF r
  <2>4. OfItsCompany(r) BY <1>1, <2>1, <2>3 DEF OfItsCompany
  <2>. QED BY <1>1, <2>2, <2>3, <2>4, RunGoesOn
<1>6. CASE Ac!BuildXero(w)
  <2>. DEFINE c == token["xero"]
              r == [builders[w] EXCEPT !.at = "built", !.write = c, !.read = c]
  <2>1. c \in Orgs /\ c \notin Realms BY <1>1, <1>6 DEF Ac!BuildXero, Ac!None, AcBounds
  <2>2. builders' = [builders EXCEPT ![w] = r] BY <1>1, <1>6 DEF Ac!BuildXero
  <2>3. r \in AcRun /\ r.at = "built" /\ r.write = c /\ r.read = c
    BY <1>1, <2>1 DEF AcRun, Company
  <2>. HIDE DEF r, c
  <2>4. OfItsCompany(r) BY <2>1, <2>3 DEF OfItsCompany, Company
  <2>. QED BY <1>1, <2>2, <2>3, <2>4, RunGoesOn
<1>7. CASE Ac!Verify(w)
  <2>. DEFINE r == [builders[w] EXCEPT !.at = "verified"]
  <2>1. builders[w].at = "built" /\ Ac!MayPost(w) /\ Ac!Identified(w) BY <1>7 DEF Ac!Verify
  <2>2. builders' = [builders EXCEPT ![w] = r] BY <1>1, <1>7 DEF Ac!Verify, Ac!Goes
  <2>3. /\ r \in AcRun /\ r.at = "verified" /\ r.row = builders[w].row
        /\ r.write = builders[w].write /\ r.read = builders[w].read
        /\ r.swapped = builders[w].swapped
    BY <1>1 DEF AcRun
  <2>. HIDE DEF r
  <2>4. OfItsCompany(r) BY <1>1, <2>1, <2>3 DEF OfItsCompany
  <2>. QED BY <1>1, <2>1, <2>2, <2>3, <2>4, RunGoesOn DEF Ac!MayPost, Ac!Identified, Ac!None
<1>8. CASE Ac!Stop(w)
  <2>1. builders' = [builders EXCEPT ![w] = Ac!NoRun] BY <1>8 DEF Ac!Stop, Ac!Ends
  <2>2. Ac!NoRun \in AcRun /\ Ac!NoRun.at = "idle" BY DEF Ac!NoRun, AcRun, Ac!None
  <2>3. OfItsCompany(Ac!NoRun) BY <2>2 DEF OfItsCompany
  <2>. QED BY <1>1, <2>1, <2>2, <2>3, RunGoesOn
<1>. QED BY <1>2, <1>3, <1>4, <1>5, <1>6, <1>7, <1>8

LEMMA CreateStep == ASSUME AcBounds, AcInv, NEW w \in Callers, Ac!Create(w) PROVE AcInv'
<1>. DEFINE r == builders[w]
            g == Ac!Gate(r.write)
            b == [company |-> r.write, row |-> r.row, by |-> w, swapped |-> r.swapped, gate |-> g]
<1>1. /\ r.at = "verified" /\ written' = written \cup {b}
      /\ builders' = [builders EXCEPT ![w] = Ac!NoRun]
      /\ UNCHANGED <<conf, rows, token, link, opened>>
  BY DEF Ac!Create, Ac!Ends, Ac!Others
<1>2. /\ r \in AcRun /\ OfItsCompany(r) /\ Ac!MayPost(w) /\ Ac!Identified(w) /\ r.write \in Company
  BY <1>1 DEF AcInv, AcType, RunsKept, OfItsCompany
<1>3. g \in BOOLEAN BY DEF Ac!Gate, Ac!RowsOf
<1>. HIDE DEF g
<1>4. b \in [company : Company, row : Realms \cup {"none"}, by : Callers, swapped : BOOLEAN,
             gate : BOOLEAN]
  BY <1>2, <1>3 DEF AcRun
<1>5. b.company = r.write /\ b.row = r.row /\ b.by = w /\ b.swapped = r.swapped OBVIOUS
<1>6. conf.realm # "none" /\ r.write \in Realms =>
        r.write = conf.realm /\ r.row = r.write /\ r.write \in opened
  BY <1>1, <1>2 DEF OfItsCompany
<1>7. Ac!Name(r.write) # "none" /\ ~r.swapped => r.write = Ac!Name(r.write)
  BY <1>1, <1>2 DEF OfItsCompany, Ac!Identified, Ac!None
<1>8. w = "queue" => ~Ac!Production(r.write) BY <1>2 DEF Ac!MayPost
<1>. HIDE DEF r, b
<1>9. Ac!AccountsHold'
  <2>1. Ac!BoundCompanyOnly'
    BY <1>1, <1>5, <1>6 DEF AcInv, Ac!AccountsHold, Ac!BoundCompanyOnly, Ac!OfQbo, Ac!None
  <2>2. Ac!NamedCompanyOnly'
    BY <1>1, <1>5, <1>7 DEF AcInv, Ac!AccountsHold, Ac!NamedCompanyOnly, Ac!Name, Ac!None
  <2>3. Ac!UnattendedNeverProduction'
    BY <1>1, <1>5, <1>8 DEF AcInv, Ac!AccountsHold, Ac!UnattendedNeverProduction, Ac!Production
  <2>. QED BY <2>1, <2>2, <2>3 DEF Ac!AccountsHold
<1>10. Ac!NoRun \in AcRun /\ Ac!NoRun.at = "idle" BY DEF Ac!NoRun, AcRun, Ac!None
<1>11. builders' \in [Callers -> AcRun] /\ builders'[w] = Ac!NoRun
       /\ \A v \in Callers : v # w => builders'[v] = builders[v]
  BY <1>1, <1>10 DEF AcInv, AcType
<1>12. AcType' BY <1>1, <1>4, <1>11 DEF AcInv, AcType
<1>13. GatesOpened' BY <1>1 DEF AcInv, GatesOpened
<1>14. RunsKept'
  <2>. SUFFICES ASSUME NEW v \in Callers
                PROVE  /\ OfItsCompany(builders[v])'
                       /\ (builders[v].at = "verified" => Ac!MayPost(v) /\ Ac!Identified(v))'
    BY DEF RunsKept
  <2>1. CASE v = w BY <1>10, <1>11, <2>1 DEF OfItsCompany
  <2>2. CASE v # w
    BY <1>1, <1>11, <2>2
    DEF AcInv, RunsKept, OfItsCompany, Ac!MayPost, Ac!Identified, Ac!Name, Ac!Production, Ac!None
  <2>. QED BY <2>1, <2>2
<1>. QED BY <1>9, <1>12, <1>13, <1>14 DEF AcInv

(* Which company a caller holds, at each step of the factory. *)
THEOREM CompaniesHold == ASSUME AcBounds PROVE Spec => []AcInv
<1>1. Init => AcInv BY AcInit DEF Init
<1>2. AcInv /\ [Next]_vars => AcInv'
  <2>. SUFFICES ASSUME AcInv, [Next]_vars PROVE AcInv' OBVIOUS
  <2>1. CASE Ac!Next BY <2>1, SaveTokenStep, PageSteps, CallerSteps, CreateStep DEF Ac!Next, Company
  <2>2. CASE UNCHANGED acVars
    <3>1. AcType' /\ GatesOpened' BY <2>2 DEF acVars, AcInv, AcType, GatesOpened
    <3>2. RunsKept'
      BY <2>2 DEF acVars, AcInv, RunsKept, OfItsCompany, Ac!MayPost, Ac!Identified, Ac!Name,
                  Ac!Production
    <3>3. Ac!AccountsHold' BY <2>2, BillsStay DEF acVars, AcInv
    <3>. QED BY <3>1, <3>2, <3>3 DEF AcInv
  <2>. QED BY <2>1, <2>2 DEF Next, vars
<1>. QED BY <1>1, <1>2, PTL DEF Spec

(* A bill goes to the company that is configured, by its id after its owner opened the *)
(* gate and by its name, and in production only by an approval (factory.ts:33-41,      *)
(* write.ts:132, posting.ts:123-129, 471-481).                                         *)
THEOREM AccountsStay == ASSUME AcBounds PROVE Spec => []AccountsHold
<1>1. AcInv => AccountsHold BY DEF AcInv, AccountsHold
<1>. QED BY <1>1, CompaniesHold, PTL

-----------------------------------------------------------------------------
(* ReplyDrafts: one request at a time on a message, no update refused for sure and no *)
(* death while the row says proposed; everything else may be lost, late or in vain.   *)

RdBounds == /\ \A v, w \in Requests : v = w
            /\ "update refused" \notin DraftFaults /\ "crash while proposed" \notin DraftFaults

RdRow == [status : Rd!Active \cup {"discarded"}, gid : Nat, copy : Texts]
RdCall == [from : Requests, gid : Nat, copy : Texts, late : Nat]
RdOp == [step : Rd!Steps, row : Nat, gid : Nat, copy : Texts \cup {"none"}, then : Rd!Steps,
         as : {"created", "updated"}]

RdType ==
  /\ replies \in Seq(RdRow) /\ copies \in Seq([state : {"live", "sent", "deleted"}, copy : Texts])
  /\ sending \subseteq RdCall /\ op \in [Requests -> RdOp]
  /\ latest \in 0..Len(replies) /\ troubles \in Nat /\ unsure \subseteq DOMAIN replies

ActiveRow(r) == r \in DOMAIN replies /\ replies[r].status \in Rd!Active
Creates == {c \in sending : c.gid = 0}
NoDraft == Rd!LiveDrafts = {} /\ Creates = {}
OnlyDraft(g) == g \in 1..Len(copies) /\ Rd!LiveDrafts \subseteq {g} /\ Creates = {}

OneActive == \A r, s : ActiveRow(r) /\ ActiveRow(s) => r = s

(* Drafts that exist and creates on their way are one at most. *)
OneDraft ==
  /\ \A g, h \in Rd!LiveDrafts : g = h
  /\ \A c, d \in Creates : c = d
  /\ Rd!LiveDrafts = {} \/ Creates = {}

(* What the active row says about them.  A row that says proposed, and that no request *)
(* is carrying further, has none.                                                      *)
Carried(r) == \E w \in Requests : op[w].row = r /\ op[w].step \in {"send", "wait", "persist", "mark"}
CopyKept(r) ==
  r \notin unsure /\ (replies[r].status = "proposed" =>
                        \E w \in Requests : op[w].row = r /\ op[w].step \in {"persist", "mark"})
    => \A g \in Rd!LiveDrafts : copies[g].copy = replies[r].copy
RowTells ==
  /\ (\A r : ~ActiveRow(r)) => NoDraft
  /\ \A r : ActiveRow(r) =>
       /\ replies[r].gid # 0 => OnlyDraft(replies[r].gid)
       /\ replies[r].status \in {"created", "updated"} => replies[r].gid # 0
       /\ replies[r].status = "proposed" /\ ~Carried(r) => NoDraft
       /\ \A c \in Creates : c.copy = replies[r].copy
       /\ CopyKept(r)

(* A call somebody waits for is that request's; one that nobody waits for any more can *)
(* only change the draft of a row that is marked unsure.                               *)
CallsKept == \A c \in sending :
  /\ c.gid \in 0..Len(copies)
  /\ c.late = 0 => op[c.from].step = "wait" /\ c = Rd!Call(c.from)
  /\ c.late # 0 /\ c.gid \in Rd!LiveDrafts => \A r : ActiveRow(r) => r \in unsure

(* What a request holds at each of its steps. *)
AtWork(o) == LET r == replies[o.row] IN
  /\ ActiveRow(o.row)
  /\ o.gid # 0 => OnlyDraft(o.gid)
  /\ r.gid # 0 => o.gid = r.gid
  /\ o.step = "reconcile" => r.status = "result_unknown" /\ o.gid = r.gid
                             /\ o.then \in {"prepare", "persist", "delete"}
                             /\ (o.then = "prepare" => o.copy \in Texts)
  /\ o.step \in {"prepare", "send", "wait"} => o.copy \in Texts
  /\ o.step = "prepare" /\ o.gid = 0 => r.status # "result_unknown"
  /\ o.step \in {"send", "wait", "mark"} => r.status = "proposed"
  /\ o.step \in {"send", "wait"} => o.copy = r.copy
  /\ o.step = "send" /\ o.gid = 0 => NoDraft
  /\ o.step \in {"persist", "delete"} => o.gid # 0
  /\ o.step = "close" => NoDraft
OpsKept == \A w \in Requests :
  /\ op[w].step # "idle" => AtWork(op[w])
  /\ op[w].step = "wait" => Rd!Call(w) \in sending
  /\ op[w].step = "mark" /\ op[w].gid # 0 => op[w].row \in unsure

RdInv == RdType /\ OneActive /\ OneDraft /\ RowTells /\ CallsKept /\ OpsKept

(* Before the first request there is nothing. *)
LEMMA RdInit == ASSUME Rd!Init PROVE RdInv
<1>. USE DEF Rd!Init
<1>1. RdType
  <2>1. op \in [Requests -> RdOp] BY DEF Rd!Idle, RdOp, Rd!Steps
  <2>. QED BY <2>1 DEF RdType
<1>2. Rd!LiveDrafts = {} /\ Creates = {} BY DEF Rd!LiveDrafts, Creates
<1>3. \A r : ~ActiveRow(r) BY DEF ActiveRow
<1>4. OneActive /\ OneDraft /\ RowTells BY <1>2, <1>3 DEF OneActive, OneDraft, RowTells, NoDraft
<1>5. CallsKept /\ OpsKept BY DEF CallsKept, OpsKept, Rd!Idle
<1>. QED BY <1>1, <1>4, <1>5 DEF RdInv

(* What holds with one request at a time, spelled out for it. *)
LEMMA OneRequest ==
  ASSUME RdBounds, RdInv, NEW w \in Requests
  PROVE  /\ Requests = {w}
         /\ \A r : Carried(r) <=> op[w].row = r /\ op[w].step \in {"send", "wait", "persist", "mark"}
         /\ \A c \in sending : c.late = 0 => op[w].step = "wait" /\ c = Rd!Call(w)
         /\ op[w] \in RdOp
<1>1. Requests = {w} BY DEF RdBounds
<1>2. \A c \in sending : c.from = w BY <1>1 DEF RdInv, RdType, RdCall
<1>. QED BY <1>1, <1>2 DEF Carried, RdInv, CallsKept, RdType

LEMMA RequestMoves ==
  ASSUME RdBounds, RdInv, NEW w \in Requests, NEW o \in RdOp, op' = [op EXCEPT ![w] = o]
  PROVE  /\ op' \in [Requests -> RdOp] /\ op'[w] = o /\ Requests = {w}
         /\ \A r : Carried(r)' <=> o.row = r /\ o.step \in {"send", "wait", "persist", "mark"}
<1>1. Requests = {w} BY DEF RdBounds
<1>2. op' \in [Requests -> RdOp] /\ op'[w] = o BY DEF RdInv, RdType
<1>. QED BY <1>1, <1>2 DEF Carried

(* OnlyDraft the request moves. *)
LEMMA NothingElseMoves ==
  ASSUME RdBounds, RdInv, NEW w \in Requests, NEW o \in RdOp, op' = [op EXCEPT ![w] = o],
         UNCHANGED <<replies, latest, copies, sending, unsure>>, troubles' \in Nat,
         op[w].step # "wait", o.step \notin {"wait", "mark"}, o.step # "idle" => AtWork(o),
         \/ NoDraft \/ op[w].step \notin {"send", "wait", "persist", "mark"}
         \/ \A r : ActiveRow(r) => replies[r].status # "proposed"
  PROVE  RdInv'
<1>1. /\ op' \in [Requests -> RdOp] /\ op'[w] = o /\ Requests = {w}
      /\ \A r : Carried(r)' <=> o.row = r /\ o.step \in {"send", "wait", "persist", "mark"}
  BY RequestMoves
<1>2. RdType' BY <1>1 DEF RdInv, RdType
<1>3. /\ Rd!LiveDrafts' = Rd!LiveDrafts /\ Creates' = Creates
      /\ \A r : ActiveRow(r)' <=> ActiveRow(r)
      /\ \A g : OnlyDraft(g)' <=> OnlyDraft(g)
  BY DEF Rd!LiveDrafts, Rd!Live, Creates, ActiveRow, OnlyDraft
<1>4. OneActive' /\ OneDraft' BY <1>3 DEF RdInv, OneActive, OneDraft
<1>5. \A r : ActiveRow(r) /\ replies[r].status = "proposed" => NoDraft
  BY OneRequest DEF RdInv, RowTells
<1>6. RowTells'
  <2>1. ASSUME \A r : ~ActiveRow(r)' PROVE NoDraft'
    BY <1>3, <2>1 DEF RdInv, RowTells, NoDraft
  <2>2. ASSUME NEW r, ActiveRow(r) PROVE CopyKept(r)'
    <3>1. CASE replies[r].status = "proposed" BY <1>3, <1>5, <2>2, <3>1 DEF CopyKept, NoDraft
    <3>2. CASE replies[r].status # "proposed"
      BY <1>3, <2>2, <3>2 DEF CopyKept, RdInv, RowTells
    <3>. QED BY <3>1, <3>2
  <2>3. ASSUME NEW r, ActiveRow(r)
        PROVE  /\ replies'[r].gid # 0 => OnlyDraft(replies[r].gid)'
               /\ replies'[r].status \in {"created", "updated"} => replies'[r].gid # 0
               /\ replies'[r].status = "proposed" /\ ~Carried(r)' => NoDraft'
               /\ \A c \in Creates' : c.copy = replies'[r].copy
    BY <1>3, <1>5, <2>3 DEF RdInv, RowTells, NoDraft
  <2>. QED BY <1>3, <2>1, <2>2, <2>3 DEF RowTells
<1>7. CallsKept'
  <2>1. \A c \in sending : c.late # 0 BY OneRequest
  <2>. QED BY <1>3, <2>1 DEF RdInv, CallsKept
<1>8. OpsKept'
  <2>1. o.step # "idle" => AtWork(o)' BY <1>3 DEF AtWork, NoDraft
  <2>. QED BY <1>1, <2>1 DEF OpsKept
<1>. QED BY <1>2, <1>4, <1>6, <1>7, <1>8 DEF RdInv

(* An operation reads the row and goes its way. *)
LEMMA StartSteps ==
  ASSUME RdBounds, RdInv, NEW w \in Requests,
         \/ \E r \in DOMAIN replies, c \in Texts : Rd!StartUpdate(w, r, c)
         \/ \E r \in DOMAIN replies : Rd!StartDiscard(w, r)
         \/ Rd!StartRead(w)
  PROVE  RdInv'
<1>0. /\ op[w].step = "idle" /\ UNCHANGED <<replies, latest, copies, sending, unsure>>
      /\ troubles' \in Nat /\ replies \in Seq(RdRow)
  BY DEF Rd!StartUpdate, Rd!StartDiscard, Rd!StartRead, Rd!At, Rd!db, Rd!gmail, RdInv, RdType
<1>1. ASSUME NEW r \in DOMAIN replies, NEW c \in Texts, Rd!StartUpdate(w, r, c) PROVE RdInv'
  <2>. DEFINE o == [step |-> IF Rd!Unknown(r) THEN "reconcile" ELSE "prepare", row |-> r,
                    gid |-> replies[r].gid, copy |-> c, then |-> "prepare", as |-> "updated"]
  <2>1. replies[r].status \in Rd!Active /\ op' = [op EXCEPT ![w] = o] BY <1>1 DEF Rd!StartUpdate
  <2>2. replies[r] \in RdRow /\ r \in Nat BY <1>0
  <2>3. o \in RdOp BY <2>2 DEF RdOp, RdRow, Rd!Steps
  <2>4. /\ o.step = (IF Rd!Unknown(r) THEN "reconcile" ELSE "prepare") /\ o.row = r
        /\ o.gid = replies[r].gid /\ o.copy = c /\ o.then = "prepare"
    OBVIOUS
  <2>. HIDE DEF o
  <2>5. AtWork(o) BY <2>1, <2>4 DEF AtWork, ActiveRow, Rd!Unknown, RdInv, RowTells
  <2>. QED BY <1>0, <2>1, <2>3, <2>4, <2>5, NothingElseMoves
<1>2. ASSUME NEW r \in DOMAIN replies, Rd!StartDiscard(w, r) PROVE RdInv'
  <2>0. replies[r] \in RdRow /\ r \in Nat BY <1>0
  <2>1. PICK s : s = CASE replies[r].gid # 0 -> "delete"
                       [] replies[r].gid = 0 /\ Rd!Unknown(r) -> "reconcile"
                       [] replies[r].gid = 0 /\ ~Rd!Unknown(r) -> "close"
    OBVIOUS
  <2>2. /\ replies[r].gid # 0 => s = "delete"
        /\ replies[r].gid = 0 /\ Rd!Unknown(r) => s = "reconcile"
        /\ replies[r].gid = 0 /\ ~Rd!Unknown(r) => s = "close"
    BY <2>1
  <2>. DEFINE o == [Rd!Idle EXCEPT !.step = s, !.row = r, !.gid = replies[r].gid, !.then = "delete"]
  <2>3. replies[r].status \in Rd!Active /\ op' = [op EXCEPT ![w] = o]
    BY <1>2, <2>1 DEF Rd!StartDiscard
  <2>4. /\ o \in RdOp /\ o.step = s /\ o.row = r /\ o.gid = replies[r].gid /\ o.then = "delete"
    BY <2>0, <2>2 DEF RdOp, RdRow, Rd!Steps, Rd!Idle
  <2>. HIDE DEF o
  <2>5. replies[r].status = "proposed" => NoDraft
    BY <1>0, <2>3, OneRequest DEF RdInv, RowTells, ActiveRow
  <2>6. AtWork(o)
    BY <2>2, <2>3, <2>4, <2>5 DEF AtWork, ActiveRow, Rd!Unknown, Rd!Active, RdInv, RowTells
  <2>. QED BY <1>0, <2>2, <2>3, <2>4, <2>6, NothingElseMoves
<1>3. CASE Rd!StartRead(w)
  <2>. DEFINE r == latest
              o == [step |-> "reconcile", row |-> r, gid |-> replies[r].gid, copy |-> "none",
                    then |-> "persist", as |-> IF replies[r].gid = 0 THEN "created" ELSE "updated"]
  <2>1. op' = [op EXCEPT ![w] = o] /\ replies[r].status = "result_unknown" /\ r # 0
    BY <1>3 DEF Rd!StartRead, Rd!Unknown
  <2>2. r \in DOMAIN replies /\ replies[r] \in RdRow /\ r \in Nat
    BY <1>0, <2>1 DEF RdInv, RdType
  <2>3. o \in RdOp BY <2>2 DEF RdOp, RdRow, Rd!Steps
  <2>4. o.step = "reconcile" /\ o.row = r /\ o.gid = replies[r].gid /\ o.then = "persist"
    OBVIOUS
  <2>. HIDE DEF o, r
  <2>5. AtWork(o) BY <2>1, <2>2, <2>4 DEF AtWork, ActiveRow, Rd!Active, RdInv, RowTells
  <2>. QED BY <1>0, <2>1, <2>3, <2>4, <2>5, NothingElseMoves
<1>. QED BY <1>1, <1>2, <1>3

(* A request that ends without a statement. *)
LEMMA EndStep ==
  ASSUME RdBounds, RdInv, NEW w \in Requests, Rd!End(w),
         UNCHANGED <<replies, latest, copies, sending, unsure>>, troubles' \in Nat,
         op[w].step # "wait",
         \/ NoDraft \/ op[w].step \notin {"send", "wait", "persist", "mark"}
         \/ \A r : ActiveRow(r) => replies[r].status # "proposed"
  PROVE  RdInv'
<1>1. Rd!Idle \in RdOp /\ Rd!Idle.step = "idle" BY DEF Rd!Idle, RdOp, Rd!Steps
<1>. QED BY <1>1, NothingElseMoves DEF Rd!End

(* An unknown result is looked up; a draft that is found is the only one there is. *)
LEMMA ReconcileStep ==
  ASSUME RdBounds, RdInv, NEW w \in Requests, Rd!Reconcile(w)
  PROVE  RdInv'
<1>1. /\ op[w].step = "reconcile" /\ UNCHANGED <<replies, latest, copies, sending, unsure>>
      /\ troubles' \in Nat
  BY DEF Rd!Reconcile, Rd!At, Rd!db, Rd!gmail, Rd!Fault, RdInv, RdType
<1>2. AtWork(op[w]) /\ op[w] \in RdOp BY <1>1 DEF RdInv, OpsKept, RdType
<1>3. ASSUME NEW g \in Nat, g # 0, g = op[w].gid \/ (op[w].gid = 0 /\ Rd!Live(g)),
             op' = [op EXCEPT ![w] = [op[w] EXCEPT !.step = op[w].then, !.gid = g]]
      PROVE  RdInv'
  <2>. DEFINE o == [op[w] EXCEPT !.step = op[w].then, !.gid = g]
  <2>1. /\ o \in RdOp /\ o.step = op[w].then /\ o.gid = g /\ o.row = op[w].row
        /\ o.copy = op[w].copy /\ op' = [op EXCEPT ![w] = o]
    BY <1>2, <1>3 DEF RdOp
  <2>. HIDE DEF o
  <2>2. OnlyDraft(g)
    <3>1. CASE g = op[w].gid BY <1>2, <1>3, <3>1 DEF AtWork
    <3>2. CASE op[w].gid = 0 /\ Rd!Live(g)
      BY <3>2 DEF Rd!Live, OnlyDraft, Rd!LiveDrafts, RdInv, OneDraft, RdType
    <3>. QED BY <1>3, <3>1, <3>2
  <2>3. AtWork(o) BY <1>1, <1>2, <1>3, <2>1, <2>2 DEF AtWork
  <2>. QED BY <1>1, <1>2, <2>1, <2>3, NothingElseMoves DEF AtWork
<1>4. CASE op[w].gid # 0 /\ Rd!Live(op[w].gid) /\ Rd!GoTo(w, op[w].then)
  <2>1. [op[w] EXCEPT !.step = op[w].then, !.gid = op[w].gid] = [op[w] EXCEPT !.step = op[w].then]
    BY <1>2 DEF RdOp
  <2>2. op' = [op EXCEPT ![w] = [op[w] EXCEPT !.step = op[w].then]]
    BY <1>4 DEF Rd!GoTo
  <2>. QED BY <1>2, <1>3, <1>4, <2>1, <2>2 DEF RdOp
<1>5. ASSUME op[w].gid = 0, NEW g \in DOMAIN copies, Rd!Live(g),
             op' = [op EXCEPT ![w].step = op[w].then, ![w].gid = g]
      PROVE  RdInv'
  <2>1. g \in Nat /\ g # 0 BY DEF RdInv, RdType
  <2>2. op' = [op EXCEPT ![w] = [op[w] EXCEPT !.step = op[w].then, !.gid = g]]
    BY <1>5 DEF RdInv, RdType
  <2>. QED BY <1>3, <1>5, <2>1, <2>2
<1>6. CASE Rd!End(w) BY <1>1, <1>6, EndStep
<1>. QED BY <1>4, <1>5, <1>6 DEF Rd!Reconcile

(* A create that is refused for sure leaves the row proposed, and no draft. *)
LEMMA RefuseStep == ASSUME RdBounds, RdInv, NEW w \in Requests, Rd!Refuse(w) PROVE RdInv'
<1>1. /\ op[w].step = "send" /\ Rd!End(w) /\ UNCHANGED <<replies, latest, copies, sending, unsure>>
      /\ Rd!Fault(IF op[w].gid = 0 THEN "create refused" ELSE "update refused")
  BY DEF Rd!Refuse, Rd!At, Rd!db, Rd!gmail
<1>0. op[w].gid = 0 /\ troubles' \in Nat
  <2>1. troubles \in Nat BY DEF RdInv, RdType
  <2>2. troubles' = troubles + 1 BY <1>1 DEF Rd!Fault
  <2>3. op[w].gid # 0 => "update refused" \in DraftFaults BY <1>1 DEF Rd!Fault
  <2>4. troubles' \in Nat BY <2>1, <2>2
  <2>5. op[w].gid = 0 BY <2>3 DEF RdBounds
  <2>. QED BY <2>4, <2>5
<1>2. NoDraft BY <1>0, <1>1 DEF RdInv, OpsKept, AtWork
<1>. QED BY <1>0, <1>1, <1>2, EndStep

(* A death while the row does not say proposed cuts off no call. *)
LEMMA CrashStep == ASSUME RdBounds, RdInv, NEW w \in Requests, Rd!Crash(w) PROVE RdInv'
<1>1. /\ op[w].step # "idle" /\ Rd!End(w) /\ UNCHANGED <<replies, latest, copies, unsure>>
      /\ Rd!Abandon(w)
      /\ Rd!Fault(IF replies[op[w].row].status = "proposed" THEN "crash while proposed" ELSE "crash")
  BY DEF Rd!Crash, Rd!At, Rd!Row, Rd!db
<1>0. replies[op[w].row].status # "proposed" /\ troubles' \in Nat
  <2>1. troubles \in Nat BY DEF RdInv, RdType
  <2>2. troubles' = troubles + 1 BY <1>1 DEF Rd!Fault
  <2>3. replies[op[w].row].status = "proposed" => "crash while proposed" \in DraftFaults
    BY <1>1 DEF Rd!Fault
  <2>4. troubles' \in Nat BY <2>1, <2>2
  <2>5. replies[op[w].row].status # "proposed" BY <2>3 DEF RdBounds
  <2>. QED BY <2>4, <2>5
<1>2. ActiveRow(op[w].row) /\ op[w].step \notin {"send", "wait", "mark"}
  BY <1>0, <1>1 DEF RdInv, OpsKept, AtWork
<1>3. sending' = sending BY <1>1, <1>2 DEF Rd!Abandon, Rd!At
<1>4. \A r : ActiveRow(r) => replies[r].status # "proposed" BY <1>0, <1>1, <1>2 DEF RdInv, OneActive
<1>. QED BY <1>0, <1>1, <1>2, <1>3, <1>4, EndStep

(* A row is inserted when no row is active, and then there is no draft. *)
LEMMA StartCreateStep ==
  ASSUME RdBounds, RdInv, NEW w \in Requests, NEW c \in Texts, Rd!StartCreate(w, c)
  PROVE  RdInv'
<1>. DEFINE e == [status |-> "proposed", gid |-> 0, copy |-> c]
<1>00. PICK n : n = Len(replies) + 1 OBVIOUS
<1>01. PICK o : o = [Rd!Idle EXCEPT !.step = "send", !.row = n, !.copy = c] OBVIOUS
<1>0. replies \in Seq(RdRow) /\ Len(replies) \in Nat /\ n \in Nat /\ n = Len(replies) + 1
  BY <1>00 DEF RdInv, RdType
<1>1. /\ replies' = Append(replies, e) /\ Len(replies') = n /\ latest' = n
      /\ op' = [op EXCEPT ![w] = o] /\ op[w].step = "idle"
      /\ UNCHANGED <<copies, sending, troubles, unsure>>
      /\ \A r \in DOMAIN replies : replies[r].status \notin Rd!Active
  BY <1>0, <1>01 DEF Rd!StartCreate, Rd!At, Rd!gmail
<1>2. o \in RdOp /\ o.step = "send" /\ o.row = n /\ o.copy = c /\ o.gid = 0
  BY <1>0, <1>01 DEF RdOp, Rd!Idle, Rd!Steps
<1>3. e \in RdRow BY DEF RdRow, Rd!Active
<1>4. replies' \in Seq(RdRow) /\ replies'[n] = e /\ \A r \in 1..Len(replies) : replies'[r] = replies[r]
  BY <1>0, <1>1, <1>3
<1>5. /\ op' \in [Requests -> RdOp] /\ op'[w] = o /\ Requests = {w}
      /\ \A r : Carried(r)' <=> o.row = r /\ o.step \in {"send", "wait", "persist", "mark"}
  BY <1>1, <1>2, RequestMoves
<1>6. \A r : ~ActiveRow(r) BY <1>1 DEF ActiveRow
<1>7. \A r : ActiveRow(r)' <=> r = n
  <2>1. DOMAIN replies = 1..Len(replies) /\ DOMAIN replies' = 1..n BY <1>0, <1>1, <1>4
  <2>2. \A r \in 1..Len(replies) : ~ActiveRow(r)' BY <1>1, <1>4, <2>1 DEF ActiveRow
  <2>3. ActiveRow(n)' BY <1>0, <1>4, <2>1 DEF ActiveRow, Rd!Active
  <2>4. \A r : ActiveRow(r)' => r \in 1..n BY <2>1 DEF ActiveRow
  <2>5. \A r \in 1..n : r \in 1..Len(replies) \/ r = n BY <1>0
  <2>. QED BY <2>2, <2>3, <2>4, <2>5
<1>8. NoDraft /\ Rd!LiveDrafts' = Rd!LiveDrafts /\ Creates' = Creates
  BY <1>1, <1>6 DEF RdInv, RowTells, Rd!LiveDrafts, Rd!Live, Creates
<1>9. RdType'
  <2>1. unsure' \subseteq DOMAIN replies' BY <1>0, <1>1, <1>4 DEF RdInv, RdType
  <2>. QED BY <1>0, <1>1, <1>4, <1>5, <2>1 DEF RdInv, RdType
<1>10. OneActive' /\ OneDraft' BY <1>7, <1>8 DEF OneActive, OneDraft, NoDraft
<1>11. RowTells'
  BY <1>2, <1>4, <1>5, <1>7, <1>8 DEF RowTells, NoDraft, CopyKept, Rd!Active
<1>12. CallsKept'
  <2>1. \A d \in sending : d.late # 0 BY <1>1, OneRequest
  <2>. QED BY <1>1, <1>8, <2>1 DEF RdInv, CallsKept, NoDraft
<1>13. OpsKept'
  <2>1. AtWork(o)' BY <1>2, <1>4, <1>7, <1>8 DEF AtWork, NoDraft
  <2>. QED BY <1>2, <1>5, <2>1 DEF OpsKept
<1>. QED BY <1>9, <1>10, <1>11, <1>12, <1>13 DEF RdInv

(* A statement writes the row of the request. *)
LEMMA RowWritten ==
  ASSUME RdBounds, RdInv, NEW w \in Requests, ActiveRow(op[w].row), NEW e \in RdRow,
         Rd!Write(op[w].row, e), NEW o \in RdOp, op' = [op EXCEPT ![w] = o],
         UNCHANGED <<copies, sending, troubles, unsure>>, op[w].step # "wait",
         o.step \in {"idle", "send"}, o.step = "send" => AtWork(o)',
         e.status \in Rd!Active =>
           /\ e.gid # 0 => OnlyDraft(e.gid)
           /\ e.status \in {"created", "updated"} => e.gid # 0
           /\ e.status = "proposed" => o.step = "send" /\ o.row = op[w].row
           /\ \A c \in Creates : c.copy = e.copy
           /\ op[w].row \notin unsure /\ e.status # "proposed" =>
                \A g \in Rd!LiveDrafts : copies[g].copy = e.copy,
         e.status \notin Rd!Active => NoDraft
  PROVE  RdInv'
<1>00. PICK n : n = op[w].row OBVIOUS
<1>0. replies \in Seq(RdRow) /\ n = op[w].row /\ n \in DOMAIN replies /\ n \in 1..Len(replies)
  BY <1>00 DEF RdInv, RdType, ActiveRow
<1>1. replies' = [replies EXCEPT ![n] = e] /\ latest' = n BY <1>0 DEF Rd!Write
<1>2. /\ replies' \in Seq(RdRow) /\ Len(replies') = Len(replies) /\ replies'[n] = e
      /\ DOMAIN replies' = DOMAIN replies
      /\ \A r \in DOMAIN replies : r # n => replies'[r] = replies[r]
  BY <1>0, <1>1
<1>3. /\ op' \in [Requests -> RdOp] /\ op'[w] = o /\ Requests = {w}
      /\ \A r : Carried(r)' <=> o.row = r /\ o.step \in {"send", "wait", "persist", "mark"}
  BY RequestMoves
<1>4. \A r : ActiveRow(r)' <=> r = n /\ e.status \in Rd!Active
  <2>1. \A r : ActiveRow(r) => r = n BY <1>0 DEF RdInv, OneActive
  <2>. QED BY <1>0, <1>2, <2>1 DEF ActiveRow
<1>5. /\ Rd!LiveDrafts' = Rd!LiveDrafts /\ Creates' = Creates /\ \A g : OnlyDraft(g)' <=> OnlyDraft(g)
  BY DEF Rd!LiveDrafts, Rd!Live, Creates, OnlyDraft
<1>6. RdType' BY <1>0, <1>1, <1>2, <1>3 DEF RdInv, RdType
<1>7. OneActive' /\ OneDraft' BY <1>4, <1>5 DEF RdInv, OneActive, OneDraft
<1>8. RowTells'
  <2>1. e.status \notin Rd!Active => NoDraft' BY <1>5 DEF NoDraft
  <2>2. e.status \in Rd!Active => CopyKept(n)'
    BY <1>0, <1>2, <1>3, <1>5 DEF CopyKept
  <2>. QED BY <1>2, <1>3, <1>4, <1>5, <2>1, <2>2, <1>0 DEF RowTells
<1>9. CallsKept'
  <2>1. \A d \in sending : d.late # 0 BY OneRequest
  <2>2. ActiveRow(n) BY <1>0
  <2>. QED BY <1>4, <1>5, <2>1, <2>2 DEF RdInv, CallsKept
<1>10. OpsKept' BY <1>3 DEF OpsKept
<1>. QED BY <1>6, <1>7, <1>8, <1>9, <1>10 DEF RdInv

(* The copy is stored before the call that carries it. *)
LEMMA PrepareStep == ASSUME RdBounds, RdInv, NEW w \in Requests, Rd!Prepare(w) PROVE RdInv'
<1>a. PICK n : n = op[w].row OBVIOUS
<1>b. PICK e : e = [replies[n] EXCEPT !.status = "proposed", !.copy = op[w].copy] OBVIOUS
<1>c. PICK o : o = [op[w] EXCEPT !.step = "send"] OBVIOUS
<1>1. op[w].step = "prepare" /\ UNCHANGED <<copies, sending, troubles, unsure>>
  BY DEF Rd!Prepare, Rd!At, Rd!gmail
<1>2. AtWork(op[w]) /\ op[w] \in RdOp /\ op[w].copy \in Texts /\ ActiveRow(n)
  BY <1>a, <1>1 DEF RdInv, OpsKept, RdType, AtWork
<1>3. replies[n] \in RdRow BY <1>2 DEF ActiveRow, RdInv, RdType
<1>4. Rd!Write(n, e) BY <1>a, <1>b, <1>2 DEF Rd!Prepare, Rd!Row, ActiveRow
<1>5. op[w].gid = 0 => replies[n].gid = 0 BY <1>a, <1>2 DEF AtWork
<1>6. op' = [op EXCEPT ![w] = o]
  <2>1. op' = [op EXCEPT ![w].step = "send", ![w].gid = IF @ # 0 THEN @ ELSE replies[n].gid]
    BY <1>a, <1>b, <1>2 DEF Rd!Prepare, Rd!Row, ActiveRow
  <2>2. op \in [Requests -> RdOp] BY DEF RdInv, RdType
  <2>3. (IF op[w].gid # 0 THEN op[w].gid ELSE replies[n].gid) = op[w].gid BY <1>5
  <2>4. [op[w] EXCEPT !.step = "send", !.gid = op[w].gid] = o BY <1>c, <1>2 DEF RdOp
  <2>. QED BY <2>1, <2>2, <2>3, <2>4
<1>7. e \in RdRow /\ e.status = "proposed" /\ e.copy = op[w].copy /\ e.gid = replies[n].gid
  BY <1>b, <1>2, <1>3 DEF RdRow, Rd!Active
<1>8. /\ o \in RdOp /\ o.step = "send" /\ o.row = n /\ o.gid = op[w].gid /\ o.copy = op[w].copy
  BY <1>a, <1>c, <1>2 DEF RdOp, Rd!Steps
<1>9. op[w].gid = 0 => NoDraft
  <2>1. op[w].gid = 0 => replies[n].status \notin {"result_unknown", "created", "updated"}
    BY <1>a, <1>1, <1>2, <1>5 DEF AtWork, RdInv, RowTells
  <2>2. op[w].gid = 0 => replies[n].status = "proposed" BY <1>2, <2>1 DEF ActiveRow, Rd!Active
  <2>. QED BY <1>a, <1>1, <1>2, <2>2, OneRequest DEF RdInv, RowTells
<1>10. op[w].gid # 0 => OnlyDraft(op[w].gid) BY <1>2 DEF AtWork
<1>11. AtWork(o)'
  <2>1. replies'[n] = e /\ DOMAIN replies' = DOMAIN replies
    BY <1>2, <1>4 DEF Rd!Write, ActiveRow, RdInv, RdType
  <2>2. ActiveRow(n)' BY <1>2, <1>7, <2>1 DEF ActiveRow, Rd!Active
  <2>3. /\ Rd!LiveDrafts' = Rd!LiveDrafts /\ Creates' = Creates /\ \A g : OnlyDraft(g)' <=> OnlyDraft(g)
    BY <1>1 DEF Rd!LiveDrafts, Rd!Live, Creates, OnlyDraft
  <2>4. replies[n].gid # 0 => op[w].gid = replies[n].gid BY <1>a, <1>2 DEF AtWork
  <2>. QED BY <1>2, <1>7, <1>8, <1>9, <1>10, <2>1, <2>2, <2>3, <2>4 DEF AtWork, NoDraft, OnlyDraft
<1>12. replies[n].gid # 0 => OnlyDraft(replies[n].gid) BY <1>a, <1>2, <1>10 DEF AtWork
<1>13. \A c \in Creates : c.copy = e.copy BY <1>9, <1>10 DEF NoDraft, OnlyDraft
<1>. QED BY <1>a, <1>1, <1>2, <1>4, <1>6, <1>7, <1>8, <1>11, <1>12, <1>13, RowWritten DEF Rd!Active

(* The answer is stored with the draft it names. *)
LEMMA PersistStep == ASSUME RdBounds, RdInv, NEW w \in Requests, Rd!Persist(w) PROVE RdInv'
<1>. DEFINE n == op[w].row
            e == [replies[n] EXCEPT !.status = op[w].as, !.gid = op[w].gid]
<1>1. op[w].step = "persist" /\ UNCHANGED <<copies, sending, troubles, unsure>> /\ Rd!End(w)
  BY DEF Rd!Persist, Rd!At, Rd!gmail
<1>2. AtWork(op[w]) /\ op[w] \in RdOp /\ op[w].gid # 0 /\ ActiveRow(n) /\ OnlyDraft(op[w].gid)
  BY <1>1 DEF RdInv, OpsKept, RdType, AtWork
<1>3. replies[n] \in RdRow BY <1>2 DEF ActiveRow, RdInv, RdType
<1>4. Rd!Write(n, e) BY <1>2 DEF Rd!Persist, Rd!Row, ActiveRow, RdInv, OneActive
<1>5. /\ e \in RdRow /\ e.status \in {"created", "updated"} /\ e.gid = op[w].gid
      /\ e.copy = replies[n].copy
  BY <1>2, <1>3 DEF RdRow, RdOp, Rd!Active
<1>6. Rd!Idle \in RdOp /\ Rd!Idle.step = "idle" /\ op' = [op EXCEPT ![w] = Rd!Idle]
  BY <1>1 DEF Rd!Idle, RdOp, Rd!Steps, Rd!End
<1>7. n \notin unsure => \A g \in Rd!LiveDrafts : copies[g].copy = e.copy
  BY <1>1, <1>2, <1>5 DEF RdInv, RowTells, CopyKept
<1>8. Creates = {} BY <1>2 DEF OnlyDraft
<1>. HIDE DEF e
<1>. QED BY <1>1, <1>2, <1>4, <1>5, <1>6, <1>7, <1>8, RowWritten DEF Rd!Active

(* A lost answer is stored as an unknown result. *)
LEMMA MarkStep == ASSUME RdBounds, RdInv, NEW w \in Requests, Rd!MarkUnknown(w) PROVE RdInv'
<1>. DEFINE n == op[w].row
            e == [replies[n] EXCEPT !.status = "result_unknown"]
<1>1. op[w].step = "mark" /\ UNCHANGED <<copies, sending, troubles, unsure>> /\ Rd!End(w)
  BY DEF Rd!MarkUnknown, Rd!At, Rd!gmail
<1>2. AtWork(op[w]) /\ op[w] \in RdOp /\ replies[n].status = "proposed" /\ ActiveRow(n)
  BY <1>1 DEF RdInv, OpsKept, RdType, AtWork
<1>3. replies[n] \in RdRow BY <1>2 DEF ActiveRow, RdInv, RdType
<1>4. Rd!Write(n, e) BY <1>2 DEF Rd!MarkUnknown, Rd!Row
<1>5. /\ e \in RdRow /\ e.status = "result_unknown" /\ e.gid = replies[n].gid
      /\ e.copy = replies[n].copy
  BY <1>3 DEF RdRow, Rd!Active
<1>6. Rd!Idle \in RdOp /\ Rd!Idle.step = "idle" /\ op' = [op EXCEPT ![w] = Rd!Idle]
  BY <1>1 DEF Rd!Idle, RdOp, Rd!Steps, Rd!End
<1>7. n \notin unsure => \A g \in Rd!LiveDrafts : copies[g].copy = e.copy
  BY <1>1, <1>2, <1>5 DEF RdInv, RowTells, CopyKept
<1>8. (e.gid # 0 => OnlyDraft(e.gid)) /\ \A c \in Creates : c.copy = e.copy
  BY <1>2, <1>5 DEF RdInv, RowTells
<1>. HIDE DEF e
<1>. QED BY <1>1, <1>2, <1>4, <1>5, <1>6, <1>7, <1>8, RowWritten DEF Rd!Active

(* A row is closed when its draft is gone. *)
LEMMA CloseStep == ASSUME RdBounds, RdInv, NEW w \in Requests, Rd!Close(w) PROVE RdInv'
<1>. DEFINE n == op[w].row
            e == [replies[n] EXCEPT !.status = "discarded"]
<1>1. op[w].step = "close" /\ UNCHANGED <<copies, sending, troubles, unsure>> /\ Rd!End(w)
  BY DEF Rd!Close, Rd!At, Rd!gmail
<1>2. AtWork(op[w]) /\ op[w] \in RdOp /\ NoDraft /\ ActiveRow(n)
  BY <1>1 DEF RdInv, OpsKept, RdType, AtWork
<1>3. replies[n] \in RdRow BY <1>2 DEF ActiveRow, RdInv, RdType
<1>4. Rd!Write(n, e) BY <1>2 DEF Rd!Close, Rd!Row, ActiveRow
<1>5. e \in RdRow /\ e.status = "discarded" BY <1>3 DEF RdRow, Rd!Active
<1>6. Rd!Idle \in RdOp /\ Rd!Idle.step = "idle" /\ op' = [op EXCEPT ![w] = Rd!Idle]
  BY <1>1 DEF Rd!Idle, RdOp, Rd!Steps, Rd!End
<1>. HIDE DEF e
<1>. QED BY <1>1, <1>2, <1>4, <1>5, <1>6, RowWritten DEF Rd!Active

(* A call leaves the request and is waited for. *)
LEMMA SendCallStep == ASSUME RdBounds, RdInv, NEW w \in Requests, Rd!Send(w) PROVE RdInv'
<1>a. PICK n : n = op[w].row OBVIOUS
<1>b. PICK c : c = Rd!Call(w) OBVIOUS
<1>c. PICK o : o = [op[w] EXCEPT !.step = "wait"] OBVIOUS
<1>1. /\ op[w].step = "send" /\ UNCHANGED <<replies, latest, copies, troubles, unsure>>
      /\ op' = [op EXCEPT ![w] = o] /\ sending' = sending \cup {c}
  BY <1>b, <1>c DEF Rd!Send, Rd!At, Rd!GoTo, Rd!db
<1>2. AtWork(op[w]) /\ op[w] \in RdOp /\ ActiveRow(n)
  BY <1>a, <1>1 DEF RdInv, OpsKept, RdType, AtWork
<1>3. /\ o \in RdOp /\ o.step = "wait" /\ o.row = n /\ o.gid = op[w].gid /\ o.copy = op[w].copy
  BY <1>a, <1>c, <1>2 DEF RdOp, Rd!Steps
<1>4. c \in RdCall /\ c.from = w /\ c.gid = o.gid /\ c.copy = replies[n].copy /\ c.late = 0
  BY <1>a, <1>b, <1>1, <1>2, <1>3 DEF AtWork, Rd!Call, RdCall, RdOp
<1>5. /\ op' \in [Requests -> RdOp] /\ op'[w] = o /\ Requests = {w}
      /\ \A r : Carried(r)' <=> o.row = r /\ o.step \in {"send", "wait", "persist", "mark"}
  BY <1>1, <1>3, RequestMoves
<1>6. Rd!Call(w)' = c BY <1>3, <1>5, <1>b DEF Rd!Call
<1>7. /\ Rd!LiveDrafts' = Rd!LiveDrafts /\ \A r : ActiveRow(r)' <=> ActiveRow(r)
      /\ Creates' = IF o.gid = 0 THEN Creates \cup {c} ELSE Creates
  BY <1>1, <1>4 DEF Rd!LiveDrafts, Rd!Live, Creates, ActiveRow
<1>8. /\ o.gid = 0 => NoDraft /\ replies[n].gid = 0
      /\ o.gid # 0 => OnlyDraft(o.gid)
      /\ replies[n].status = "proposed" /\ (replies[n].gid # 0 => o.gid = replies[n].gid)
      /\ \A r : ActiveRow(r) <=> r = n
  BY <1>a, <1>1, <1>2, <1>3 DEF AtWork, RdInv, OneActive
<1>9. RdType' BY <1>1, <1>4, <1>5 DEF RdInv, RdType
<1>10. OneActive' BY <1>7 DEF RdInv, OneActive
<1>11. OneDraft' BY <1>7, <1>8 DEF RdInv, OneDraft, NoDraft
<1>12. RowTells'
  <2>1. replies'[n] = replies[n] /\ copies' = copies BY <1>1
  <2>2. ~(\E v \in Requests : op[v].row = n /\ op[v].step \in {"persist", "mark"})'
    BY <1>3, <1>5
  <2>3. replies[n].gid # 0 => OnlyDraft(replies[n].gid)' BY <1>1, <1>7, <1>8 DEF OnlyDraft
  <2>4. \A d \in Creates' : d.copy = replies[n].copy BY <1>4, <1>7, <1>8 DEF OnlyDraft, NoDraft
  <2>. QED BY <1>3, <1>5, <1>7, <1>8, <2>1, <2>2, <2>3, <2>4 DEF RowTells, CopyKept
<1>13. CallsKept'
  <2>1. \A d \in sending : d.late # 0 BY <1>1, OneRequest
  <2>2. c.gid \in 0..Len(copies) BY <1>3, <1>4, <1>8 DEF OnlyDraft, RdInv, RdType
  <2>. QED BY <1>1, <1>3, <1>4, <1>5, <1>6, <1>7, <2>1, <2>2 DEF RdInv, CallsKept
<1>14. OpsKept'
  <2>1. ActiveRow(n)' BY <1>7, <1>8
  <2>2. o.gid # 0 => OnlyDraft(o.gid)' BY <1>1, <1>7, <1>8 DEF OnlyDraft
  <2>3. AtWork(o)' BY <1>1, <1>2, <1>3, <1>4, <1>8, <2>1, <2>2, <1>a DEF AtWork
  <2>. QED BY <1>1, <1>3, <1>5, <1>6, <2>3 DEF OpsKept
<1>. QED BY <1>9, <1>10, <1>11, <1>12, <1>13, <1>14 DEF RdInv

(* The answer is lost: the call is still under way and nobody waits for it. *)
LEMMA LoseStep == ASSUME RdBounds, RdInv, NEW w \in Requests, Rd!Lose(w) PROVE RdInv'
<1>a. PICK n : n = op[w].row OBVIOUS
<1>b. PICK c : c = Rd!Call(w) OBVIOUS
<1>c. PICK o : o = [op[w] EXCEPT !.step = "mark"] OBVIOUS
<1>d. PICK d : d = [c EXCEPT !.late = troubles'] OBVIOUS
<1>1. /\ op[w].step = "wait" /\ UNCHANGED <<replies, latest, copies>>
      /\ op' = [op EXCEPT ![w] = o] /\ sending' = (sending \ {c}) \cup {d}
      /\ troubles' = troubles + 1
      /\ unsure' = IF o.gid # 0 THEN unsure \cup {n} ELSE unsure
  <2>1. op[w].step = "wait" /\ UNCHANGED <<replies, latest, copies>> /\ troubles' = troubles + 1
    BY DEF Rd!Lose, Rd!At, Rd!Fault, Rd!db
  <2>2. op' = [op EXCEPT ![w] = o]
    BY <1>c DEF Rd!Lose, Rd!GoTo
  <2>3. sending' = (sending \ {c}) \cup {d} BY <2>1, <1>b, <1>d DEF Rd!Lose, Rd!Abandon, Rd!At
  <2>4. op[w] \in RdOp BY DEF RdInv, RdType
  <2>5. o.gid = op[w].gid BY <1>c, <2>4 DEF RdOp
  <2>6. unsure' = IF o.gid # 0 THEN unsure \cup {n} ELSE unsure BY <1>a, <2>5 DEF Rd!Lose
  <2>. QED BY <2>1, <2>2, <2>3, <2>6
<1>2. AtWork(op[w]) /\ op[w] \in RdOp /\ ActiveRow(n) /\ c \in sending
  BY <1>a, <1>b, <1>1 DEF RdInv, OpsKept, RdType, AtWork
<1>3. /\ o \in RdOp /\ o.step = "mark" /\ o.row = n /\ o.gid = op[w].gid
  BY <1>a, <1>c, <1>2 DEF RdOp, Rd!Steps
<1>4. troubles' \in Nat /\ troubles' # 0
  <2>1. troubles \in Nat BY DEF RdInv, RdType
  <2>. QED BY <1>1, <2>1
<1>5. /\ c \in RdCall /\ c.gid = o.gid /\ c.late = 0
      /\ d \in RdCall /\ d.gid = o.gid /\ d.copy = c.copy /\ d.late # 0
  <2>1. c \in RdCall BY <1>2 DEF RdInv, RdType
  <2>2. c.gid = o.gid /\ c.late = 0 BY <1>b, <1>3 DEF Rd!Call
  <2>. QED BY <1>d, <1>4, <2>1, <2>2 DEF RdCall
<1>6. /\ op' \in [Requests -> RdOp] /\ op'[w] = o /\ Requests = {w}
      /\ \A r : Carried(r)' <=> o.row = r /\ o.step \in {"send", "wait", "persist", "mark"}
  BY <1>1, <1>3, RequestMoves
<1>7. /\ Rd!LiveDrafts' = Rd!LiveDrafts /\ \A r : ActiveRow(r)' <=> ActiveRow(r)
      /\ Creates' = IF o.gid = 0 THEN (Creates \ {c}) \cup {d} ELSE Creates
  BY <1>1, <1>5 DEF Rd!LiveDrafts, Rd!Live, Creates, ActiveRow
<1>8. o.gid = 0 => Creates = {c} /\ Creates' = {d} /\ Rd!LiveDrafts = {}
  <2>1. o.gid = 0 => c \in Creates BY <1>2, <1>5 DEF Creates
  <2>. QED BY <1>7, <2>1 DEF RdInv, OneDraft
<1>9. /\ o.gid # 0 => OnlyDraft(o.gid) /\ OnlyDraft(o.gid)'
      /\ replies[n].status = "proposed" /\ (replies[n].gid # 0 => o.gid = replies[n].gid)
      /\ \A r : ActiveRow(r) <=> r = n
  BY <1>a, <1>1, <1>2, <1>3, <1>7 DEF AtWork, RdInv, OneActive, OnlyDraft
<1>10. n \in DOMAIN replies BY <1>2 DEF ActiveRow
<1>11. RdType'
  <2>1. unsure' \subseteq DOMAIN replies BY <1>1, <1>10 DEF RdInv, RdType
  <2>. QED BY <1>1, <1>4, <1>5, <1>6, <2>1 DEF RdInv, RdType
<1>12. OneActive' BY <1>7 DEF RdInv, OneActive
<1>13. OneDraft' BY <1>7, <1>8 DEF RdInv, OneDraft
<1>14. RowTells'
  <2>1. replies'[n] = replies[n] /\ copies' = copies BY <1>1
  <2>2. \A e \in Creates' : e.copy = replies[n].copy
    <3>1. \A e \in Creates : e.copy = replies[n].copy BY <1>9 DEF RdInv, RowTells
    <3>. QED BY <1>5, <1>7, <1>8, <3>1
  <2>3. CopyKept(n)'
    <3>1. o.gid # 0 => n \in unsure' BY <1>1
    <3>. QED BY <1>7, <1>8, <3>1 DEF CopyKept
  <2>. QED BY <1>3, <1>6, <1>7, <1>9, <2>1, <2>2, <2>3 DEF RowTells
<1>15. CallsKept'
  <2>1. \A e \in sending : e.late = 0 => e = c BY <1>b, OneRequest
  <2>2. \A e \in sending : e.gid \in 0..Len(copies) BY DEF RdInv, CallsKept
  <2>3. d.gid \in Rd!LiveDrafts => n \in unsure'
    <3>1. d.gid \in Rd!LiveDrafts => d.gid # 0 BY DEF Rd!LiveDrafts, RdInv, RdType
    <3>. QED BY <1>1, <1>5, <3>1
  <2>4. \A e \in sending : e.late # 0 /\ e.gid \in Rd!LiveDrafts => n \in unsure'
    BY <1>1, <1>9 DEF RdInv, CallsKept
  <2>5. \A e \in sending' : e = d \/ (e \in sending /\ e.late # 0) BY <1>1, <2>1
  <2>6. d.gid \in 0..Len(copies) BY <1>2, <1>5, <2>2
  <2>. QED BY <1>1, <1>5, <1>7, <1>9, <2>2, <2>3, <2>4, <2>5, <2>6 DEF CallsKept
<1>16. OpsKept'
  <2>1. ActiveRow(n)' BY <1>7, <1>9
  <2>3. AtWork(o)' BY <1>1, <1>3, <1>9, <2>1 DEF AtWork
  <2>. QED BY <1>1, <1>3, <1>6, <2>3 DEF OpsKept
<1>. QED BY <1>11, <1>12, <1>13, <1>14, <1>15, <1>16 DEF RdInv

(* A draft is sent or deleted. *)
LEMMA StateChanges ==
  ASSUME RdType, NEW g \in DOMAIN copies, NEW s \in {"live", "sent", "deleted"},
         copies' = [copies EXCEPT ![g].state = s]
  PROVE  /\ g \in Nat /\ copies' \in Seq([state : {"live", "sent", "deleted"}, copy : Texts])
         /\ Len(copies') = Len(copies) /\ DOMAIN copies' = DOMAIN copies /\ copies'[g].state = s
         /\ \A h \in DOMAIN copies : copies'[h].copy = copies[h].copy
         /\ \A h \in DOMAIN copies : h # g => copies'[h] = copies[h]
<1>. DEFINE D == [state : {"live", "sent", "deleted"}, copy : Texts]
            d == [copies[g] EXCEPT !.state = s]
<1>1. copies \in Seq(D) /\ g \in Nat BY DEF RdType
<1>2. copies[g] \in D
  <2>. HIDE DEF D
  <2>. QED BY <1>1
<1>3. d \in D /\ d.state = s /\ d.copy = copies[g].copy BY <1>2
<1>4. copies' = [copies EXCEPT ![g] = d] OBVIOUS
<1>. HIDE DEF d, D
<1>5. /\ copies' \in Seq(D) /\ Len(copies') = Len(copies) /\ DOMAIN copies' = DOMAIN copies
      /\ copies'[g] = d /\ \A h \in DOMAIN copies : h # g => copies'[h] = copies[h]
  BY <1>1, <1>3, <1>4
<1>6. \A h \in DOMAIN copies : copies'[h].copy = copies[h].copy BY <1>3, <1>5
<1>. QED BY <1>1, <1>3, <1>5, <1>6 DEF D

(* A draft is overwritten. *)
LEMMA CopyChanges ==
  ASSUME RdType, NEW g \in DOMAIN copies, NEW c \in Texts,
         copies' = [copies EXCEPT ![g].copy = c]
  PROVE  /\ g \in Nat /\ copies' \in Seq([state : {"live", "sent", "deleted"}, copy : Texts])
         /\ Len(copies') = Len(copies) /\ DOMAIN copies' = DOMAIN copies /\ copies'[g].copy = c
         /\ \A h \in DOMAIN copies : copies'[h].state = copies[h].state
         /\ \A h \in DOMAIN copies : h # g => copies'[h] = copies[h]
<1>. DEFINE D == [state : {"live", "sent", "deleted"}, copy : Texts]
            d == [copies[g] EXCEPT !.copy = c]
<1>1. copies \in Seq(D) /\ g \in Nat BY DEF RdType
<1>2. copies[g] \in D
  <2>. HIDE DEF D
  <2>. QED BY <1>1
<1>3. d \in D /\ d.copy = c /\ d.state = copies[g].state BY <1>2
<1>4. copies' = [copies EXCEPT ![g] = d] OBVIOUS
<1>. HIDE DEF d, D
<1>5. /\ copies' \in Seq(D) /\ Len(copies') = Len(copies) /\ DOMAIN copies' = DOMAIN copies
      /\ copies'[g] = d /\ \A h \in DOMAIN copies : h # g => copies'[h] = copies[h]
  BY <1>1, <1>3, <1>4
<1>6. \A h \in DOMAIN copies : copies'[h].state = copies[h].state BY <1>3, <1>5
<1>. QED BY <1>1, <1>3, <1>5, <1>6 DEF D

(* The draft of the row is deleted for good, before the row is closed. *)
LEMMA DeleteStep == ASSUME RdBounds, RdInv, NEW w \in Requests, Rd!Delete(w) PROVE RdInv'
<1>a. PICK n : n = op[w].row OBVIOUS
<1>b. PICK g : g = op[w].gid OBVIOUS
<1>1. op[w].step = "delete" /\ UNCHANGED <<replies, latest, sending, unsure>> /\ troubles' \in Nat
  <2>1. op[w].step = "delete" /\ UNCHANGED <<replies, latest, sending, unsure>>
        /\ (troubles' = troubles \/ troubles' = troubles + 1)
    BY DEF Rd!Delete, Rd!At, Rd!Fault, Rd!db
  <2>2. troubles \in Nat BY DEF RdInv, RdType
  <2>. QED BY <2>1, <2>2
<1>2. AtWork(op[w]) /\ op[w] \in RdOp /\ ActiveRow(n) /\ OnlyDraft(g) /\ g # 0
  BY <1>a, <1>b, <1>1 DEF RdInv, OpsKept, RdType, AtWork
<1>3. CASE copies' = copies /\ Rd!End(w) BY <1>1, <1>3, EndStep
<1>4. ASSUME NEW o \in RdOp, op' = [op EXCEPT ![w] = o], o.step \in {"close", "idle"},
             o.step # "idle" => o.row = n /\ o.gid = g,
             copies' = [copies EXCEPT ![g].state = "deleted"]
      PROVE  RdInv'
  <2>1. /\ op' \in [Requests -> RdOp] /\ op'[w] = o /\ Requests = {w}
        /\ \A r : Carried(r)' <=> o.row = r /\ o.step \in {"send", "wait", "persist", "mark"}
    BY <1>4, RequestMoves
  <2>2. /\ copies' \in Seq([state : {"live", "sent", "deleted"}, copy : Texts])
        /\ Len(copies') = Len(copies) /\ DOMAIN copies' = DOMAIN copies
        /\ copies'[g].state = "deleted" /\ g \in DOMAIN copies
        /\ \A h \in DOMAIN copies : h # g => copies'[h] = copies[h]
    <3>1. g \in DOMAIN copies BY <1>2 DEF OnlyDraft, RdInv, RdType
    <3>. QED BY <1>4, <3>1, StateChanges DEF RdInv
  <2>3. NoDraft'
    <3>1. \A h \in DOMAIN copies : h # g => ~(copies[h].state = "live")
      BY <1>2 DEF OnlyDraft, Rd!LiveDrafts, Rd!Live
    <3>2. Rd!LiveDrafts' = {} BY <2>2, <3>1 DEF Rd!LiveDrafts, Rd!Live
    <3>. QED BY <1>1, <1>2, <3>2 DEF NoDraft, OnlyDraft, Creates
  <2>4. \A r : ActiveRow(r)' <=> ActiveRow(r) BY <1>1 DEF ActiveRow
  <2>5. \A h : OnlyDraft(h) => OnlyDraft(h)' BY <2>2, <2>3 DEF OnlyDraft, NoDraft
  <2>6. RdType' BY <1>1, <2>1, <2>2 DEF RdInv, RdType
  <2>7. OneActive' BY <2>4 DEF RdInv, OneActive
  <2>8. OneDraft' BY <2>3 DEF OneDraft, NoDraft
  <2>9. RowTells' BY <1>1, <2>3, <2>4, <2>5 DEF RdInv, RowTells, NoDraft, CopyKept
  <2>10. CallsKept'
    <3>1. \A d \in sending : d.late # 0 BY <1>1, OneRequest
    <3>. QED BY <1>1, <2>2, <2>3, <3>1 DEF RdInv, CallsKept, NoDraft
  <2>11. OpsKept'
    <3>1. o.step # "idle" => AtWork(o)'
      <4>1. OnlyDraft(g)' /\ ActiveRow(n)' BY <1>2, <2>4, <2>5
      <4>2. replies'[n].gid # 0 => g = replies'[n].gid BY <1>a, <1>b, <1>1, <1>2 DEF AtWork
      <4>. QED BY <1>4, <2>3, <4>1, <4>2 DEF AtWork
    <3>. QED BY <1>4, <2>1, <3>1 DEF OpsKept
  <2>. QED BY <2>6, <2>7, <2>8, <2>9, <2>10, <2>11 DEF RdInv
<1>5. CASE copies' = [copies EXCEPT ![g].state = "deleted"] /\ Rd!End(w)
  <2>1. Rd!Idle \in RdOp /\ Rd!Idle.step = "idle" BY DEF Rd!Idle, RdOp, Rd!Steps
  <2>. QED BY <1>4, <1>5, <2>1 DEF Rd!End
<1>6. CASE copies' = [copies EXCEPT ![g].state = "deleted"] /\ Rd!GoTo(w, "close")
  <2>. DEFINE o == [op[w] EXCEPT !.step = "close"]
  <2>1. /\ o \in RdOp /\ o.step = "close" /\ o.row = n /\ o.gid = g
        /\ op' = [op EXCEPT ![w] = o]
    BY <1>a, <1>b, <1>2, <1>6 DEF RdOp, Rd!Steps, Rd!GoTo
  <2>. HIDE DEF o
  <2>. QED BY <1>4, <1>6, <2>1
<1>. QED BY <1>b, <1>3, <1>5, <1>6 DEF Rd!Delete

(* The person's own hand only ever takes a draft away. *)
LEMMA HumanStep ==
  ASSUME RdBounds, RdInv, NEW g \in DOMAIN copies, NEW s \in {"sent", "deleted"}, Rd!Human(g, s)
  PROVE  RdInv'
<1>1. /\ UNCHANGED <<replies, latest, sending, op, troubles, unsure>>
      /\ copies' = [copies EXCEPT ![g].state = s]
  BY DEF Rd!Human, Rd!db
<1>2. /\ copies' \in Seq([state : {"live", "sent", "deleted"}, copy : Texts])
      /\ Len(copies') = Len(copies) /\ DOMAIN copies' = DOMAIN copies
      /\ copies'[g].state = s /\ g \in Nat
      /\ \A h \in DOMAIN copies : copies'[h].copy = copies[h].copy
                                  /\ (h # g => copies'[h] = copies[h])
  <2>1. RdType /\ s \in {"live", "sent", "deleted"} BY DEF RdInv
  <2>. QED BY <1>1, <2>1, StateChanges
<1>3. Rd!LiveDrafts' \subseteq Rd!LiveDrafts /\ Creates' = Creates
  BY <1>1, <1>2 DEF Rd!LiveDrafts, Rd!Live, Creates
<1>4. \A r : (ActiveRow(r)' <=> ActiveRow(r)) /\ (Carried(r)' <=> Carried(r))
  BY <1>1 DEF ActiveRow, Carried
<1>5. (NoDraft => NoDraft') /\ \A h : OnlyDraft(h) => OnlyDraft(h)' BY <1>2, <1>3 DEF OnlyDraft, NoDraft
<1>6. RdType' BY <1>1, <1>2 DEF RdInv, RdType
<1>7. OneActive' BY <1>4 DEF RdInv, OneActive
<1>8. OneDraft' BY <1>3 DEF RdInv, OneDraft
<1>9. RowTells'
  <2>1. \A r : CopyKept(r) => CopyKept(r)'
    <3>1. \A h \in Rd!LiveDrafts' : h \in Rd!LiveDrafts /\ copies'[h].copy = copies[h].copy
      BY <1>2, <1>3 DEF Rd!LiveDrafts
    <3>. QED BY <1>1, <3>1 DEF CopyKept
  <2>. QED BY <1>1, <1>3, <1>4, <1>5, <2>1 DEF RdInv, RowTells
<1>10. CallsKept' BY <1>1, <1>2, <1>3, <1>4 DEF RdInv, CallsKept, Rd!Call
<1>11. OpsKept'
  <2>1. \A v \in Requests : AtWork(op[v]) => AtWork(op[v])' BY <1>1, <1>4, <1>5 DEF AtWork
  <2>. QED BY <1>1, <2>1 DEF RdInv, OpsKept, Rd!Call
<1>. QED BY <1>6, <1>7, <1>8, <1>9, <1>10, <1>11 DEF RdInv

(* Gmail makes the draft that a request, or nobody any more, waits for. *)
LEMMA ExecuteCreateStep ==
  ASSUME RdBounds, RdInv, NEW c \in sending, Rd!ExecuteCreate(c)
  PROVE  RdInv'
<1>a. PICK w : w = c.from OBVIOUS
<1>b. PICK g : g = Len(copies) + 1 OBVIOUS
<1>c. PICK d : d = [state |-> "live", copy |-> c.copy] OBVIOUS
<1>d. PICK o : o = IF c.late # 0 THEN op[w] ELSE [op[w] EXCEPT !.step = "persist", !.gid = g]
  OBVIOUS
<1>0. c \in RdCall /\ w \in Requests /\ op \in [Requests -> RdOp] /\ op[w] \in RdOp
      /\ g \in Nat /\ g # 0
      /\ copies \in Seq([state : {"live", "sent", "deleted"}, copy : Texts])
  <2>1. c \in RdCall /\ op \in [Requests -> RdOp]
        /\ copies \in Seq([state : {"live", "sent", "deleted"}, copy : Texts])
    BY DEF RdInv, RdType
  <2>2. w \in Requests BY <1>a, <2>1 DEF RdCall
  <2>3. g \in Nat /\ g # 0 BY <1>b, <2>1
  <2>. QED BY <2>1, <2>2, <2>3
<1>1. /\ c.gid = 0 /\ sending' = sending \ {c} /\ copies' = Append(copies, d)
      /\ UNCHANGED <<replies, latest, troubles, unsure>>
  BY <1>c DEF Rd!ExecuteCreate, Rd!db
<1>2. op' = [op EXCEPT ![w] = o]
  <2>1. CASE c.late # 0 BY <1>d, <1>0, <2>1 DEF Rd!ExecuteCreate
  <2>2. CASE c.late = 0
    <3>1. op' = [op EXCEPT ![w].step = "persist", ![w].gid = Len(copies')]
      BY <2>2, <1>a DEF Rd!ExecuteCreate
    <3>2. Len(copies') = g BY <1>0, <1>1, <1>b
    <3>. QED BY <1>d, <1>0, <2>2, <3>1, <3>2
  <2>. QED BY <2>1, <2>2
<1>3. c \in Creates /\ Creates = {c} /\ Rd!LiveDrafts = {}
  <2>1. c \in Creates BY <1>1 DEF Creates
  <2>. QED BY <2>1 DEF RdInv, OneDraft
<1>4. PICK n : ActiveRow(n) /\ \A r : ActiveRow(r) <=> r = n
  <2>1. \E n : ActiveRow(n) BY <1>3 DEF RdInv, RowTells, NoDraft
  <2>. QED BY <2>1 DEF RdInv, OneActive
<1>5. c.copy = replies[n].copy /\ replies[n].gid = 0
      /\ replies[n].status \in {"proposed", "result_unknown"}
  BY <1>3, <1>4 DEF RdInv, RowTells, OnlyDraft, ActiveRow, Rd!Active
<1>6. Requests = {w} /\ (c.late = 0 => op[w].step = "wait" /\ c = Rd!Call(w))
      /\ \A r : Carried(r) <=> op[w].row = r /\ op[w].step \in {"send", "wait", "persist", "mark"}
  BY <1>0, OneRequest
<1>7. op[w].step # "idle" => op[w].row = n /\ AtWork(op[w])
  BY <1>0, <1>4 DEF RdInv, OpsKept, AtWork
<1>8. /\ o \in RdOp /\ o.row = op[w].row /\ o.copy = op[w].copy
      /\ c.late # 0 => o = op[w]
      /\ c.late = 0 => o.step = "persist" /\ o.gid = g /\ op[w].step = "wait" /\ op[w].row = n
  BY <1>d, <1>0, <1>6, <1>7 DEF RdOp, Rd!Steps
<1>9. /\ op' \in [Requests -> RdOp] /\ op'[w] = o
      /\ \A r : Carried(r)' <=> o.row = r /\ o.step \in {"send", "wait", "persist", "mark"}
  BY <1>0, <1>2, <1>8, RequestMoves
<1>10. /\ copies' \in Seq([state : {"live", "sent", "deleted"}, copy : Texts])
       /\ Len(copies') = g /\ copies'[g] = d /\ DOMAIN copies' = 1..g /\ DOMAIN copies = 1..(g - 1)
       /\ \A h \in DOMAIN copies : copies'[h] = copies[h]
  <2>1. d \in [state : {"live", "sent", "deleted"}, copy : Texts] BY <1>c, <1>0 DEF RdCall
  <2>. HIDE DEF RdInv
  <2>. QED BY <1>0, <1>1, <1>b, <2>1
<1>11. Rd!LiveDrafts' = {g} /\ Creates' = {} /\ \A r : ActiveRow(r)' <=> ActiveRow(r)
  <2>1. \A h \in 1..g : h \in DOMAIN copies \/ h = g BY <1>0, <1>10
  <2>2. \A h \in DOMAIN copies : copies'[h].state # "live"
    BY <1>3, <1>10 DEF Rd!LiveDrafts, Rd!Live
  <2>3. Rd!LiveDrafts' = {g} BY <1>0, <1>10, <2>1, <2>2, <1>c DEF Rd!LiveDrafts, Rd!Live
  <2>. QED BY <1>1, <1>3, <2>3 DEF Creates, ActiveRow
<1>12. OnlyDraft(g)' /\ copies'[g].copy = replies[n].copy
  BY <1>c, <1>0, <1>5, <1>10, <1>11 DEF OnlyDraft
<1>13. RdType' BY <1>1, <1>9, <1>10 DEF RdInv, RdType
<1>14. OneActive' BY <1>11 DEF RdInv, OneActive
<1>15. OneDraft' BY <1>11 DEF OneDraft
<1>16. RowTells'
  <2>1. replies[n].status = "proposed" => Carried(n)'
    <3>1. replies[n].status = "proposed" => Carried(n) BY <1>3, <1>4 DEF RdInv, RowTells, NoDraft
    <3>. QED BY <1>6, <1>8, <1>9, <3>1
  <2>2. CopyKept(n)' BY <1>1, <1>11, <1>12 DEF CopyKept
  <2>. QED BY <1>1, <1>4, <1>5, <1>11, <2>1, <2>2 DEF RowTells
<1>17. CallsKept'
  <2>1. \A e \in sending' : e.gid # 0 /\ e.gid \in 0..Len(copies) /\ e \in sending
    BY <1>1, <1>3 DEF Creates, RdInv, CallsKept
  <2>2. \A e \in sending' : e.late # 0
    <3>1. \A e \in sending : e.late = 0 => e = Rd!Call(w) /\ op[w].step = "wait" BY <1>0, OneRequest
    <3>2. op[w].step = "wait" => Rd!Call(w) \in sending BY <1>0 DEF RdInv, OpsKept
    <3>3. op[w].step = "wait" => op[w].gid = 0
      BY <1>3, <1>7 DEF AtWork, OnlyDraft
    <3>4. Rd!Call(w).gid = op[w].gid BY DEF Rd!Call
    <3>. QED BY <2>1, <3>1, <3>3, <3>4
  <2>3. \A e \in sending' : e.gid # g /\ e.gid \in 0..g BY <1>0, <1>b, <2>1
  <2>. QED BY <1>10, <1>11, <2>2, <2>3 DEF CallsKept
<1>18. OpsKept'
  <2>1. ActiveRow(n)' BY <1>4, <1>11
  <2>2. c.late # 0 /\ op[w].step # "idle" => op[w].gid = 0
    BY <1>3, <1>7 DEF AtWork, OnlyDraft
  <2>3. op[w].step # "idle" => ~(op[w].step = "send" /\ op[w].gid = 0) /\ op[w].step # "close"
    BY <1>3, <1>7 DEF AtWork, NoDraft
  <2>4. o.step # "idle" => AtWork(o)'
    <3>1. CASE c.late = 0 BY <1>0, <1>1, <1>5, <1>8, <1>12, <2>1, <3>1 DEF AtWork
    <3>2. CASE c.late # 0
      BY <1>1, <1>7, <1>8, <2>1, <2>2, <2>3, <3>2 DEF AtWork
    <3>. QED BY <3>1, <3>2
  <2>5. o.step = "wait" => Rd!Call(w)' \in sending'
    <3>1. o.step = "wait" => c.late # 0 BY <1>8
    <3>2. o.step = "wait" => Rd!Call(w)' = Rd!Call(w) BY <1>8, <1>9, <3>1 DEF Rd!Call
    <3>3. Rd!Call(w).late = 0 BY DEF Rd!Call
    <3>4. o.step = "wait" => Rd!Call(w) \in sending
      BY <1>0, <1>8, <3>1 DEF RdInv, OpsKept
    <3>. QED BY <1>1, <3>1, <3>2, <3>3, <3>4
  <2>6. o.step = "mark" /\ o.gid # 0 => o.row \in unsure'
    BY <1>0, <1>1, <1>8 DEF RdInv, OpsKept
  <2>. QED BY <1>6, <1>9, <2>4, <2>5, <2>6 DEF OpsKept
<1>. QED BY <1>13, <1>14, <1>15, <1>16, <1>17, <1>18 DEF RdInv

(* Gmail overwrites a draft, or refuses because it is none any more. *)
LEMMA ExecuteUpdateStep ==
  ASSUME RdBounds, RdInv, NEW c \in sending, Rd!ExecuteUpdate(c)
  PROVE  RdInv'
<1>a. PICK w : w = c.from OBVIOUS
<1>b. PICK g : g = c.gid OBVIOUS
<1>c. PICK o : o = CASE c.late # 0 -> op[w]
                     [] c.late = 0 /\ Rd!Live(g) -> [op[w] EXCEPT !.step = "persist"]
                     [] c.late = 0 /\ ~Rd!Live(g) -> Rd!Idle
  OBVIOUS
<1>0. c \in RdCall /\ w \in Requests /\ op \in [Requests -> RdOp] /\ op[w] \in RdOp
      /\ copies \in Seq([state : {"live", "sent", "deleted"}, copy : Texts])
      /\ g \in Nat /\ g # 0 /\ c.copy \in Texts
  BY <1>a, <1>b DEF RdInv, RdType, RdCall, Rd!ExecuteUpdate
<1>1. /\ sending' = sending \ {c} /\ UNCHANGED <<replies, latest, troubles, unsure>>
      /\ copies' = IF Rd!Live(g) THEN [copies EXCEPT ![g].copy = c.copy] ELSE copies
  BY <1>b DEF Rd!ExecuteUpdate, Rd!db
<1>2. op' = [op EXCEPT ![w] = o]
  <2>1. CASE c.late # 0 BY <1>c, <1>0, <2>1 DEF Rd!ExecuteUpdate
  <2>2. CASE c.late = 0 /\ Rd!Live(g) BY <1>a, <1>b, <1>c, <1>0, <2>2 DEF Rd!ExecuteUpdate
  <2>3. CASE c.late = 0 /\ ~Rd!Live(g) BY <1>a, <1>b, <1>c, <1>0, <2>3 DEF Rd!ExecuteUpdate
  <2>. QED BY <1>0, <2>1, <2>2, <2>3 DEF RdCall
<1>3. Requests = {w} /\ (c.late = 0 => op[w].step = "wait" /\ c = Rd!Call(w))
  BY <1>0, OneRequest
<1>4. op[w].step # "idle" => AtWork(op[w]) BY <1>0 DEF RdInv, OpsKept
<1>5. c.late = 0 => /\ op[w].gid = g /\ OnlyDraft(g) /\ ActiveRow(op[w].row)
                    /\ c.copy = replies[op[w].row].copy /\ replies[op[w].row].status = "proposed"
  <2>1. c.late = 0 => c.gid = op[w].gid /\ c.copy = op[w].copy BY <1>3 DEF Rd!Call
  <2>. QED BY <1>b, <1>0, <1>3, <1>4, <2>1 DEF AtWork
<1>6. /\ o \in RdOp
      /\ c.late # 0 => o = op[w]
      /\ c.late = 0 /\ Rd!Live(g) => o = [op[w] EXCEPT !.step = "persist"]
      /\ c.late = 0 /\ ~Rd!Live(g) => o.step = "idle"
  BY <1>c, <1>0 DEF RdOp, Rd!Steps, Rd!Idle, RdCall
<1>7. /\ op' \in [Requests -> RdOp] /\ op'[w] = o
      /\ \A r : Carried(r)' <=> o.row = r /\ o.step \in {"send", "wait", "persist", "mark"}
  BY <1>0, <1>2, <1>6, RequestMoves
<1>8. /\ copies' \in Seq([state : {"live", "sent", "deleted"}, copy : Texts])
      /\ Len(copies') = Len(copies) /\ DOMAIN copies' = DOMAIN copies
      /\ \A h \in DOMAIN copies : copies'[h].state = copies[h].state /\ (h # g => copies'[h] = copies[h])
      /\ Rd!Live(g) => copies'[g].copy = c.copy
  <2>1. CASE Rd!Live(g)
    <3>1. g \in DOMAIN copies /\ RdType BY <2>1 DEF Rd!Live, RdInv
    <3>. QED BY <1>0, <1>1, <2>1, <3>1, CopyChanges
  <2>2. CASE ~Rd!Live(g) BY <1>0, <1>1, <2>2
  <2>. QED BY <2>1, <2>2
<1>9. /\ Rd!LiveDrafts' = Rd!LiveDrafts /\ Creates' = Creates
      /\ \A r : ActiveRow(r)' <=> ActiveRow(r)
      /\ \A h : OnlyDraft(h)' <=> OnlyDraft(h)
  <2>1. Rd!LiveDrafts' = Rd!LiveDrafts BY <1>8 DEF Rd!LiveDrafts, Rd!Live
  <2>2. Creates' = Creates BY <1>0, <1>1, <1>b DEF Creates
  <2>. QED BY <1>1, <1>8, <2>1, <2>2 DEF ActiveRow, OnlyDraft
<1>10. RdType' BY <1>1, <1>7, <1>8 DEF RdInv, RdType
<1>11. OneActive' BY <1>9 DEF RdInv, OneActive
<1>12. OneDraft' BY <1>9 DEF RdInv, OneDraft
<1>13. g \in Rd!LiveDrafts \/ copies' = copies BY <1>1 DEF Rd!LiveDrafts, Rd!Live
<1>14. RowTells'
  <2>1. (\A r : ~ActiveRow(r)') => NoDraft' BY <1>9 DEF RdInv, RowTells, NoDraft
  <2>2. ASSUME NEW r, ActiveRow(r), replies[r].status = "proposed", ~Carried(r)'
        PROVE  NoDraft'
    <3>1. CASE c.late # 0
      <4>1. ~Carried(r) BY <1>3, <1>6, <1>7, <2>2, <3>1, <1>0, OneRequest
      <4>. QED BY <1>9, <2>2, <4>1 DEF RdInv, RowTells, NoDraft
    <3>2. CASE c.late = 0
      <4>1. op[w].row = r BY <1>5, <2>2, <3>2 DEF RdInv, OneActive
      <4>2. ~Rd!Live(g) BY <1>0, <1>6, <1>7, <2>2, <3>2, <4>1 DEF RdOp
      <4>. QED BY <1>5, <1>9, <3>2, <4>2 DEF OnlyDraft, NoDraft, Rd!LiveDrafts
    <3>. QED BY <3>1, <3>2
  <2>3. ASSUME NEW r, ActiveRow(r) PROVE CopyKept(r)'
    <3>1. CASE c.late # 0
      <4>1. CASE g \in Rd!LiveDrafts
        <5>1. r \in unsure BY <1>b, <2>3, <3>1, <4>1 DEF RdInv, CallsKept
        <5>. QED BY <1>1, <5>1 DEF CopyKept
      <4>2. CASE copies' = copies
        <5>1. op' = op BY <1>0, <1>2, <1>6, <3>1
        <5>. QED BY <1>1, <1>9, <2>3, <4>2, <5>1 DEF RdInv, RowTells, CopyKept
      <4>. QED BY <1>13, <4>1, <4>2
    <3>2. CASE c.late = 0
      <4>1. op[w].row = r BY <1>5, <2>3, <3>2 DEF RdInv, OneActive
      <4>2. \A h \in Rd!LiveDrafts' : copies'[h].copy = replies'[r].copy
        <5>1. \A h \in Rd!LiveDrafts : h = g /\ Rd!Live(g)
          BY <1>5, <3>2 DEF OnlyDraft, Rd!LiveDrafts
        <5>. QED BY <1>1, <1>5, <1>8, <1>9, <3>2, <4>1, <5>1
      <4>. QED BY <4>2 DEF CopyKept
    <3>. QED BY <3>1, <3>2
  <2>. QED BY <1>1, <1>9, <2>1, <2>2, <2>3 DEF RdInv, RowTells
<1>15. CallsKept'
  <2>1. \A e \in sending : e.late = 0 => e.from = w /\ e = Rd!Call(w) /\ op[w].step = "wait"
    <3>1. Rd!Call(w).from = w BY DEF Rd!Call
    <3>. QED BY <1>0, <3>1, OneRequest
  <2>2. c.late # 0 => op'[w] = op[w] /\ Rd!Call(w)' = Rd!Call(w) BY <1>6, <1>7 DEF Rd!Call
  <2>3. \A e \in sending' : e \in sending /\ (e.late = 0 => c.late # 0) BY <1>1, <1>3, <2>1
  <2>4. \A e \in sending' : e.late = 0 => op'[e.from].step = "wait" /\ e = Rd!Call(e.from)'
    BY <2>1, <2>2, <2>3
  <2>. QED BY <1>1, <1>8, <1>9, <2>3, <2>4 DEF RdInv, CallsKept
<1>16. OpsKept'
  <2>1. o.step # "idle" => AtWork(o)'
    <3>1. CASE c.late # 0
      BY <1>1, <1>4, <1>6, <1>9, <3>1 DEF AtWork, NoDraft
    <3>2. CASE c.late = 0 /\ Rd!Live(g)
      <4>1. o.step = "persist" /\ o.gid = g /\ o.row = op[w].row BY <1>0, <1>5, <1>6, <3>2 DEF RdOp
      <4>2. replies[o.row].gid # 0 => g = replies[o.row].gid BY <1>3, <1>4, <1>5, <3>2, <4>1 DEF AtWork
      <4>. QED BY <1>0, <1>1, <1>5, <1>9, <3>2, <4>1, <4>2 DEF AtWork
    <3>3. CASE c.late = 0 /\ ~Rd!Live(g) BY <1>6, <3>3
    <3>. QED BY <3>1, <3>2, <3>3
  <2>2. o.step = "wait" => c.late # 0 /\ o = op[w]
    BY <1>0, <1>6 DEF RdOp
  <2>3. o.step = "wait" => Rd!Call(w)' \in sending'
    <3>1. o.step = "wait" => Rd!Call(w)' = Rd!Call(w) BY <1>7, <2>2 DEF Rd!Call
    <3>2. Rd!Call(w).late = 0 BY DEF Rd!Call
    <3>3. o.step = "wait" => Rd!Call(w) \in sending BY <1>0, <2>2 DEF RdInv, OpsKept
    <3>. QED BY <1>1, <2>2, <3>1, <3>2, <3>3
  <2>4. o.step = "mark" => o = op[w] BY <1>0, <1>6 DEF RdOp
  <2>5. o.step = "mark" /\ o.gid # 0 => o.row \in unsure'
    BY <1>0, <1>1, <2>4 DEF RdInv, OpsKept
  <2>. QED BY <1>3, <1>7, <2>1, <2>3, <2>5 DEF OpsKept
<1>. QED BY <1>10, <1>11, <1>12, <1>14, <1>15, <1>16 DEF RdInv

(* Every step of the component. *)
LEMMA NextRd == ASSUME RdBounds, RdInv, Rd!Next PROVE RdInv'
<1>1. ASSUME NEW w \in Requests, Rd!Request(w) PROVE RdInv'
  <2>1. CASE \E c \in Texts : Rd!StartCreate(w, c) BY <2>1, StartCreateStep
  <2>2. CASE ~\E c \in Texts : Rd!StartCreate(w, c) BY <1>1, <2>2, StartSteps DEF Rd!Request
  <2>. QED BY <2>1, <2>2
<1>2. ASSUME NEW w \in Requests, Rd!Step(w) PROVE RdInv'
  BY <1>2, ReconcileStep, PrepareStep, SendCallStep, RefuseStep, PersistStep, LoseStep, MarkStep,
     DeleteStep, CloseStep DEF Rd!Step
<1>. QED BY <1>1, <1>2, CrashStep, ExecuteCreateStep, ExecuteUpdateStep, HumanStep DEF Rd!Next

(* The steps of the other components. *)
LEMMA SameRd == ASSUME RdInv, UNCHANGED rdVars PROVE RdInv'
<1>1. /\ Rd!LiveDrafts' = Rd!LiveDrafts /\ Creates' = Creates
      /\ \A r : (ActiveRow(r)' <=> ActiveRow(r)) /\ (CopyKept(r)' <=> CopyKept(r))
                /\ (Carried(r)' <=> Carried(r))
      /\ \A g : OnlyDraft(g)' <=> OnlyDraft(g)
      /\ \A w \in Requests : Rd!Call(w)' = Rd!Call(w)
  BY DEF rdVars, Rd!LiveDrafts, Rd!Live, Creates, ActiveRow, CopyKept, OnlyDraft, Rd!Call, Carried
<1>2. \A w \in Requests : AtWork(op[w])' <=> AtWork(op[w]) BY <1>1 DEF rdVars, AtWork, NoDraft
<1>3. RdType' /\ OneActive' /\ OneDraft' BY <1>1 DEF rdVars, RdInv, RdType, OneActive, OneDraft
<1>4. RowTells' BY <1>1 DEF rdVars, RdInv, RowTells, NoDraft
<1>5. CallsKept' BY <1>1 DEF rdVars, RdInv, RdType, RdCall, CallsKept
<1>6. OpsKept' BY <1>1, <1>2 DEF rdVars, RdInv, OpsKept
<1>. QED BY <1>3, <1>4, <1>5, <1>6 DEF RdInv

-----------------------------------------------------------------------------
(* The cardinality the instance extends is the one of the library. *)
LEMMA CountsDrafts == \A S : Rd!Cardinality(S) = Cardinality(S)
BY DEF Rd!Cardinality, Cardinality

(* What the properties ask for is part of the invariant. *)
LEMMA DraftsHoldNow == ASSUME RdBounds, RdInv PROVE Rd!DraftsHold
<1>1. Rd!OneLiveDraft
  <2>1. PICK g : Rd!LiveDrafts \subseteq {g} BY DEF RdInv, OneDraft
  <2>2. PICK c : Creates \subseteq {c} BY DEF RdInv, OneDraft
  <2>3. Rd!LiveDrafts = {} \/ Rd!LiveDrafts = {g} BY <2>1
  <2>4. Creates = {} \/ Creates = {c} BY <2>2
  <2>5. Cardinality({}) = 0 /\ \A x : Cardinality({x}) = 1 BY FS_EmptySet, FS_Singleton
  <2>6. Rd!LiveDrafts = {} \/ Creates = {} BY DEF RdInv, OneDraft
  <2>7. Cardinality(Rd!LiveDrafts) + Cardinality(Creates) <= 1
    <3>1. Cardinality(Rd!LiveDrafts) = 0 \/ (Cardinality(Rd!LiveDrafts) = 1 /\ Creates = {})
      BY <2>3, <2>5, <2>6
    <3>2. Cardinality(Creates) \in {0, 1} BY <2>4, <2>5
    <3>. QED BY <2>5, <3>1, <3>2
  <2>. QED BY <2>7, CountsDrafts DEF Rd!OneLiveDraft, Creates
<1>2. Rd!DraftIsHeld
  <2>1. SUFFICES ASSUME NEW g \in Rd!LiveDrafts
                 PROVE  \E r \in DOMAIN replies : /\ replies[r].status \in Rd!Active
                          /\ (Rd!Busy(r) \/ replies[r].gid = g \/ Rd!Unknown(r))
    BY DEF Rd!DraftIsHeld
  <2>2. PICK r : ActiveRow(r) BY DEF RdInv, RowTells, NoDraft
  <2>3. replies[r].gid # 0 => replies[r].gid = g BY <2>2 DEF RdInv, RowTells, OnlyDraft
  <2>4. replies[r].gid = 0 => replies[r].status \in {"proposed", "result_unknown"}
    BY <2>2 DEF RdInv, RowTells, ActiveRow, Rd!Active
  <2>5. replies[r].status = "proposed" => Carried(r) BY <2>2 DEF RdInv, RowTells, NoDraft
  <2>6. Carried(r) => Rd!Busy(r) BY DEF Carried, Rd!Busy
  <2>7. r \in DOMAIN replies /\ replies[r].status \in Rd!Active BY <2>2 DEF ActiveRow
  <2>. QED BY <2>3, <2>4, <2>5, <2>6, <2>7 DEF Rd!Unknown
<1>3. Rd!ShownCopyIsInGmail
  <2>1. SUFFICES ASSUME NEW r \in DOMAIN replies \ unsure,
                        replies[r].status \in {"created", "updated"}, Rd!Live(replies[r].gid)
                 PROVE  copies[replies[r].gid].copy = replies[r].copy
    BY DEF Rd!ShownCopyIsInGmail
  <2>2. ActiveRow(r) BY <2>1 DEF ActiveRow, Rd!Active
  <2>3. replies[r].gid \in Rd!LiveDrafts BY <2>1 DEF Rd!LiveDrafts, Rd!Live
  <2>. QED BY <2>1, <2>2, <2>3 DEF RdInv, RowTells, CopyKept
<1>. QED BY <1>1, <1>2, <1>3 DEF Rd!DraftsHold

(* Where every request stands, whatever was lost or late. *)
LEMMA RdInvariant == ASSUME RdBounds PROVE Spec => []RdInv
<1>1. Init => RdInv BY RdInit DEF Init
<1>2. RdInv /\ [Next]_vars => RdInv'
  <2>1. ASSUME RdInv, Next PROVE RdInv'
    <3>1. CASE Rd!Next BY <2>1, <3>1, NextRd
    <3>2. CASE UNCHANGED rdVars BY <2>1, <3>2, SameRd
    <3>. QED BY <2>1, <3>1, <3>2 DEF Next
  <2>2. ASSUME RdInv, UNCHANGED vars PROVE RdInv' BY <2>2, SameRd DEF vars
  <2>. QED BY <2>1, <2>2
<1>. QED BY <1>1, <1>2, PTL DEF Spec

(* A message has one draft in Gmail, the hub holds it and shows what it says, whatever is *)
(* lost, late, repeated or refused and whatever the person does in Gmail                *)
(* (reply-drafts/service.ts:217-372, gmail/drafts.ts:99-159).                             *)
THEOREM DraftsStay == ASSUME RdBounds PROVE Spec => []DraftsHold
<1>1. RdInv => DraftsHold BY DraftsHoldNow DEF DraftsHold
<1>. QED BY <1>1, RdInvariant, PTL

-----------------------------------------------------------------------------
(* Desk: a page whose answers come late. *)

Given == Numbers \cup Strays \cup {De!None}
DePage == [items : Seq(Nat \ {0}), sel : Nat, busy : BOOLEAN, evidence : Given,
           loaded : SUBSET Nat, done : SUBSET Nat]
DeFlight == [verb : {"approve", "reject", "remap"}, row : Nat, at : Nat, number : Given,
             answer : {"none", "posted", "held", "rejected", "stays"}]

DeType ==
  /\ excs \in Seq(De!Refs) /\ page \in DePage /\ page.loaded \subseteq DOMAIN excs
  /\ flights \subseteq DeFlight /\ looks \subseteq [number : Given, live : BOOLEAN]

(* The list is loaded once; what a decision settled is what has left it. *)
ListKept == De!RowsStay /\ page.done \subseteq page.loaded

(* The page is busy as long as a request is under way, and that request is about the *)
(* row that still stands where it stood when the key was pressed.                    *)
OneUnderWay ==
  /\ \A f, g \in flights : f = g
  /\ ~page.busy => flights = {}
  /\ \A f \in flights : f.at \in DOMAIN page.items /\ page.items[f.at] = f.row

(* Evidence, and requests for it that were not put aside, are of the selected row. *)
EvidenceTells ==
  /\ De!EvidenceIsOfTheRow
  /\ \A l \in looks : l.live => l.number = De!ProposalRefId(De!Selected(page))

DeInv == DeType /\ ListKept /\ OneUnderWay /\ EvidenceTells

(* What the list holds. *)
LEMMA ItemsAre ==
  ASSUME DeInv
  PROVE  /\ page.items \in Seq(Nat \ {0}) /\ page \in DePage
         /\ \A n \in DOMAIN page.items :
              page.items[n] \in page.loaded /\ page.items[n] \in DOMAIN excs
         /\ \A m, n \in DOMAIN page.items : page.items[m] = page.items[n] => m = n
         /\ De!Selected(page) = De!None \/ De!Selected(page) \in DOMAIN excs
<1>1. page.items \in Seq(Nat \ {0}) /\ page \in DePage BY DEF DeInv, DeType, DePage
<1>2. \A n \in DOMAIN page.items : page.items[n] \in De!ToSet(page.items) BY DEF De!ToSet
<1>3. De!ToSet(page.items) \subseteq page.loaded BY DEF DeInv, ListKept, De!RowsStay
<1>4. \A m, n \in DOMAIN page.items : page.items[m] = page.items[n] => m = n
  BY DEF DeInv, ListKept, De!RowsStay, De!IsInjective
<1>5. page.loaded \subseteq DOMAIN excs BY DEF DeInv, DeType
<1>. QED BY <1>1, <1>2, <1>3, <1>4, <1>5 DEF De!Selected

(* A row has a number of its own, or none. *)
LEMMA NumberGiven ==
  ASSUME DeInv, NEW n, n = De!None \/ n \in DOMAIN excs
  PROVE  De!ProposalRefId(n) \in Given
<1>1. \A r \in De!Refs : r.number \in Given BY DEF De!Refs, De!Ref, Given
<1>2. excs \in Seq(De!Refs) BY DEF DeInv, DeType
<1>. QED BY <1>1, <1>2 DEF De!ProposalRefId, Given

(* What the page shows changes: the evidence and the requests for it follow. *)
LEMMA DrawStep ==
  ASSUME DeInv, NEW q \in DePage, De!Draw(page, q), excs' = excs,
         q.evidence = page.evidence,
         De!Selected(q) = De!None \/ De!Selected(q) \in DOMAIN excs
  PROVE  /\ page' \in DePage /\ page'.items = q.items /\ page'.sel = q.sel
         /\ page'.busy = q.busy /\ page'.loaded = q.loaded /\ page'.done = q.done
         /\ looks' \subseteq [number : Given, live : BOOLEAN] /\ EvidenceTells'
<1>. DEFINE was == De!ProposalRefId(De!Selected(page))
            is == De!ProposalRefId(De!Selected(q))
<1>1. /\ page' = IF De!Selected(page) # De!Selected(q) THEN [q EXCEPT !.evidence = De!None] ELSE q
      /\ looks' = IF was = is THEN looks
                  ELSE De!Aside(looks) \cup IF is = De!None THEN {} ELSE {[number |-> is, live |-> TRUE]}
  BY DEF De!Draw
<1>2. /\ page' \in DePage /\ page'.items = q.items /\ page'.sel = q.sel
      /\ page'.busy = q.busy /\ page'.loaded = q.loaded /\ page'.done = q.done
      /\ De!Selected(page) # De!Selected(q) => page'.evidence = De!None
      /\ De!Selected(page) = De!Selected(q) => page'.evidence = page.evidence
  <2>1. De!None \in Given BY DEF Given
  <2>. QED BY <1>1, <2>1 DEF DePage
<1>3. De!Selected(page)' = De!Selected(q) BY <1>2 DEF De!Selected
<1>4. De!ProposalRefId(De!Selected(page))' = is BY <1>3 DEF De!ProposalRefId
<1>5. is \in Given BY NumberGiven
<1>6. looks \subseteq [number : Given, live : BOOLEAN] BY DEF DeInv, DeType
<1>7. \A l \in De!Aside(looks) : l \in [number : Given, live : BOOLEAN] /\ l.live = FALSE
  BY <1>6 DEF De!Aside
<1>8. \A l \in looks : l.live => l.number = was BY DEF DeInv, EvidenceTells
<1>9. De!EvidenceIsOfTheRow'
  <2>1. page.evidence # De!None => page.evidence = was
    BY DEF DeInv, EvidenceTells, De!EvidenceIsOfTheRow
  <2>2. page'.evidence # De!None => page'.evidence = is
    BY <1>2, <2>1
  <2>. QED BY <1>4, <2>2 DEF De!EvidenceIsOfTheRow
<1>. HIDE DEF was, is
<1>10. /\ looks' \subseteq [number : Given, live : BOOLEAN]
       /\ \A l \in looks' : l.live => l.number = is
  <2>1. CASE was = is BY <1>1, <1>6, <1>8, <2>1
  <2>2. CASE was # is
    <3>1. \A l \in looks' : l \in De!Aside(looks) \/ l = [number |-> is, live |-> TRUE]
      BY <1>1, <2>2
    <3>2. ASSUME NEW l \in De!Aside(looks)
          PROVE  l \in [number : Given, live : BOOLEAN] /\ (l.live => l.number = is)
      BY <1>7
    <3>3. ASSUME NEW l, l = [number |-> is, live |-> TRUE]
          PROVE  l \in [number : Given, live : BOOLEAN] /\ (l.live => l.number = is)
      BY <1>5, <3>3
    <3>. QED BY <3>1, <3>2, <3>3
  <2>. QED BY <2>1, <2>2
<1>. QED BY <1>2, <1>4, <1>9, <1>10 DEF EvidenceTells, is

(* Exceptions are added, and the page and its requests stay as they are. *)
LEMMA ExcsAdded ==
  ASSUME DeInv, excs' \in Seq(De!Refs), Len(excs) <= Len(excs'),
         \A n \in DOMAIN excs : excs'[n] = excs[n],
         UNCHANGED <<page, looks>>, flights' \subseteq DeFlight, OneUnderWay'
  PROVE  DeInv'
<1>1. DOMAIN excs \subseteq DOMAIN excs' BY DEF DeInv, DeType
<1>2. DeType' BY <1>1 DEF DeInv, DeType
<1>3. ListKept' BY DEF DeInv, ListKept, De!RowsStay
<1>4. De!Selected(page)' = De!Selected(page) BY DEF De!Selected
<1>5. De!ProposalRefId(De!Selected(page))' = De!ProposalRefId(De!Selected(page))
  BY <1>1, <1>4, ItemsAre DEF De!ProposalRefId
<1>6. EvidenceTells' BY <1>5 DEF DeInv, EvidenceTells, De!EvidenceIsOfTheRow
<1>. QED BY <1>2, <1>3, <1>6 DEF DeInv

(* An exception is added behind the ones there are. *)
LEMMA RaiseAdds ==
  ASSUME DeInv, NEW refs \in SUBSET De!Refs, De!Raise(refs)
  PROVE  /\ excs' \in Seq(De!Refs) /\ Len(excs) <= Len(excs')
         /\ \A n \in DOMAIN excs : excs'[n] = excs[n]
<1>1. PICK r \in De!Refs : excs' = Append(excs, r) BY DEF De!Raise
<1>2. excs \in Seq(De!Refs) BY DEF DeInv, DeType
<1>. HIDE DEF De!Refs
<1>. QED BY <1>1, <1>2

(* A press, or the form of a remap, while no request is under way. *)
LEMMA SendPress ==
  ASSUME DeInv, NEW verb \in {"approve", "reject", "remap"}, ~page.busy,
         De!Selected(page) # De!None, De!Send(verb)
  PROVE  DeInv'
<1>. DEFINE f == [verb |-> verb, row |-> De!Selected(page), at |-> page.sel,
                  number |-> De!ProposalRefId(De!Selected(page)), answer |-> "none"]
<1>1. /\ flights' = flights \cup {f} /\ page' = [page EXCEPT !.busy = TRUE]
      /\ UNCHANGED <<excs, status, looks>>
  BY DEF De!Send
<1>2. flights = {} BY DEF DeInv, OneUnderWay
<1>3. /\ page.sel \in DOMAIN page.items /\ page.items[page.sel] = De!Selected(page)
      /\ page \in DePage /\ De!Selected(page) \in Nat /\ page.sel \in Nat
  BY ItemsAre DEF De!Selected, DePage
<1>4. f \in DeFlight
  <2>1. De!ProposalRefId(De!Selected(page)) \in Given BY NumberGiven, ItemsAre
  <2>. QED BY <1>3, <2>1 DEF DeFlight
<1>5. f.at = page.sel /\ f.row = De!Selected(page) OBVIOUS
<1>. HIDE DEF f
<1>6. /\ page' \in DePage /\ page'.items = page.items /\ page'.sel = page.sel /\ page'.busy
      /\ page'.loaded = page.loaded /\ page'.done = page.done /\ page'.evidence = page.evidence
  BY <1>1, <1>3 DEF DePage
<1>7. DeType' BY <1>1, <1>4, <1>6 DEF DeInv, DeType
<1>8. ListKept' BY <1>6 DEF DeInv, ListKept, De!RowsStay
<1>9. OneUnderWay' BY <1>1, <1>2, <1>3, <1>5, <1>6 DEF OneUnderWay
<1>10. EvidenceTells'
  <2>1. De!ProposalRefId(De!Selected(page))' = De!ProposalRefId(De!Selected(page))
    BY <1>1, <1>6 DEF De!ProposalRefId, De!Selected
  <2>. QED BY <1>1, <1>6, <2>1 DEF DeInv, EvidenceTells, De!EvidenceIsOfTheRow
<1>. QED BY <1>7, <1>8, <1>9, <1>10 DEF DeInv

(* The answer of the service does not change what was asked. *)
LEMMA AnsweredFlight ==
  ASSUME DeInv, NEW f \in flights, NEW a \in {"posted", "held", "rejected", "stays"},
         De!Answered(f, a), page' = page
  PROVE  flights' \subseteq DeFlight /\ OneUnderWay'
<1>. DEFINE g == [f EXCEPT !.answer = a]
<1>1. flights = {f} /\ f \in DeFlight BY DEF DeInv, OneUnderWay, DeType
<1>2. g \in DeFlight /\ g.at = f.at /\ g.row = f.row BY <1>1 DEF DeFlight
<1>3. flights' = {g} BY <1>1 DEF De!Answered
<1>. HIDE DEF g
<1>. QED BY <1>1, <1>2, <1>3 DEF DeInv, OneUnderWay

(* The service works on the request, and other people beside it. *)
LEMMA ServeStep == ASSUME DeInv, NEW f \in flights, De!Serve(f) PROVE DeInv'
<1>1. UNCHANGED <<page, looks>> BY DEF De!Serve
<1>2. PICK a \in {"posted", "held", "rejected", "stays"} : De!Answered(f, a)
  BY DEF De!Serve, De!Approve, De!Reject
<1>3. excs' = excs \/ \E refs \in SUBSET De!Refs : De!Raise(refs)
  <2>1. {r \in De!Refs : r.kind = "other" \/ r = De!Ref("proposal", f.number)} \in SUBSET De!Refs
    OBVIOUS
  <2>2. f.number \in Numbers => {De!Ref("proposal", f.number)} \in SUBSET De!Refs BY DEF De!Refs
  <2>. QED BY <2>1, <2>2 DEF De!Serve, De!Approve, De!Reject
<1>4. /\ excs' \in Seq(De!Refs) /\ Len(excs) <= Len(excs')
      /\ \A n \in DOMAIN excs : excs'[n] = excs[n]
  <2>1. CASE excs' = excs BY <2>1 DEF DeInv, DeType
  <2>2. CASE excs' # excs BY <1>3, <2>2, RaiseAdds
  <2>. QED BY <2>1, <2>2
<1>. QED BY <1>1, <1>2, <1>4, AnsweredFlight, ExcsAdded

LEMMA ElsewhereStep == ASSUME DeInv, De!Elsewhere PROVE DeInv'
<1>1. UNCHANGED <<page, flights, looks>> /\ (excs' = excs \/ De!Raise(De!Refs))
  BY DEF De!Elsewhere
<1>2. /\ excs' \in Seq(De!Refs) /\ Len(excs) <= Len(excs')
      /\ \A n \in DOMAIN excs : excs'[n] = excs[n]
  <2>1. CASE excs' = excs BY <2>1 DEF DeInv, DeType
  <2>2. CASE De!Raise(De!Refs) BY <2>2, RaiseAdds
  <2>. QED BY <1>1, <2>1, <2>2
<1>3. flights' \subseteq DeFlight /\ OneUnderWay' BY <1>1 DEF DeInv, DeType, OneUnderWay
<1>. QED BY <1>1, <1>2, <1>3, ExcsAdded


(* The page before it has loaded, at the start and whenever it is opened anew. *)
LEMMA DeInit == ASSUME De!Init PROVE DeInv
<1>1. /\ excs \in [1..2 -> De!Refs] /\ page = De!Opened /\ flights = {} /\ looks = {}
  BY DEF De!Init
<1>2. excs \in Seq(De!Refs)
  <2>1. PICK k \in Nat : k = 2 OBVIOUS
  <2>2. excs \in [1..k -> De!Refs] BY <1>1, <2>1
  <2>. QED BY <2>2
<1>3. /\ page \in DePage /\ page.items = <<>> /\ page.loaded = {} /\ page.done = {}
      /\ page.evidence = De!None
  BY <1>1 DEF De!Opened, DePage, Given
<1>4. De!RowsStay BY <1>3 DEF De!RowsStay, De!ToSet, De!IsInjective
<1>. QED BY <1>1, <1>2, <1>3, <1>4
     DEF DeInv, DeType, ListKept, OneUnderWay, EvidenceTells, De!EvidenceIsOfTheRow

LEMMA OpenStep == ASSUME DeInv, De!Open PROVE DeInv'
<1>1. /\ page' = De!Opened /\ flights' = {} /\ looks' = {} /\ excs' = excs
  BY DEF De!Open
<1>3. /\ page' \in DePage /\ page'.items = <<>> /\ page'.loaded = {} /\ page'.done = {}
      /\ page'.evidence = De!None
  BY <1>1 DEF De!Opened, DePage, Given
<1>4. De!RowsStay' BY <1>3 DEF De!RowsStay, De!ToSet, De!IsInjective
<1>. QED BY <1>1, <1>3, <1>4
     DEF DeInv, DeType, ListKept, OneUnderWay, EvidenceTells, De!EvidenceIsOfTheRow

(* The list arrives. *)
LEMMA LoadStep == ASSUME DeInv, De!Load PROVE DeInv'
<1>. DEFINE all == De!Reverse([n \in DOMAIN excs |-> n])
            q == [page EXCEPT !.items = all, !.loaded = DOMAIN excs]
<1>1. /\ page.loaded = {} /\ De!Draw(page, q) /\ UNCHANGED <<excs, flights>>
  BY DEF De!Load
<1>2. excs \in Seq(De!Refs) /\ Len(excs) \in Nat /\ DOMAIN excs = 1..Len(excs)
  BY DEF DeInv, DeType
<1>3. all = [n \in 1..Len(excs) |-> Len(excs) - n + 1]
  <2>. DEFINE s == [n \in DOMAIN excs |-> n]
  <2>1. Len(s) = Len(excs) BY <1>2
  <2>2. \A n \in 1..Len(excs) : Len(excs) - n + 1 \in 1..Len(excs) BY <1>2
  <2>3. \A n \in 1..Len(excs) : s[Len(excs) - n + 1] = Len(excs) - n + 1 BY <1>2, <2>2
  <2>4. all = [n \in 1..Len(s) |-> s[Len(s) - n + 1]] BY DEF De!Reverse
  <2>. QED BY <2>1, <2>3, <2>4
<1>. HIDE DEF all
<1>4. /\ all \in Seq(Nat \ {0}) /\ DOMAIN all = DOMAIN excs
      /\ \A n \in DOMAIN all : all[n] = Len(excs) - n + 1 /\ all[n] \in DOMAIN excs
  <2>1. \A n \in 1..Len(excs) : Len(excs) - n + 1 \in 1..Len(excs) BY <1>2
  <2>2. DOMAIN all = 1..Len(excs) /\ \A n \in 1..Len(excs) : all[n] = Len(excs) - n + 1 BY <1>3
  <2>3. \A n \in 1..Len(excs) : all[n] \in Nat \ {0} BY <2>1, <2>2
  <2>4. all \in Seq(Nat \ {0}) BY <1>2, <1>3, <2>3
  <2>. QED BY <1>2, <2>1, <2>2, <2>4
<1>5. De!ToSet(all) = DOMAIN excs
  <2>1. ASSUME NEW n \in DOMAIN excs PROVE \E m \in DOMAIN all : all[m] = n
    <3>1. Len(excs) - n + 1 \in 1..Len(excs) /\ Len(excs) - (Len(excs) - n + 1) + 1 = n BY <1>2
    <3>. QED BY <1>2, <1>4, <3>1
  <2>. QED BY <1>4, <2>1 DEF De!ToSet
<1>6. De!IsInjective(all) BY <1>2, <1>4 DEF De!IsInjective
<1>7. page \in DePage BY DEF DeInv, DeType
<1>8. /\ q \in DePage /\ q.items = all /\ q.loaded = DOMAIN excs /\ q.done = page.done
      /\ q.evidence = page.evidence /\ q.busy = page.busy
  <2>1. DOMAIN excs \in SUBSET Nat BY <1>2
  <2>. QED BY <1>4, <1>7, <2>1 DEF DePage
<1>. HIDE DEF q
<1>9. De!Selected(q) = De!None \/ De!Selected(q) \in DOMAIN excs BY <1>4, <1>8 DEF De!Selected
<1>10. /\ page' \in DePage /\ page'.items = all /\ page'.busy = page.busy
       /\ page'.loaded = DOMAIN excs /\ page'.done = page.done
       /\ looks' \subseteq [number : Given, live : BOOLEAN] /\ EvidenceTells'
  BY <1>1, <1>8, <1>9, DrawStep
<1>11. page.done = {} /\ page.items = <<>>
  <2>1. page.done = {} BY <1>1 DEF DeInv, ListKept
  <2>2. page.items \in Seq(Nat \ {0}) /\ \A n \in DOMAIN page.items : FALSE
    BY <1>1, ItemsAre
  <2>3. Len(page.items) = 0
    <3>0. DOMAIN page.items = 1..Len(page.items) BY <2>2
    <3>1. \A n \in 1..Len(page.items) : FALSE BY <2>2, <3>0, Zenon
    <3>2. Len(page.items) \in Nat BY <2>2
    <3>. QED BY <3>1, <3>2
  <2>. QED BY <2>1, <2>2, <2>3
<1>12. DeType' BY <1>1, <1>10 DEF DeInv, DeType
<1>13. ListKept' BY <1>1, <1>5, <1>6, <1>10, <1>11 DEF ListKept, De!RowsStay
<1>14. OneUnderWay' BY <1>1, <1>10, <1>11 DEF DeInv, OneUnderWay
<1>. QED BY <1>10, <1>12, <1>13, <1>14 DEF DeInv

(* The person moves on, whatever is under way. *)
LEMMA NavigateStep == ASSUME DeInv, De!Navigate PROVE DeInv'
<1>1. PICK s \in 0..Len(page.items) : De!Draw(page, [page EXCEPT !.sel = s])
  BY DEF De!Navigate
<1>2. UNCHANGED <<excs, flights>> BY DEF De!Navigate
<1>. DEFINE q == [page EXCEPT !.sel = s]
<1>3. page \in DePage /\ s \in Nat BY ItemsAre
<1>4. /\ q \in DePage /\ q.items = page.items /\ q.loaded = page.loaded /\ q.done = page.done
      /\ q.evidence = page.evidence /\ q.busy = page.busy
  BY <1>3 DEF DePage
<1>5. De!Draw(page, q) BY <1>1
<1>. HIDE DEF q
<1>6. De!Selected(q) = De!None \/ De!Selected(q) \in DOMAIN excs BY <1>4, ItemsAre DEF De!Selected
<1>7. /\ page' \in DePage /\ page'.items = page.items /\ page'.busy = page.busy
      /\ page'.loaded = page.loaded /\ page'.done = page.done
      /\ looks' \subseteq [number : Given, live : BOOLEAN] /\ EvidenceTells'
  BY <1>2, <1>4, <1>5, <1>6, DrawStep
<1>8. DeType' BY <1>2, <1>7 DEF DeInv, DeType
<1>9. ListKept' BY <1>7 DEF DeInv, ListKept, De!RowsStay
<1>10. OneUnderWay' BY <1>2, <1>7 DEF DeInv, OneUnderWay
<1>. QED BY <1>7, <1>8, <1>9, <1>10 DEF DeInv

(* A place in the list is a number. *)
LEMMA ClampNat == ASSUME NEW i \in Nat, NEW s, Len(s) \in Nat PROVE De!Clamp(i, s) \in Nat
<1>. DEFINE m == De!Min({i, Len(s)})
<1>1. m \in Nat
  <2>1. \E x \in {i, Len(s)} : \A y \in {i, Len(s)} : x <= y OBVIOUS
  <2>. QED BY <2>1 DEF De!Min
<1>. HIDE DEF m
<1>2. De!Max({1, m}) \in Nat
  <2>1. \E x \in {1, m} : \A y \in {1, m} : x >= y
    <3>1. CASE m <= 1 BY <1>1, <3>1
    <3>2. CASE m > 1 BY <1>1, <3>2
    <3>. QED BY <1>1, <3>1, <3>2
  <2>2. De!Max({1, m}) \in {1, m} BY <2>1 DEF De!Max
  <2>. QED BY <1>1, <2>2
<1>. QED BY <1>2 DEF De!Clamp, m

(* The row at one place leaves a list of different rows. *)
LEMMA RowLeaves ==
  ASSUME NEW S, NEW s \in Seq(S), De!IsInjective(s), NEW n \in DOMAIN s
  PROVE  LET t == De!RemoveAt(s, n) IN
         t \in Seq(S) /\ De!IsInjective(t) /\ De!ToSet(t) = De!ToSet(s) \ {s[n]}
<1>. DEFINE a == SubSeq(s, 1, n - 1)
            b == SubSeq(s, n + 1, Len(s))
            t == a \o b
            from(k) == IF k < n THEN k ELSE k + 1
<1>0. Len(s) \in Nat /\ n \in 1..Len(s) /\ DOMAIN s = 1..Len(s) /\ n \in Nat OBVIOUS
<1>1. a \in Seq(S) /\ b \in Seq(S) /\ Len(a) = n - 1 /\ Len(b) = Len(s) - n BY <1>0
<1>2. \A k \in 1..(n - 1) : a[k] = s[k] BY <1>0
<1>3. \A k \in 1..(Len(s) - n) : b[k] = s[n + k] BY <1>0
<1>4. De!RemoveAt(s, n) = t BY DEF De!RemoveAt
<1>. HIDE DEF a, b
<1>5. t \in Seq(S) /\ Len(t) = Len(s) - 1
  <2>1. a \o b \in Seq(S) BY <1>1
  <2>3. Len(a \o b) = Len(a) + Len(b)
    <3>1. a \in Seq(S) /\ b \in Seq(S) BY <1>1
    <3>. QED BY <3>1
  <2>2. Len(a) + Len(b) = Len(s) - 1 BY <1>0, <1>1
  <2>. QED BY <2>1, <2>2, <2>3
<1>6. DOMAIN t = 1..(Len(s) - 1) BY <1>5
<1>7. ASSUME NEW k \in DOMAIN t PROVE t[k] = s[from(k)] /\ from(k) \in DOMAIN s
  <2>0. k \in 1..(Len(s) - 1) BY <1>6
  <2>1. CASE k < n
    <3>1. t[k] = a[k] /\ k \in 1..(n - 1) BY <1>0, <1>1, <2>0, <2>1
    <3>. QED BY <1>0, <1>2, <2>0, <2>1, <3>1
  <2>2. CASE ~(k < n)
    <3>1. t[k] = b[k - (n - 1)] BY <1>0, <1>1, <2>0, <2>2
    <3>2. k - (n - 1) \in 1..(Len(s) - n) /\ n + (k - (n - 1)) = k + 1 BY <1>0, <2>0, <2>2
    <3>3. k + 1 \in DOMAIN s BY <1>0, <2>0
    <3>. QED BY <1>3, <2>2, <3>1, <3>2, <3>3
  <2>. QED BY <2>1, <2>2
<1>8. ASSUME NEW m \in DOMAIN s, m # n PROVE \E k \in DOMAIN t : from(k) = m
  <2>0. m \in 1..Len(s) BY <1>0
  <2>1. CASE m < n
    <3>1. m \in 1..(Len(s) - 1) BY <1>0, <2>0, <2>1
    <3>2. from(m) = m BY <2>1
    <3>. QED BY <1>6, <3>1, <3>2
  <2>2. CASE ~(m < n)
    <3>1. m - 1 \in 1..(Len(s) - 1) /\ ~(m - 1 < n) /\ (m - 1) + 1 = m
      BY <1>0, <1>8, <2>0, <2>2
    <3>2. from(m - 1) = m BY <3>1
    <3>. QED BY <1>6, <3>1, <3>2
  <2>. QED BY <2>1, <2>2
<1>9. \A k \in DOMAIN t : from(k) # n /\ \A j \in DOMAIN t : from(j) = from(k) => j = k
  <2>1. \A k \in 1..(Len(s) - 1) :
          from(k) # n /\ \A j \in 1..(Len(s) - 1) : from(j) = from(k) => j = k
    BY <1>0
  <2>. QED BY <1>6, <2>1
<1>. HIDE DEF t, from
<1>10. \A i, j \in DOMAIN s : s[i] = s[j] => i = j BY DEF De!IsInjective
<1>11. De!IsInjective(t) BY <1>7, <1>9, <1>10 DEF De!IsInjective
<1>12. De!ToSet(t) = De!ToSet(s) \ {s[n]}
  <2>1. ASSUME NEW x \in De!ToSet(t) PROVE x \in De!ToSet(s) \ {s[n]}
    BY <1>7, <1>9, <1>10, <2>1 DEF De!ToSet
  <2>2. ASSUME NEW x \in De!ToSet(s) \ {s[n]} PROVE x \in De!ToSet(t)
    <3>1. PICK m \in DOMAIN s : x = s[m] BY DEF De!ToSet
    <3>2. PICK k \in DOMAIN t : from(k) = m BY <1>8, <2>2, <3>1
    <3>. QED BY <1>7, <3>1, <3>2 DEF De!ToSet
  <2>. QED BY <2>1, <2>2
<1>. QED BY <1>4, <1>5, <1>11, <1>12

(* An answer takes out the row it was asked about. *)
LEMMA AnswerStep == ASSUME DeInv, NEW f \in flights, De!Answer(f) PROVE DeInv'
<1>1. flights' = {} /\ excs' = excs
  <2>1. flights = {f} BY DEF DeInv, OneUnderWay
  <2>. QED BY <2>1 DEF De!Answer
<1>2. f.at \in DOMAIN page.items /\ page.items[f.at] = f.row BY DEF DeInv, OneUnderWay
<1>3. page \in DePage /\ page.items \in Seq(Nat \ {0}) /\ f.row \in page.loaded BY <1>2, ItemsAre
<1>. DEFINE p == [page EXCEPT !.busy = FALSE]
            items == De!RemoveAt(p.items, f.at)
            r == De!RemoveSelected(p, f)
            q == IF f.answer \in De!Settles THEN [r EXCEPT !.done = page.done \cup {f.row}] ELSE p
<1>4. De!Draw(page, q) BY DEF De!Answer
<1>5. /\ p \in DePage /\ p.items = page.items /\ p.loaded = page.loaded /\ p.done = page.done
      /\ p.evidence = page.evidence /\ p.sel = page.sel
  BY <1>3 DEF DePage
<1>6. /\ items \in Seq(Nat \ {0}) /\ De!IsInjective(items)
      /\ De!ToSet(items) = De!ToSet(page.items) \ {f.row}
  BY <1>2, <1>3, <1>5, RowLeaves DEF DeInv, ListKept, De!RowsStay
<1>7. De!Clamp(p.sel, items) \in Nat
  <2>1. p.sel \in Nat BY <1>5 DEF DePage
  <2>. HIDE DEF items, p
  <2>. QED BY <1>6, <2>1, ClampNat
<1>8. r = [p EXCEPT !.items = items, !.sel = De!Clamp(p.sel, items)] BY DEF De!RemoveSelected
<1>. HIDE DEF r, items, p
<1>9. /\ r \in DePage /\ r.items = items /\ r.loaded = page.loaded /\ r.done = page.done
      /\ r.evidence = page.evidence
  BY <1>5, <1>6, <1>7, <1>8 DEF DePage
<1>10. page.done \cup {f.row} \in SUBSET Nat BY <1>3 DEF DePage
<1>11. /\ q \in DePage /\ q.loaded = page.loaded /\ q.evidence = page.evidence
       /\ IF f.answer \in De!Settles THEN q.items = items /\ q.done = page.done \cup {f.row}
                                     ELSE q.items = page.items /\ q.done = page.done
  BY <1>5, <1>9, <1>10 DEF DePage
<1>. HIDE DEF q
<1>12. /\ De!ToSet(q.items) = q.loaded \ q.done /\ De!IsInjective(q.items)
       /\ q.done \subseteq q.loaded
  BY <1>3, <1>6, <1>11 DEF DeInv, ListKept, De!RowsStay
<1>13. De!Selected(q) = De!None \/ De!Selected(q) \in DOMAIN excs
  <2>1. \A n \in DOMAIN q.items : q.items[n] \in De!ToSet(q.items) BY DEF De!ToSet
  <2>2. q.loaded \subseteq DOMAIN excs BY <1>11 DEF DeInv, DeType
  <2>. QED BY <1>12, <2>1, <2>2 DEF De!Selected
<1>14. /\ page' \in DePage /\ page'.items = q.items
       /\ page'.loaded = q.loaded /\ page'.done = q.done
       /\ looks' \subseteq [number : Given, live : BOOLEAN] /\ EvidenceTells'
  BY <1>1, <1>4, <1>11, <1>13, DrawStep
<1>15. DeType' BY <1>1, <1>11, <1>14 DEF DeInv, DeType
<1>16. ListKept' BY <1>12, <1>14 DEF ListKept, De!RowsStay
<1>17. OneUnderWay' BY <1>1 DEF OneUnderWay
<1>. QED BY <1>14, <1>15, <1>16, <1>17 DEF DeInv

(* Evidence arrives, or fails to. *)
LEMMA LookStep == ASSUME DeInv, NEW l \in looks, De!Look(l) PROVE DeInv'
<1>1. looks' = looks \ {l} /\ UNCHANGED <<excs, flights>> BY DEF De!Look
<1>2. page' = page \/ (l.live /\ page' = [page EXCEPT !.evidence = l.number])
  BY DEF De!Look, De!Seen
<1>3. page \in DePage /\ l \in [number : Given, live : BOOLEAN] BY DEF DeInv, DeType
<1>4. /\ page' \in DePage /\ page'.items = page.items /\ page'.sel = page.sel
      /\ page'.busy = page.busy /\ page'.loaded = page.loaded /\ page'.done = page.done
      /\ page'.evidence = page.evidence \/ (l.live /\ page'.evidence = l.number)
  <2>1. CASE page' = page BY <1>3, <2>1
  <2>2. CASE l.live /\ page' = [page EXCEPT !.evidence = l.number] BY <1>3, <2>2 DEF DePage
  <2>. QED BY <1>2, <2>1, <2>2
<1>5. De!ProposalRefId(De!Selected(page))' = De!ProposalRefId(De!Selected(page))
  BY <1>1, <1>4 DEF De!ProposalRefId, De!Selected
<1>6. EvidenceTells' BY <1>1, <1>4, <1>5 DEF DeInv, EvidenceTells, De!EvidenceIsOfTheRow
<1>7. DeType' BY <1>1, <1>4 DEF DeInv, DeType
<1>8. ListKept' BY <1>4 DEF DeInv, ListKept, De!RowsStay
<1>9. OneUnderWay' BY <1>1, <1>4 DEF DeInv, OneUnderWay
<1>. QED BY <1>6, <1>7, <1>8, <1>9 DEF DeInv

(* Every step of the component. *)
LEMMA NextDe == ASSUME DeInv, De!Next PROVE DeInv'
<1>1. ASSUME NEW verb \in {"approve", "reject"}, De!Press(verb) PROVE DeInv'
  <2>1. De!Selected(page) # De!None /\ ~page.busy /\ De!Send(verb)
    BY <1>1 DEF De!Press, De!ProposalRefId
  <2>. QED BY <2>1, SendPress
<1>2. CASE De!Remap BY <1>2, SendPress DEF De!Remap
<1>. QED BY <1>1, <1>2, OpenStep, LoadStep, NavigateStep, ElsewhereStep, ServeStep, AnswerStep,
         LookStep DEF De!Next

(* The cardinality the instance extends is the one of the library. *)
LEMMA CountsFlights == \A S : De!Cardinality(S) = Cardinality(S)
BY DEF De!Cardinality, Cardinality

(* What stands on the page, and what is under way. *)
LEMMA DeInvariant == Spec => []DeInv
<1>1. Init => DeInv BY DeInit DEF Init
<1>2. DeInv /\ [Next]_vars => DeInv'
  <2>1. ASSUME DeInv, UNCHANGED deVars PROVE DeInv'
    <3>1. De!ProposalRefId(De!Selected(page))' = De!ProposalRefId(De!Selected(page))
      BY <2>1 DEF deVars, De!ProposalRefId, De!Selected
    <3>2. EvidenceTells' BY <2>1, <3>1 DEF deVars, DeInv, EvidenceTells, De!EvidenceIsOfTheRow
    <3>3. DeType' /\ ListKept' /\ OneUnderWay'
      BY <2>1 DEF deVars, DeInv, DeType, ListKept, OneUnderWay, De!RowsStay
    <3>. QED BY <3>2, <3>3 DEF DeInv
  <2>2. ASSUME DeInv, Next PROVE DeInv' BY <2>1, <2>2, NextDe DEF Next
  <2>3. ASSUME DeInv, UNCHANGED vars PROVE DeInv' BY <2>1, <2>3 DEF vars
  <2>. QED BY <2>2, <2>3
<1>. QED BY <1>1, <1>2, PTL DEF Spec

(* What the person was shown stays until it is settled, beside its own evidence, and one *)
(* request is under way at a time, however many rows, numbers and requests there are and *)
(* however late an answer comes (app/(app)/exceptions/page.tsx:70-127).                  *)
THEOREM DeskStays == Spec => []DeskHolds
<1>1. DeInv => DeskHolds
  <2>1. ASSUME DeInv PROVE De!OneAtATime
    <3>1. PICK f : flights \subseteq {f} BY <2>1 DEF DeInv, OneUnderWay
    <3>2. flights = {} \/ flights = {f} BY <3>1
    <3>3. Cardinality({}) = 0 /\ Cardinality({f}) = 1 BY FS_EmptySet, FS_Singleton
    <3>. QED BY <3>2, <3>3, CountsFlights DEF De!OneAtATime
  <2>. QED BY <2>1 DEF DeInv, ListKept, EvidenceTells, De!DeskHolds, DeskHolds
<1>. QED BY <1>1, DeInvariant, PTL

-----------------------------------------------------------------------------
(* Types: what the invariants above leave open of them. *)

(* Accounts.  A company has one row. *)
OneRowEach == \A m, n \in DOMAIN rows : rows[m].company = rows[n].company => m = n

(* What is left when a row is taken out stands where other rows stood. *)
LEMMA OthersLeft ==
  ASSUME NEW S, NEW s \in Seq(S), NEW n \in 1..Len(s)
  PROVE  LET t == Ac!RemoveAt(s, n) IN
         /\ t \in Seq(S)
         /\ \E from \in [DOMAIN t -> DOMAIN s \ {n}] :
              /\ \A k \in DOMAIN t : t[k] = s[from[k]]
              /\ \A j, k \in DOMAIN t : from[j] = from[k] => j = k
<1>. DEFINE a == SubSeq(s, 1, n - 1)
            b == SubSeq(s, n + 1, Len(s))
            from == [k \in 1..(Len(s) - 1) |-> IF k <= n - 1 THEN k ELSE k + 1]
<1>0. Len(s) \in Nat /\ n \in Nat OBVIOUS
<1>1. a \in Seq(S) /\ b \in Seq(S) /\ Len(a) = n - 1 /\ Len(b) = Len(s) - n OBVIOUS
<1>2. \A k \in 1..(n - 1) : a[k] = s[k] OBVIOUS
<1>3. \A k \in 1..(Len(s) - n) : b[k] = s[n + k] OBVIOUS
<1>4. Ac!RemoveAt(s, n) = a \o b BY DEF Ac!RemoveAt
<1>. HIDE DEF a, b
<1>5. a \o b \in Seq(S) /\ Len(a \o b) = Len(s) - 1 BY <1>1
<1>6. DOMAIN (a \o b) = 1..(Len(s) - 1) /\ DOMAIN s = 1..Len(s) BY <1>5
<1>7. /\ from \in [1..(Len(s) - 1) -> DOMAIN s \ {n}]
      /\ \A j, k \in 1..(Len(s) - 1) : from[j] = from[k] => j = k
  <2>1. \A k \in 1..(Len(s) - 1) :
          /\ (k <= n - 1 => k \in 1..Len(s) /\ k # n)
          /\ (~(k <= n - 1) => k + 1 \in 1..Len(s) /\ k + 1 # n)
    BY <1>0
  <2>2. \A k \in 1..(Len(s) - 1) : (IF k <= n - 1 THEN k ELSE k + 1) \in (1..Len(s)) \ {n}
    BY <2>1
  <2>3. from \in [1..(Len(s) - 1) -> (1..Len(s)) \ {n}] BY <2>2
  <2>4. \A k \in 1..(Len(s) - 1) : from[k] = IF k <= n - 1 THEN k ELSE k + 1 OBVIOUS
  <2>. HIDE DEF from
  <2>5. ASSUME NEW j \in 1..(Len(s) - 1), NEW k \in 1..(Len(s) - 1), from[j] = from[k]
        PROVE  j = k
    BY <1>0, <2>4, <2>5
  <2>. QED BY <1>6, <2>3, <2>5
<1>8. ASSUME NEW k \in 1..(Len(s) - 1) PROVE (a \o b)[k] = s[from[k]]
  <2>1. CASE k <= n - 1
    <3>1. (a \o b)[k] = a[k] BY <1>1, <2>1
    <3>2. k \in 1..(n - 1) /\ from[k] = k BY <2>1
    <3>. QED BY <1>2, <3>1, <3>2
  <2>2. CASE k > n - 1
    <3>1. (a \o b)[k] = b[k - (n - 1)] BY <1>1, <2>2
    <3>2. k - (n - 1) \in 1..(Len(s) - n) /\ n + (k - (n - 1)) = k + 1 /\ from[k] = k + 1
      BY <2>2
    <3>. QED BY <1>3, <3>1, <3>2
  <2>3. k <= n - 1 \/ k > n - 1 BY <1>0
  <2>. QED BY <2>1, <2>2, <2>3
<1>. HIDE DEF from
<1>. QED BY <1>4, <1>5, <1>6, <1>7, <1>8

LEMMA RenewedOnce ==
  ASSUME AcType, OneRowEach, NEW c \in Company, NEW g \in BOOLEAN, rows' = Ac!Renewed(c, g)
  PROVE  OneRowEach'
<1>. DEFINE n == CHOOSE m \in Ac!RowsOf(c) : TRUE
            others == IF Ac!RowsOf(c) = {} THEN rows ELSE Ac!RemoveAt(rows, n)
            e == [company |-> c, gate |-> g]
<1>1. rows \in Seq(AcRow) /\ e \in AcRow /\ e.company = c BY DEF AcType, AcRow
<1>2. /\ others \in Seq(AcRow)
      /\ \A k \in DOMAIN others : others[k].company # c
      /\ \A j, k \in DOMAIN others : others[j].company = others[k].company => j = k
  <2>1. CASE Ac!RowsOf(c) = {} BY <1>1, <2>1 DEF Ac!RowsOf, OneRowEach
  <2>2. CASE Ac!RowsOf(c) # {}
    <3>1. n \in 1..Len(rows) /\ rows[n].company = c BY <1>1, <2>2 DEF Ac!RowsOf
    <3>2. others = Ac!RemoveAt(rows, n) BY <2>2
    <3>. HIDE DEF n, others
    <3>3. others \in Seq(AcRow) BY <1>1, <3>1, <3>2, OthersLeft
    <3>4. PICK from \in [DOMAIN others -> DOMAIN rows \ {n}] :
            /\ \A k \in DOMAIN others : others[k] = rows[from[k]]
            /\ \A j, k \in DOMAIN others : from[j] = from[k] => j = k
      BY <1>1, <3>1, <3>2, OthersLeft
    <3>5. n \in DOMAIN rows BY <1>1, <3>1
    <3>6. \A k \in DOMAIN others : from[k] \in DOMAIN rows /\ from[k] # n BY <3>4
    <3>. QED BY <3>1, <3>3, <3>4, <3>5, <3>6 DEF OneRowEach
  <2>. QED BY <2>1, <2>2
<1>3. rows' = Append(others, e) BY DEF Ac!Renewed
<1>. HIDE DEF others, n, e
<1>4. /\ Append(others, e) \in Seq(AcRow) /\ Len(Append(others, e)) = Len(others) + 1
      /\ \A k \in 1..Len(others) : Append(others, e)[k] = others[k]
      /\ Append(others, e)[Len(others) + 1] = e
      /\ Len(others) \in Nat /\ DOMAIN others = 1..Len(others)
  BY <1>1, <1>2
<1>5. DOMAIN rows' = 1..(Len(others) + 1) BY <1>3, <1>4
<1>6. ASSUME NEW j \in DOMAIN rows', NEW k \in DOMAIN rows',
             rows'[j].company = rows'[k].company
      PROVE  j = k
  <2>1. /\ j \in 1..Len(others) \/ j = Len(others) + 1
        /\ k \in 1..Len(others) \/ k = Len(others) + 1
    BY <1>4, <1>5
  <2>. QED BY <1>1, <1>2, <1>3, <1>4, <1>6, <2>1
<1>. QED BY <1>6 DEF OneRowEach

LEMMA AccountsTyped == ASSUME AcBounds PROVE Spec => []Ac!TypeOK
<1>1. Init => OneRowEach BY DEF Init, Ac!Init, OneRowEach
<1>2. AcInv /\ OneRowEach /\ [Next]_vars => OneRowEach'
  <2>. SUFFICES ASSUME AcInv, OneRowEach, [Next]_vars PROVE OneRowEach' OBVIOUS
  <2>1. CASE rows' = rows BY <2>1 DEF OneRowEach
  <2>2. CASE Ac!UpsertConnection
    <3>1. link \in Company /\ rows' = Ac!Renewed(link, Ac!Gate(link))
      BY <2>2 DEF Ac!UpsertConnection, Ac!None, AcInv, AcType
    <3>2. Ac!Gate(link) \in BOOLEAN BY DEF Ac!Gate
    <3>. QED BY <3>1, <3>2, RenewedOnce DEF AcInv
  <2>3. ASSUME NEW c \in Realms, NEW e \in BOOLEAN, Ac!SetOwnerWriteGate(c, e) PROVE OneRowEach'
    <3>1. rows' = Ac!Renewed(c, e) /\ c \in Company BY <2>3 DEF Ac!SetOwnerWriteGate, Company
    <3>. QED BY <3>1, RenewedOnce DEF AcInv
  <2>4. CASE \E w \in Callers : \/ Ac!Begin(w) \/ Ac!ReadRow(w) \/ Ac!LoadWriteClient(w)
                                \/ Ac!LoadReadClient(w) \/ Ac!BuildXero(w) \/ Ac!Verify(w)
                                \/ Ac!Create(w) \/ Ac!Stop(w)
    BY <2>1, <2>4 DEF Ac!Begin, Ac!ReadRow, Ac!LoadWriteClient, Ac!LoadReadClient, Ac!BuildXero,
                      Ac!Verify, Ac!Create, Ac!Stop, Ac!Others
  <2>5. CASE (\E c \in Company : Ac!SaveToken(c)) \/ Ac!UpsertFails \/ Ac!ListConnections
    BY <2>1, <2>5 DEF Ac!SaveToken, Ac!UpsertFails, Ac!ListConnections
  <2>. QED BY <2>1, <2>2, <2>3, <2>4, <2>5 DEF Next, vars, acVars, Ac!Next, Company
<1>3. AcInv /\ OneRowEach => Ac!TypeOK
  <2>. SUFFICES ASSUME AcInv, OneRowEach PROVE Ac!TypeOK OBVIOUS
  <2>1. rows \in Seq(AcRow) BY DEF AcInv, AcType
  <2>2. \A n \in DOMAIN rows : rows[n] \in AcRow BY <2>1
  <2>3. \A n \in DOMAIN rows : rows[n].company \in Realms \cup Orgs /\ rows[n].gate \in BOOLEAN
    BY <2>2 DEF AcRow, Company
  <2>. QED BY <2>3 DEF AcInv, AcType, OneRowEach, Ac!TypeOK, Ac!None
<1>. QED BY <1>1, <1>2, <1>3, CompaniesHold, PTL DEF Spec

(* ReplyDrafts.  A row, a call and a request name a draft that was created once. *)
RdLimits == MaxReplies \in Nat /\ MaxCopies \in Nat /\ DraftTroubles \in Nat
RdMore ==
  /\ Len(replies) <= MaxReplies /\ Len(copies) <= MaxCopies /\ troubles <= DraftTroubles
  /\ \A r \in DOMAIN replies : replies[r].gid <= Len(copies)
  /\ \A c \in sending : c.late <= DraftTroubles
  /\ \A w \in Requests : op[w].step = "idle" => op[w].row = 0 /\ op[w].gid = 0

(* What a step may do to the bounds. *)
RowsGrow == \/ Len(replies') = Len(replies)
            \/ Len(replies) < MaxReplies /\ Len(replies') = Len(replies) + 1
DraftsGrow == \/ Len(copies') = Len(copies)
              \/ Len(copies) < MaxCopies /\ Len(copies') = Len(copies) + 1
DraftsNamed == \A r \in DOMAIN replies' :
  ActiveRow(r)' \/ (r \in DOMAIN replies /\ replies'[r].gid = replies[r].gid)
TroublesGrow == \/ troubles' = troubles
                \/ troubles < DraftTroubles /\ troubles' = troubles + 1
CallsCut == \A c \in sending' : c \in sending \/ c.late = 0 \/ c.late = troubles'
RequestsEnd == \A w \in Requests :
  op'[w].step = "idle" => op'[w] = op[w] \/ op'[w] = Rd!Idle

LEMMA BoundsKept ==
  ASSUME RdLimits, RdInv, RdInv', RdMore, RowsGrow, DraftsGrow, DraftsNamed, TroublesGrow,
         CallsCut, RequestsEnd
  PROVE  RdMore'
<1>1. /\ replies \in Seq(RdRow)
      /\ copies \in Seq([state : {"live", "sent", "deleted"}, copy : Texts])
      /\ troubles \in Nat /\ sending \subseteq RdCall
      /\ replies' \in Seq(RdRow)
      /\ copies' \in Seq([state : {"live", "sent", "deleted"}, copy : Texts])
      /\ troubles' \in Nat /\ sending' \subseteq RdCall
  BY DEF RdInv, RdType, RdRow, RdCall
<1>2. Len(replies) \in Nat /\ Len(copies) \in Nat /\ Len(replies') \in Nat /\ Len(copies') \in Nat
  BY <1>1
<1>3. Len(replies') <= MaxReplies BY <1>2 DEF RowsGrow, RdMore, RdLimits
<1>4. Len(copies') <= MaxCopies /\ Len(copies) <= Len(copies')
  BY <1>2 DEF DraftsGrow, RdMore, RdLimits
<1>5. troubles' <= DraftTroubles /\ troubles <= troubles'
  BY <1>1 DEF TroublesGrow, RdMore, RdLimits
<1>6. ASSUME NEW r \in DOMAIN replies' PROVE replies'[r].gid <= Len(copies')
  <2>1. CASE ActiveRow(r)'
    <3>1. replies'[r].gid # 0 => replies'[r].gid \in 1..Len(copies')
      BY <2>1 DEF RdInv, RowTells, OnlyDraft
    <3>. QED BY <1>2, <3>1
  <2>2. CASE r \in DOMAIN replies /\ replies'[r].gid = replies[r].gid
    <3>0. replies[r] \in RdRow BY <1>1, <2>2
    <3>1. replies[r].gid \in Nat BY <3>0 DEF RdRow
    <3>2. replies[r].gid <= Len(copies) BY <2>2 DEF RdMore
    <3>. QED BY <1>2, <1>4, <2>2, <3>1, <3>2
  <2>. QED BY <2>1, <2>2 DEF DraftsNamed
<1>7. ASSUME NEW c \in sending' PROVE c.late <= DraftTroubles
  <2>1. c \in sending => c.late <= DraftTroubles BY DEF RdMore
  <2>. QED BY <1>5, <2>1 DEF CallsCut, RdLimits
<1>8. ASSUME NEW w \in Requests, op'[w].step = "idle" PROVE op'[w].row = 0 /\ op'[w].gid = 0
  <2>1. Rd!Idle.row = 0 /\ Rd!Idle.gid = 0 BY DEF Rd!Idle
  <2>. QED BY <1>8, <2>1 DEF RequestsEnd, RdMore
<1>. QED BY <1>3, <1>4, <1>5, <1>6, <1>7, <1>8 DEF RdMore

(* A request ends, goes on to another step or begins; the others stay where they are. *)
LEMMA RequestsAre ==
  ASSUME RdInv, NEW w \in Requests,
         \/ Rd!End(w) \/ \E s : s # "idle" /\ Rd!GoTo(w, s)
         \/ \E o : o.step # "idle" /\ op' = [op EXCEPT ![w] = o]
         \/ op' = op
  PROVE  RequestsEnd
<1>1. op \in [Requests -> RdOp] BY DEF RdInv, RdType
<1>2. CASE Rd!End(w)
  <2>1. op' = [op EXCEPT ![w] = Rd!Idle] BY <1>2 DEF Rd!End
  <2>2. \A v \in Requests : op'[v] = IF v = w THEN Rd!Idle ELSE op[v] BY <1>1, <2>1
  <2>. QED BY <2>2 DEF RequestsEnd
<1>3. ASSUME NEW s, s # "idle", Rd!GoTo(w, s) PROVE RequestsEnd
  <2>1. op' = [op EXCEPT ![w].step = s] BY <1>3 DEF Rd!GoTo
  <2>2. op'[w].step = s /\ \A v \in Requests : v # w => op'[v] = op[v] BY <1>1, <2>1 DEF RdOp
  <2>. QED BY <1>3, <2>2 DEF RequestsEnd
<1>4. ASSUME NEW o, o.step # "idle", op' = [op EXCEPT ![w] = o] PROVE RequestsEnd
  <2>1. op'[w] = o /\ \A v \in Requests : v # w => op'[v] = op[v] BY <1>1, <1>4
  <2>. QED BY <1>4, <2>1 DEF RequestsEnd
<1>5. CASE op' = op BY <1>5 DEF RequestsEnd
<1>. QED BY <1>2, <1>3, <1>4, <1>5

(* One row is written, and stays active or keeps its draft. *)
LEMMA RowStays ==
  ASSUME RdInv, NEW r \in DOMAIN replies, NEW t, Rd!Write(r, t),
         t.status \in Rd!Active \/ t.gid = replies[r].gid
  PROVE  RowsGrow /\ DraftsNamed
<1>1. replies \in Seq(RdRow) /\ DOMAIN replies = 1..Len(replies) /\ Len(replies) \in Nat
  BY DEF RdInv, RdType
<1>2. replies' = [replies EXCEPT ![r] = t] BY DEF Rd!Write
<1>3. /\ DOMAIN replies' = DOMAIN replies /\ replies'[r] = t
      /\ \A s \in DOMAIN replies : s # r => replies'[s] = replies[s]
  BY <1>1, <1>2
<1>4. Len(replies') = Len(replies) BY <1>1, <1>2
<1>. QED BY <1>3, <1>4 DEF RowsGrow, DraftsNamed, ActiveRow

LEMMA NoRowWritten == ASSUME replies' = replies PROVE RowsGrow /\ DraftsNamed
BY DEF RowsGrow, DraftsNamed

LEMMA NothingCreated ==
  ASSUME copies' = copies, sending' = sending, troubles' = troubles
  PROVE  DraftsGrow /\ CallsCut /\ TroublesGrow
BY DEF DraftsGrow, CallsCut, TroublesGrow

LEMMA FaultGrows == ASSUME NEW k, Rd!Fault(k) PROVE TroublesGrow
BY DEF Rd!Fault, TroublesGrow

(* The steps that begin a request. *)
LEMMA RequestMore ==
  ASSUME RdInv, NEW w \in Requests, Rd!Request(w)
  PROVE  RowsGrow /\ DraftsGrow /\ DraftsNamed /\ TroublesGrow /\ CallsCut /\ RequestsEnd
<1>1. ASSUME NEW c \in Texts, Rd!StartCreate(w, c)
      PROVE  RowsGrow /\ DraftsGrow /\ DraftsNamed /\ TroublesGrow /\ CallsCut /\ RequestsEnd
  <2>. DEFINE n == [status |-> "proposed", gid |-> 0, copy |-> c]
              o == [Rd!Idle EXCEPT !.step = "send", !.row = Len(replies'), !.copy = c]
  <2>1. /\ Len(replies) < MaxReplies /\ replies' = Append(replies, n)
        /\ op' = [op EXCEPT ![w] = o]
        /\ copies' = copies /\ sending' = sending /\ troubles' = troubles
    BY <1>1 DEF Rd!StartCreate, Rd!gmail
  <2>2. o.step = "send" BY DEF Rd!Idle
  <2>3. n.status \in Rd!Active BY DEF Rd!Active
  <2>. HIDE DEF n, o
  <2>4. replies \in Seq(RdRow) /\ Len(replies) \in Nat /\ DOMAIN replies = 1..Len(replies)
    BY DEF RdInv, RdType
  <2>5. /\ Len(replies') = Len(replies) + 1 /\ DOMAIN replies' = 1..(Len(replies) + 1)
        /\ replies'[Len(replies) + 1] = n
        /\ \A r \in 1..Len(replies) : replies'[r] = replies[r]
    BY <2>1, <2>4
  <2>6. RowsGrow BY <2>1, <2>5 DEF RowsGrow
  <2>7. \A r \in DOMAIN replies' : r = Len(replies) + 1 \/ r \in DOMAIN replies BY <2>4, <2>5
  <2>8. DraftsNamed BY <2>3, <2>4, <2>5, <2>7 DEF DraftsNamed, ActiveRow
  <2>9. RequestsEnd BY <2>1, <2>2, RequestsAre
  <2>. QED BY <2>1, <2>6, <2>8, <2>9, NothingCreated
<1>2. ASSUME NEW r \in DOMAIN replies, NEW c \in Texts, Rd!StartUpdate(w, r, c)
      PROVE  RequestsEnd /\ UNCHANGED <<replies, copies, sending, troubles>>
  <2>. DEFINE o == [step |-> IF Rd!Unknown(r) THEN "reconcile" ELSE "prepare", row |-> r,
                    gid |-> replies[r].gid, copy |-> c, then |-> "prepare", as |-> "updated"]
  <2>1. op' = [op EXCEPT ![w] = o] /\ UNCHANGED <<replies, copies, sending, troubles>>
    BY <1>2 DEF Rd!StartUpdate, Rd!db, Rd!gmail
  <2>2. o.step # "idle" OBVIOUS
  <2>. HIDE DEF o
  <2>. QED BY <2>1, <2>2, RequestsAre
<1>3. ASSUME NEW r \in DOMAIN replies, Rd!StartDiscard(w, r)
      PROVE  RequestsEnd /\ UNCHANGED <<replies, copies, sending, troubles>>
  <2>. DEFINE s == CASE replies[r].gid # 0 -> "delete"
                     [] replies[r].gid = 0 /\ Rd!Unknown(r) -> "reconcile"
                     [] replies[r].gid = 0 /\ ~Rd!Unknown(r) -> "close"
              o == [Rd!Idle EXCEPT !.step = s, !.row = r, !.gid = replies[r].gid,
                                   !.then = "delete"]
  <2>1. op' = [op EXCEPT ![w] = o] /\ UNCHANGED <<replies, copies, sending, troubles>>
    BY <1>3 DEF Rd!StartDiscard, Rd!db, Rd!gmail
  <2>2. s # "idle"
    <3>1. CASE replies[r].gid # 0 BY <3>1
    <3>2. CASE replies[r].gid = 0 /\ Rd!Unknown(r) BY <3>2
    <3>3. CASE replies[r].gid = 0 /\ ~Rd!Unknown(r) BY <3>3
    <3>. QED BY <3>1, <3>2, <3>3
  <2>. HIDE DEF s
  <2>3. o.step = s BY DEF Rd!Idle
  <2>. HIDE DEF o
  <2>. QED BY <2>1, <2>2, <2>3, RequestsAre
<1>4. ASSUME Rd!StartRead(w)
      PROVE  RequestsEnd /\ UNCHANGED <<replies, copies, sending, troubles>>
  <2>. DEFINE o == [step |-> "reconcile", row |-> latest, gid |-> replies[latest].gid,
                    copy |-> "none", then |-> "persist",
                    as |-> IF replies[latest].gid = 0 THEN "created" ELSE "updated"]
  <2>1. op' = [op EXCEPT ![w] = o] /\ UNCHANGED <<replies, copies, sending, troubles>>
    BY <1>4 DEF Rd!StartRead, Rd!db, Rd!gmail
  <2>2. o.step # "idle" OBVIOUS
  <2>. HIDE DEF o
  <2>. QED BY <2>1, <2>2, RequestsAre
<1>. QED BY <1>1, <1>2, <1>3, <1>4, NoRowWritten, NothingCreated DEF Rd!Request

(* A call is cut off, or there was none. *)
LEMMA AbandonCuts == ASSUME NEW w \in Requests, Rd!Abandon(w) PROVE CallsCut
<1>1. [Rd!Call(w) EXCEPT !.late = troubles'].late = troubles' BY DEF Rd!Call
<1>2. \A c \in sending' : c \in sending \/ c = [Rd!Call(w) EXCEPT !.late = troubles']
  BY DEF Rd!Abandon
<1>. QED BY <1>1, <1>2 DEF CallsCut

(* The steps of a request under way. *)
LEMMA StepMore ==
  ASSUME RdInv, NEW w \in Requests, Rd!Step(w) \/ Rd!Crash(w)
  PROVE  RowsGrow /\ DraftsGrow /\ DraftsNamed /\ TroublesGrow /\ CallsCut /\ RequestsEnd
<1>0. op[w].step # "idle" => op[w].row \in DOMAIN replies BY DEF RdInv, OpsKept, AtWork, ActiveRow
<1>1. CASE Rd!Reconcile(w)
  <2>1. UNCHANGED <<replies, copies, sending>> BY <1>1 DEF Rd!Reconcile, Rd!db, Rd!gmail
  <2>2. TroublesGrow BY <1>1, FaultGrows DEF Rd!Reconcile, TroublesGrow
  <2>3. op[w].then # "idle" BY <1>1 DEF Rd!Reconcile, Rd!At, RdInv, OpsKept, AtWork
  <2>4. op[w] \in RdOp BY DEF RdInv, RdType
  <2>5. ASSUME NEW g, op' = [op EXCEPT ![w].step = op[w].then, ![w].gid = g] PROVE RequestsEnd
    <3>. DEFINE o == [op[w] EXCEPT !.step = op[w].then, !.gid = g]
    <3>1. op' = [op EXCEPT ![w] = o] BY <2>4, <2>5 DEF RdInv, RdType
    <3>2. o.step = op[w].then BY <2>4 DEF RdOp
    <3>. HIDE DEF o
    <3>. QED BY <2>3, <3>1, <3>2, RequestsAre
  <2>6. RequestsEnd BY <1>1, <2>3, <2>5, RequestsAre DEF Rd!Reconcile
  <2>. QED BY <2>1, <2>2, <2>6, NoRowWritten DEF DraftsGrow, CallsCut
<1>2. CASE Rd!Prepare(w)
  <2>1. op[w].row \in DOMAIN replies /\ UNCHANGED <<copies, sending, troubles>>
    BY <1>0, <1>2 DEF Rd!Prepare, Rd!At, Rd!gmail
  <2>2. CASE Rd!Row(w).status \in Rd!Active
    <3>. DEFINE t == [Rd!Row(w) EXCEPT !.status = "proposed", !.copy = op[w].copy]
                o == [op[w] EXCEPT !.step = "send", !.gid = IF @ # 0 THEN @ ELSE Rd!Row(w).gid]
    <3>1. Rd!Write(op[w].row, t) BY <1>2, <2>2 DEF Rd!Prepare
    <3>2. op' = [op EXCEPT ![w] = o] BY <1>2, <2>2 DEF Rd!Prepare, RdInv, RdType
    <3>3. Rd!Row(w) \in RdRow BY <2>1 DEF Rd!Row, RdInv, RdType
    <3>4. t.status = "proposed" BY <3>3 DEF RdRow
    <3>5. o.step = "send"
      <4>1. op[w] \in RdOp BY DEF RdInv, RdType
      <4>. QED BY <4>1 DEF RdOp
    <3>. HIDE DEF t, o
    <3>6. RowsGrow /\ DraftsNamed BY <2>1, <3>1, <3>4, RowStays DEF Rd!Active
    <3>7. RequestsEnd BY <3>2, <3>5, RequestsAre
    <3>. QED BY <2>1, <3>6, <3>7, NothingCreated
  <2>3. CASE Rd!Row(w).status \notin Rd!Active
    <3>1. Rd!End(w) /\ replies' = replies BY <1>2, <2>3 DEF Rd!Prepare, Rd!db
    <3>. QED BY <2>1, <3>1, NoRowWritten, NothingCreated, RequestsAre
  <2>. QED BY <2>2, <2>3
<1>3. CASE Rd!Send(w)
  <2>1. Rd!GoTo(w, "wait") /\ UNCHANGED <<replies, copies, troubles>>
        /\ sending' = sending \cup {Rd!Call(w)}
    BY <1>3 DEF Rd!Send, Rd!db
  <2>2. Rd!Call(w).late = 0 BY DEF Rd!Call
  <2>3. CallsCut BY <2>1, <2>2 DEF CallsCut
  <2>4. RequestsEnd BY <2>1, RequestsAre
  <2>. QED BY <2>1, <2>3, <2>4, NoRowWritten DEF DraftsGrow, TroublesGrow
<1>4. CASE Rd!Refuse(w)
  <2>1. Rd!End(w) /\ UNCHANGED <<replies, copies, sending>> /\ TroublesGrow
    BY <1>4, FaultGrows DEF Rd!Refuse, Rd!db, Rd!gmail
  <2>. QED BY <2>1, NoRowWritten, RequestsAre DEF DraftsGrow, CallsCut
<1>5. CASE Rd!Persist(w) \/ Rd!MarkUnknown(w) \/ Rd!Close(w)
  <2>1. Rd!End(w) /\ UNCHANGED <<copies, sending, troubles>> /\ op[w].step # "idle"
    BY <1>5 DEF Rd!Persist, Rd!MarkUnknown, Rd!Close, Rd!gmail, Rd!At
  <2>2. /\ op[w].row \in DOMAIN replies /\ Rd!Row(w) = replies[op[w].row] /\ Rd!Row(w) \in RdRow
        /\ op[w] \in RdOp
    BY <1>0, <2>1 DEF RdInv, RdType, Rd!Row
  <2>3. RowsGrow /\ DraftsNamed
    <3>1. CASE replies' = replies BY <3>1, NoRowWritten
    <3>2. ASSUME Rd!Write(op[w].row, [Rd!Row(w) EXCEPT !.status = op[w].as, !.gid = op[w].gid])
          PROVE  RowsGrow /\ DraftsNamed
      <4>. DEFINE t == [Rd!Row(w) EXCEPT !.status = op[w].as, !.gid = op[w].gid]
      <4>1. t.status \in Rd!Active BY <2>2 DEF RdRow, RdOp, Rd!Active
      <4>2. Rd!Write(op[w].row, t) BY <3>2
      <4>. HIDE DEF t
      <4>. QED BY <2>2, <4>1, <4>2, RowStays
    <3>3. ASSUME NEW st, Rd!Write(op[w].row, [Rd!Row(w) EXCEPT !.status = st])
          PROVE  RowsGrow /\ DraftsNamed
      <4>. DEFINE t == [Rd!Row(w) EXCEPT !.status = st]
      <4>1. t.gid = replies[op[w].row].gid BY <2>2 DEF RdRow
      <4>2. Rd!Write(op[w].row, t) BY <3>3
      <4>. HIDE DEF t
      <4>. QED BY <2>2, <4>1, <4>2, RowStays
    <3>. QED BY <1>5, <3>1, <3>2, <3>3 DEF Rd!Persist, Rd!MarkUnknown, Rd!Close, Rd!db
  <2>4. RequestsEnd BY <2>1, RequestsAre
  <2>. QED BY <2>1, <2>3, <2>4, NothingCreated
<1>6. CASE Rd!Lose(w)
  <2>1. Rd!GoTo(w, "mark") /\ UNCHANGED <<replies, copies>> /\ TroublesGrow /\ Rd!Abandon(w)
    BY <1>6, FaultGrows DEF Rd!Lose, Rd!db
  <2>2. RequestsEnd BY <2>1, RequestsAre
  <2>. QED BY <2>1, <2>2, NoRowWritten, AbandonCuts DEF DraftsGrow
<1>7. CASE Rd!Delete(w)
  <2>1. UNCHANGED <<replies, sending>> BY <1>7 DEF Rd!Delete, Rd!db
  <2>2. TroublesGrow BY <1>7, FaultGrows DEF Rd!Delete, TroublesGrow
  <2>3. RequestsEnd BY <1>7, RequestsAre DEF Rd!Delete
  <2>4. DraftsGrow
    <3>1. \/ copies' = copies
          \/ Rd!Live(op[w].gid) /\ copies' = [copies EXCEPT ![op[w].gid].state = "deleted"]
      BY <1>7 DEF Rd!Delete
    <3>2. copies \in Seq([state : {"live", "sent", "deleted"}, copy : Texts])
      BY DEF RdInv, RdType
    <3>3. Len([copies EXCEPT ![op[w].gid].state = "deleted"]) = Len(copies) BY <3>2
    <3>. QED BY <3>1, <3>3 DEF DraftsGrow
  <2>. QED BY <2>1, <2>2, <2>3, <2>4, NoRowWritten DEF CallsCut
<1>8. CASE Rd!Crash(w)
  <2>1. Rd!End(w) /\ UNCHANGED <<replies, copies>> /\ TroublesGrow /\ Rd!Abandon(w)
    BY <1>8, FaultGrows DEF Rd!Crash, Rd!db
  <2>. QED BY <2>1, NoRowWritten, AbandonCuts, RequestsAre DEF DraftsGrow
<1>. QED BY <1>1, <1>2, <1>3, <1>4, <1>5, <1>6, <1>7, <1>8 DEF Rd!Step

(* What happens in Gmail. *)
LEMMA GmailMore ==
  ASSUME RdInv, \/ \E c \in sending : Rd!ExecuteCreate(c) \/ Rd!ExecuteUpdate(c)
                \/ \E g \in DOMAIN copies, s \in {"sent", "deleted"} : Rd!Human(g, s)
  PROVE  RowsGrow /\ DraftsGrow /\ DraftsNamed /\ TroublesGrow /\ CallsCut /\ RequestsEnd
<1>0. /\ copies \in Seq([state : {"live", "sent", "deleted"}, copy : Texts])
      /\ op \in [Requests -> RdOp] /\ sending \subseteq RdCall
  BY DEF RdInv, RdType
<1>1. ASSUME NEW c \in sending, Rd!ExecuteCreate(c)
      PROVE  RowsGrow /\ DraftsGrow /\ DraftsNamed /\ TroublesGrow /\ CallsCut /\ RequestsEnd
  <2>1. /\ UNCHANGED <<replies, troubles>> /\ sending' \subseteq sending
        /\ Len(copies) < MaxCopies
        /\ copies' = Append(copies, [state |-> "live", copy |-> c.copy])
    BY <1>1 DEF Rd!ExecuteCreate, Rd!db
  <2>2. c \in RdCall BY <1>0
  <2>3. Len(copies') = Len(copies) + 1 BY <1>0, <2>1
  <2>4. RequestsEnd
    <3>1. c.from \in Requests BY <2>2 DEF RdCall
    <3>2. CASE c.late # 0
      <4>1. op' = op BY <1>1, <3>2 DEF Rd!ExecuteCreate
      <4>. QED BY <4>1 DEF RequestsEnd
    <3>3. CASE c.late = 0
      <4>. DEFINE o == [op[c.from] EXCEPT !.step = "persist", !.gid = Len(copies')]
      <4>1. op' = [op EXCEPT ![c.from] = o] BY <1>0, <1>1, <3>1, <3>3 DEF Rd!ExecuteCreate
      <4>2. op[c.from] \in RdOp BY <1>0, <3>1
      <4>3. o.step = "persist" BY <4>2 DEF RdOp
      <4>. HIDE DEF o
      <4>. QED BY <3>1, <4>1, <4>3, RequestsAre
    <3>. QED BY <3>2, <3>3
  <2>. QED BY <2>1, <2>3, <2>4, NoRowWritten DEF DraftsGrow, TroublesGrow, CallsCut
<1>2. ASSUME NEW c \in sending, Rd!ExecuteUpdate(c)
      PROVE  RowsGrow /\ DraftsGrow /\ DraftsNamed /\ TroublesGrow /\ CallsCut /\ RequestsEnd
  <2>1. /\ UNCHANGED <<replies, troubles>> /\ sending' \subseteq sending
        /\ copies' = copies \/ copies' = [copies EXCEPT ![c.gid].copy = c.copy]
    BY <1>2 DEF Rd!ExecuteUpdate, Rd!db
  <2>2. Len(copies') = Len(copies)
    <3>1. Len([copies EXCEPT ![c.gid].copy = c.copy]) = Len(copies) BY <1>0
    <3>. QED BY <2>1, <3>1
  <2>3. c.from \in Requests BY <1>0 DEF RdCall
  <2>4. RequestsEnd
    <3>1. CASE c.late # 0
      <4>1. op' = op BY <1>2, <3>1 DEF Rd!ExecuteUpdate
      <4>. QED BY <4>1 DEF RequestsEnd
    <3>2. CASE c.late = 0 /\ Rd!Live(c.gid)
      <4>1. Rd!GoTo(c.from, "persist") BY <1>2, <3>2 DEF Rd!ExecuteUpdate, Rd!GoTo
      <4>. QED BY <2>3, <4>1, RequestsAre
    <3>3. CASE c.late = 0 /\ ~Rd!Live(c.gid)
      <4>1. Rd!End(c.from) BY <1>2, <3>3 DEF Rd!ExecuteUpdate, Rd!End
      <4>. QED BY <2>3, <4>1, RequestsAre
    <3>. QED BY <3>1, <3>2, <3>3
  <2>. QED BY <2>1, <2>2, <2>4, NoRowWritten DEF DraftsGrow, TroublesGrow, CallsCut
<1>3. ASSUME NEW g \in DOMAIN copies, NEW s \in {"sent", "deleted"}, Rd!Human(g, s)
      PROVE  RowsGrow /\ DraftsGrow /\ DraftsNamed /\ TroublesGrow /\ CallsCut /\ RequestsEnd
  <2>1. /\ UNCHANGED <<replies, op, troubles, sending>>
        /\ copies' = [copies EXCEPT ![g].state = s]
    BY <1>3 DEF Rd!Human, Rd!db
  <2>2. Len([copies EXCEPT ![g].state = s]) = Len(copies) BY <1>0
  <2>. QED BY <2>1, <2>2, NoRowWritten DEF DraftsGrow, TroublesGrow, CallsCut, RequestsEnd
<1>. QED BY <1>1, <1>2, <1>3

(* A sequence is of what each of its elements is. *)
LEMMA EachIn ==
  ASSUME NEW S, NEW T, NEW s \in Seq(S), \A n \in 1..Len(s) : s[n] \in T
  PROVE  s \in Seq(T)
OBVIOUS

LEMMA DraftsTyped == ASSUME RdBounds, RdLimits PROVE Spec => []Rd!TypeOK
<1>1. Init => RdMore
  <2>. SUFFICES ASSUME Rd!Init PROVE RdMore BY DEF Init
  <2>1. replies = <<>> /\ copies = <<>> /\ sending = {} /\ troubles = 0
        /\ op = [w \in Requests |-> Rd!Idle]
    BY DEF Rd!Init
  <2>2. Len(replies) = 0 /\ Len(copies) = 0 /\ DOMAIN replies = {} BY <2>1
  <2>3. \A w \in Requests : op[w].row = 0 /\ op[w].gid = 0 BY <2>1 DEF Rd!Idle
  <2>. QED BY <2>1, <2>2, <2>3 DEF RdMore, RdLimits
<1>2. RdInv /\ RdInv' /\ RdMore /\ [Next]_vars => RdMore'
  <2>1. ASSUME RdMore, UNCHANGED rdVars PROVE RdMore' BY <2>1 DEF rdVars, RdMore
  <2>2. ASSUME RdInv, RdInv', RdMore, Rd!Next PROVE RdMore'
    BY <2>2, RequestMore, StepMore, GmailMore, BoundsKept DEF Rd!Next
  <2>3. ASSUME RdInv, RdInv', RdMore, Next PROVE RdMore' BY <2>1, <2>2, <2>3 DEF Next
  <2>4. ASSUME RdMore, UNCHANGED vars PROVE RdMore' BY <2>1, <2>4 DEF vars
  <2>. QED BY <2>3, <2>4
<1>3. RdInv /\ RdMore => Rd!TypeOK
  <2>. SUFFICES ASSUME RdInv, RdMore PROVE Rd!TypeOK OBVIOUS
  <2>1. /\ replies \in Seq(RdRow)
        /\ copies \in Seq([state : {"live", "sent", "deleted"}, copy : Texts])
        /\ sending \subseteq RdCall /\ op \in [Requests -> RdOp]
        /\ Len(replies) \in Nat /\ Len(copies) \in Nat
        /\ DOMAIN replies = 1..Len(replies)
    BY DEF RdInv, RdType, RdRow
  <2>2. /\ Len(copies) <= MaxCopies /\ Len(replies) <= MaxReplies
        /\ MaxCopies \in Nat /\ MaxReplies \in Nat
    BY DEF RdMore, RdLimits
  <2>3. replies \in Seq([status : Rd!Active \cup {"discarded"}, gid : 0..MaxCopies, copy : Texts])
    <3>1. ASSUME NEW r \in 1..Len(replies)
          PROVE  replies[r] \in [status : Rd!Active \cup {"discarded"}, gid : 0..MaxCopies,
                                 copy : Texts]
      <4>1. replies[r] \in RdRow /\ replies[r].gid <= Len(copies) BY <2>1 DEF RdMore
      <4>2. replies[r].gid \in 0..MaxCopies BY <2>1, <2>2, <4>1 DEF RdRow
      <4>. QED BY <4>1, <4>2 DEF RdRow
    <3>. QED BY <2>1, <3>1, EachIn
  <2>4. \A r, s \in DOMAIN replies :
          replies[r].status # "discarded" /\ replies[s].status # "discarded" => r = s
    <3>0. \A r \in DOMAIN replies : replies[r] \in RdRow BY <2>1
    <3>1. \A r \in DOMAIN replies : replies[r].status \in Rd!Active \cup {"discarded"}
      BY <3>0 DEF RdRow
    <3>2. \A r \in DOMAIN replies : replies[r].status # "discarded" => ActiveRow(r)
      BY <3>1 DEF ActiveRow
    <3>. QED BY <3>2 DEF RdInv, OneActive
  <2>5. sending \subseteq [from : Requests, gid : 0..MaxCopies, copy : Texts,
                           late : 0..DraftTroubles]
    <3>1. ASSUME NEW c \in sending
          PROVE  c \in [from : Requests, gid : 0..MaxCopies, copy : Texts, late : 0..DraftTroubles]
      <4>1. c \in RdCall /\ c.gid \in 0..Len(copies) /\ c.late <= DraftTroubles
        BY <2>1 DEF RdInv, CallsKept, RdMore
      <4>2. c.gid \in 0..MaxCopies BY <2>1, <2>2, <4>1
      <4>3. c.late \in 0..DraftTroubles BY <4>1 DEF RdCall, RdLimits
      <4>. QED BY <4>1, <4>2, <4>3 DEF RdCall
    <3>. QED BY <3>1
  <2>6. op \in [Requests -> [step : Rd!Steps, row : 0..MaxReplies, gid : 0..MaxCopies,
                             copy : Texts \cup {"none"}, then : Rd!Steps,
                             as : {"created", "updated"}]]
    <3>1. ASSUME NEW w \in Requests
          PROVE  op[w] \in [step : Rd!Steps, row : 0..MaxReplies, gid : 0..MaxCopies,
                            copy : Texts \cup {"none"}, then : Rd!Steps,
                            as : {"created", "updated"}]
      <4>1. op[w] \in RdOp BY <2>1
      <4>2. op[w].row \in 0..MaxReplies /\ op[w].gid \in 0..MaxCopies
        <5>1. CASE op[w].step = "idle" BY <2>2, <5>1 DEF RdMore
        <5>2. CASE op[w].step # "idle"
          <6>1. op[w].row \in 1..Len(replies) /\ (op[w].gid # 0 => op[w].gid \in 1..Len(copies))
            BY <2>1, <5>2 DEF RdInv, OpsKept, AtWork, ActiveRow, OnlyDraft
          <6>. QED BY <2>1, <2>2, <6>1
        <5>. QED BY <5>1, <5>2
      <4>. QED BY <4>1, <4>2 DEF RdOp
    <3>. QED BY <2>1, <3>1
  <2>7. /\ troubles \in 0..DraftTroubles /\ unsure \subseteq DOMAIN replies
        /\ latest \in 0..Len(replies)
    BY DEF RdInv, RdType, RdMore, RdLimits
  <2>. QED BY <2>1, <2>2, <2>3, <2>4, <2>5, <2>6, <2>7 DEF Rd!TypeOK
<1>. QED BY <1>1, <1>2, <1>3, RdInvariant, PTL DEF Spec

(* Desk.  The list never is longer than the table it was read from. *)
DeBounds == MaxExcs \in Nat /\ MaxExcs >= 2
DeStatus == status \in [Numbers -> {"ready", "posted", "rejected"}]
DeMore ==
  /\ Len(excs) <= MaxExcs /\ DeStatus
  /\ Len(page.items) <= Len(excs) /\ page.sel \in 0..MaxExcs

(* An exception is raised, or none is. *)
LEMMA RaisedLength ==
  ASSUME DeBounds, DeInv, DeMore, excs' = excs \/ \E refs : De!Raise(refs), UNCHANGED page,
         DeStatus'
  PROVE  DeMore'
<1>1. excs \in Seq(De!Refs) /\ Len(excs) \in Nat BY DEF DeInv, DeType
<1>2. excs' = excs \/ (Len(excs) < MaxExcs /\ \E r : excs' = Append(excs, r))
  BY DEF De!Raise
<1>3. Len(excs') = Len(excs) \/ (Len(excs) < MaxExcs /\ Len(excs') = Len(excs) + 1)
  BY <1>1, <1>2
<1>4. page.items \in Seq(Nat \ {0}) /\ Len(page.items) \in Nat BY ItemsAre
<1>. QED BY <1>1, <1>3, <1>4 DEF DeMore, DeBounds

LEMMA StatusSet ==
  ASSUME DeMore, NEW n \in Numbers, NEW to \in {"posted", "rejected"}, De!Set(n, to)
  PROVE  DeStatus'
BY DEF DeMore, DeStatus, De!Set

LEMMA ServiceMore ==
  ASSUME DeBounds, DeInv, DeMore, De!Elsewhere \/ \E f \in flights : De!Serve(f)
  PROVE  DeMore'
<1>1. UNCHANGED page BY DEF De!Elsewhere, De!Serve
<1>2. excs' = excs \/ \E refs : De!Raise(refs)
  BY DEF De!Elsewhere, De!Serve, De!Approve, De!Reject
<1>3. DeStatus'
  <2>1. \/ status' = status
        \/ \E n \in Numbers : De!Set(n, "posted") \/ De!Set(n, "rejected")
    BY DEF De!Elsewhere, De!Serve, De!Approve, De!Reject
  <2>2. CASE status' = status BY <2>2 DEF DeMore, DeStatus
  <2>. QED BY <2>1, <2>2, StatusSet
<1>. QED BY <1>1, <1>2, <1>3, RaisedLength

(* The page is drawn: its list and its place are those of what is drawn. *)
LEMMA DrawnPage ==
  ASSUME NEW q \in DePage, De!Draw(page, q)
  PROVE  page'.items = q.items /\ page'.sel = q.sel
<1>1. page' = q \/ page' = [q EXCEPT !.evidence = De!None] BY DEF De!Draw
<1>. QED BY <1>1 DEF DePage

LEMMA ShorterList ==
  ASSUME DeBounds, DeMore, Len(excs) \in Nat, UNCHANGED <<excs, status>>,
         Len(page'.items) \in Nat, Len(page'.items) <= Len(excs), page'.sel \in 0..MaxExcs
  PROVE  DeMore'
BY DEF DeMore, DeStatus

(* A place is clamped to the list. *)
LEMMA ClampedPlace ==
  ASSUME NEW i \in Nat, NEW s, NEW m \in Nat, Len(s) \in Nat, Len(s) <= m, m >= 1
  PROVE  De!Clamp(i, s) \in 0..m
<1>. DEFINE l == De!Min({i, Len(s)})
<1>1. l \in Nat /\ l <= Len(s)
  <2>1. \E x \in {i, Len(s)} : \A y \in {i, Len(s)} : x <= y OBVIOUS
  <2>2. l \in {i, Len(s)} /\ \A y \in {i, Len(s)} : l <= y BY <2>1 DEF De!Min
  <2>. QED BY <2>2
<1>. HIDE DEF l
<1>2. De!Max({1, l}) \in {1, l}
  <2>1. \E x \in {1, l} : \A y \in {1, l} : x >= y
    <3>1. CASE l <= 1 BY <1>1, <3>1
    <3>2. CASE l > 1 BY <1>1, <3>2
    <3>. QED BY <1>1, <3>1, <3>2
  <2>. QED BY <2>1 DEF De!Max
<1>. QED BY <1>1, <1>2 DEF De!Clamp, l

(* A list is shorter by the row that leaves it. *)
LEMMA OneShorter ==
  ASSUME NEW S, NEW s \in Seq(S), NEW n \in DOMAIN s
  PROVE  LET t == De!RemoveAt(s, n) IN t \in Seq(S) /\ Len(t) \in Nat /\ Len(t) <= Len(s)
<1>. DEFINE a == SubSeq(s, 1, n - 1)
            b == SubSeq(s, n + 1, Len(s))
<1>0. Len(s) \in Nat /\ n \in 1..Len(s) /\ DOMAIN s = 1..Len(s) /\ n \in Nat OBVIOUS
<1>1. a \in Seq(S) /\ b \in Seq(S) /\ Len(a) = n - 1 /\ Len(b) = Len(s) - n BY <1>0
<1>2. De!RemoveAt(s, n) = a \o b BY DEF De!RemoveAt
<1>. HIDE DEF a, b
<1>3. a \o b \in Seq(S) /\ Len(a \o b) = Len(a) + Len(b)
  <2>1. a \in Seq(S) /\ b \in Seq(S) BY <1>1
  <2>. QED BY <2>1
<1>. QED BY <1>0, <1>1, <1>2, <1>3

LEMMA AnswerMore ==
  ASSUME DeBounds, DeInv, DeMore, NEW f \in flights, De!Answer(f)
  PROVE  DeMore'
<1>. DEFINE p == [page EXCEPT !.busy = FALSE]
            items == De!RemoveAt(p.items, f.at)
            r == De!RemoveSelected(p, f)
            q == IF f.answer \in De!Settles THEN [r EXCEPT !.done = page.done \cup {f.row}] ELSE p
<1>1. De!Draw(page, q) /\ UNCHANGED <<excs, status>> BY DEF De!Answer
<1>2. f.at \in DOMAIN page.items /\ page.items[f.at] = f.row BY DEF DeInv, OneUnderWay
<1>3. page \in DePage /\ page.items \in Seq(Nat \ {0}) /\ f.row \in page.loaded BY <1>2, ItemsAre
<1>4. p \in DePage /\ p.items = page.items /\ p.sel = page.sel BY <1>3 DEF DePage
<1>5. items \in Seq(Nat \ {0}) /\ Len(items) \in Nat /\ Len(items) <= Len(page.items)
  BY <1>2, <1>3, <1>4, OneShorter
<1>6. Len(page.items) \in Nat /\ Len(excs) \in Nat /\ Len(page.items) <= Len(excs)
      /\ Len(excs) <= MaxExcs
  BY <1>3 DEF DeInv, DeType, DeMore
<1>7. De!Clamp(p.sel, items) \in 0..MaxExcs
  <2>1. p.sel \in Nat /\ MaxExcs \in Nat /\ MaxExcs >= 1 BY <1>4 DEF DePage, DeBounds
  <2>2. Len(items) <= MaxExcs BY <1>5, <1>6, <2>1
  <2>. HIDE DEF p, items
  <2>. QED BY <1>5, <2>1, <2>2, ClampedPlace
<1>8. r = [p EXCEPT !.items = items, !.sel = De!Clamp(p.sel, items)] BY DEF De!RemoveSelected
<1>. HIDE DEF r, items, p
<1>9. r \in DePage /\ r.items = items /\ r.sel = De!Clamp(p.sel, items)
  <2>1. De!Clamp(p.sel, items) \in Nat BY <1>7 DEF DeBounds
  <2>. QED BY <1>4, <1>5, <1>8, <2>1 DEF DePage
<1>10. page.done \cup {f.row} \in SUBSET Nat BY <1>3 DEF DePage
<1>11. q \in DePage /\ Len(q.items) \in Nat /\ Len(q.items) <= Len(excs) /\ q.sel \in 0..MaxExcs
  <2>1. CASE f.answer \in De!Settles
    <3>1. q \in DePage /\ q.items = items /\ q.sel = De!Clamp(p.sel, items)
      BY <1>9, <1>10, <2>1 DEF DePage
    <3>. QED BY <1>5, <1>6, <1>7, <3>1
  <2>2. CASE f.answer \notin De!Settles
    <3>1. q = p BY <2>2
    <3>. QED BY <1>4, <1>6, <3>1 DEF DeMore
  <2>. QED BY <2>1, <2>2
<1>. HIDE DEF q
<1>. QED BY <1>1, <1>6, <1>11, DrawnPage, ShorterList

LEMMA NextMore == ASSUME DeBounds, DeInv, DeMore, De!Next PROVE DeMore'
<1>0. /\ page \in DePage /\ Len(page.items) \in Nat /\ excs \in Seq(De!Refs) /\ Len(excs) \in Nat
      /\ Len(page.items) <= Len(excs) /\ Len(excs) <= MaxExcs /\ page.sel \in 0..MaxExcs
  BY ItemsAre DEF DeInv, DeType, DeMore
<1>1. CASE De!Open
  <2>1. page'.items = <<>> /\ page'.sel = 1 /\ UNCHANGED <<excs, status>>
    BY <1>1 DEF De!Open, De!Opened
  <2>2. Len(page'.items) = 0 BY <2>1
  <2>3. 1 \in 0..MaxExcs BY DEF DeBounds
  <2>. QED BY <1>0, <2>1, <2>2, <2>3, ShorterList
<1>2. CASE De!Load
  <2>. DEFINE all == De!Reverse([n \in DOMAIN excs |-> n])
              q == [page EXCEPT !.items = all, !.loaded = DOMAIN excs]
  <2>1. De!Draw(page, q) /\ UNCHANGED <<excs, status>> BY <1>2 DEF De!Load
  <2>2. all \in Seq(Nat \ {0}) /\ Len(all) = Len(excs)
    <3>. DEFINE s == [n \in DOMAIN excs |-> n]
    <3>1. Len(s) = Len(excs) /\ DOMAIN excs = 1..Len(excs) BY <1>0
    <3>2. all = [n \in 1..Len(s) |-> s[Len(s) - n + 1]] BY DEF De!Reverse
    <3>3. \A n \in 1..Len(excs) : Len(excs) - n + 1 \in 1..Len(excs) BY <1>0
    <3>4. \A n \in 1..Len(excs) : s[Len(excs) - n + 1] = Len(excs) - n + 1 BY <3>1, <3>3
    <3>5. all = [n \in 1..Len(excs) |-> Len(excs) - n + 1] BY <3>1, <3>2, <3>4
    <3>6. \A n \in 1..Len(excs) : Len(excs) - n + 1 \in Nat \ {0} BY <3>3
    <3>. HIDE DEF all
    <3>. QED BY <1>0, <3>5, <3>6
  <2>3. q \in DePage /\ q.items = all /\ q.sel = page.sel
    <3>. HIDE DEF all
    <3>1. DOMAIN excs \in SUBSET Nat BY <1>0
    <3>. QED BY <1>0, <2>2, <3>1 DEF DePage
  <2>. HIDE DEF all, q
  <2>. QED BY <1>0, <2>1, <2>2, <2>3, DrawnPage, ShorterList
<1>3. CASE De!Navigate
  <2>1. PICK s \in 0..Len(page.items) : De!Draw(page, [page EXCEPT !.sel = s])
    BY <1>3 DEF De!Navigate
  <2>. DEFINE q == [page EXCEPT !.sel = s]
  <2>0. s \in Nat BY <1>0
  <2>2. q \in DePage /\ q.items = page.items /\ q.sel = s BY <1>0, <2>0 DEF DePage
  <2>3. s \in 0..MaxExcs BY <1>0 DEF DeBounds
  <2>4. De!Draw(page, q) /\ UNCHANGED <<excs, status>> BY <1>3, <2>1 DEF De!Navigate
  <2>. HIDE DEF q
  <2>. QED BY <1>0, <2>2, <2>3, <2>4, DrawnPage, ShorterList
<1>4. CASE De!Remap \/ \E verb \in {"approve", "reject"} : De!Press(verb)
  <2>1. page' = [page EXCEPT !.busy = TRUE] /\ UNCHANGED <<excs, status>>
    BY <1>4 DEF De!Remap, De!Press, De!Send
  <2>2. page'.items = page.items /\ page'.sel = page.sel BY <1>0, <2>1 DEF DePage
  <2>. QED BY <1>0, <2>1, <2>2, ShorterList
<1>5. CASE \E l \in looks : De!Look(l)
  <2>1. PICK l \in looks : De!Look(l) BY <1>5
  <2>2. (page' = page \/ page' = [page EXCEPT !.evidence = l.number])
        /\ UNCHANGED <<excs, status>>
    BY <2>1 DEF De!Look, De!Seen
  <2>3. page'.items = page.items /\ page'.sel = page.sel BY <1>0, <2>2 DEF DePage
  <2>. QED BY <1>0, <2>2, <2>3, ShorterList
<1>. QED BY <1>1, <1>2, <1>3, <1>4, <1>5, ServiceMore, AnswerMore DEF De!Next

LEMMA DeskTyped == ASSUME DeBounds PROVE Spec => []De!TypeOK
<1>1. Init => DeMore
  <2>. SUFFICES ASSUME De!Init PROVE DeMore BY DEF Init
  <2>1. excs \in [1..2 -> De!Refs] /\ page = De!Opened /\ status = [n \in Numbers |-> "ready"]
    BY DEF De!Init
  <2>2. Len(excs) = 2
    <3>1. DOMAIN excs = 1..2 BY <2>1
    <3>2. PICK k \in Nat : k = 2 OBVIOUS
    <3>3. excs \in [1..k -> De!Refs] BY <2>1, <3>2
    <3>4. excs \in Seq(De!Refs) BY <3>3
    <3>. QED BY <3>1, <3>4
  <2>3. Len(page.items) = 0 /\ page.sel = 1 BY <2>1 DEF De!Opened
  <2>. QED BY <2>1, <2>2, <2>3 DEF DeMore, DeStatus, DeBounds
<1>2. DeInv /\ DeMore /\ [Next]_vars => DeMore'
  <2>1. ASSUME DeMore, UNCHANGED deVars PROVE DeMore' BY <2>1 DEF deVars, DeMore, DeStatus
  <2>2. ASSUME DeInv, DeMore, Next PROVE DeMore' BY <2>1, <2>2, NextMore DEF Next
  <2>3. ASSUME DeMore, UNCHANGED vars PROVE DeMore' BY <2>1, <2>3 DEF vars
  <2>. QED BY <2>2, <2>3
<1>3. DeInv /\ DeMore => De!TypeOK
  <2>. SUFFICES ASSUME DeInv, DeMore PROVE De!TypeOK OBVIOUS
  <2>1. De!ToSet(page.items) \subseteq DOMAIN excs
    BY DEF DeInv, DeType, ListKept, De!RowsStay
  <2>. QED BY <2>1 DEF De!TypeOK, DeInv, DeType, DeMore, DeStatus
<1>. QED BY <1>1, <1>2, <1>3, DeInvariant, PTL DEF Spec

(* The values of every component stay among those the code can give them: the columns of *)
(* their tables, the states of a run, an attempt, a request, and as many files, tokens,  *)
(* rows and drafts as were made; a message never has two rows that are active, nor a     *)
(* company two connections (MCMachine.TypeOK).                                           *)
THEOREM MachineTypesStay ==
  ASSUME DbBounds, BkLimits, TkBounds, Attempts \in Nat, AcBounds, RdBounds, RdLimits, DeBounds
  PROVE  Spec => []TypeOK
<1>1. DbInv /\ Bk!TypeOK /\ Sh!TypeOK /\ TkInv /\ Cf!TypeOK /\ Ac!TypeOK /\ Rd!TypeOK
        /\ De!TypeOK => TypeOK
  BY DEF TypeOK, DbInv, DbType, TkInv
<1>. QED BY <1>1, DatabaseHolds, BackupsTyped, ShellTyped, TokensHold, ConnectTyped,
         AccountsTyped, DraftsTyped, DeskTyped, PTL
=============================================================================
