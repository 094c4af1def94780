--------------------------- MODULE Office_proofs ---------------------------
(***************************************************************************)
(* Proofs for the components between the mailbox and the books: the        *)
(* mailroom (poll-cycle.ts, gatekeep.ts), the documents (document-review,  *)
(* review), the proposals (extract.ts, mapping.ts, posting.ts), the        *)
(* mappings, the review packet, the nightly anchor and the connectors'     *)
(* bills.  Each component has an invariant of its own, kept by its steps,  *)
(* whatever a behaviour of MCOffice exercises beside it; the types of all  *)
(* of them come last.                                                      *)
(***************************************************************************)
EXTENDS MCOffice, Integers, Sequences, FiniteSets, FiniteSetTheorems, TLAPS

-----------------------------------------------------------------------------
(* Mailroom: the poll of the mailbox and the gatekeeper. *)

MrBounds ==
  /\ Mails \in Nat /\ Recent \in Nat /\ Page \in Nat
  /\ Loads \subseteq SUBSET Enclosures /\ Enclosures \cap 1..Mails = {}

MrRow == [mail : 1..Mails, status : {"scanning", "held", "forwarding", "forwarded", "failed"}]
MrPoll == [at : {"idle", "profile", "next", "classify", "gatekeep"},
           list : Seq(1..Mails), upto : -1..Mails]
MrGate == [at : {"idle", "scan", "forward", "forwarded"}, mail : 0..Mails]

(* What a cycle holds: the mails up to its history id are stored, left out by Gmail or *)
(* still on its list, and the mail it hands to the queue is stored.                    *)
IntakeInv ==
  /\ carries \in [1..Mails -> SUBSET Enclosures]
  /\ arrived \in 0..Mails /\ cursor \in -1..arrived
  /\ stored \subseteq 1..Mails
  /\ poll \in MrPoll /\ poll.upto <= arrived
  /\ poll.at \in {"classify", "gatekeep"} => poll.list # <<>> /\ Head(poll.list) \in stored
  /\ poll.at \in {"next", "classify", "gatekeep"} =>
       \A m \in 1..poll.upto : m \in stored \cup unlisted \cup Mr!ToSet(poll.list)
  /\ Mr!PassedIsStored

Cleared(m) == Mr!Enclosed(m) # {} /\ Mr!Enclosed(m) \subseteq clean
OnlyCleared == \A m \in 1..Mails : copies[m] > 0 => released[m] > 0 \/ Cleared(m)
ReleasesCounted == released \in [1..Mails -> Nat]

(* An attachment belongs to one stored mail, for good. *)
OwnerKnown == DOMAIN owner \subseteq Enclosures /\ \A p \in DOMAIN owner : owner[p] \in stored

(* A row of forwards stands under the key of its mail, which no other mail has. *)
RowsKeyed ==
  \A k \in DOMAIN forwards :
     /\ forwards[k] \in MrRow /\ forwards[k].mail \in stored
     /\ k = Mr!KeyOf(forwards[k].mail)

GateKnows ==
  /\ gate \in MrGate
  /\ gate.at # "idle" => gate.mail \in stored /\ Mr!KeyOf(gate.mail) \in DOMAIN forwards
  /\ gate.at \in {"forward", "forwarded"} => Cleared(gate.mail)
  /\ gate.at = "forwarded" => copies[gate.mail] > 0

ClerkKnows ==
  /\ clerk \in [at : {"idle", "send", "record"}, key : DOMAIN forwards \cup {{}}]
  /\ clerk.at # "idle" =>
       clerk.key \in DOMAIN forwards /\ released[forwards[clerk.key].mail] > 0
  /\ clerk.at = "record" => copies[forwards[clerk.key].mail] > 0

CopiesOfStored ==
  /\ copies \in [1..Mails -> Nat]
  /\ \A m \in 1..Mails : copies[m] > 0 => m \in stored

JobsOfStored == \A m \in 1..Mails : <<"gatekeep", m>> \in sentJobs => m \in stored

RelayInv ==
  /\ stored \subseteq 1..Mails /\ OwnerKnown /\ RowsKeyed /\ GateKnows /\ ClerkKnows
  /\ CopiesOfStored /\ JobsOfStored /\ ReleasesCounted /\ OnlyCleared /\ Mr!ForwardedLeft

MrInv == IntakeInv /\ RelayInv

LEMMA MrInit == ASSUME MrBounds, Mr!Init PROVE MrInv
<1>1. IntakeInv
  <2>1. Mr!Idle \in MrPoll BY DEF Mr!Idle, Mr!None, MrPoll, MrBounds
  <2>. QED BY <2>1 DEF IntakeInv, Mr!Init, Mr!Messages, Mr!Idle, Mr!None, MrBounds, Mr!PassedIsStored
<1>2. RelayInv
  <2>1. Mr!NoJob \in MrGate BY DEF Mr!NoJob, MrGate, MrBounds
  <2>2. DOMAIN owner = {} /\ DOMAIN forwards = {} BY DEF Mr!Init
  <2>3. copies = [m \in 1..Mails |-> 0] /\ gate = Mr!NoJob /\ clerk = Mr!NoClick
    BY DEF Mr!Init, Mr!Messages
  <2>4. stored = {} /\ sentJobs = {} BY DEF Mr!Init
  <2>5. ReleasesCounted BY DEF Mr!Init, Mr!Messages, ReleasesCounted
  <2>. QED BY <2>1, <2>2, <2>3, <2>4, <2>5 DEF RelayInv, OwnerKnown, RowsKeyed, GateKnows,
       ClerkKnows, CopiesOfStored, JobsOfStored, OnlyCleared, Mr!ForwardedLeft, Mr!NoJob,
       Mr!NoClick, Mr!Messages
<1>. QED BY <1>1, <1>2 DEF MrInv

(* The mails of a list are its first and the others. *)
LEMMA HeadAndTail ==
  ASSUME NEW S, NEW s \in Seq(S), s # <<>>
  PROVE  /\ Tail(s) \in Seq(S) /\ Head(s) \in S
         /\ \A m : m \in Mr!ToSet(s) => m = Head(s) \/ m \in Mr!ToSet(Tail(s))
<1>1. Tail(s) \in Seq(S) /\ Head(s) \in S OBVIOUS
<1>2. ASSUME NEW i \in DOMAIN s, i # 1 PROVE s[i] \in Mr!ToSet(Tail(s))
  <2>1. i - 1 \in DOMAIN Tail(s) /\ Tail(s)[i - 1] = s[i] BY <1>2
  <2>. QED BY <2>1 DEF Mr!ToSet
<1>. QED BY <1>1, <1>2 DEF Mr!ToSet

(* An intake step leaves what the gatekeeper and the person know as it is. *)
LEMMA RelayKept ==
  ASSUME RelayInv, UNCHANGED Mr!relay, stored \subseteq stored', stored' \subseteq 1..Mails,
         OwnerKnown', \A m \in stored : Mr!Enclosed(m)' = Mr!Enclosed(m), JobsOfStored'
  PROVE  RelayInv'
<1>1. UNCHANGED <<forwards, gate, clerk, clean, released, copies>> BY DEF Mr!relay
<1>2. \A m \in stored : /\ Mr!KeyOf(m)' = Mr!KeyOf(m)
                        /\ Cleared(m)' <=> Cleared(m)
  BY <1>1 DEF Mr!KeyOf, Cleared
<1>3. RowsKeyed'
  <2>1. ASSUME NEW k \in DOMAIN forwards
        PROVE  forwards[k] \in MrRow /\ forwards[k].mail \in stored /\ k = Mr!KeyOf(forwards[k].mail)
    BY DEF RelayInv, RowsKeyed
  <2>2. ASSUME NEW k \in DOMAIN forwards PROVE k = Mr!KeyOf(forwards[k].mail)'
    <3>1. PICK m \in stored : m = forwards[k].mail BY <2>1
    <3>2. Mr!KeyOf(m)' = k BY <1>2, <2>1, <3>1
    <3>. QED BY <1>1, <3>1, <3>2 DEF Mr!KeyOf, Mr!Enclosed
  <2>. QED BY <1>1, <2>1, <2>2 DEF RowsKeyed
<1>4. GateKnows'
  <2>1. CASE gate.at = "idle" BY <1>1, <2>1 DEF RelayInv, GateKnows
  <2>2. CASE gate.at # "idle"
    <3>1. gate.mail \in stored BY <2>2 DEF RelayInv, GateKnows
    <3>2. PICK m \in stored : m = gate.mail BY <3>1
    <3>3. Mr!KeyOf(gate.mail)' = Mr!KeyOf(gate.mail)
      BY <1>1, <1>2, <3>2 DEF Mr!KeyOf, Mr!Enclosed
    <3>4. Cleared(gate.mail)' <=> Cleared(gate.mail)
      BY <1>1, <1>2, <3>2 DEF Cleared, Mr!Enclosed
    <3>. QED BY <1>1, <3>1, <3>3, <3>4 DEF RelayInv, GateKnows
  <2>. QED BY <2>1, <2>2
<1>5. ClerkKnows' /\ CopiesOfStored' BY <1>1 DEF RelayInv, ClerkKnows, CopiesOfStored
<1>6. OnlyCleared'
  <2>1. ASSUME NEW m \in 1..Mails, copies[m] > 0 PROVE released[m] > 0 \/ Cleared(m)'
    BY <1>2, <2>1 DEF RelayInv, CopiesOfStored, OnlyCleared
  <2>. QED BY <1>1, <2>1 DEF OnlyCleared
<1>7. Mr!ForwardedLeft' /\ ReleasesCounted' BY <1>1 DEF RelayInv, Mr!ForwardedLeft, ReleasesCounted
<1>. QED BY <1>3, <1>4, <1>5, <1>6, <1>7 DEF RelayInv

LEMMA OwnersStay ==
  ASSUME RelayInv, UNCHANGED <<Mr!relay, stored, owner>>, JobsOfStored'
  PROVE  RelayInv'
<1>1. OwnerKnown' BY DEF RelayInv, OwnerKnown
<1>2. \A m \in stored : Mr!Enclosed(m)' = Mr!Enclosed(m) BY DEF Mr!Enclosed
<1>. QED BY <1>1, <1>2, RelayKept DEF RelayInv

(* Gmail lists mails, and a cycle ends, fails or hands a stored mail to the queue. *)
LEMMA ListSteps ==
  ASSUME MrBounds, MrInv,
         \/ Mr!Arrive \/ Mr!ListRecent \/ Mr!GetProfile \/ Mr!ListHistory
         \/ Mr!FetchFails \/ Mr!SaveCursor
  PROVE  MrInv'
<1>0. /\ carries \in [1..Mails -> SUBSET Enclosures] /\ arrived \in 0..Mails
      /\ cursor \in -1..arrived /\ stored \subseteq 1..Mails
      /\ poll \in MrPoll /\ poll.upto <= arrived /\ Mr!PassedIsStored
      /\ poll.at \in {"next", "classify", "gatekeep"} =>
           \A m \in 1..poll.upto : m \in stored \cup unlisted \cup Mr!ToSet(poll.list)
  BY DEF MrInv, IntakeInv
<1>1. UNCHANGED <<Mr!relay, stored, owner, sentJobs>>
  BY DEF Mr!Arrive, Mr!ListRecent, Mr!GetProfile, Mr!ListHistory, Mr!FetchFails,
         Mr!SaveCursor, Mr!intake
<1>2. RelayInv'
  <2>1. JobsOfStored' BY <1>1 DEF MrInv, RelayInv, JobsOfStored
  <2>. QED BY <1>1, <2>1, OwnersStay DEF MrInv
<1>3. IntakeInv'
  <2>1. CASE Mr!Arrive
    <3>1. arrived' = arrived + 1 /\ arrived' \in 0..Mails
          /\ UNCHANGED <<carries, cursor, poll, stored, unlisted>>
      BY <1>0, <2>1 DEF Mr!Arrive, Mr!intake, MrBounds
    <3>. QED BY <1>0, <3>1 DEF MrInv, IntakeInv, MrPoll, Mr!PassedIsStored
  <2>2. CASE Mr!ListRecent
    <3>1. PICK listed \in Nat :
            /\ listed <= arrived
            /\ poll' = [at |-> "profile", upto |-> -1, list |-> [n \in 1..listed |-> arrived + 1 - n]]
      <4>1. PICK l : l = IF arrived < Recent THEN arrived ELSE Recent OBVIOUS
      <4>2. l \in Nat /\ l <= arrived BY <1>0, <4>1 DEF MrBounds
      <4>. QED BY <2>2, <4>1, <4>2 DEF Mr!ListRecent, Mr!None
    <3>u. UNCHANGED <<carries, arrived, cursor, stored, unlisted>>
      BY <2>2 DEF Mr!ListRecent, Mr!mailbox
    <3>2. [n \in 1..listed |-> arrived + 1 - n] \in Seq(1..Mails)
      <4>1. \A n \in 1..listed : arrived + 1 - n \in 1..Mails BY <1>0, <3>1 DEF MrBounds
      <4>. QED BY <3>1, <4>1
    <3>3. poll' \in MrPoll BY <3>1, <3>2 DEF MrPoll, MrBounds
    <3>. QED BY <1>0, <3>1, <3>u, <3>3 DEF IntakeInv, Mr!PassedIsStored
  <2>3. CASE Mr!GetProfile
    <3>1. /\ poll' = [poll EXCEPT !.at = "next", !.upto = arrived]
          /\ unlisted' = unlisted \cup (1..arrived \ Mr!ToSet(poll.list))
          /\ UNCHANGED <<carries, arrived, cursor, stored>>
      BY <2>3 DEF Mr!GetProfile, Mr!mailbox
    <3>2. poll' \in MrPoll /\ poll'.upto = arrived /\ poll'.at = "next" /\ poll'.list = poll.list
      <4>1. poll' = [at |-> "next", list |-> poll.list, upto |-> arrived]
        BY <1>0, <3>1 DEF MrPoll
      <4>2. poll.list \in Seq(1..Mails) BY <1>0 DEF MrPoll
      <4>3. arrived \in -1..Mails BY <1>0 DEF MrBounds
      <4>. QED BY <4>1, <4>2, <4>3 DEF MrPoll
    <3>3. \A m \in 1..arrived : m \in stored \cup unlisted' \cup Mr!ToSet(poll.list) BY <3>1
    <3>. QED BY <1>0, <3>1, <3>2, <3>3 DEF IntakeInv, Mr!PassedIsStored, Mr!ToSet
  <2>4. CASE Mr!ListHistory
    <3>1. PICK listed \in Int :
            /\ listed = IF arrived - cursor < Page THEN arrived - cursor ELSE Page
            /\ poll' = [at |-> "next", upto |-> arrived, list |-> [n \in 1..listed |-> cursor + n]]
            /\ unlisted' = unlisted \cup (cursor + listed + 1)..arrived
      <4>1. PICK l : l = IF arrived - cursor < Page THEN arrived - cursor ELSE Page OBVIOUS
      <4>2. l \in Int BY <1>0, <4>1 DEF MrBounds
      <4>. QED BY <2>4, <4>1, <4>2 DEF Mr!ListHistory
    <3>2. UNCHANGED <<carries, arrived, cursor, stored>> BY <2>4 DEF Mr!ListHistory, Mr!mailbox
    <3>3. cursor \in 0..arrived BY <1>0, <2>4 DEF Mr!ListHistory, Mr!None
    <3>4. listed \in Nat /\ cursor + listed <= arrived BY <1>0, <3>1, <3>3 DEF MrBounds
    <3>5. [n \in 1..listed |-> cursor + n] \in Seq(1..Mails)
      <4>1. \A n \in 1..listed : cursor + n \in 1..Mails BY <1>0, <3>3, <3>4 DEF MrBounds
      <4>. QED BY <3>4, <4>1
    <3>6. poll' \in MrPoll BY <1>0, <3>1, <3>5 DEF MrPoll, MrBounds
    <3>7. ASSUME NEW m \in 1..arrived
          PROVE  m \in stored \cup unlisted' \cup Mr!ToSet(poll'.list)
      <4>1. CASE m <= cursor BY <1>0, <3>1, <3>3, <4>1 DEF Mr!PassedIsStored
      <4>2. CASE m > cursor /\ m <= cursor + listed
        <5>1. m - cursor \in 1..listed /\ cursor + (m - cursor) = m BY <3>3, <3>4, <4>2
        <5>2. DOMAIN poll'.list = 1..listed /\ poll'.list[m - cursor] = m BY <3>1, <5>1
        <5>. QED BY <5>1, <5>2 DEF Mr!ToSet
      <4>3. CASE m > cursor + listed BY <1>0, <3>1, <3>3, <3>4, <4>3
      <4>. QED BY <1>0, <3>3, <3>4, <4>1, <4>2, <4>3
    <3>8. poll'.at = "next" /\ poll'.upto = arrived BY <3>1
    <3>9. \A m \in 1..cursor : m \in stored \cup unlisted' BY <1>0, <3>1 DEF Mr!PassedIsStored
    <3>. QED BY <1>0, <3>2, <3>6, <3>7, <3>8, <3>9 DEF IntakeInv, Mr!PassedIsStored, Mr!ToSet
  <2>5. CASE Mr!FetchFails
    <3>1. poll' = Mr!Idle /\ UNCHANGED <<carries, arrived, cursor, stored, unlisted>>
      BY <2>5 DEF Mr!FetchFails, Mr!mailbox
    <3>2. Mr!Idle \in MrPoll BY DEF Mr!Idle, Mr!None, MrPoll, MrBounds
    <3>. QED BY <1>0, <3>1, <3>2 DEF IntakeInv, Mr!PassedIsStored, Mr!Idle, Mr!None
  <2>6. CASE Mr!SaveCursor
    <3>1. poll.at = "next" /\ poll.list = <<>> /\ poll' = Mr!Idle /\ cursor' = poll.upto
          /\ UNCHANGED <<carries, arrived, stored, unlisted>>
      BY <2>6 DEF Mr!SaveCursor, Mr!mailbox
    <3>2. Mr!Idle \in MrPoll BY DEF Mr!Idle, Mr!None, MrPoll, MrBounds
    <3>3. Mr!ToSet(poll.list) = {} BY <3>1 DEF Mr!ToSet
    <3>4. cursor' \in -1..arrived BY <1>0, <3>1 DEF MrPoll
    <3>. QED BY <1>0, <3>1, <3>2, <3>3, <3>4 DEF IntakeInv, Mr!PassedIsStored, Mr!Idle, Mr!None
  <2>. QED BY <2>1, <2>2, <2>3, <2>4, <2>5, <2>6
<1>. QED BY <1>2, <1>3 DEF MrInv

(* A send hands over the first mail of the list, which is stored. *)
LEMMA SendSteps ==
  ASSUME MrBounds, MrInv, Mr!SendClassify \/ Mr!SendGatekeep PROVE MrInv'
<1>0. /\ stored \subseteq 1..Mails /\ poll \in MrPoll /\ poll.upto <= arrived
      /\ \A m \in 1..poll.upto : m \in stored \cup unlisted \cup Mr!ToSet(poll.list)
      /\ poll.list # <<>> /\ Head(poll.list) \in stored
  BY DEF MrInv, IntakeInv, Mr!SendClassify, Mr!SendGatekeep, Mr!Send
<1>1. /\ \E j \in {"classify", "gatekeep"} : sentJobs' = sentJobs \cup {<<j, Head(poll.list)>>}
      /\ UNCHANGED <<Mr!relay, carries, arrived, cursor, stored, owner, unlisted>>
  BY DEF Mr!SendClassify, Mr!SendGatekeep, Mr!Send, Mr!mailbox
<1>2. RelayInv'
  <2>1. JobsOfStored' BY <1>0, <1>1 DEF MrInv, RelayInv, JobsOfStored
  <2>. QED BY <1>1, <2>1, OwnersStay DEF MrInv
<1>3. IntakeInv'
  <2>1. CASE Mr!SendClassify
    <3>1. poll' = [poll EXCEPT !.at = "gatekeep", !.list = poll.list]
      BY <2>1 DEF Mr!SendClassify, Mr!Send
    <3>2. poll' = [poll EXCEPT !.at = "gatekeep"] BY <1>0, <3>1 DEF MrPoll
    <3>3. poll' \in MrPoll /\ poll'.list = poll.list /\ poll'.upto = poll.upto /\ poll'.at = "gatekeep"
      BY <1>0, <3>2 DEF MrPoll
    <3>. QED BY <1>0, <1>1, <3>3 DEF MrInv, IntakeInv, Mr!PassedIsStored, Mr!ToSet
  <2>2. CASE Mr!SendGatekeep
    <3>1. poll' = [poll EXCEPT !.at = "next", !.list = Tail(poll.list)]
      BY <2>2 DEF Mr!SendGatekeep, Mr!Send
    <3>2. poll.list \in Seq(1..Mails) BY <1>0 DEF MrPoll
    <3>3. Tail(poll.list) \in Seq(1..Mails)
          /\ \A m : m \in Mr!ToSet(poll.list) => m = Head(poll.list) \/ m \in Mr!ToSet(Tail(poll.list))
      BY <1>0, <3>2, HeadAndTail
    <3>4. poll' \in MrPoll /\ poll'.list = Tail(poll.list) /\ poll'.upto = poll.upto /\ poll'.at = "next"
      BY <1>0, <3>1, <3>3 DEF MrPoll
    <3>5. \A m \in 1..poll.upto : m \in stored \cup unlisted \cup Mr!ToSet(Tail(poll.list))
      BY <1>0, <3>3
    <3>. QED BY <1>0, <1>1, <3>4, <3>5 DEF MrInv, IntakeInv, Mr!PassedIsStored, Mr!ToSet
  <2>. QED BY <2>1, <2>2 DEF Mr!SendClassify, Mr!SendGatekeep
<1>. QED BY <1>2, <1>3 DEF MrInv

(* A mail that is stored for the first time takes attachments no other mail has. *)
LEMMA PersistStep == ASSUME MrBounds, MrInv, Mr!Persist PROVE MrInv'
<1>0. /\ carries \in [1..Mails -> SUBSET Enclosures] /\ stored \subseteq 1..Mails
      /\ poll \in MrPoll /\ poll.upto <= arrived /\ poll.at = "next" /\ poll.list # <<>>
      /\ \A m \in 1..poll.upto : m \in stored \cup unlisted \cup Mr!ToSet(poll.list)
      /\ poll.list \in Seq(1..Mails) /\ OwnerKnown
  BY DEF MrInv, IntakeInv, RelayInv, Mr!Persist, MrPoll
<1>1. UNCHANGED <<Mr!relay, carries, arrived, cursor, unlisted, sentJobs>>
  BY DEF Mr!Persist, Mr!mailbox
<1>2. PICK m \in 1..Mails : m = Head(poll.list) BY <1>0, HeadAndTail
<1>3. CASE m \in stored
  <2>1. poll' = [poll EXCEPT !.list = Tail(poll.list)] /\ UNCHANGED <<stored, owner>>
    BY <1>0, <1>2, <1>3 DEF Mr!Persist, MrPoll
  <2>2. RelayInv'
    <3>1. JobsOfStored' BY <1>1, <2>1 DEF MrInv, RelayInv, JobsOfStored
    <3>. QED BY <1>1, <2>1, <3>1, OwnersStay DEF MrInv
  <2>3. Tail(poll.list) \in Seq(1..Mails)
        /\ \A x : x \in Mr!ToSet(poll.list) => x = Head(poll.list) \/ x \in Mr!ToSet(Tail(poll.list))
    BY <1>0, HeadAndTail
  <2>4. poll' \in MrPoll /\ poll'.list = Tail(poll.list) /\ poll'.upto = poll.upto /\ poll'.at = "next"
    BY <1>0, <2>1, <2>3 DEF MrPoll
  <2>5. \A x \in 1..poll.upto : x \in stored \cup unlisted \cup Mr!ToSet(Tail(poll.list))
    BY <1>0, <1>2, <1>3, <2>3
  <2>6. IntakeInv'
    BY <1>0, <1>1, <2>1, <2>4, <2>5 DEF MrInv, IntakeInv, Mr!PassedIsStored, Mr!ToSet
  <2>. QED BY <2>2, <2>6 DEF MrInv
<1>4. CASE m \notin stored
  <2>1. /\ stored' = stored \cup {m} /\ poll' = [poll EXCEPT !.at = "classify"]
        /\ owner' = [p \in DOMAIN owner \cup Mr!Fetched(m) |->
                       IF p \in DOMAIN owner THEN owner[p] ELSE m]
    BY <1>0, <1>2, <1>4 DEF Mr!Persist
  <2>2. OwnerKnown'
    <3>1. Mr!Fetched(m) \subseteq Enclosures BY <1>0 DEF Mr!Fetched
    <3>. QED BY <1>0, <2>1, <3>1 DEF OwnerKnown
  <2>3. ASSUME NEW x \in stored PROVE Mr!Enclosed(x)' = Mr!Enclosed(x)
    <3>1. x # m BY <1>4
    <3>. QED BY <2>1, <3>1 DEF Mr!Enclosed
  <2>4. JobsOfStored' BY <1>1, <2>1 DEF MrInv, RelayInv, JobsOfStored
  <2>5. RelayInv' BY <1>0, <1>1, <2>1, <2>2, <2>3, <2>4, RelayKept DEF MrInv
  <2>6. poll' \in MrPoll /\ poll'.list = poll.list /\ poll'.upto = poll.upto /\ poll'.at = "classify"
    BY <1>0, <2>1 DEF MrPoll
  <2>7. IntakeInv'
    BY <1>0, <1>1, <1>2, <2>1, <2>6 DEF MrInv, IntakeInv, Mr!PassedIsStored, Mr!ToSet
  <2>. QED BY <2>5, <2>7 DEF MrInv
<1>. QED BY <1>3, <1>4

(* No two mails have one key: an attachment belongs to one mail, and a key of a mail that *)
(* has none is no set of attachments.                                                     *)
LEMMA KeysDiffer ==
  ASSUME MrBounds, OwnerKnown, stored \subseteq 1..Mails,
         NEW m \in stored, NEW n \in stored, Mr!KeyOf(m) = Mr!KeyOf(n)
  PROVE  m = n
<1>1. Mr!Enclosed(m) \subseteq Enclosures /\ Mr!Enclosed(n) \subseteq Enclosures
  BY DEF Mr!Enclosed, OwnerKnown
<1>2. m \notin Enclosures /\ n \notin Enclosures BY DEF MrBounds
<1>3. \A p : p \in Mr!Enclosed(m) /\ p \in Mr!Enclosed(n) => m = n BY DEF Mr!Enclosed
<1>4. CASE Mr!Enclosed(m) = {} /\ Mr!Enclosed(n) = {}
  <2>1. {m} = {n} BY <1>4 DEF Mr!KeyOf
  <2>. QED BY <2>1
<1>5. CASE Mr!Enclosed(m) # {} /\ Mr!Enclosed(n) = {}
  <2>1. Mr!Enclosed(m) = {n} BY <1>5 DEF Mr!KeyOf
  <2>. QED BY <1>1, <1>2, <2>1
<1>6. CASE Mr!Enclosed(m) = {} /\ Mr!Enclosed(n) # {}
  <2>1. {m} = Mr!Enclosed(n) BY <1>6 DEF Mr!KeyOf
  <2>. QED BY <1>1, <1>2, <2>1
<1>7. CASE Mr!Enclosed(m) # {} /\ Mr!Enclosed(n) # {}
  <2>1. Mr!Enclosed(m) = Mr!Enclosed(n) BY <1>7 DEF Mr!KeyOf
  <2>. QED BY <1>3, <1>7, <2>1
<1>. QED BY <1>4, <1>5, <1>6, <1>7

(* Rows are written under the key of a stored mail, copies are added, scans add what is *)
(* clean: what was known of the rows before stays known.                                *)
LEMMA RowWritten ==
  ASSUME RelayInv, UNCHANGED <<stored, owner>>, NEW k, NEW r \in MrRow,
         forwards' = [x \in DOMAIN forwards \cup {k} |-> IF x = k THEN r ELSE forwards[x]],
         r.mail \in stored, k = Mr!KeyOf(r.mail)
  PROVE  RowsKeyed'
<1>1. \A m : Mr!KeyOf(m)' = Mr!KeyOf(m) BY DEF Mr!KeyOf, Mr!Enclosed
<1>2. ASSUME NEW x \in DOMAIN forwards'
      PROVE  /\ forwards'[x] \in MrRow /\ forwards'[x].mail \in stored
             /\ x = Mr!KeyOf(forwards'[x].mail)
  BY <1>2 DEF RelayInv, RowsKeyed
<1>3. ASSUME NEW x \in DOMAIN forwards' PROVE x = Mr!KeyOf(forwards[x].mail)'
  <2>1. PICK m \in stored : m = forwards'[x].mail /\ x = Mr!KeyOf(m) BY <1>2, <1>3
  <2>2. x = Mr!KeyOf(m)' BY <1>1, <2>1
  <2>. QED BY <2>1, <2>2 DEF Mr!KeyOf, Mr!Enclosed
<1>. QED BY <1>2, <1>3 DEF RowsKeyed

LEMMA StatusWritten ==
  ASSUME RelayInv, UNCHANGED <<stored, owner>>, NEW k \in DOMAIN forwards,
         NEW s \in {"scanning", "held", "forwarding", "forwarded", "failed"},
         forwards' = Mr!SetStatus(k, s)
  PROVE  /\ RowsKeyed' /\ DOMAIN forwards' = DOMAIN forwards
         /\ \A x \in DOMAIN forwards : forwards'[x].mail = forwards[x].mail
         /\ \A x \in DOMAIN forwards :
              forwards'[x].status = IF x = k THEN s ELSE forwards[x].status
<1>1. \A x \in DOMAIN forwards : forwards[x] \in MrRow BY DEF RelayInv, RowsKeyed
<1>2. DOMAIN forwards' = DOMAIN forwards
      /\ \A x \in DOMAIN forwards :
           forwards'[x] = IF x = k THEN [forwards[x] EXCEPT !.status = s] ELSE forwards[x]
  BY DEF Mr!SetStatus
<1>3. \A x \in DOMAIN forwards :
        /\ forwards'[x] \in MrRow /\ forwards'[x].mail = forwards[x].mail
        /\ forwards'[x].status = IF x = k THEN s ELSE forwards[x].status
  BY <1>1, <1>2 DEF MrRow
<1>4. RowsKeyed'
  <2>1. \A m : Mr!KeyOf(m)' = Mr!KeyOf(m) BY DEF Mr!KeyOf, Mr!Enclosed
  <2>2. ASSUME NEW x \in DOMAIN forwards
        PROVE  forwards[x].mail \in stored /\ x = Mr!KeyOf(forwards[x].mail)
    BY DEF RelayInv, RowsKeyed
  <2>3. ASSUME NEW x \in DOMAIN forwards PROVE x = Mr!KeyOf(forwards[x].mail)'
    BY <1>3, <2>2 DEF Mr!KeyOf, Mr!Enclosed
  <2>. QED BY <1>2, <1>3, <2>2, <2>3 DEF RowsKeyed
<1>. QED BY <1>2, <1>3, <1>4

(* What the gatekeeper and the person know survives a step that keeps the rows' mails and *)
(* only adds copies, releases and clean attachments.                                      *)
LEMMA PromisesKept ==
  ASSUME RelayInv, UNCHANGED <<stored, owner>>,
         DOMAIN forwards \subseteq DOMAIN forwards',
         \A x \in DOMAIN forwards : forwards'[x].mail = forwards[x].mail,
         clean \subseteq clean', \A m \in 1..Mails : released[m] > 0 => released'[m] > 0, copies' \in [1..Mails -> Nat],
         \A m \in 1..Mails : copies[m] > 0 => copies'[m] > 0
  PROVE  /\ \A m : Mr!Enclosed(m)' = Mr!Enclosed(m) /\ Mr!KeyOf(m)' = Mr!KeyOf(m)
         /\ \A m : Cleared(m) => Cleared(m)'
         /\ UNCHANGED clerk => ClerkKnows'
         /\ UNCHANGED gate => GateKnows'
<1>1. \A m : Mr!Enclosed(m)' = Mr!Enclosed(m) BY DEF Mr!Enclosed
<1>2. \A m : Mr!KeyOf(m)' = Mr!KeyOf(m) BY <1>1 DEF Mr!KeyOf
<1>3. \A m : Cleared(m) => Cleared(m)' BY <1>1 DEF Cleared
<1>4. \A x \in DOMAIN forwards : forwards[x].mail \in 1..Mails
  BY DEF RelayInv, RowsKeyed, MrRow
<1>5. ASSUME UNCHANGED clerk PROVE ClerkKnows'
  <2>1. clerk \in [at : {"idle", "send", "record"}, key : DOMAIN forwards' \cup {{}}]
    BY DEF RelayInv, ClerkKnows
  <2>. QED BY <1>4, <1>5, <2>1 DEF RelayInv, ClerkKnows
<1>6. ASSUME UNCHANGED gate PROVE GateKnows'
  <2>1. CASE gate.at = "idle" BY <1>6, <2>1 DEF RelayInv, GateKnows
  <2>2. CASE gate.at # "idle"
    <3>1. gate.mail \in stored /\ gate.mail \in 1..Mails /\ Mr!KeyOf(gate.mail) \in DOMAIN forwards'
      BY <2>2 DEF RelayInv, GateKnows
    <3>2. PICK m \in 1..Mails : m = gate.mail BY <3>1
    <3>3. Mr!KeyOf(gate.mail)' \in DOMAIN forwards' BY <1>6, <3>1 DEF Mr!KeyOf, Mr!Enclosed
    <3>4. Cleared(m) => Cleared(gate.mail)' BY <1>3, <1>6, <3>2 DEF Cleared, Mr!Enclosed
    <3>. QED BY <1>6, <3>1, <3>2, <3>3, <3>4 DEF RelayInv, GateKnows
  <2>. QED BY <2>1, <2>2
<1>. QED BY <1>1, <1>2, <1>3, <1>5, <1>6

LEMMA CleanStays ==
  ASSUME RelayInv, UNCHANGED <<stored, owner>>, clean \subseteq clean', \A m \in 1..Mails : released[m] > 0 => released'[m] > 0,
         \A m \in 1..Mails : copies'[m] > 0 =>
           copies[m] > 0 \/ released'[m] > 0 \/ Cleared(m)
  PROVE  OnlyCleared'
<1>1. \A m : Mr!Enclosed(m)' = Mr!Enclosed(m) BY DEF Mr!Enclosed
<1>2. ASSUME NEW m \in 1..Mails, copies'[m] > 0
      PROVE  released'[m] > 0 \/ Cleared(m)'
  BY <1>1, <1>2 DEF RelayInv, OnlyCleared, Cleared
<1>. QED BY <1>2 DEF OnlyCleared

LEMMA IntakeKept ==
  ASSUME MrInv, UNCHANGED <<Mr!mailbox, Mr!intake>> PROVE IntakeInv' /\ JobsOfStored' /\ OwnerKnown'
BY DEF MrInv, IntakeInv, RelayInv, Mr!mailbox, Mr!intake, Mr!PassedIsStored, JobsOfStored, OwnerKnown,
       Mr!ToSet

(* The gatekeeper's job: its row, the scan, the mail and what is recorded of it. *)
LEMMA IntentStep == ASSUME MrBounds, MrInv, Mr!Intent PROVE MrInv'
<1>0. UNCHANGED <<Mr!mailbox, Mr!intake, clerk, clean, released, copies, stored, owner>>
  BY DEF Mr!Intent, Mr!intake
<1>1. IntakeInv' /\ JobsOfStored' /\ OwnerKnown' BY <1>0, IntakeKept
<1>2. PICK m \in 1..Mails :
        /\ <<"gatekeep", m>> \in sentJobs
        /\ \/ /\ Mr!KeyOf(m) \notin DOMAIN forwards
              /\ forwards' = [x \in DOMAIN forwards \cup {Mr!KeyOf(m)} |->
                   IF x = Mr!KeyOf(m) THEN [mail |-> m, status |-> "scanning"] ELSE forwards[x]]
              /\ gate' = [at |-> "scan", mail |-> m]
           \/ /\ Mr!KeyOf(m) \in DOMAIN forwards /\ UNCHANGED forwards
              /\ gate' = gate \/ gate' = [at |-> "scan", mail |-> m]
  BY DEF Mr!Intent, Mr!Messages
<1>3. m \in stored BY <1>2 DEF MrInv, RelayInv, JobsOfStored
<1>4. copies \in [1..Mails -> Nat] BY DEF MrInv, RelayInv, CopiesOfStored
<1>5. /\ RowsKeyed' /\ Mr!KeyOf(m) \in DOMAIN forwards'
      /\ DOMAIN forwards \subseteq DOMAIN forwards'
      /\ \A x \in DOMAIN forwards : forwards'[x].mail = forwards[x].mail
      /\ Mr!ForwardedLeft'
  <2>1. CASE UNCHANGED forwards
    BY <1>0, <1>2, <2>1 DEF MrInv, RelayInv, RowsKeyed, Mr!ForwardedLeft, Mr!KeyOf, Mr!Enclosed
  <2>2. CASE ~UNCHANGED forwards
    <3>1. PICK k, r : /\ k = Mr!KeyOf(m) /\ r = [mail |-> m, status |-> "scanning"]
                      /\ k \notin DOMAIN forwards
                      /\ forwards' = [x \in DOMAIN forwards \cup {k} |-> IF x = k THEN r ELSE forwards[x]]
      BY <1>2, <2>2
    <3>2. r \in MrRow /\ r.mail = m /\ r.status = "scanning" BY <3>1 DEF MrRow
    <3>3. RowsKeyed' BY <1>0, <1>3, <3>1, <3>2, RowWritten DEF MrInv
    <3>4. Mr!ForwardedLeft' BY <1>0, <3>1, <3>2 DEF MrInv, RelayInv, Mr!ForwardedLeft
    <3>. QED BY <3>1, <3>3, <3>4
  <2>. QED BY <2>1, <2>2
<1>6. /\ Mr!KeyOf(m)' = Mr!KeyOf(m) /\ ClerkKnows' /\ (UNCHANGED gate => GateKnows')
  BY <1>0, <1>4, <1>5, PromisesKept DEF MrInv
<1>7. GateKnows'
  <2>1. CASE gate' = [at |-> "scan", mail |-> m]
    <3>1. gate' \in MrGate /\ gate'.at = "scan" /\ gate'.mail = m BY <2>1 DEF MrGate, MrBounds
    <3>2. Mr!KeyOf(gate.mail)' = Mr!KeyOf(m)' BY <3>1 DEF Mr!KeyOf, Mr!Enclosed
    <3>. QED BY <1>0, <1>3, <1>5, <1>6, <3>1, <3>2 DEF GateKnows
  <2>. QED BY <1>2, <1>6, <2>1
<1>8. OnlyCleared' BY <1>0, CleanStays DEF MrInv
<1>9. CopiesOfStored' BY <1>0 DEF MrInv, RelayInv, CopiesOfStored
<1>. QED BY <1>0, <1>1, <1>5, <1>6, <1>7, <1>8, <1>9 DEF MrInv, RelayInv, ReleasesCounted

(* A copy of a mail is one more of it. *)
LEMMA OneMoreCopy ==
  ASSUME CopiesOfStored, UNCHANGED stored, NEW m \in stored, stored \subseteq 1..Mails,
         copies' \in {copies, [copies EXCEPT ![m] = copies[m] + 1]}
  PROVE  /\ CopiesOfStored' /\ \A n \in 1..Mails : copies[n] > 0 => copies'[n] > 0
         /\ \A n \in 1..Mails : copies'[n] > 0 => copies[n] > 0 \/ n = m
         /\ copies' = [copies EXCEPT ![m] = copies[m] + 1] => copies'[m] > 0
<1>0. copies \in [1..Mails -> Nat] /\ m \in 1..Mails
      /\ \A n \in 1..Mails : copies[n] > 0 => n \in stored
  BY DEF CopiesOfStored
<1>1. copies[m] \in Nat /\ copies[m] + 1 \in Nat /\ copies[m] + 1 > 0 BY <1>0
<1>2. copies' \in [1..Mails -> Nat] BY <1>0, <1>1
<1>3. \A n \in 1..Mails : copies'[n] = copies[n] \/ (n = m /\ copies'[n] = copies[m] + 1)
  BY <1>0
<1>4. \A n \in 1..Mails : copies'[n] > 0 => copies[n] > 0 \/ n = m BY <1>3
<1>5. \A n \in 1..Mails : copies[n] > 0 => copies'[n] > 0 BY <1>1, <1>3
<1>6. CopiesOfStored' BY <1>0, <1>2, <1>4 DEF CopiesOfStored
<1>. QED BY <1>0, <1>1, <1>4, <1>5, <1>6

LEMMA GateEndsIdle ==
  ASSUME MrBounds, gate' = Mr!NoJob PROVE GateKnows'
BY DEF GateKnows, MrGate, Mr!NoJob, MrBounds

LEMMA GateSteps ==
  ASSUME MrBounds, MrInv,
         \/ Mr!ScanHolds \/ Mr!ScanClean \/ Mr!Forward \/ Mr!RecordForward \/ Mr!ForwardFails
  PROVE  MrInv'
<1>0. /\ UNCHANGED <<Mr!mailbox, Mr!intake, clerk, released, stored, owner>>
      /\ gate.at # "idle" /\ clean \subseteq clean'
  BY DEF Mr!ScanHolds, Mr!ScanClean, Mr!Forward, Mr!RecordForward, Mr!ForwardFails, Mr!intake
<1>1. IntakeInv' /\ JobsOfStored' /\ OwnerKnown' BY <1>0, IntakeKept
<1>2. PICK m \in stored, k \in DOMAIN forwards :
        m = gate.mail /\ k = Mr!KeyOf(m) /\ m \in 1..Mails
  BY <1>0 DEF MrInv, RelayInv, GateKnows
<1>3. forwards[k].mail = m
  <2>1. forwards[k].mail \in stored /\ k = Mr!KeyOf(forwards[k].mail) BY DEF MrInv, RelayInv, RowsKeyed
  <2>2. PICK n \in stored : n = forwards[k].mail BY <2>1
  <2>3. Mr!KeyOf(n) = Mr!KeyOf(m) BY <1>2, <2>1, <2>2
  <2>. QED BY <2>2, <2>3, KeysDiffer DEF MrInv, RelayInv
<1>4. copies' \in {copies, [copies EXCEPT ![m] = copies[m] + 1]}
  BY <1>2 DEF Mr!ScanHolds, Mr!ScanClean, Mr!Forward, Mr!RecordForward, Mr!ForwardFails
<1>5. /\ CopiesOfStored' /\ \A n \in 1..Mails : copies[n] > 0 => copies'[n] > 0
      /\ \A n \in 1..Mails : copies'[n] > 0 => copies[n] > 0 \/ n = m
      /\ copies' = [copies EXCEPT ![m] = copies[m] + 1] => copies'[m] > 0
  BY <1>0, <1>2, <1>4, OneMoreCopy DEF MrInv, RelayInv
<1>6. copies' \in [1..Mails -> Nat] BY <1>5 DEF CopiesOfStored
<1>7. \/ UNCHANGED forwards
      \/ \E s \in {"held", "forwarding", "forwarded", "failed"} :
           /\ forwards' = Mr!SetStatus(k, s)
           /\ s = "forwarded" => Mr!RecordForward
  BY <1>2 DEF Mr!ScanHolds, Mr!ScanClean, Mr!Forward, Mr!RecordForward, Mr!ForwardFails
<1>8. /\ RowsKeyed' /\ DOMAIN forwards' = DOMAIN forwards
      /\ \A x \in DOMAIN forwards : forwards'[x].mail = forwards[x].mail
      /\ \A x \in DOMAIN forwards : forwards'[x].status = "forwarded" =>
           forwards[x].status = "forwarded" \/ (Mr!RecordForward /\ x = k)
  <2>1. CASE UNCHANGED forwards
    BY <1>0, <2>1 DEF MrInv, RelayInv, RowsKeyed, Mr!KeyOf, Mr!Enclosed
  <2>2. ASSUME NEW s \in {"held", "forwarding", "forwarded", "failed"},
               forwards' = Mr!SetStatus(k, s), s = "forwarded" => Mr!RecordForward
        PROVE  /\ RowsKeyed' /\ DOMAIN forwards' = DOMAIN forwards
               /\ \A x \in DOMAIN forwards : forwards'[x].mail = forwards[x].mail
               /\ \A x \in DOMAIN forwards : forwards'[x].status = "forwarded" =>
                    forwards[x].status = "forwarded" \/ (Mr!RecordForward /\ x = k)
    BY <1>0, <2>2, StatusWritten DEF MrInv
  <2>. QED BY <1>7, <2>1, <2>2
<1>9. /\ \A n : Mr!Enclosed(n)' = Mr!Enclosed(n) /\ Mr!KeyOf(n)' = Mr!KeyOf(n)
      /\ \A n : Cleared(n) => Cleared(n)'
      /\ ClerkKnows'
  BY <1>0, <1>5, <1>6, <1>8, PromisesKept DEF MrInv
<1>10. Mr!ForwardedLeft'
  <2>1. Mr!RecordForward => copies[m] > 0
    BY <1>2 DEF Mr!RecordForward, MrInv, RelayInv, GateKnows
  <2>2. \A x \in DOMAIN forwards : forwards[x].mail \in 1..Mails
    BY DEF MrInv, RelayInv, RowsKeyed, MrRow
  <2>3. ASSUME NEW x \in DOMAIN forwards, forwards'[x].status = "forwarded"
        PROVE  copies'[forwards'[x].mail] > 0
    <3>1. copies[forwards[x].mail] > 0
      BY <1>3, <1>8, <2>1, <2>3 DEF MrInv, RelayInv, Mr!ForwardedLeft
    <3>. QED BY <1>5, <1>8, <2>2, <3>1
  <2>. QED BY <1>8, <2>3 DEF Mr!ForwardedLeft
<1>11. Mr!Forward \/ Mr!ForwardFails => Cleared(m)
  BY <1>2 DEF Mr!Forward, Mr!ForwardFails, MrInv, RelayInv, GateKnows
<1>12. OnlyCleared'
  <2>1. \/ copies' = copies \/ Mr!Forward \/ Mr!ForwardFails
    BY DEF Mr!ScanHolds, Mr!ScanClean, Mr!RecordForward
  <2>2. \A n \in 1..Mails : copies'[n] > 0 => copies[n] > 0 \/ released'[n] > 0 \/ Cleared(n)
    BY <1>5, <1>11, <2>1
  <2>. QED BY <1>0, <2>2, CleanStays DEF MrInv
<1>13. GateKnows'
  <2>1. CASE gate' = Mr!NoJob BY <2>1, GateEndsIdle
  <2>2. ASSUME NEW a \in {"forward", "forwarded"}, gate' = [gate EXCEPT !.at = a],
               Cleared(m)', a = "forwarded" => copies'[m] > 0
        PROVE  GateKnows'
    <3>1. gate \in MrGate BY DEF MrInv, RelayInv, GateKnows
    <3>2. gate' \in MrGate /\ gate'.at = a /\ gate'.mail = m BY <1>2, <2>2, <3>1 DEF MrGate
    <3>3. Cleared(gate.mail)' BY <2>2, <3>2 DEF Cleared, Mr!Enclosed
    <3>4. Mr!KeyOf(gate.mail)' = Mr!KeyOf(m)' BY <3>2 DEF Mr!KeyOf, Mr!Enclosed
    <3>. QED BY <1>0, <1>2, <1>8, <1>9, <2>2, <3>2, <3>3, <3>4 DEF GateKnows
  <2>3. CASE Mr!ScanClean
    <3>1. gate' = [gate EXCEPT !.at = "forward"] /\ Mr!Enclosed(m) # {} /\ clean' = clean \cup Mr!Enclosed(m)
      BY <1>2, <2>3 DEF Mr!ScanClean, Mr!GateGoes
    <3>2. Cleared(m)' BY <1>9, <3>1 DEF Cleared
    <3>. QED BY <2>2, <3>1, <3>2
  <2>4. CASE Mr!Forward
    <3>1. gate' = [gate EXCEPT !.at = "forwarded"] /\ copies' = [copies EXCEPT ![m] = copies[m] + 1]
      BY <1>2, <2>4 DEF Mr!Forward, Mr!GateGoes
    <3>. QED BY <1>5, <1>9, <1>11, <2>2, <2>4, <3>1
  <2>5. CASE Mr!ScanHolds \/ Mr!RecordForward \/ Mr!ForwardFails
    BY <2>1, <2>5 DEF Mr!ScanHolds, Mr!RecordForward, Mr!ForwardFails, Mr!GateEnds
  <2>. QED BY <2>3, <2>4, <2>5
<1>. QED
  BY <1>0, <1>1, <1>5, <1>8, <1>9, <1>10, <1>12, <1>13 DEF MrInv, RelayInv, ReleasesCounted

(* The person releases a forward whatever its row says. *)
LEMMA ReleaseSteps ==
  ASSUME MrBounds, MrInv, Mr!BeginRelease \/ Mr!Release \/ Mr!RecordRelease
  PROVE  MrInv'
<1>0. UNCHANGED <<Mr!mailbox, Mr!intake, gate, clean, stored, owner>>
  BY DEF Mr!BeginRelease, Mr!Release, Mr!RecordRelease, Mr!intake
<1>1. IntakeInv' /\ JobsOfStored' /\ OwnerKnown' BY <1>0, IntakeKept
<1>2. PICK k \in DOMAIN forwards :
        /\ Mr!Release \/ Mr!RecordRelease => k = clerk.key /\ released[forwards[k].mail] > 0
        /\ Mr!RecordRelease => copies[forwards[k].mail] > 0
        /\ Mr!BeginRelease => /\ clerk' = [at |-> "send", key |-> k]
                              /\ released' = [released EXCEPT ![forwards[k].mail] = @ + 1]
  <2>1. CASE Mr!BeginRelease
    <3>1. ~Mr!Release /\ ~Mr!RecordRelease BY <2>1 DEF Mr!BeginRelease, Mr!Release, Mr!RecordRelease
    <3>. QED BY <2>1, <3>1 DEF Mr!BeginRelease
  <2>2. CASE Mr!Release \/ Mr!RecordRelease
    <3>1. ~Mr!BeginRelease BY <2>2 DEF Mr!BeginRelease, Mr!Release, Mr!RecordRelease
    <3>. QED BY <2>2, <3>1 DEF Mr!Release, Mr!RecordRelease, MrInv, RelayInv, ClerkKnows
  <2>. QED BY <2>1, <2>2
<1>3. PICK m \in stored : m = forwards[k].mail /\ m \in 1..Mails
  BY DEF MrInv, RelayInv, RowsKeyed
<1>r. /\ ReleasesCounted' /\ \A n \in 1..Mails : released[n] > 0 => released'[n] > 0
      /\ Mr!BeginRelease => released'[m] > 0
  <2>1. released \in [1..Mails -> Nat] BY DEF MrInv, RelayInv, ReleasesCounted
  <2>2. released' = released \/ released' = [released EXCEPT ![m] = released[m] + 1]
    BY <1>2, <1>3 DEF Mr!Release, Mr!RecordRelease
  <2>3. Mr!BeginRelease => released' = [released EXCEPT ![m] = released[m] + 1] BY <1>2, <1>3
  <2>4. ASSUME released' = [released EXCEPT ![m] = released[m] + 1]
        PROVE  /\ released' \in [1..Mails -> Nat] /\ released'[m] > 0
               /\ \A n \in 1..Mails : released[n] > 0 => released'[n] > 0
    <3>1. released'[m] = released[m] + 1 /\ released[m] \in Nat BY <1>3, <2>1, <2>4
    <3>2. \A n \in 1..Mails : n # m => released'[n] = released[n] BY <2>1, <2>4
    <3>3. released' \in [1..Mails -> Nat] BY <1>3, <2>1, <2>4
    <3>. QED BY <3>1, <3>2, <3>3
  <2>. QED BY <2>1, <2>2, <2>3, <2>4 DEF ReleasesCounted
<1>4. copies' \in {copies, [copies EXCEPT ![m] = copies[m] + 1]}
      /\ (copies' = copies \/ Mr!Release)
  BY <1>2, <1>3 DEF Mr!BeginRelease, Mr!Release, Mr!RecordRelease
<1>5. /\ CopiesOfStored' /\ \A n \in 1..Mails : copies[n] > 0 => copies'[n] > 0
      /\ \A n \in 1..Mails : copies'[n] > 0 => copies[n] > 0 \/ n = m
      /\ copies' = [copies EXCEPT ![m] = copies[m] + 1] => copies'[m] > 0
  BY <1>0, <1>3, <1>4, OneMoreCopy DEF MrInv, RelayInv
<1>6. copies' \in [1..Mails -> Nat] BY <1>5 DEF CopiesOfStored
<1>7. UNCHANGED forwards \/ (Mr!RecordRelease /\ forwards' = Mr!SetStatus(k, "forwarded"))
  BY <1>2 DEF Mr!BeginRelease, Mr!Release, Mr!RecordRelease
<1>8. /\ RowsKeyed' /\ DOMAIN forwards' = DOMAIN forwards
      /\ \A x \in DOMAIN forwards : forwards'[x].mail = forwards[x].mail
      /\ \A x \in DOMAIN forwards : forwards'[x].status = "forwarded" =>
           forwards[x].status = "forwarded" \/ (Mr!RecordRelease /\ x = k)
  <2>1. CASE UNCHANGED forwards
    BY <1>0, <2>1 DEF MrInv, RelayInv, RowsKeyed, Mr!KeyOf, Mr!Enclosed
  <2>2. CASE Mr!RecordRelease /\ forwards' = Mr!SetStatus(k, "forwarded")
    BY <1>0, <2>2, StatusWritten DEF MrInv
  <2>. QED BY <1>7, <2>1, <2>2
<1>9. GateKnows'
  BY <1>0, <1>r, <1>5, <1>6, <1>8, PromisesKept DEF MrInv
<1>10. Mr!ForwardedLeft'
  <2>1. \A x \in DOMAIN forwards : forwards[x].mail \in 1..Mails
    BY DEF MrInv, RelayInv, RowsKeyed, MrRow
  <2>2. ASSUME NEW x \in DOMAIN forwards, forwards'[x].status = "forwarded"
        PROVE  copies'[forwards'[x].mail] > 0
    <3>1. copies[forwards[x].mail] > 0
      BY <1>2, <1>8, <2>2 DEF MrInv, RelayInv, Mr!ForwardedLeft
    <3>. QED BY <1>5, <1>8, <2>1, <3>1
  <2>. QED BY <1>8, <2>2 DEF Mr!ForwardedLeft
<1>11. OnlyCleared'
  <2>1. \A n \in 1..Mails : copies'[n] > 0 => copies[n] > 0 \/ released'[n] > 0 \/ Cleared(n)
    BY <1>0, <1>r, <1>2, <1>3, <1>4, <1>5
  <2>. QED BY <1>0, <1>r, <2>1, CleanStays DEF MrInv
<1>12. ClerkKnows'
  <2>0. clerk \in [at : {"idle", "send", "record"}, key : DOMAIN forwards \cup {{}}]
    BY DEF MrInv, RelayInv, ClerkKnows
  <2>1. CASE Mr!BeginRelease BY <1>r, <1>2, <1>3, <1>8, <2>1 DEF ClerkKnows
  <2>2. CASE Mr!Release
    <3>1. clerk' = [clerk EXCEPT !.at = "record"] /\ copies' = [copies EXCEPT ![m] = copies[m] + 1]
      BY <1>2, <1>3, <2>2 DEF Mr!Release
    <3>2. clerk' = [at |-> "record", key |-> k] BY <1>2, <2>0, <2>2, <3>1
    <3>3. clerk'.at = "record" /\ clerk'.key = k /\ forwards'[k].mail = m
          /\ clerk' \in [at : {"idle", "send", "record"}, key : DOMAIN forwards' \cup {{}}]
      BY <1>3, <1>8, <3>2
    <3>4. released'[m] > 0 /\ copies'[m] > 0 BY <1>r, <1>2, <1>3, <1>5, <2>2, <3>1
    <3>. QED BY <1>8, <3>3, <3>4 DEF ClerkKnows
  <2>3. CASE Mr!RecordRelease
    <3>1. clerk' = [at |-> "idle", key |-> {}] BY <2>3 DEF Mr!RecordRelease, Mr!NoClick
    <3>. QED BY <3>1 DEF ClerkKnows
  <2>. QED BY <2>1, <2>2, <2>3
<1>. QED BY <1>0, <1>r, <1>1, <1>5, <1>8, <1>9, <1>10, <1>11, <1>12 DEF MrInv, RelayInv

(* A process that dies forgets what it was doing, nothing else. *)
LEMMA DiesStep == ASSUME MrBounds, MrInv, Mr!Dies \/ UNCHANGED mrVars PROVE MrInv'
<1>0. /\ UNCHANGED <<carries, arrived, cursor, stored, owner, sentJobs, unlisted, forwards,
                     clean, released, copies>>
      /\ UNCHANGED <<poll, gate, clerk>> \/
           (poll' = Mr!Idle /\ gate' = Mr!NoJob /\ clerk' = Mr!NoClick)
  BY DEF Mr!Dies, Mr!mailbox, mrVars
<1>1. IntakeInv'
  <2>1. Mr!Idle \in MrPoll BY DEF Mr!Idle, Mr!None, MrPoll, MrBounds
  <2>. QED BY <1>0, <2>1 DEF MrInv, IntakeInv, Mr!PassedIsStored, Mr!ToSet, Mr!Idle, Mr!None
<1>2. /\ \A x \in DOMAIN forwards : forwards'[x].mail = forwards[x].mail
      /\ copies' \in [1..Mails -> Nat] /\ \A m \in 1..Mails : copies[m] > 0 => copies'[m] > 0
  BY <1>0 DEF MrInv, RelayInv, CopiesOfStored
<1>3. (UNCHANGED clerk => ClerkKnows') /\ (UNCHANGED gate => GateKnows')
  BY <1>0, <1>2, PromisesKept DEF MrInv
<1>4. ClerkKnows'
  <2>1. CASE clerk' = Mr!NoClick BY <2>1 DEF Mr!NoClick, ClerkKnows
  <2>. QED BY <1>0, <1>3, <2>1
<1>5. GateKnows' BY <1>0, <1>3, GateEndsIdle
<1>6. RowsKeyed' BY <1>0 DEF MrInv, RelayInv, RowsKeyed, Mr!KeyOf, Mr!Enclosed
<1>7. OwnerKnown' /\ CopiesOfStored' /\ JobsOfStored' /\ ReleasesCounted'
  BY <1>0 DEF MrInv, RelayInv, OwnerKnown, CopiesOfStored, JobsOfStored, ReleasesCounted
<1>8. OnlyCleared' /\ Mr!ForwardedLeft'
  BY <1>0 DEF MrInv, RelayInv, OnlyCleared, Cleared, Mr!ForwardedLeft, Mr!Enclosed
<1>. QED BY <1>0, <1>1, <1>4, <1>5, <1>6, <1>7, <1>8 DEF MrInv, RelayInv

(* What a cycle, the gatekeeper and the person know holds in every state. *)
LEMMA RelayInvariant == ASSUME MrBounds PROVE Spec => []MrInv
<1>1. Init => MrInv BY MrInit DEF Init
<1>2. MrInv /\ [Next]_vars => MrInv'
  <2>1. ASSUME MrInv, Mr!Next PROVE MrInv'
    BY <2>1, ListSteps, SendSteps, PersistStep, IntentStep, GateSteps, ReleaseSteps, DiesStep
       DEF Mr!Next, Mr!Cycle, Mr!Gatekeeper, Mr!Person
  <2>2. ASSUME MrInv, UNCHANGED mrVars PROVE MrInv' BY <2>2, DiesStep
  <2>3. [Next]_vars => Mr!Next \/ UNCHANGED mrVars BY DEF Next, vars
  <2>. QED BY <2>1, <2>2, <2>3
<1>. QED BY <1>1, <1>2, PTL DEF Spec

(* What a death costs: a mail lacks a job only when the cycle is about to send it or a *)
(* death came before, and a mail has left once for its gatekeeper's job, once for its  *)
(* releases and once for every death.                                                  *)
JobsCost ==
  /\ deaths \in Nat
  /\ poll.at = "gatekeep" => <<"classify", Head(poll.list)>> \in sentJobs
  /\ Mr!FewJobsLost

ByGate(m) == IF m \in gateDone \/ (gate.at = "forwarded" /\ gate.mail = m) THEN 1 ELSE 0
Pending(m) == IF clerk.at = "send" /\ forwards[clerk.key].mail = m THEN 1 ELSE 0
ByRelease(m) == released[m] - Pending(m)

CopiesCost ==
  /\ gate.at # "idle" => gate.mail \notin gateDone
  /\ \A m \in 1..Mails : copies[m] <= deaths + ByGate(m) + ByRelease(m)

CostInv == MrInv /\ JobsCost /\ CopiesCost

(* Counting in the instance is counting. *)
LEMMA Counted == \A S : Mr!Cardinality(S) = Cardinality(S)
BY DEF Mr!Cardinality, Cardinality

LEMMA CostInit == ASSUME Mr!Init PROVE JobsCost /\ CopiesCost
<1>1. Mr!Jobless = {} BY DEF Mr!Init, Mr!Jobless
<1>2. Cardinality(Mr!Jobless) = 0 BY <1>1, FS_EmptySet
<1>3. poll.at = "idle" /\ gate.at = "idle" /\ deaths = 0 /\ copies = [m \in 1..Mails |-> 0]
  BY DEF Mr!Init, Mr!Idle, Mr!NoJob, Mr!Messages
<1>4. \A m \in 1..Mails : ByGate(m) \in {0, 1} /\ ByRelease(m) = 0
  <2>1. released = [m \in 1..Mails |-> 0] /\ clerk.at = "idle" BY DEF Mr!Init, Mr!Messages, Mr!NoClick
  <2>. QED BY <2>1 DEF ByGate, ByRelease, Pending
<1>. QED BY <1>2, <1>3, <1>4, Counted DEF JobsCost, CopiesCost, Mr!FewJobsLost

(* Fewer mails without their jobs are no more, and one more costs a death. *)
LEMMA JobsCostKept ==
  ASSUME MrBounds, MrInv, JobsCost, deaths' \in Nat, deaths <= deaths',
         \/ Mr!Jobless' \subseteq Mr!Jobless
         \/ deaths' = deaths + 1 /\ \E x : Mr!Jobless' \subseteq Mr!Jobless \cup {x},
         poll'.at = "gatekeep" => <<"classify", Head(poll'.list)>> \in sentJobs'
  PROVE  JobsCost'
<1>1. IsFiniteSet(Mr!Jobless)
  <2>1. Mr!Jobless \in SUBSET (1..Mails) BY DEF Mr!Jobless, MrInv, IntakeInv
  <2>2. IsFiniteSet(1..Mails) BY FS_Interval DEF MrBounds
  <2>. QED BY <2>1, <2>2, FS_Subset
<1>2. Cardinality(Mr!Jobless) \in Nat /\ Cardinality(Mr!Jobless) <= deaths
  <2>1. Cardinality(Mr!Jobless) <= deaths BY Counted DEF JobsCost, Mr!FewJobsLost
  <2>. QED BY <1>1, <2>1, FS_CardinalityType
<1>3. Cardinality(Mr!Jobless') <= deaths'
  <2>1. CASE Mr!Jobless' \subseteq Mr!Jobless
    <3>1. Mr!Jobless' \in SUBSET Mr!Jobless BY <2>1
    <3>2. IsFiniteSet(Mr!Jobless') /\ Cardinality(Mr!Jobless') <= Cardinality(Mr!Jobless)
      BY <1>1, <3>1, FS_Subset
    <3>3. Cardinality(Mr!Jobless') \in Nat BY <3>2, FS_CardinalityType
    <3>4. deaths \in Nat BY DEF JobsCost
    <3>. QED BY <1>2, <3>2, <3>3, <3>4
  <2>2. ASSUME NEW x, deaths' = deaths + 1, Mr!Jobless' \subseteq Mr!Jobless \cup {x}
        PROVE  Cardinality(Mr!Jobless') <= deaths'
    <3>1. IsFiniteSet(Mr!Jobless \cup {x})
          /\ Cardinality(Mr!Jobless \cup {x}) <= Cardinality(Mr!Jobless) + 1
          /\ Cardinality(Mr!Jobless \cup {x}) \in Nat
      <4>1. IsFiniteSet(Mr!Jobless \cup {x})
            /\ Cardinality(Mr!Jobless \cup {x}) =
                 IF x \in Mr!Jobless THEN Cardinality(Mr!Jobless) ELSE Cardinality(Mr!Jobless) + 1
        BY <1>1, FS_AddElement
      <4>. QED BY <1>2, <4>1
    <3>2. Mr!Jobless' \in SUBSET (Mr!Jobless \cup {x}) BY <2>2
    <3>3. IsFiniteSet(Mr!Jobless') /\ Cardinality(Mr!Jobless') <= Cardinality(Mr!Jobless \cup {x})
      BY <3>1, <3>2, FS_Subset
    <3>4. Cardinality(Mr!Jobless') \in Nat BY <3>3, FS_CardinalityType
    <3>5. deaths \in Nat BY DEF JobsCost
    <3>. QED BY <1>2, <2>2, <3>1, <3>3, <3>4, <3>5
  <2>. QED BY <2>1, <2>2
<1>4. Mr!Cardinality(Mr!Jobless)' = Cardinality(Mr!Jobless') BY Counted
<1>. QED BY <1>3, <1>4 DEF JobsCost, Mr!FewJobsLost

(* The steps of a cycle: a mail that is stored is in hand until both its jobs are sent. *)
LEMMA CycleCosts ==
  ASSUME MrBounds, CostInv, Mr!Arrive \/ Mr!Cycle PROVE JobsCost' /\ CopiesCost'
<1>0. UNCHANGED <<deaths, gateDone, forwards, gate, clerk, released, copies>>
  BY DEF Mr!Arrive, Mr!Cycle, Mr!ListRecent, Mr!GetProfile, Mr!ListHistory, Mr!Persist,
         Mr!FetchFails, Mr!SendClassify, Mr!SendGatekeep, Mr!Send, Mr!SaveCursor, Mr!relay
<1>1. CopiesCost' BY <1>0 DEF CostInv, CopiesCost, ByGate, ByRelease, Pending
<1>2. JobsCost'
  <2>0. /\ MrInv /\ JobsCost /\ deaths' \in Nat /\ deaths <= deaths' /\ poll \in MrPoll
    BY <1>0 DEF CostInv, MrInv, IntakeInv, JobsCost
  <2>1. CASE \/ Mr!Arrive \/ Mr!ListRecent \/ Mr!GetProfile \/ Mr!ListHistory
             \/ Mr!FetchFails \/ Mr!SaveCursor
    <3>0. UNCHANGED <<stored, sentJobs>>
      BY <2>1 DEF Mr!Arrive, Mr!ListRecent, Mr!GetProfile, Mr!ListHistory, Mr!FetchFails,
         Mr!SaveCursor, Mr!intake
    <3>1. UNCHANGED poll \/ (poll.at \in {"idle", "profile", "next"}
                               /\ poll'.at \in {"idle", "profile", "next"})
      <4>1. CASE Mr!Arrive BY <4>1 DEF Mr!Arrive, Mr!intake
      <4>2. CASE Mr!ListRecent \/ Mr!ListHistory \/ Mr!FetchFails \/ Mr!SaveCursor
        BY <4>2 DEF Mr!ListRecent, Mr!ListHistory, Mr!FetchFails, Mr!SaveCursor, Mr!Idle
      <4>3. CASE Mr!GetProfile BY <2>0, <4>3 DEF Mr!GetProfile, MrPoll
      <4>. QED BY <2>1, <4>1, <4>2, <4>3
    <3>2. Mr!InHand' = Mr!InHand BY <3>1 DEF Mr!InHand
    <3>3. Mr!Jobless' \subseteq Mr!Jobless BY <3>0, <3>2 DEF Mr!Jobless
    <3>4. poll'.at = "gatekeep" => <<"classify", Head(poll'.list)>> \in sentJobs'
      BY <2>0, <3>0, <3>1 DEF JobsCost
    <3>. QED BY <2>0, <3>3, <3>4, JobsCostKept
  <2>2. CASE Mr!Persist
    <3>1. poll.at = "next" /\ UNCHANGED sentJobs /\ Mr!InHand = {}
      BY <2>2 DEF Mr!Persist, Mr!InHand
    <3>2. CASE Head(poll.list) \in stored
      <4>1. stored' = stored /\ poll'.at = "next" BY <2>0, <2>2, <3>1, <3>2 DEF Mr!Persist, MrPoll
      <4>2. Mr!Jobless' \subseteq Mr!Jobless BY <3>1, <4>1 DEF Mr!Jobless, Mr!InHand
      <4>. QED BY <2>0, <4>1, <4>2, JobsCostKept
    <3>3. CASE Head(poll.list) \notin stored
      <4>1. stored' = stored \cup {Head(poll.list)} /\ poll'.at = "classify"
            /\ poll'.list = poll.list
        BY <2>0, <2>2, <3>3 DEF Mr!Persist, MrPoll
      <4>2. Mr!InHand' = {Head(poll.list)} BY <4>1 DEF Mr!InHand
      <4>3. Mr!Jobless' \subseteq Mr!Jobless BY <3>1, <4>1, <4>2 DEF Mr!Jobless
      <4>. QED BY <2>0, <4>1, <4>3, JobsCostKept
    <3>. QED BY <3>2, <3>3
  <2>3. CASE Mr!SendClassify
    <3>1. /\ poll.at = "classify" /\ UNCHANGED stored
          /\ sentJobs' = sentJobs \cup {<<"classify", Head(poll.list)>>}
          /\ poll'.at = "gatekeep" /\ poll'.list = poll.list
      BY <2>0, <2>3 DEF Mr!SendClassify, Mr!Send, MrPoll
    <3>2. Mr!InHand' = Mr!InHand BY <3>1 DEF Mr!InHand
    <3>3. Mr!Jobless' \subseteq Mr!Jobless BY <3>1, <3>2 DEF Mr!Jobless
    <3>. QED BY <2>0, <3>1, <3>3, JobsCostKept
  <2>4. CASE Mr!SendGatekeep
    <3>1. /\ poll.at = "gatekeep" /\ UNCHANGED stored
          /\ sentJobs' = sentJobs \cup {<<"gatekeep", Head(poll.list)>>}
          /\ poll'.at = "next"
      BY <2>0, <2>4 DEF Mr!SendGatekeep, Mr!Send, MrPoll
    <3>2. <<"classify", Head(poll.list)>> \in sentJobs BY <2>0, <3>1 DEF JobsCost
    <3>3. Mr!InHand = {Head(poll.list)} /\ Mr!InHand' = {} BY <3>1 DEF Mr!InHand
    <3>4. Mr!Jobless' \subseteq Mr!Jobless BY <3>1, <3>2, <3>3 DEF Mr!Jobless
    <3>. QED BY <2>0, <3>1, <3>4, JobsCostKept
  <2>. QED BY <2>1, <2>2, <2>3, <2>4 DEF Mr!Cycle
<1>. QED BY <1>1, <1>2

(* The gatekeeper and the person add a copy where the sum has room for it. *)
LEMMA RelayCosts ==
  ASSUME MrBounds, CostInv, Mr!Gatekeeper \/ Mr!Person PROVE JobsCost' /\ CopiesCost'
<1>0. /\ UNCHANGED <<poll, stored, sentJobs>> /\ deaths \in Nat
      /\ copies \in [1..Mails -> Nat] /\ gate \in MrGate
      /\ \A m \in 1..Mails : copies[m] <= deaths + ByGate(m) + ByRelease(m)
  BY DEF Mr!Gatekeeper, Mr!Person, Mr!Intent, Mr!ScanHolds, Mr!ScanClean, Mr!Forward,
         Mr!RecordForward, Mr!ForwardFails, Mr!BeginRelease, Mr!Release, Mr!RecordRelease,
         Mr!intake, CostInv, JobsCost, CopiesCost, MrInv, RelayInv, CopiesOfStored, GateKnows
<1>1. deaths' \in Nat /\ deaths <= deaths'
  <2>1. UNCHANGED deaths \/ deaths' = deaths + 1
    BY DEF Mr!Gatekeeper, Mr!Person, Mr!Intent, Mr!ScanHolds, Mr!ScanClean, Mr!Forward,
         Mr!RecordForward, Mr!ForwardFails, Mr!BeginRelease, Mr!Release, Mr!RecordRelease
  <2>. QED BY <1>0, <2>1
<1>2. JobsCost'
  <2>1. Mr!Jobless' \subseteq Mr!Jobless BY <1>0 DEF Mr!Jobless, Mr!InHand
  <2>. QED BY <1>0, <1>1, <2>1, JobsCostKept DEF CostInv, JobsCost
<1>r. released \in [1..Mails -> Nat] BY DEF CostInv, MrInv, RelayInv, ReleasesCounted
<1>3. /\ \A m : ByGate(m) \in {0, 1} /\ ByGate(m)' \in {0, 1}
      /\ \A m \in 1..Mails : ByRelease(m) \in Int
  BY <1>r DEF ByGate, ByRelease, Pending
<1>4. \A k \in DOMAIN forwards : forwards[k] \in MrRow
  BY DEF CostInv, MrInv, RelayInv, RowsKeyed
<1>5. /\ clerk.at # "idle" => clerk.key \in DOMAIN forwards
      /\ gate.at # "idle" => gate.mail \in 1..Mails /\ gate.mail \notin gateDone
                             /\ Mr!KeyOf(gate.mail) \in DOMAIN forwards
  BY DEF CostInv, CopiesCost, MrInv, RelayInv, ClerkKnows, GateKnows
(* what the person has released counts as before while the rows keep their mails *)
<1>6. ASSUME UNCHANGED <<clerk, released>>,
             \A x \in DOMAIN forwards : forwards'[x].mail = forwards[x].mail
      PROVE  \A m : ByRelease(m)' = ByRelease(m)
  BY <1>5, <1>6 DEF ByRelease, Pending
<1>7. ASSUME NEW k \in DOMAIN forwards, NEW s, forwards' = Mr!SetStatus(k, s)
      PROVE  \A x \in DOMAIN forwards : forwards'[x].mail = forwards[x].mail
  BY <1>4, <1>7 DEF Mr!SetStatus, MrRow
<1>8. CopiesCost'
  <2>1. CASE Mr!Intent
    <3>1. PICK m \in 1..Mails : /\ m \notin gateDone
                                /\ \/ gate' = [at |-> "scan", mail |-> m] /\ UNCHANGED gateDone
                                   \/ UNCHANGED gate /\ gateDone' = gateDone \cup {m}
      BY <2>1 DEF Mr!Intent, Mr!Messages
    <3>2. gate.at = "idle" /\ UNCHANGED <<clerk, released, copies, deaths>> BY <2>1 DEF Mr!Intent
    <3>3. \A x \in DOMAIN forwards : forwards'[x].mail = forwards[x].mail BY <2>1 DEF Mr!Intent
    <3>4. \A n : ByRelease(n)' = ByRelease(n) BY <1>6, <3>2, <3>3
    <3>5. \A n : n \in gateDone => n \in gateDone' BY <3>1
    <3>6. \A n : ByGate(n) <= ByGate(n)' BY <1>3, <3>2, <3>5 DEF ByGate
    <3>7. gate'.at # "idle" => gate'.mail \notin gateDone' BY <3>1, <3>2
    <3>. QED BY <1>0, <1>3, <3>2, <3>4, <3>6, <3>7 DEF CopiesCost
  <2>2. CASE \/ Mr!ScanHolds \/ Mr!ScanClean \/ Mr!Forward \/ Mr!RecordForward \/ Mr!ForwardFails
    <3>1. PICK m \in 1..Mails : m = gate.mail BY <1>5, <2>2 DEF Mr!ScanHolds, Mr!ScanClean,
       Mr!Forward, Mr!RecordForward, Mr!ForwardFails
    <3>2. gate.at # "idle" /\ m \notin gateDone /\ UNCHANGED <<clerk, released>>
      BY <1>5, <2>2, <3>1 DEF Mr!ScanHolds, Mr!ScanClean, Mr!Forward, Mr!RecordForward, Mr!ForwardFails
    <3>3. \A x \in DOMAIN forwards : forwards'[x].mail = forwards[x].mail
      <4>1. UNCHANGED forwards \/ \E s : forwards' = Mr!SetStatus(Mr!KeyOf(gate.mail), s)
        BY <2>2 DEF Mr!ScanHolds, Mr!ScanClean, Mr!Forward, Mr!RecordForward, Mr!ForwardFails
      <4>. QED BY <1>5, <1>7, <3>2, <4>1
    <3>4. \A n : ByRelease(n)' = ByRelease(n) BY <1>6, <3>2, <3>3
    <3>5. \A n : n # m => ByGate(n)' = ByGate(n)
      <4>1. gateDone' = gateDone \/ gateDone' = gateDone \cup {m}
        BY <2>2, <3>1 DEF Mr!ScanHolds, Mr!ScanClean, Mr!Forward, Mr!RecordForward,
           Mr!ForwardFails, Mr!GateEnds
      <4>2. gate' = Mr!NoJob \/ gate'.mail = m
        BY <1>0, <2>2, <3>1 DEF Mr!ScanHolds, Mr!ScanClean, Mr!Forward, Mr!RecordForward,
           Mr!ForwardFails, Mr!GateEnds, Mr!GateGoes, MrGate
      <4>3. gate'.at = "forwarded" => gate'.mail = m BY <4>2 DEF Mr!NoJob
      <4>. QED BY <3>1, <4>1, <4>3 DEF ByGate
    <3>6. CASE Mr!ScanClean
      <4>1. gate' = [gate EXCEPT !.at = "forward"] /\ gate.at = "scan"
            /\ UNCHANGED <<gateDone, copies, deaths>>
        BY <3>6 DEF Mr!ScanClean, Mr!GateGoes
      <4>2. gate'.mail = m /\ gate'.at = "forward" BY <1>0, <3>1, <4>1 DEF MrGate
      <4>3. ByGate(m)' = ByGate(m) BY <4>1, <4>2 DEF ByGate
      <4>. QED BY <1>0, <1>3, <3>2, <3>4, <3>5, <4>1, <4>2, <4>3 DEF CopiesCost
    <3>7. CASE Mr!Forward
      <4>1. gate' = [gate EXCEPT !.at = "forwarded"] /\ gate.at = "forward"
            /\ copies' = [copies EXCEPT ![m] = copies[m] + 1] /\ UNCHANGED <<gateDone, deaths>>
        BY <3>1, <3>7 DEF Mr!Forward, Mr!GateGoes
      <4>2. gate'.mail = m /\ gate'.at = "forwarded" BY <1>0, <3>1, <4>1 DEF MrGate
      <4>3. ByGate(m)' = 1 /\ ByGate(m) = 0 BY <3>2, <4>1, <4>2 DEF ByGate
      <4>4. copies'[m] = copies[m] + 1 /\ \A n \in 1..Mails : n # m => copies'[n] = copies[n]
        BY <1>0, <4>1
      <4>5. ASSUME NEW n \in 1..Mails
            PROVE  copies'[n] <= deaths' + ByGate(n)' + ByRelease(n)'
        <5>1. copies[n] \in Nat /\ copies[n] <= deaths + ByGate(n) + ByRelease(n) BY <1>0
        <5>. QED BY <1>0, <1>3, <3>4, <3>5, <4>1, <4>3, <4>4, <5>1
      <4>. QED BY <3>2, <4>1, <4>2, <4>5 DEF CopiesCost
    <3>8. CASE Mr!ScanHolds \/ Mr!RecordForward
      <4>1. gate' = Mr!NoJob /\ gateDone' = gateDone \cup {m} /\ UNCHANGED <<copies, deaths>>
        BY <3>1, <3>8 DEF Mr!ScanHolds, Mr!RecordForward, Mr!GateEnds
      <4>2. ByGate(m)' = 1 BY <4>1 DEF ByGate
      <4>3. gate'.at = "idle" BY <4>1 DEF Mr!NoJob
      <4>4. \A n : ByGate(n) <= ByGate(n)' BY <1>3, <3>5, <4>2
      <4>. QED BY <1>0, <1>3, <3>4, <4>1, <4>3, <4>4 DEF CopiesCost
    <3>9. CASE Mr!ForwardFails
      <4>1. gate' = Mr!NoJob /\ gateDone' = gateDone \cup {m} /\ deaths' = deaths + 1
            /\ copies' \in {copies, [copies EXCEPT ![m] = copies[m] + 1]}
        BY <3>1, <3>9 DEF Mr!ForwardFails, Mr!GateEnds
      <4>2. ByGate(m)' = 1 BY <4>1 DEF ByGate
      <4>3. gate'.at = "idle" BY <4>1 DEF Mr!NoJob
      <4>4. \A n \in 1..Mails : copies'[n] = copies[n] \/ copies'[n] = copies[n] + 1
        BY <1>0, <4>1
      <4>5. \A n : ByGate(n) <= ByGate(n)' BY <1>3, <3>5, <4>2
      <4>6. ASSUME NEW n \in 1..Mails
            PROVE  copies'[n] <= deaths' + ByGate(n)' + ByRelease(n)'
        <5>1. copies[n] \in Nat /\ copies[n] <= deaths + ByGate(n) + ByRelease(n) BY <1>0
        <5>. QED BY <1>0, <1>3, <3>4, <4>1, <4>4, <4>5, <5>1
      <4>. QED BY <4>3, <4>6 DEF CopiesCost
    <3>. QED BY <2>2, <3>6, <3>7, <3>8, <3>9
  <2>3. CASE Mr!Person
    <3>1. UNCHANGED <<gate, gateDone, deaths>>
      BY <2>3 DEF Mr!Person, Mr!BeginRelease, Mr!Release, Mr!RecordRelease
    <3>2. \A n : ByGate(n)' = ByGate(n) BY <3>1 DEF ByGate
    <3>3. gate'.at # "idle" => gate'.mail \notin gateDone'
      BY <3>1 DEF CostInv, CopiesCost
    <3>4. CASE Mr!BeginRelease
      <4>1. PICK k \in DOMAIN forwards, m \in 1..Mails :
              /\ clerk' = [at |-> "send", key |-> k] /\ m = forwards[k].mail
              /\ released' = [released EXCEPT ![m] = released[m] + 1]
        BY <1>4, <3>4 DEF Mr!BeginRelease, MrRow
      <4>2. clerk.at = "idle" /\ UNCHANGED <<forwards, copies>> BY <3>4 DEF Mr!BeginRelease
      <4>3. clerk'.at = "send" /\ clerk'.key = k BY <4>1
      <4>4. \A n \in 1..Mails : released[n] \in Nat
                                /\ released'[n] = released[n] + (IF n = m THEN 1 ELSE 0)
        BY <1>r, <4>1
      <4>5. \A n : Pending(n) = 0 /\ Pending(n)' = IF n = m THEN 1 ELSE 0
        BY <4>1, <4>2, <4>3 DEF Pending
      <4>6. \A n \in 1..Mails : ByRelease(n)' = ByRelease(n) BY <4>4, <4>5 DEF ByRelease
      <4>. QED BY <1>0, <3>1, <3>2, <3>3, <4>2, <4>6 DEF CopiesCost
    <3>5. CASE Mr!Release
      <4>1. PICK k \in DOMAIN forwards, m \in 1..Mails : k = clerk.key /\ m = forwards[k].mail
        BY <1>4, <1>5, <3>5 DEF Mr!Release, MrRow
      <4>2. clerk.at = "send" /\ clerk'.at = "record" /\ UNCHANGED <<forwards, released>>
            /\ copies' = [copies EXCEPT ![m] = copies[m] + 1]
        <5>1. clerk' = [clerk EXCEPT !.at = "record"] /\ clerk.at = "send" BY <3>5 DEF Mr!Release
        <5>2. clerk \in [at : {"idle", "send", "record"}, key : DOMAIN forwards \cup {{}}]
          BY DEF CostInv, MrInv, RelayInv, ClerkKnows
        <5>. QED BY <3>5, <4>1, <5>1, <5>2 DEF Mr!Release
      <4>3. /\ Pending(m) = 1 /\ \A n : Pending(n)' = 0
            /\ \A n : n # m => Pending(n) = 0
        BY <4>1, <4>2 DEF Pending
      <4>4. ByRelease(m)' = ByRelease(m) + 1 BY <1>r, <4>2, <4>3 DEF ByRelease
      <4>5. \A n : n # m => ByRelease(n)' = ByRelease(n) BY <4>2, <4>3 DEF ByRelease
      <4>6. copies'[m] = copies[m] + 1 /\ \A n \in 1..Mails : n # m => copies'[n] = copies[n]
        BY <1>0, <4>2
      <4>7. ASSUME NEW n \in 1..Mails
            PROVE  copies'[n] <= deaths' + ByGate(n)' + ByRelease(n)'
        <5>1. copies[n] \in Nat /\ copies[n] <= deaths + ByGate(n) + ByRelease(n) BY <1>0
        <5>. QED BY <1>0, <1>3, <3>1, <3>2, <4>4, <4>5, <4>6, <5>1
      <4>. QED BY <3>3, <4>7 DEF CopiesCost
    <3>6. CASE Mr!RecordRelease
      <4>1. clerk.at = "record" /\ clerk'.at = "idle" /\ UNCHANGED <<released, copies>>
        BY <3>6 DEF Mr!RecordRelease, Mr!NoClick
      <4>2. \A n : ByRelease(n)' = ByRelease(n) BY <4>1 DEF ByRelease, Pending
      <4>. QED BY <1>0, <3>1, <3>2, <3>3, <4>1, <4>2 DEF CopiesCost
    <3>. QED BY <2>3, <3>4, <3>5, <3>6 DEF Mr!Person
  <2>. QED BY <2>1, <2>2, <2>3 DEF Mr!Gatekeeper
<1>. QED BY <1>2, <1>8

(* A death leaves at most the mail in hand without its jobs, and the mail that had just *)
(* left with a copy nobody recorded.                                                    *)
LEMMA DeathCosts ==
  ASSUME MrBounds, CostInv, Mr!Dies \/ UNCHANGED mrVars PROVE JobsCost' /\ CopiesCost'
<1>0. /\ UNCHANGED <<stored, sentJobs, gateDone, forwards, released, copies>> /\ deaths \in Nat
      /\ copies \in [1..Mails -> Nat]
      /\ \A m \in 1..Mails : copies[m] <= deaths + ByGate(m) + ByRelease(m)
  BY DEF Mr!Dies, mrVars, CostInv, JobsCost, CopiesCost, MrInv, RelayInv, CopiesOfStored
<1>1. CASE UNCHANGED mrVars
  <2>1. UNCHANGED <<poll, gate, clerk, deaths>> BY <1>1 DEF mrVars
  <2>2. JobsCost' BY <1>0, <2>1 DEF CostInv, JobsCost, Mr!FewJobsLost, Mr!Jobless, Mr!InHand
  <2>3. CopiesCost' BY <1>0, <2>1 DEF CostInv, CopiesCost, ByGate, ByRelease, Pending
  <2>. QED BY <2>2, <2>3
<1>2. CASE Mr!Dies
  <2>1. deaths' = deaths + 1 /\ poll'.at = "idle" /\ gate'.at = "idle" /\ clerk'.at = "idle"
    BY <1>2 DEF Mr!Dies, Mr!Idle, Mr!NoJob, Mr!NoClick
  <2>2. JobsCost'
    <3>1. Mr!InHand' = {} /\ Mr!InHand \subseteq {Head(poll.list)} BY <2>1 DEF Mr!InHand
    <3>2. \E x : Mr!Jobless' \subseteq Mr!Jobless \cup {x}
      <4>1. PICK x : x = Head(poll.list) OBVIOUS
      <4>2. Mr!Jobless' \subseteq Mr!Jobless \cup {x} BY <1>0, <3>1, <4>1 DEF Mr!Jobless
      <4>. QED BY <4>2
    <3>3. deaths' \in Nat /\ deaths <= deaths' BY <1>0, <2>1
    <3>. QED BY <2>1, <3>2, <3>3, JobsCostKept DEF CostInv
  <2>3. \A m : /\ ByGate(m) \in {0, 1} /\ ByGate(m)' \in {0, 1}
               /\ Pending(m) \in {0, 1} /\ Pending(m)' = 0
    BY <2>1 DEF ByGate, Pending
  <2>4. \A m \in 1..Mails : /\ ByRelease(m) \in Int /\ ByRelease(m)' \in Int
                            /\ ByRelease(m) <= ByRelease(m)'
    <3>1. \A m \in 1..Mails : released[m] \in Nat /\ released'[m] = released[m]
      BY <1>0 DEF CostInv, MrInv, RelayInv, ReleasesCounted
    <3>. QED BY <2>3, <3>1 DEF ByRelease
  <2>5. ASSUME NEW m \in 1..Mails PROVE copies'[m] <= deaths' + ByGate(m)' + ByRelease(m)'
    <3>1. copies[m] \in Nat /\ copies[m] <= deaths + ByGate(m) + ByRelease(m) BY <1>0
    <3>. QED BY <1>0, <2>1, <2>3, <2>4, <3>1
  <2>. QED BY <2>1, <2>2, <2>5 DEF CopiesCost
<1>. QED BY <1>1, <1>2

LEMMA CostInvariant == ASSUME MrBounds PROVE Spec => []CostInv
<1>1. Init => CostInv BY MrInit, CostInit DEF Init, CostInv
<1>2. CostInv /\ MrInv' /\ [Next]_vars => CostInv'
  <2>1. ASSUME CostInv, Mr!Next PROVE JobsCost' /\ CopiesCost'
    BY <2>1, CycleCosts, RelayCosts, DeathCosts DEF Mr!Next
  <2>2. ASSUME CostInv, UNCHANGED mrVars PROVE JobsCost' /\ CopiesCost' BY <2>2, DeathCosts
  <2>3. [Next]_vars => Mr!Next \/ UNCHANGED mrVars BY DEF Next, vars
  <2>. QED BY <2>1, <2>2, <2>3 DEF CostInv
<1>. QED BY <1>1, <1>2, RelayInvariant, PTL DEF Spec

(* Every attachment of a stored mail has a row, unless it was too large to fetch. *)
TakenIn == \A m \in stored : carries[m] \subseteq Oversized \cup DOMAIN owner

LEMMA TakenInvariant == ASSUME MrBounds PROVE Spec => []TakenIn
<1>1. Init => TakenIn BY DEF Init, Mr!Init, TakenIn
<1>2. TakenIn /\ [Next]_vars => TakenIn'
  <2>. SUFFICES ASSUME TakenIn, [Next]_vars PROVE TakenIn' OBVIOUS
  <2>1. CASE UNCHANGED <<carries, stored, owner>> BY <2>1 DEF TakenIn
  <2>2. CASE Mr!Persist /\ stored' # stored
    <3>1. PICK m : /\ stored' = stored \cup {m} /\ UNCHANGED carries
                   /\ DOMAIN owner' = DOMAIN owner \cup (carries[m] \ Oversized)
      BY <2>2 DEF Mr!Persist, Mr!Fetched, Mr!mailbox
    <3>. QED BY <3>1 DEF TakenIn
  <2>3. CASE Mr!Persist /\ stored' = stored
    <3>1. UNCHANGED carries /\ DOMAIN owner \subseteq DOMAIN owner'
      BY <2>3 DEF Mr!Persist, Mr!mailbox
    <3>. QED BY <2>3, <3>1 DEF TakenIn
  <2>. QED
    BY <2>1, <2>2, <2>3 DEF Next, vars, mrVars, Mr!Next, Mr!Cycle, Mr!Gatekeeper, Mr!Person,
       Mr!Arrive, Mr!ListRecent, Mr!GetProfile, Mr!ListHistory, Mr!FetchFails, Mr!SendClassify,
       Mr!SendGatekeep, Mr!Send, Mr!SaveCursor, Mr!Intent, Mr!ScanHolds, Mr!ScanClean,
       Mr!Forward, Mr!RecordForward, Mr!ForwardFails, Mr!BeginRelease, Mr!Release,
       Mr!RecordRelease, Mr!Dies, Mr!relay, Mr!intake, Mr!mailbox
<1>. QED BY <1>1, <1>2, PTL DEF Spec

(* What the history id has passed and a page listed is stored.  A mail leaves by a         *)
(* person's release or after a clean scan of all it carries but what the gatekeeper cannot *)
(* see: an attachment that was too large, or whose row another mail has.  A row that says  *)
(* forwarded is right, and a death or an outage costs at most one mail its jobs and one    *)
(* mail a second copy; for any number of mails, page sizes, shared and oversized           *)
(* attachments, repeated releases and deaths (poll-cycle.ts:55-91, adapter.ts:59-106,      *)
(* gatekeep.ts:58-151, reply.ts:54-62).                                                    *)
THEOREM RelayStays == ASSUME MrBounds PROVE Spec => []RelayHolds
<1>1. CostInv => Mr!DeathsCostOne
  <2>1. ASSUME CostInv, NEW m \in 1..Mails PROVE copies[m] <= 1 + deaths + released[m]
    <3>1. /\ deaths \in Nat /\ copies[m] \in Nat
          /\ copies[m] <= deaths + ByGate(m) + ByRelease(m)
      BY <2>1 DEF CostInv, JobsCost, CopiesCost, MrInv, RelayInv, CopiesOfStored
    <3>2. ByGate(m) \in {0, 1} /\ Pending(m) \in {0, 1} /\ released[m] \in Nat
      BY <2>1 DEF ByGate, Pending, CostInv, MrInv, RelayInv, ReleasesCounted
    <3>. QED BY <3>1, <3>2 DEF ByRelease
  <2>2. CostInv => Mr!FewCopies BY <2>1 DEF Mr!FewCopies, Mr!Messages
  <2>. QED BY <2>2 DEF CostInv, JobsCost, Mr!DeathsCostOne
<1>2. CostInv /\ TakenIn => Mr!OnlyCleanLeaves
  <2>1. ASSUME CostInv, TakenIn, NEW m \in 1..Mails, copies[m] > 0, ~(released[m] > 0)
        PROVE  Mr!Enclosed(m) # {} /\ carries[m] \subseteq clean \cup Mr!Unseen(m)
    <3>1. Mr!Enclosed(m) # {} /\ Mr!Enclosed(m) \subseteq clean /\ m \in stored
      BY <2>1 DEF CostInv, MrInv, RelayInv, OnlyCleared, Cleared, CopiesOfStored
    <3>2. ASSUME NEW a \in carries[m], a \notin Mr!Unseen(m) PROVE a \in Mr!Enclosed(m)
      BY <2>1, <3>1, <3>2 DEF TakenIn, Mr!Unseen, Mr!Enclosed
    <3>. QED BY <3>1, <3>2
  <2>. QED BY <2>1 DEF Mr!OnlyCleanLeaves, Mr!Messages
<1>3. CostInv /\ TakenIn => RelayHolds
  BY <1>1, <1>2 DEF CostInv, MrInv, IntakeInv, RelayInv, RelayHolds, Mr!RelayHolds
<1>. QED BY <1>3, CostInvariant, TakenInvariant, PTL
-----------------------------------------------------------------------------
(* Documents: the outbox of the classified documents and the bank statements. *)

Paper == Papers \X Dc!Kinds
Filing(p) == <<p, "bank_statement">>
Resolved == Txns \cup {"unmatched", "excluded"}
Statement == [status : {"review", "unbalanced", "filed"}, balanced : BOOLEAN,
              line : [Lines -> Resolved]]

(* What was handed to the queue is remembered by every place that works on it. *)
GivenInv ==
  /\ route \in [Papers -> Dc!Kinds]
  /\ jobs \in [Paper -> Int] /\ sender \in [Dispatchers -> [at : {"idle", "next", "mark"},
                                             list : SUBSET Paper, doc : Paper \cup {Dc!None}]]
  /\ DOMAIN docs \subseteq Paper /\ DOMAIN outbox \subseteq Paper /\ given \subseteq Paper
  /\ \A d \in DOMAIN outbox : outbox[d] = "pending" \/ d \in given
  /\ \A d \in Paper : jobs[d] > 0 => d \in given
  /\ \A x \in Dispatchers : sender[x].at = "mark" => sender[x].doc \in given
  /\ reader # Dc!None => reader \in Paper /\ reader \in given /\ reader = Filing(reader[1])
  /\ \A p \in DOMAIN stmts : p \in Papers /\ Filing(p) \in given
  /\ Dc!NoDocumentForgotten

(* A line that is not open was excluded or matched with a transaction of the books. *)
FiledInv ==
  /\ posted \subseteq Txns
  /\ \A p \in DOMAIN stmts :
       /\ stmts[p] \in Statement
       /\ \A l \in Lines : stmts[p].line[l] \in posted \cup {"unmatched", "excluded"}
  /\ Dc!FiledIsReconciled

DcInv == GivenInv /\ FiledInv

LEMMA DcInit == ASSUME Dc!Init PROVE DcInv
<1>1. /\ docs = <<>> /\ outbox = <<>> /\ stmts = <<>> /\ reader = Dc!None
      /\ jobs = [d \in Paper |-> 0] /\ sender = [x \in Dispatchers |-> Dc!Free]
      /\ posted \subseteq Txns /\ route \in [Papers -> Dc!Kinds] /\ given = {}
  BY DEF Dc!Init, Paper
<1>2. DOMAIN docs = {} /\ DOMAIN outbox = {} /\ DOMAIN stmts = {} BY <1>1
<1>3. Dc!Free \in [at : {"idle", "next", "mark"}, list : SUBSET Paper, doc : Paper \cup {Dc!None}]
  BY DEF Dc!Free
<1>4. GivenInv BY <1>1, <1>2, <1>3 DEF GivenInv, Dc!NoDocumentForgotten, Dc!Free
<1>5. FiledInv BY <1>1, <1>2 DEF FiledInv, Dc!FiledIsReconciled
<1>. QED BY <1>4, <1>5 DEF DcInv

LEMMA FiledKept == ASSUME FiledInv, UNCHANGED <<stmts, posted>> PROVE FiledInv'
BY DEF FiledInv, Dc!FiledIsReconciled

(* Rows of documents whose job was handed over, or whose dispatch is pending, may change. *)
LEMMA GivenGrows ==
  ASSUME GivenInv, UNCHANGED route, jobs' \in [Paper -> Int],
         sender' \in [Dispatchers -> [at : {"idle", "next", "mark"},
                                      list : SUBSET Paper, doc : Paper \cup {Dc!None}]],
         given \subseteq given', given' \subseteq Paper,
         \A x \in DOMAIN docs' : \/ x \in DOMAIN docs
                                 \/ x \in Paper /\ x \in given'
                                 \/ x \in Paper /\ x[2] = "unknown"
                                 \/ x \in Paper /\ x \in DOMAIN outbox' /\ outbox'[x] = "pending",
         \A x \in DOMAIN outbox : x \in DOMAIN outbox',
         \A x \in DOMAIN outbox' : \/ x \in DOMAIN outbox /\ outbox'[x] = outbox[x]
                                   \/ x \in Paper /\ outbox'[x] = "pending"
                                   \/ x \in Paper /\ x \in given',
         \A d \in Paper : jobs'[d] > 0 => jobs[d] > 0 \/ d \in given',
         \A x \in Dispatchers : sender'[x].at = "mark" => sender'[x].doc \in given',
         \/ UNCHANGED reader \/ reader' = Dc!None
         \/ reader' \in Paper /\ reader' \in given' /\ reader' = Filing(reader'[1]),
         \A p \in DOMAIN stmts' : p \in DOMAIN stmts \/ (p \in Papers /\ Filing(p) \in given')
  PROVE  GivenInv'
<1>1. \A x \in DOMAIN outbox' : x \in Paper /\ (outbox'[x] = "pending" \/ x \in given')
  BY DEF GivenInv
<1>2. \A x \in DOMAIN docs' : x \in Paper BY DEF GivenInv
<1>3. ASSUME NEW x \in DOMAIN docs', x[2] # "unknown"
      PROVE  x \in given' \/ (x \in DOMAIN outbox' /\ outbox'[x] = "pending")
  <2>1. CASE x \in DOMAIN docs
    <3>1. x \in given \/ (x \in DOMAIN outbox /\ outbox[x] = "pending")
      BY <1>3, <2>1 DEF GivenInv, Dc!NoDocumentForgotten, Dc!Pending
    <3>. QED BY <1>1, <3>1
  <2>. QED BY <1>3, <2>1
<1>4. Dc!NoDocumentForgotten' BY <1>3 DEF Dc!NoDocumentForgotten, Dc!Pending
<1>5. \A d \in Paper : jobs'[d] > 0 => d \in given' BY DEF GivenInv
<1>6. reader' # Dc!None' => reader' \in Paper /\ reader' \in given' /\ reader' = Filing(reader'[1])
  BY DEF GivenInv, Dc!None
<1>7. \A p \in DOMAIN stmts' : p \in Papers /\ Filing(p) \in given' BY DEF GivenInv
<1>8. Paper' = Paper /\ Dc!Kinds' = Dc!Kinds /\ Dc!None' = Dc!None /\ \A p : Filing(p)' = Filing(p)
  BY DEF Paper, Dc!Kinds, Dc!None, Filing
<1>. QED BY <1>1, <1>2, <1>4, <1>5, <1>6, <1>7, <1>8 DEF GivenInv, Filing

LEMMA PaperIs ==
  ASSUME NEW p \in Papers, NEW k \in Dc!Kinds
  PROVE  <<p, k>> \in Paper /\ <<p, k>>[2] = k /\ <<p, k>>[1] = p
BY DEF Paper

(* A paper is classified, or a held one gets its kind from a person. *)
LEMMA ClassifyStep ==
  ASSUME DcInv, NEW p \in Papers, Dc!Classify(p) PROVE DcInv'
<1>0. route[p] \in Dc!Kinds BY DEF DcInv, GivenInv
<1>1. PICK d \in Paper :
        /\ d = <<p, route[p]>> /\ d[2] = route[p]
        /\ docs' = IF d \in DOMAIN docs THEN docs ELSE Dc!Put(docs, d, "held")
        /\ outbox' = IF route[p] = "unknown" \/ d \in DOMAIN outbox THEN outbox
                     ELSE Dc!Put(outbox, d, "pending")
        /\ UNCHANGED <<route, Dc!queue, reader, stmts, posted>>
  BY <1>0, PaperIs DEF Dc!Classify
<1>2. UNCHANGED <<jobs, given, sender>> BY <1>1 DEF Dc!queue
<1>3. \A x \in DOMAIN outbox' : \/ x \in DOMAIN outbox /\ outbox'[x] = outbox[x]
                                \/ x = d /\ outbox'[x] = "pending"
  BY <1>1 DEF Dc!Put
<1>4. \A x \in DOMAIN outbox : x \in DOMAIN outbox' BY <1>1 DEF Dc!Put
<1>5. \A x \in DOMAIN docs' : x \in DOMAIN docs \/ x = d BY <1>1 DEF Dc!Put
<1>6. d[2] # "unknown" => d \in DOMAIN outbox' /\ (outbox'[d] = "pending" \/ d \in given)
  BY <1>1 DEF Dc!Put, DcInv, GivenInv
<1>7. GivenInv'
  <2>1. jobs \in [Paper -> Int] /\ (\A x \in Dispatchers : sender[x].at = "mark" => sender[x].doc \in given)
        /\ sender \in [Dispatchers -> [at : {"idle", "next", "mark"},
                                       list : SUBSET Paper, doc : Paper \cup {Dc!None}]]
        /\ given \subseteq Paper
    BY DEF DcInv, GivenInv
  <2>. QED BY <1>1, <1>2, <1>3, <1>4, <1>5, <1>6, <2>1, GivenGrows DEF DcInv
<1>. QED BY <1>1, <1>7, FiledKept DEF DcInv

LEMMA ClassifyHeldStep ==
  ASSUME DcInv, NEW p \in Papers, NEW kind \in Dc!Kinds, Dc!ClassifyHeld(p, kind) PROVE DcInv'
<1>1. UNCHANGED <<route, jobs, given, sender, reader, stmts, posted>>
  BY DEF Dc!ClassifyHeld, Dc!queue
<1>0. "unknown" \in Dc!Kinds BY DEF Dc!Kinds
<1>a. PICK old \in Paper : old = <<p, "unknown">> /\ old[2] = "unknown" BY <1>0, PaperIs
<1>b. PICK new \in Paper : new = <<p, kind>> /\ new[2] = kind BY PaperIs
<1>2. /\ old = <<p, "unknown">> /\ old[2] = "unknown"
      /\ new = <<p, kind>> /\ new[2] = kind
  BY <1>a, <1>b
<1>3. \/ /\ DOMAIN docs' = DOMAIN docs \cup {old} /\ outbox' = outbox
      \/ /\ DOMAIN docs' = (DOMAIN docs \ {old}) \cup {new} /\ outbox' = Dc!Put(outbox, new, "pending")
  BY <1>2 DEF Dc!ClassifyHeld, Dc!Put, Dc!Without
<1>4. GivenInv'
  <2>1. jobs \in [Paper -> Int] /\ (\A x \in Dispatchers : sender[x].at = "mark" => sender[x].doc \in given)
        /\ sender \in [Dispatchers -> [at : {"idle", "next", "mark"},
                                       list : SUBSET Paper, doc : Paper \cup {Dc!None}]]
        /\ given \subseteq Paper
    BY DEF DcInv, GivenInv
  <2>2. /\ \A x \in DOMAIN docs' : x \in DOMAIN docs \/ x = old 
             \/ (x = new /\ x \in DOMAIN outbox' /\ outbox'[x] = "pending")
        /\ \A x \in DOMAIN outbox : x \in DOMAIN outbox'
        /\ \A x \in DOMAIN outbox' : \/ x \in DOMAIN outbox /\ outbox'[x] = outbox[x]
                                     \/ x = new /\ outbox'[x] = "pending"
    BY <1>3 DEF Dc!Put
  <2>. QED BY <1>1, <1>2, <2>1, <2>2, GivenGrows DEF DcInv
<1>. QED BY <1>1, <1>4, FiledKept DEF DcInv

LEMMA TwoFields ==
  ASSUME NEW s \in [at : {"idle", "next", "mark"}, list : SUBSET Paper, doc : Paper \cup {Dc!None}],
         NEW a, NEW d
  PROVE  [s EXCEPT !.at = a, !.doc = d] = [at |-> a, list |-> s.list, doc |-> d]
<1>1. PICK r : r = [s EXCEPT !.at = a] OBVIOUS
<1>2. r = [at |-> a, list |-> s.list, doc |-> s.doc] BY <1>1
<1>3. [r EXCEPT !.doc = d] = [at |-> a, list |-> s.list, doc |-> d] BY <1>2
<1>4. [s EXCEPT !.at = a, !.doc = d] = [r EXCEPT !.doc = d] BY <1>1
<1>. QED BY <1>3, <1>4

(* A dispatcher reads the outbox, hands a job over and marks its row. *)
LEMMA DispatchSteps ==
  ASSUME DcInv, NEW x \in Dispatchers, Dc!Begin(x) \/ Dc!Enqueue(x) \/ Dc!Mark(x) PROVE DcInv'
<1>0. /\ jobs \in [Paper -> Int]
      /\ sender \in [Dispatchers -> [at : {"idle", "next", "mark"},
                                     list : SUBSET Paper, doc : Paper \cup {Dc!None}]]
      /\ \A y \in Dispatchers : sender[y].at = "mark" => sender[y].doc \in given
      /\ DOMAIN outbox \subseteq Paper
      /\ given \subseteq Paper
  BY DEF DcInv, GivenInv
<1>1. UNCHANGED <<route, reader, stmts, posted>> BY DEF Dc!Begin, Dc!Enqueue, Dc!Mark
<1>2. FiledInv' BY <1>1, FiledKept DEF DcInv
<1>3. CASE Dc!Begin(x)
  <2>1. /\ sender' = [sender EXCEPT ![x] = [at |-> "next", list |-> Dc!Pending, doc |-> Dc!None]]
        /\ UNCHANGED <<docs, outbox, jobs, given>>
    BY <1>3 DEF Dc!Begin, Dc!intake
  <2>2. Dc!Pending \subseteq Paper BY <1>0 DEF Dc!Pending
  <2>3. GivenInv' BY <1>0, <1>1, <2>1, <2>2, GivenGrows DEF DcInv
  <2>. QED BY <1>2, <2>3 DEF DcInv
<1>4. CASE Dc!Enqueue(x)
  <2>1. PICK d \in sender[x].list :
          /\ jobs' = [jobs EXCEPT ![d] = @ + 1] /\ given' = given \cup {d}
          /\ sender' = [sender EXCEPT ![x].at = "mark", ![x].doc = d, ![x].list = @ \ {d}]
    BY <1>4 DEF Dc!Enqueue
  <2>2. UNCHANGED <<docs, outbox>> BY <1>4 DEF Dc!Enqueue, Dc!intake
  <2>3. d \in Paper BY <1>0
  <2>4. sender' = [sender EXCEPT ![x] = [at |-> "mark", list |-> sender[x].list \ {d}, doc |-> d]]
    BY <1>0, <2>1
  <2>5. jobs' \in [Paper -> Int] /\ \A e \in Paper : jobs'[e] > 0 => jobs[e] > 0 \/ e \in given'
    BY <1>0, <2>1, <2>3
  <2>6. sender[x].list \ {d} \subseteq Paper BY <1>0
  <2>7. GivenInv' BY <1>0, <1>1, <2>1, <2>2, <2>3, <2>4, <2>5, <2>6, GivenGrows DEF DcInv
  <2>. QED BY <1>2, <2>7 DEF DcInv
<1>5. CASE Dc!Mark(x)
  <2>1. PICK d \in given, a \in {"idle", "next"} :
          /\ d = sender[x].doc
          /\ sender' = [sender EXCEPT ![x].at = a, ![x].doc = Dc!None]
          /\ \/ UNCHANGED <<docs, outbox>>
             \/ /\ outbox' = Dc!Put(outbox, d, "dispatched")
                /\ docs' = docs \/ docs' = Dc!Put(docs, d, "received")
    BY <1>0, <1>5 DEF Dc!Mark, Dc!intake
  <2>2. UNCHANGED <<jobs, given>> BY <1>5 DEF Dc!Mark
  <2>3. sender' = [sender EXCEPT ![x] = [at |-> a, list |-> sender[x].list, doc |-> Dc!None]]
    <3>1. sender[x] \in [at : {"idle", "next", "mark"}, list : SUBSET Paper, doc : Paper \cup {Dc!None}]
      BY <1>0
    <3>2. [sender[x] EXCEPT !.at = a, !.doc = Dc!None]
            = [at |-> a, list |-> sender[x].list, doc |-> Dc!None]
      BY <3>1, TwoFields
    <3>3. sender' = [sender EXCEPT ![x] = [sender[x] EXCEPT !.at = a, !.doc = Dc!None]]
      BY <1>0, <2>1
    <3>. QED BY <3>2, <3>3
  <2>4. sender[x].list \subseteq Paper BY <1>0
  <2>5. d \in Paper BY <1>0
  <2>6. /\ \A y \in DOMAIN docs' : y \in DOMAIN docs \/ y = d
        /\ \A y \in DOMAIN outbox : y \in DOMAIN outbox'
        /\ \A y \in DOMAIN outbox' : (y \in DOMAIN outbox /\ outbox'[y] = outbox[y]) \/ y = d
    BY <2>1 DEF Dc!Put
  <2>7. /\ sender' \in [Dispatchers -> [at : {"idle", "next", "mark"},
                                        list : SUBSET Paper, doc : Paper \cup {Dc!None}]]
        /\ \A y \in Dispatchers : sender'[y].at = "mark" => sender'[y].doc \in given
    <3>1. PICK new : new = [at |-> a, list |-> sender[x].list, doc |-> Dc!None] OBVIOUS
    <3>2. sender' = [sender EXCEPT ![x] = new] BY <2>3, <3>1
    <3>3. new \in [at : {"idle", "next", "mark"}, list : SUBSET Paper, doc : Paper \cup {Dc!None}]
      BY <2>4, <3>1
    <3>4. new.at # "mark" BY <3>1
    <3>. QED BY <1>0, <3>2, <3>3, <3>4
  <2>8. GivenInv' BY <1>0, <1>1, <2>2, <2>5, <2>6, <2>7, GivenGrows DEF DcInv
  <2>. QED BY <1>2, <2>8 DEF DcInv
<1>. QED BY <1>3, <1>4, <1>5

(* The workers take a job; the statement worker's is one of a statement. *)
LEMMA WorkerSteps ==
  ASSUME DcInv, \/ \E p \in Papers : Dc!Take(p) \/ Dc!TakeInvoice(p)
                \/ Dc!Posts \/ Dc!Dies \/ UNCHANGED dcVars
  PROVE  DcInv'
<1>0. /\ jobs \in [Paper -> Int] /\ given \subseteq Paper
      /\ sender \in [Dispatchers -> [at : {"idle", "next", "mark"},
                                     list : SUBSET Paper, doc : Paper \cup {Dc!None}]]
      /\ \A y \in Dispatchers : sender[y].at = "mark" => sender[y].doc \in given
      /\ \A d \in Paper : jobs[d] > 0 => d \in given
  BY DEF DcInv, GivenInv
<1>1. UNCHANGED <<route, docs, outbox, given, stmts>> /\ posted \subseteq posted' /\ posted' \subseteq posted \cup Txns
  BY DEF Dc!Take, Dc!TakeInvoice, Dc!Posts, Dc!Dies, Dc!intake, Dc!queue, dcVars
<1>2. FiledInv'
  <2>1. \A p \in DOMAIN stmts :
          /\ stmts[p] \in Statement
          /\ \A l \in Lines : stmts[p].line[l] \in posted' \cup {"unmatched", "excluded"}
    BY <1>1 DEF DcInv, FiledInv
  <2>2. posted' \subseteq Txns BY <1>1 DEF DcInv, FiledInv
  <2>3. Dc!FiledIsReconciled' BY <1>1 DEF DcInv, FiledInv, Dc!FiledIsReconciled
  <2>4. Statement' = Statement BY DEF Statement, Resolved
  <2>. QED BY <1>1, <2>1, <2>2, <2>3, <2>4 DEF FiledInv
<1>3. /\ jobs' \in [Paper -> Int] /\ \A d \in Paper : jobs'[d] > 0 => jobs[d] > 0
  <2>1. jobs' = jobs \/ \E d \in Paper : jobs' = [jobs EXCEPT ![d] = @ - 1]
    <3>1. ASSUME NEW p \in Papers, Dc!TakeInvoice(p)
          PROVE  \E d \in Paper : jobs' = [jobs EXCEPT ![d] = @ - 1]
      BY <3>1, PaperIs DEF Dc!TakeInvoice, Dc!Kinds
    <3>. QED BY <3>1 DEF Dc!Take, Dc!Posts, Dc!Dies, Dc!queue, dcVars
  <2>. QED BY <1>0, <2>1
<1>4. /\ sender' \in [Dispatchers -> [at : {"idle", "next", "mark"},
                                      list : SUBSET Paper, doc : Paper \cup {Dc!None}]]
      /\ \A y \in Dispatchers : sender'[y].at = "mark" => sender'[y].doc \in given
  <2>1. sender' = sender \/ sender' = [x \in Dispatchers |-> Dc!Free]
    BY DEF Dc!Take, Dc!TakeInvoice, Dc!Posts, Dc!Dies, Dc!queue, dcVars
  <2>. QED BY <1>0, <2>1 DEF Dc!Free
<1>5. \/ UNCHANGED reader \/ reader' = Dc!None
      \/ reader' \in Paper /\ reader' \in given /\ reader' = Filing(reader'[1])
  <2>1. ASSUME NEW p \in Papers, Dc!Take(p)
        PROVE  reader' \in Paper /\ reader' \in given /\ reader' = Filing(reader'[1])
    <3>1. Filing(p) \in Paper /\ Filing(p)[1] = p BY PaperIs DEF Filing, Dc!Kinds
    <3>2. reader' = Filing(p) /\ jobs[Filing(p)] > 0 BY <2>1 DEF Dc!Take, Filing
    <3>. QED BY <1>0, <3>1, <3>2
  <2>. QED BY <2>1 DEF Dc!TakeInvoice, Dc!Posts, Dc!Dies, dcVars
<1>6. GivenInv'
  BY <1>0, <1>1, <1>3, <1>4, <1>5, GivenGrows DEF DcInv, GivenInv
<1>. QED BY <1>2, <1>6 DEF DcInv

(* A step on a document that was handed over leaves the rest as it is. *)
LEMMA GivenKept ==
  ASSUME DcInv, UNCHANGED <<route, outbox, given, sender>>, jobs' \in [Paper -> Int],
         \A d \in Paper : jobs'[d] > 0 => jobs[d] > 0,
         UNCHANGED reader \/ reader' = Dc!None,
         \A x \in DOMAIN docs' : x \in DOMAIN docs \/ x \in given,
         \A p \in DOMAIN stmts' : p \in DOMAIN stmts \/ (p \in Papers /\ Filing(p) \in given)
  PROVE  GivenInv'
BY GivenGrows DEF DcInv, GivenInv

LEMMA FileSteps == ASSUME DcInv, Dc!Import \/ Dc!HoldUnreadable PROVE DcInv'
<1>0. /\ reader # Dc!None /\ reader \in Paper /\ reader \in given /\ reader = Filing(reader[1])
      /\ jobs \in [Paper -> Int]
  BY DEF Dc!Import, Dc!HoldUnreadable, DcInv, GivenInv
<1>1. PICK p \in Papers : p = reader[1] /\ Filing(p) \in given /\ reader = Filing(p)
  BY <1>0 DEF Paper
<1>2. /\ reader' = Dc!None /\ jobs' = [jobs EXCEPT ![reader] = @ - 1]
      /\ UNCHANGED <<route, outbox, given, sender, posted>>
  BY DEF Dc!Import, Dc!HoldUnreadable, Dc!Acknowledge
<1>3. jobs' \in [Paper -> Int] /\ \A d \in Paper : jobs'[d] > 0 => jobs[d] > 0
  BY <1>0, <1>2
<1>4. \A x \in DOMAIN docs' : x \in DOMAIN docs \/ x = reader
  BY DEF Dc!Import, Dc!HoldUnreadable, Dc!Put
<1>5. \/ UNCHANGED stmts
      \/ \E b \in BOOLEAN : stmts' = Dc!Put(stmts, p, [status |-> Dc!Status(b), balanced |-> b,
                                                       line |-> [l \in Lines |-> "unmatched"]])
  BY <1>1 DEF Dc!Import, Dc!HoldUnreadable
<1>6. FiledInv'
  <2>1. CASE UNCHANGED stmts BY <1>2, <2>1, FiledKept DEF DcInv
  <2>2. ASSUME NEW b \in BOOLEAN, NEW r,
               r = [status |-> Dc!Status(b), balanced |-> b, line |-> [l \in Lines |-> "unmatched"]],
               stmts' = Dc!Put(stmts, p, r)
        PROVE  FiledInv'
    <3>1. r \in Statement /\ r.status # "filed" /\ \A l \in Lines : r.line[l] = "unmatched"
      BY <2>2 DEF Statement, Resolved, Dc!Status
    <3>2. DOMAIN stmts' = DOMAIN stmts \cup {p} /\ stmts'[p] = r
          /\ \A q \in DOMAIN stmts : q # p => stmts'[q] = stmts[q]
      BY <2>2 DEF Dc!Put
    <3>3. Statement' = Statement BY DEF Statement, Resolved
    <3>. QED BY <1>2, <3>1, <3>2, <3>3 DEF DcInv, FiledInv, Dc!FiledIsReconciled
  <2>. QED BY <1>5, <2>1, <2>2
<1>7. \A q \in DOMAIN stmts' : q \in DOMAIN stmts \/ (q \in Papers /\ Filing(q) \in given)
  BY <1>1, <1>5 DEF Dc!Put
<1>8. GivenInv' BY <1>0, <1>2, <1>3, <1>4, <1>7, GivenKept
<1>. QED BY <1>6, <1>8 DEF DcInv

(* A statement changes: the others stay, and filed it is only when it is reconciled. *)
LEMMA OneStatement ==
  ASSUME DcInv, UNCHANGED <<route, outbox, given, sender, jobs, reader, posted>>,
         NEW p \in DOMAIN stmts, NEW r \in Statement,
         stmts' = [stmts EXCEPT ![p] = r],
         docs' = docs \/ \E s : docs' = Dc!Put(docs, Filing(p), s),
         \A l \in Lines : r.line[l] \in posted \cup {"unmatched", "excluded"},
         r.status = "filed" =>
           r.balanced /\ \A l \in Lines : r.line[l] \in posted \cup {"excluded"}
  PROVE  DcInv'
<1>1. GivenInv'
  <2>1. Filing(p) \in given /\ p \in Papers BY DEF DcInv, GivenInv
  <2>2. \A x \in DOMAIN docs' : x \in DOMAIN docs \/ x \in given BY <2>1 DEF Dc!Put
  <2>3. jobs \in [Paper -> Int] BY DEF DcInv, GivenInv
  <2>. QED BY <2>1, <2>2, <2>3, GivenKept
<1>2. FiledInv'
  <2>1. DOMAIN stmts' = DOMAIN stmts /\ stmts'[p] = r /\ \A q \in DOMAIN stmts : q # p => stmts'[q] = stmts[q]
    OBVIOUS
  <2>2. Statement' = Statement BY DEF Statement, Resolved
  <2>. QED BY <2>1, <2>2 DEF DcInv, FiledInv, Dc!FiledIsReconciled
<1>. QED BY <1>1, <1>2 DEF DcInv

LEMMA PersonSteps ==
  ASSUME DcInv, NEW p \in Papers,
         \/ Dc!CorrectFact(p) \/ Dc!FileStatement(p) \/ \E l \in Lines : Dc!Resolve(p, l)
  PROVE  DcInv'
<1>0. /\ p \in DOMAIN stmts /\ UNCHANGED <<route, outbox, given, sender, jobs, reader, posted>>
  BY DEF Dc!CorrectFact, Dc!FileStatement, Dc!Resolve, Dc!queue, Dc!intake
<1>1. /\ stmts[p] \in Statement /\ posted \subseteq Txns
      /\ \A l \in Lines : stmts[p].line[l] \in posted \cup {"unmatched", "excluded"}
      /\ stmts[p].status = "filed" =>
           stmts[p].balanced /\ \A l \in Lines : stmts[p].line[l] \in posted \cup {"excluded"}
  BY <1>0 DEF DcInv, FiledInv, Dc!FiledIsReconciled
<1>2. CASE Dc!CorrectFact(p)
  <2>1. PICK b \in BOOLEAN, s \in {"review", "unbalanced"} :
          /\ stmts' = [stmts EXCEPT ![p].status = s, ![p].balanced = b]
          /\ docs' = Dc!Put(docs, Filing(p), Dc!DocStatus(b))
    BY <1>2 DEF Dc!CorrectFact, Dc!Revalidated, Dc!Status, Filing
  <2>2. PICK r : r = [stmts[p] EXCEPT !.status = s, !.balanced = b] OBVIOUS
  <2>3. stmts' = [stmts EXCEPT ![p] = r] BY <1>0, <2>1, <2>2
  <2>4. r \in Statement /\ r.status = s /\ r.line = stmts[p].line BY <1>1, <2>2 DEF Statement
  <2>. QED BY <1>0, <1>1, <2>1, <2>3, <2>4, OneStatement
<1>3. CASE Dc!FileStatement(p)
  <2>1. /\ stmts[p].balanced /\ \A l \in Lines : stmts[p].line[l] # "unmatched"
        /\ stmts' = [stmts EXCEPT ![p].status = "filed"]
        /\ docs' = Dc!Put(docs, Filing(p), "filed")
    BY <1>3 DEF Dc!FileStatement, Filing
  <2>2. PICK r : r = [stmts[p] EXCEPT !.status = "filed"] OBVIOUS
  <2>3. stmts' = [stmts EXCEPT ![p] = r] BY <1>0, <2>1, <2>2
  <2>4. r \in Statement /\ r.line = stmts[p].line /\ r.balanced = stmts[p].balanced
    BY <1>1, <2>2 DEF Statement
  <2>5. r.balanced BY <2>1, <2>4, Zenon
  <2>6. \A l \in Lines : r.line[l] \in posted \cup {"excluded"} BY <1>1, <2>1, <2>4
  <2>7. docs' = docs \/ \E s : docs' = Dc!Put(docs, Filing(p), s) BY <2>1
  <2>8. \A l \in Lines : r.line[l] \in posted \cup {"unmatched", "excluded"} BY <2>6
  <2>. QED BY <1>0, <2>3, <2>4, <2>5, <2>6, <2>7, <2>8, OneStatement
<1>4. ASSUME NEW l \in Lines, Dc!Resolve(p, l) PROVE DcInv'
  <2>1. PICK ref \in posted \cup {"excluded"} : stmts' = [stmts EXCEPT ![p].line[l] = ref]
    BY <1>4 DEF Dc!Resolve
  <2>2. docs' = docs BY <1>4 DEF Dc!Resolve, Dc!intake
  <2>3. PICK m, r : m = [stmts[p].line EXCEPT ![l] = ref] /\ r = [stmts[p] EXCEPT !.line = m] OBVIOUS
  <2>4. stmts' = [stmts EXCEPT ![p] = r] BY <1>0, <2>1, <2>3
  <2>5. /\ m \in [Lines -> Resolved] /\ m[l] = ref /\ \A k \in Lines : k # l => m[k] = stmts[p].line[k]
    BY <1>1, <2>3 DEF Statement, Resolved
  <2>6. r \in Statement /\ r.line = m /\ r.status = stmts[p].status /\ r.balanced = stmts[p].balanced
    BY <1>1, <2>3, <2>5 DEF Statement
  <2>. QED BY <1>0, <1>1, <2>2, <2>4, <2>5, <2>6, OneStatement
<1>. QED BY <1>2, <1>3, <1>4

(* What the outbox, the queue and the statements remember holds in every state. *)
LEMMA DocumentsInvariant == Spec => []DcInv
<1>1. Init => DcInv BY DcInit DEF Init
<1>2. DcInv /\ [Next]_vars => DcInv'
  <2>1. ASSUME DcInv, Dc!Next PROVE DcInv'
    BY <2>1, ClassifyStep, ClassifyHeldStep, DispatchSteps, WorkerSteps, FileSteps, PersonSteps
       DEF Dc!Next
  <2>2. ASSUME DcInv, UNCHANGED dcVars PROVE DcInv' BY <2>2, WorkerSteps
  <2>3. [Next]_vars => Dc!Next \/ UNCHANGED dcVars BY DEF Next, vars
  <2>. QED BY <2>1, <2>2, <2>3
<1>. QED BY <1>1, <1>2, PTL DEF Spec

(* A document with a kind is pending in the outbox or was handed to the queue, and a filed   *)
(* statement is balanced with every line matched or excluded, for any number of dispatchers, *)
(* lines and repeated jobs (document-review.ts:45-74, review.ts:180-206, 356-372).           *)
THEOREM DocumentsStay == Spec => []DocumentsHold
<1>1. DcInv => DocumentsHold
  BY DEF DcInv, GivenInv, FiledInv, DocumentsHold, Dc!DocumentsHold
<1>. QED BY <1>1, DocumentsInvariant, PTL
-----------------------------------------------------------------------------
(* Proposals: from a document to the gate of its bill. *)

ReadingsNamed == "none" \notin Readings

Item == Bills \cup Bodies
PrRow == [item : Item, status : {"ready", "review", "exception", "rejected", "posted"}]
PrWorker == [at : {"verify", "map", "complete"}, item : Item, reading : Readings]

Proposed(i) == i \in mapJobs \/ \E n \in DOMAIN rows : rows[n].item = i
Proven(n) == n \in DOMAIN scanned /\ verified[rows[n].item] # "none"
Shaped(p) ==
  p = [at |-> p.at, item |-> p.item, row |-> p.row, verdict |-> p.verdict, status |-> p.status]
Written(p) ==
  /\ Shaped(p)
  /\ p.row \in DOMAIN rows /\ rows[p.row].item = p.item

PrType ==
  /\ received \subseteq Item /\ rows \in Seq(PrRow)
  /\ ext \in [Item -> [state : {"none", "inserted", "done"}, reading : Readings \cup {"none"}]]
  /\ verified \in [Item -> Readings \cup {"none"}]
  /\ extractor = Pr!Rest \/ extractor \in PrWorker
  /\ proposer = [c \in Pr!Callers |-> proposer[c]]
  /\ poster = [x \in Pr!Posters |-> poster[x]]

(* A job ends only when the next one waits or the proposal stands. *)
PlacesInv ==
  /\ \A i \in Item : ext[i].state = "done" => Proposed(i)
  /\ extractor.at = "complete" => Proposed(extractor.item)
  /\ \A c \in Pr!Callers :
       /\ proposer[c].at \in {"scan", "write"} => proposer[c].item \in Item
       /\ proposer[c].at \in {"record", "enqueue"} => Written(proposer[c])
  /\ \A i \in received : i \in extractJobs \/ i \in failed \/ Proposed(i)

(* Who is past the gate has a row with both proofs. *)
ProofInv ==
  /\ \A x \in Pr!Posters : poster[x].at \in {"bill", "mark"} =>
       poster[x].row \in DOMAIN rows /\ Proven(poster[x].row)
  /\ \A i \in billed : \E n \in DOMAIN rows : rows[n].item = i /\ Proven(n)

PrInv == PrType /\ PlacesInv /\ ProofInv

LEMMA PrHolds == ASSUME PrInv PROVE Pr!ProposalsHold
<1>1. \A i \in received : i \in extractJobs \cup mapJobs \cup failed \/ Pr!RowsOf(i) # {}
  BY DEF PrInv, PlacesInv, Proposed, Pr!RowsOf
<1>2. \A i \in billed : verified[i] # "none" /\ \E n \in Pr!RowsOf(i) : n \in DOMAIN scanned
  BY DEF PrInv, ProofInv, Proven, Pr!RowsOf
<1>. QED BY <1>1, <1>2 DEF Pr!ProposalsHold, Pr!NothingVanishes, Pr!BilledIsProven

LEMMA PrInit == ASSUME Pr!Init PROVE PrInv
<1>1. /\ ext = [i \in Item |-> [state |-> "none", reading |-> "none"]]
      /\ verified = [i \in Item |-> "none"] /\ received \subseteq Item /\ extractJobs = received
      /\ extractor = Pr!Rest /\ rows = <<>> /\ billed = {}
      /\ proposer = [c \in Pr!Callers |-> Pr!Rest] /\ poster = [x \in Pr!Posters |-> Pr!Rest]
  BY DEF Pr!Init, Pr!Items, Item
<1>2. PrType BY <1>1 DEF PrType
<1>3. PlacesInv BY <1>1 DEF PlacesInv, Pr!Rest
<1>4. ProofInv BY <1>1 DEF ProofInv, Pr!Rest
<1>. QED BY <1>2, <1>3, <1>4 DEF PrInv

(* Rows keep their document, proofs and verifications stay on record, a waiting or        *)
(* proposed document stays so.                                                            *)
LEMMA PrKept ==
  ASSUME PrInv, PrType', UNCHANGED received,
         \A n \in DOMAIN rows : n \in DOMAIN rows' /\ rows'[n].item = rows[n].item,
         \A i \in Item : verified[i] # "none" => verified'[i] # "none",
         DOMAIN scanned \subseteq DOMAIN scanned',
         \A i \in mapJobs : i \in mapJobs' \/ \E n \in DOMAIN rows : rows[n].item = i,
         \A i \in Item : ext'[i].state = "done" => ext[i].state = "done" \/ Proposed(i),
         \A i \in received : i \in extractJobs \/ i \in failed =>
            i \in extractJobs' \/ i \in failed' \/ Proposed(i),
         \/ extractor'.at = "complete" =>
              extractor.at = "complete" /\ extractor'.item = extractor.item
         \/ extractor'.item \in mapJobs',
         \A c \in Pr!Callers : \/ proposer'[c] = proposer[c]
                               \/ proposer'[c].at = "idle"
                               \/ proposer'[c].at \in {"scan", "write"} /\ proposer'[c].item \in Item
                               \/ /\ proposer'[c].at \in {"record", "enqueue"}
                                  /\ Shaped(proposer'[c])
                                  /\ proposer'[c].row \in DOMAIN rows'
                                  /\ rows'[proposer'[c].row].item = proposer'[c].item,
         \A x \in Pr!Posters : \/ poster'[x] = poster[x]
                               \/ poster'[x].at = "idle"
                               \/ poster'[x].row \in DOMAIN rows /\ Proven(poster'[x].row),
         \A i \in billed' : i \in billed \/ \E n \in DOMAIN rows : rows[n].item = i /\ Proven(n)
  PROVE  PrInv'
<1>1. \A i : Proposed(i) => Proposed(i)' BY DEF Proposed
<1>2. \A n \in DOMAIN rows : Proven(n) => Proven(n)'
  <2>1. \A n \in DOMAIN rows : rows[n] \in PrRow BY DEF PrInv, PrType
  <2>2. \A n \in DOMAIN rows : rows[n].item \in Item BY <2>1 DEF PrRow
  <2>. QED BY <2>2 DEF Proven
<1>3. PlacesInv'
  <2>1. \A i \in Item : ext'[i].state = "done" => Proposed(i)' BY <1>1 DEF PrInv, PlacesInv
  <2>2. ASSUME extractor'.at = "complete" PROVE Proposed(extractor.item)'
    <3>1. CASE extractor'.item \in mapJobs' BY <3>1 DEF Proposed
    <3>2. CASE extractor.at = "complete" /\ extractor'.item = extractor.item
      <4>1. PICK i : i = extractor.item OBVIOUS
      <4>2. Proposed(i)' BY <1>1, <3>2, <4>1 DEF PrInv, PlacesInv
      <4>. QED BY <3>2, <4>1, <4>2 DEF Proposed
    <3>. QED BY <2>2, <3>1, <3>2
  <2>3. \A c \in Pr!Callers :
          /\ proposer'[c].at \in {"scan", "write"} => proposer'[c].item \in Item
          /\ proposer'[c].at \in {"record", "enqueue"} => Shaped(proposer'[c]) /\
               proposer'[c].row \in DOMAIN rows' /\ rows'[proposer'[c].row].item = proposer'[c].item
    BY DEF PrInv, PlacesInv, Written
  <2>4. \A i \in received : i \in extractJobs' \/ i \in failed' \/ Proposed(i)'
    BY <1>1 DEF PrInv, PlacesInv
  <2>5. Item' = Item /\ Pr!Callers' = Pr!Callers BY DEF Item, Pr!Callers
  <2>. QED BY <2>1, <2>2, <2>3, <2>4, <2>5 DEF PlacesInv, Written, Shaped
<1>4. ProofInv'
  <2>1. ASSUME NEW x \in Pr!Posters, poster'[x].at \in {"bill", "mark"}
        PROVE  poster'[x].row \in DOMAIN rows' /\ Proven(poster[x].row)'
    <3>1. poster'[x].row \in DOMAIN rows /\ Proven(poster'[x].row)
      BY <2>1 DEF PrInv, ProofInv
    <3>2. PICK n \in DOMAIN rows : n = poster'[x].row BY <3>1
    <3>3. Proven(n)' BY <1>2, <3>1, <3>2
    <3>. QED BY <3>2, <3>3 DEF Proven
  <2>2. \A i \in billed' : \E n \in DOMAIN rows' : rows'[n].item = i /\ Proven(n)'
    BY <1>2 DEF PrInv, ProofInv
  <2>3. Pr!Posters' = Pr!Posters BY DEF Pr!Posters
  <2>. QED BY <2>1, <2>2, <2>3 DEF ProofInv
<1>. QED BY <1>3, <1>4 DEF PrInv

LEMMA PrSame == ASSUME PrInv, UNCHANGED prVars PROVE PrInv'
<1>1. UNCHANGED <<received, ext, verified, failed, extractJobs, mapJobs, extractor, rows, scanned,
                  proposer, poster, billed>>
  BY DEF prVars
<1>2. PrType'
  BY <1>1 DEF PrInv, PrType, Item, PrRow, PrWorker, Pr!Rest, Pr!Callers, Pr!Posters
<1>. QED BY <1>1, <1>2, PrKept

(* Extraction: the reading, its verification, the job of the proposal, the end. *)
LEMMA ReadSteps ==
  ASSUME ReadingsNamed, PrInv, NEW i \in Item,
         \/ Pr!ReadFails(i) \/ Pr!Remap(i) \/ \E r \in Readings : Pr!Read(i, r)
  PROVE  PrInv'
<1>1. UNCHANGED <<received, verified, rows, scanned, proposer, mapJobs, poster, billed>>
  BY DEF Pr!ReadFails, Pr!Remap, Pr!Read, Pr!proposing, Pr!gating, Pr!reading
<1>2. /\ ext \in [Item -> [state : {"none", "inserted", "done"}, reading : Readings \cup {"none"}]]
      /\ extractor = Pr!Rest \/ extractor \in PrWorker
  BY DEF PrInv, PrType
<1>3. CASE Pr!ReadFails(i) \/ Pr!Remap(i)
  <2>1. /\ UNCHANGED <<ext, extractor>>
        /\ \A j \in received : j \in extractJobs \/ j \in failed => j \in extractJobs' \/ j \in failed'
    BY <1>3 DEF Pr!ReadFails, Pr!Remap, Pr!reading
  <2>2. PrType' BY <1>1, <2>1
       DEF PrInv, PrType, Item, PrRow, PrWorker, Pr!Rest, Pr!Callers, Pr!Posters
  <2>. QED BY <1>1, <2>1, <2>2, PrKept
<1>4. ASSUME NEW r \in Readings, Pr!Read(i, r) PROVE PrInv'
  <2>1. CASE ext[i].state = "done"
    <3>1. /\ UNCHANGED <<ext, extractor, failed>> /\ extractJobs' = extractJobs \ {i} /\ Proposed(i)
      BY <1>4, <2>1 DEF Pr!Read, PrInv, PlacesInv
    <3>2. PrType' BY <1>1, <3>1
         DEF PrInv, PrType, Item, PrRow, PrWorker, Pr!Rest, Pr!Callers, Pr!Posters
    <3>. QED BY <1>1, <3>1, <3>2, PrKept
  <2>2. CASE ext[i].state # "done"
    <3>1. PICK e : e = [state |-> "inserted", reading |-> r] OBVIOUS
    <3>2. PICK a \in {"verify", "map"} :
            /\ ext' = ext \/ ext' = [ext EXCEPT ![i] = e]
            /\ extractor' = [at |-> a, item |-> i, reading |-> r]
            /\ UNCHANGED <<extractJobs, failed>>
      BY <1>4, <2>2, <3>1 DEF Pr!Read
    <3>3. /\ ext' \in [Item -> [state : {"none", "inserted", "done"}, reading : Readings \cup {"none"}]]
          /\ \A j \in Item : ext'[j].state = "done" => ext[j].state = "done"
      BY <1>2, <3>1, <3>2
    <3>4. extractor' \in PrWorker /\ extractor'.at # "complete" BY <3>2 DEF PrWorker
    <3>5. PrType' BY <1>1, <3>3, <3>4 DEF PrInv, PrType, Item, PrRow, PrWorker, Pr!Callers, Pr!Posters
    <3>. QED BY <1>1, <3>2, <3>3, <3>4, <3>5, PrKept
  <2>. QED BY <2>1, <2>2
<1>. QED BY <1>3, <1>4

LEMMA WorkSteps ==
  ASSUME ReadingsNamed, PrInv,
         Pr!Verify \/ Pr!VerifyFails \/ Pr!EnqueueMap \/ Pr!Complete
  PROVE  PrInv'
<1>1. /\ UNCHANGED <<received, rows, scanned, proposer, poster, billed, failed>>
      /\ extractor # Pr!Rest
  BY DEF Pr!Verify, Pr!VerifyFails, Pr!EnqueueMap, Pr!Complete, Pr!proposing, Pr!gating
<1>2. /\ ext \in [Item -> [state : {"none", "inserted", "done"}, reading : Readings \cup {"none"}]]
      /\ verified \in [Item -> Readings \cup {"none"}] /\ extractor \in PrWorker
  BY <1>1 DEF PrInv, PrType
<1>3. extractor.item \in Item /\ extractor.reading \in Readings BY <1>2 DEF PrWorker
<1>4. CASE Pr!Complete
  <2>1. PICK i \in Item : i = extractor.item /\ extractor.at = "complete" BY <1>3, <1>4 DEF Pr!Complete
  <2>2. Proposed(i) BY <2>1 DEF PrInv, PlacesInv
  <2>3. /\ ext' = [ext EXCEPT ![i].state = "done"] /\ extractJobs' = extractJobs \ {i}
        /\ extractor' = Pr!Rest /\ UNCHANGED <<verified, mapJobs>>
    BY <1>4, <2>1 DEF Pr!Complete
  <2>4. PICK e : e = [ext[i] EXCEPT !.state = "done"] OBVIOUS
  <2>5. e \in [state : {"none", "inserted", "done"}, reading : Readings \cup {"none"}]
    BY <1>2, <2>4
  <2>6. ext' = [ext EXCEPT ![i] = e] BY <1>2, <2>3, <2>4
  <2>7. /\ ext' \in [Item -> [state : {"none", "inserted", "done"}, reading : Readings \cup {"none"}]]
        /\ \A j \in Item : ext'[j].state = "done" => ext[j].state = "done" \/ Proposed(j)
    BY <1>2, <2>2, <2>5, <2>6
  <2>8. extractor'.at # "complete" BY <2>3 DEF Pr!Rest
  <2>9. PrType' BY <1>1, <2>3, <2>7
       DEF PrInv, PrType, Item, PrRow, PrWorker, Pr!Rest, Pr!Callers, Pr!Posters
  <2>. QED BY <1>1, <2>2, <2>3, <2>7, <2>8, <2>9, PrKept
<1>5. CASE Pr!Verify \/ Pr!VerifyFails \/ Pr!EnqueueMap
  <2>1. PICK a \in {"map", "complete"} :
          /\ extractor' = [extractor EXCEPT !.at = a]
          /\ verified' = verified \/ verified' = [verified EXCEPT ![extractor.item] = extractor.reading]
          /\ mapJobs \subseteq mapJobs' /\ (a = "complete" => extractor.item \in mapJobs')
    BY <1>5 DEF Pr!Verify, Pr!VerifyFails, Pr!EnqueueMap
  <2>2. UNCHANGED <<ext, extractJobs>>
    BY <1>5 DEF Pr!Verify, Pr!VerifyFails, Pr!EnqueueMap
  <2>3. extractor' \in PrWorker /\ extractor'.at = a /\ extractor'.item = extractor.item
    BY <1>2, <2>1 DEF PrWorker
  <2>4. /\ verified' \in [Item -> Readings \cup {"none"}]
        /\ \A i \in Item : verified[i] # "none" => verified'[i] # "none"
    BY <1>2, <1>3, <2>1 DEF ReadingsNamed
  <2>5. PrType' BY <1>1, <2>2, <2>3, <2>4 DEF PrInv, PrType, Item, PrRow, PrWorker, Pr!Callers, Pr!Posters
  <2>6. extractor'.at = "complete" => extractor'.item \in mapJobs' BY <2>1, <2>3
  <2>. QED BY <1>1, <2>1, <2>2, <2>4, <2>5, <2>6, PrKept
<1>. QED BY <1>4, <1>5

(* The propose worker and the dry run: a row is written or overwritten, and its proof *)
(* recorded; the job ends when the row is there.                                      *)
LEMMA BeginSteps ==
  ASSUME PrInv, NEW c \in Pr!Callers,
         \/ \E i \in Item : Pr!BeginPropose(c, i)
         \/ \E v \in {"clean", "high", "critical"} : Pr!Scan(c, v)
         \/ Pr!ScanFails(c)
  PROVE  PrInv'
<1>1. UNCHANGED <<received, ext, verified, failed, extractJobs, mapJobs, extractor, rows, scanned,
                  poster, billed>>
  BY DEF Pr!BeginPropose, Pr!Scan, Pr!ScanFails, Pr!reading, Pr!gating
<1>2. \E s : /\ proposer' = [proposer EXCEPT ![c] = s]
             /\ s.at \in {"scan", "write"} /\ s.item \in Item
  <2>1. ASSUME NEW i \in Item, Pr!BeginPropose(c, i)
        PROVE  \E s : proposer' = [proposer EXCEPT ![c] = s] /\ s.at \in {"scan", "write"} /\ s.item \in Item
    <3>1. PICK s : s = [at |-> "scan", item |-> i, known |-> i \in known] OBVIOUS
    <3>2. proposer' = [proposer EXCEPT ![c] = s] BY <2>1, <3>1 DEF Pr!BeginPropose, Pr!Goes
    <3>3. s.at = "scan" /\ s.item = i BY <3>1
    <3>. QED BY <3>2, <3>3
  <2>2. ASSUME NEW v, Pr!Scan(c, v) \/ (Pr!ScanFails(c) /\ v = "failed")
        PROVE  \E s : proposer' = [proposer EXCEPT ![c] = s] /\ s.at \in {"scan", "write"} /\ s.item \in Item
    <3>1. PICK s : s = [at |-> "write", item |-> proposer[c].item, known |-> proposer[c].known, verdict |-> v]
      OBVIOUS
    <3>2. proposer' = [proposer EXCEPT ![c] = s] /\ proposer[c].at = "scan"
      BY <2>2, <3>1 DEF Pr!Scan, Pr!ScanFails, Pr!Goes
    <3>3. s.at = "write" /\ s.item = proposer[c].item BY <3>1
    <3>4. proposer[c].item \in Item BY <3>2 DEF PrInv, PlacesInv
    <3>. QED BY <3>2, <3>3, <3>4
  <2>. QED BY <2>1, <2>2
<1>3. PICK s : /\ proposer' = [proposer EXCEPT ![c] = s]
               /\ s.at \in {"scan", "write"} /\ s.item \in Item
  BY <1>2
<1>4. proposer = [d \in Pr!Callers |-> proposer[d]] BY DEF PrInv, PrType
<1>5. proposer' = [d \in Pr!Callers |-> proposer'[d]] /\ proposer'[c] = s
      /\ \A d \in Pr!Callers : d # c => proposer'[d] = proposer[d]
  BY <1>3, <1>4
<1>6. PrType' BY <1>1, <1>5
     DEF PrInv, PrType, Item, PrRow, PrWorker, Pr!Rest, Pr!Callers, Pr!Posters
<1>. QED BY <1>1, <1>3, <1>5, <1>6, PrKept

LEMMA StatusSet ==
  ASSUME rows \in Seq(PrRow), NEW n \in DOMAIN rows,
         NEW s \in {"ready", "review", "exception", "rejected", "posted"},
         rows' = [rows EXCEPT ![n].status = s]
  PROVE  /\ rows' \in Seq(PrRow) /\ DOMAIN rows' = DOMAIN rows
         /\ \A m \in DOMAIN rows : rows'[m].item = rows[m].item
<1>1. rows[n] \in PrRow OBVIOUS
<1>2. PICK r : r = [rows[n] EXCEPT !.status = s] OBVIOUS
<1>3. r \in PrRow /\ r.item = rows[n].item BY <1>1, <1>2 DEF PrRow
<1>4. rows' = [rows EXCEPT ![n] = r] BY <1>2
<1>5. /\ DOMAIN rows' = DOMAIN rows /\ rows'[n] = r
      /\ \A m \in DOMAIN rows : m # n => rows'[m] = rows[m]
  BY <1>4
<1>6. rows' \in Seq(PrRow) BY <1>3, <1>4
<1>. QED BY <1>3, <1>5, <1>6

LEMMA WriteStep == ASSUME PrInv, NEW c \in Pr!Callers, Pr!Write(c) PROVE PrInv'
<1>1. /\ UNCHANGED <<received, ext, verified, failed, extractJobs, mapJobs, extractor, scanned,
                     poster, billed>>
      /\ proposer[c].at = "write"
  BY DEF Pr!Write, Pr!reading, Pr!gating
<1>2. proposer[c].item \in Item BY <1>1 DEF PrInv, PlacesInv
<1>3. PICK i \in Item : i = proposer[c].item BY <1>2
<1>4. PICK s : s = Pr!StatusOf(proposer[c]) OBVIOUS
<1>5. s \in {"ready", "review", "exception"} BY <1>4 DEF Pr!StatusOf
<1>6. /\ rows \in Seq(PrRow) /\ proposer = [d \in Pr!Callers |-> proposer[d]]
  BY DEF PrInv, PrType
<1>7. PICK v : v = proposer[c].verdict OBVIOUS
<1>8. ASSUME NEW n \in Nat, rows' \in Seq(PrRow), n \in DOMAIN rows', rows'[n].item = i,
             \A m \in DOMAIN rows : m \in DOMAIN rows' /\ rows'[m].item = rows[m].item,
             proposer' = [proposer EXCEPT ![c] =
                [at |-> "record", item |-> i, row |-> n, verdict |-> v, status |-> s]]
      PROVE  PrInv'
  <2>1. PICK p : p = [at |-> "record", item |-> i, row |-> n, verdict |-> v, status |-> s] OBVIOUS
  <2>2. p.at = "record" /\ p.item = i /\ p.row = n /\ Shaped(p) BY <2>1 DEF Shaped
  <2>3. /\ proposer'[c] = p /\ proposer' = [d \in Pr!Callers |-> proposer'[d]]
        /\ \A d \in Pr!Callers : d # c => proposer'[d] = proposer[d]
    BY <1>6, <1>8, <2>1
  <2>4. PrType'
    BY <1>1, <1>8, <2>3 DEF PrInv, PrType, Item, PrRow, PrWorker, Pr!Rest, Pr!Callers, Pr!Posters
  <2>. QED BY <1>1, <1>8, <2>2, <2>3, <2>4, PrKept
<1>9. \/ \E n \in Pr!RowsOf(i) :
           /\ rows' = [rows EXCEPT ![n].status = s]
           /\ proposer' = [proposer EXCEPT ![c] =
                [at |-> "record", item |-> i, row |-> n, verdict |-> v, status |-> s]]
      \/ /\ rows' = Append(rows, [item |-> i, status |-> s])
         /\ proposer' = [proposer EXCEPT ![c] =
                [at |-> "record", item |-> i, row |-> Len(rows) + 1, verdict |-> v, status |-> s]]
  BY <1>3, <1>4, <1>7 DEF Pr!Write, Pr!Goes
<1>10. ASSUME NEW n \in Pr!RowsOf(i), rows' = [rows EXCEPT ![n].status = s],
              proposer' = [proposer EXCEPT ![c] =
                [at |-> "record", item |-> i, row |-> n, verdict |-> v, status |-> s]]
       PROVE  PrInv'
  <2>1. n \in DOMAIN rows /\ rows[n].item = i BY DEF Pr!RowsOf
  <2>2. /\ rows' \in Seq(PrRow) /\ DOMAIN rows' = DOMAIN rows
        /\ \A m \in DOMAIN rows : rows'[m].item = rows[m].item
    BY <1>5, <1>6, <1>10, <2>1, StatusSet
  <2>3. n \in Nat BY <1>6, <2>1
  <2>. QED BY <1>8, <1>10, <2>1, <2>2, <2>3
<1>11. ASSUME rows' = Append(rows, [item |-> i, status |-> s]),
              proposer' = [proposer EXCEPT ![c] =
                [at |-> "record", item |-> i, row |-> Len(rows) + 1, verdict |-> v, status |-> s]]
       PROVE  PrInv'
  <2>1. PICK e : e = [item |-> i, status |-> s] OBVIOUS
  <2>2. e \in PrRow /\ e.item = i BY <1>5, <2>1 DEF PrRow
  <2>3. PICK n \in Nat : n = Len(rows) + 1 BY <1>6
  <2>4. /\ rows' \in Seq(PrRow) /\ n \in DOMAIN rows' /\ rows'[n] = e
        /\ \A m \in DOMAIN rows : m \in DOMAIN rows' /\ rows'[m] = rows[m]
    BY <1>6, <1>11, <2>1, <2>2, <2>3
  <2>. QED BY <1>8, <1>11, <2>2, <2>3, <2>4
<1>. QED BY <1>9, <1>10, <1>11

LEMMA RecordStep == ASSUME PrInv, NEW c \in Pr!Callers, Pr!Record(c) PROVE PrInv'
<1>1. /\ UNCHANGED <<received, ext, verified, failed, extractJobs, mapJobs, extractor, rows,
                     poster, billed>>
      /\ proposer[c].at = "record"
  BY DEF Pr!Record, Pr!reading, Pr!gating
<1>2. DOMAIN scanned \subseteq DOMAIN scanned' BY DEF Pr!Record
<1>3. PICK p : p = proposer[c] OBVIOUS
<1>4. p.at = "record" /\ Shaped(p) /\ p.row \in DOMAIN rows /\ rows[p.row].item = p.item
  BY <1>1, <1>3 DEF PrInv, PlacesInv, Written
<1>5. PICK q : q = [p EXCEPT !.at = "enqueue"] OBVIOUS
<1>6. q = [at |-> "enqueue", item |-> p.item, row |-> p.row, verdict |-> p.verdict, status |-> p.status]
  BY <1>4, <1>5 DEF Shaped
<1>7. q.at = "enqueue" /\ q.item = p.item /\ q.row = p.row /\ Shaped(q) BY <1>6 DEF Shaped
<1>8. proposer' = [proposer EXCEPT ![c] = q] BY <1>3, <1>5 DEF Pr!Record, Pr!Goes
<1>9. proposer = [d \in Pr!Callers |-> proposer[d]] BY DEF PrInv, PrType
<1>10. /\ proposer' = [d \in Pr!Callers |-> proposer'[d]] /\ proposer'[c] = q
       /\ \A d \in Pr!Callers : d # c => proposer'[d] = proposer[d]
  BY <1>8, <1>9
<1>11. PrType' BY <1>1, <1>10
     DEF PrInv, PrType, Item, PrRow, PrWorker, Pr!Rest, Pr!Callers, Pr!Posters
<1>. QED BY <1>1, <1>2, <1>4, <1>7, <1>10, <1>11, PrKept

LEMMA EnqueueStep == ASSUME PrInv, NEW c \in Pr!Callers, Pr!EnqueuePost(c) PROVE PrInv'
<1>1. /\ UNCHANGED <<received, ext, verified, failed, extractJobs, extractor, rows, scanned,
                     poster, billed>>
      /\ proposer[c].at = "enqueue" /\ proposer' = [proposer EXCEPT ![c] = Pr!Rest]
      /\ mapJobs' \in {mapJobs, mapJobs \ {proposer[c].item}}
  BY DEF Pr!EnqueuePost, Pr!reading, Pr!Goes
<1>2. \E n \in DOMAIN rows : rows[n].item = proposer[c].item
  BY <1>1 DEF PrInv, PlacesInv, Written
<1>3. \A i \in mapJobs : i \in mapJobs' \/ \E n \in DOMAIN rows : rows[n].item = i BY <1>1, <1>2
<1>4. proposer = [d \in Pr!Callers |-> proposer[d]] BY DEF PrInv, PrType
<1>5. /\ proposer' = [d \in Pr!Callers |-> proposer'[d]] /\ proposer'[c].at = "idle"
      /\ \A d \in Pr!Callers : d # c => proposer'[d] = proposer[d]
  BY <1>1, <1>4 DEF Pr!Rest
<1>6. PrType' BY <1>1, <1>5
     DEF PrInv, PrType, Item, PrRow, PrWorker, Pr!Rest, Pr!Callers, Pr!Posters
<1>. QED BY <1>1, <1>3, <1>5, <1>6, PrKept

(* The gate, the bill, the mark. *)
LEMMA BeginPostStep ==
  ASSUME PrInv, NEW x \in Pr!Posters, NEW n \in DOMAIN rows, Pr!BeginPost(x, n)
  PROVE  PrInv'
<1>1. UNCHANGED <<received, ext, verified, failed, extractJobs, mapJobs, extractor, rows, scanned,
                  proposer, billed>>
  BY DEF Pr!BeginPost, Pr!reading, Pr!proposing
<1>2. PICK s : s = [at |-> "bill", row |-> n] OBVIOUS
<1>3. poster' = poster \/ (poster' = [poster EXCEPT ![x] = s] /\ Proven(n))
  BY <1>2 DEF Pr!BeginPost, Pr!Open, Proven
<1>4. poster = [y \in Pr!Posters |-> poster[y]] BY DEF PrInv, PrType
<1>5. /\ poster' = [y \in Pr!Posters |-> poster'[y]]
      /\ poster'[x] = poster[x] \/ (poster'[x] = s /\ Proven(n))
      /\ \A y \in Pr!Posters : y # x => poster'[y] = poster[y]
  BY <1>3, <1>4
<1>6. s.row = n BY <1>2
<1>7. PrType' BY <1>1, <1>5
     DEF PrInv, PrType, Item, PrRow, PrWorker, Pr!Rest, Pr!Callers, Pr!Posters
<1>. QED BY <1>1, <1>5, <1>6, <1>7, PrKept

LEMMA BillStep == ASSUME PrInv, NEW x \in Pr!Posters, Pr!Bill(x) PROVE PrInv'
<1>1. UNCHANGED <<received, ext, verified, failed, extractJobs, mapJobs, extractor, rows, scanned,
                  proposer>>
  BY DEF Pr!Bill, Pr!reading, Pr!proposing
<1>2. PICK n : n = poster[x].row OBVIOUS
<1>3. n \in DOMAIN rows /\ Proven(n) BY <1>2 DEF Pr!Bill, PrInv, ProofInv
<1>4. PICK s : s = [at |-> "mark", row |-> n] OBVIOUS
<1>5. s.row = n /\ Pr!Rest.at = "idle" BY <1>4 DEF Pr!Rest
<1>6. /\ billed' = billed \cup {rows[n].item}
      /\ poster' = [poster EXCEPT ![x] = Pr!Rest] \/ poster' = [poster EXCEPT ![x] = s]
  BY <1>2, <1>4 DEF Pr!Bill
<1>7. poster = [y \in Pr!Posters |-> poster[y]] BY DEF PrInv, PrType
<1>8. /\ poster' = [y \in Pr!Posters |-> poster'[y]]
      /\ poster'[x].at = "idle" \/ poster'[x].row = n
      /\ \A y \in Pr!Posters : y # x => poster'[y] = poster[y]
  BY <1>5, <1>6, <1>7
<1>9. PrType' BY <1>1, <1>8
     DEF PrInv, PrType, Item, PrRow, PrWorker, Pr!Rest, Pr!Callers, Pr!Posters
<1>10. \A i \in billed' : i \in billed \/ \E m \in DOMAIN rows : rows[m].item = i /\ Proven(m)
  BY <1>3, <1>6
<1>. QED BY <1>1, <1>3, <1>8, <1>9, <1>10, PrKept

LEMMA DecideSteps ==
  ASSUME PrInv, \/ \E x \in Pr!Posters : Pr!MarkPosted(x)
                \/ \E n \in DOMAIN rows : Pr!Reject(n)
  PROVE  PrInv'
<1>1. UNCHANGED <<received, ext, verified, failed, extractJobs, mapJobs, extractor, scanned,
                  proposer, billed>>
  BY DEF Pr!MarkPosted, Pr!Reject, Pr!reading, Pr!gating
<1>2. rows \in Seq(PrRow) /\ poster = [y \in Pr!Posters |-> poster[y]] BY DEF PrInv, PrType
<1>3. PICK n \in DOMAIN rows, s \in {"posted", "rejected"} : rows' = [rows EXCEPT ![n].status = s]
  BY DEF Pr!MarkPosted, Pr!Reject, PrInv, ProofInv
<1>4. /\ rows' \in Seq(PrRow) /\ DOMAIN rows' = DOMAIN rows
      /\ \A m \in DOMAIN rows : rows'[m].item = rows[m].item
  BY <1>2, <1>3, StatusSet
<1>5. poster' = poster \/ \E x \in Pr!Posters : poster' = [poster EXCEPT ![x] = Pr!Rest]
  BY DEF Pr!MarkPosted, Pr!Reject, Pr!gating
<1>6. /\ poster' = [y \in Pr!Posters |-> poster'[y]]
      /\ \A y \in Pr!Posters : poster'[y] = poster[y] \/ poster'[y].at = "idle"
  BY <1>2, <1>5 DEF Pr!Rest
<1>7. PrType' BY <1>1, <1>4, <1>6
     DEF PrInv, PrType, Item, PrRow, PrWorker, Pr!Rest, Pr!Callers, Pr!Posters
<1>. QED BY <1>1, <1>4, <1>6, <1>7, PrKept

LEMMA OfficeSteps == ASSUME PrInv, Pr!SetAutomation \/ Pr!Dies PROVE PrInv'
<1>1. UNCHANGED <<received, ext, verified, failed, extractJobs, mapJobs, rows, scanned, billed>>
  BY DEF Pr!SetAutomation, Pr!Dies, Pr!reading, Pr!proposing
<1>2. \/ UNCHANGED <<extractor, proposer, poster>>
      \/ /\ extractor' = Pr!Rest /\ proposer' = [c \in Pr!Callers |-> Pr!Rest]
         /\ poster' = [x \in Pr!Posters |-> Pr!Rest]
  BY DEF Pr!SetAutomation, Pr!Dies, Pr!reading, Pr!proposing
<1>3. /\ proposer = [d \in Pr!Callers |-> proposer[d]] /\ poster = [y \in Pr!Posters |-> poster[y]]
      /\ extractor = Pr!Rest \/ extractor \in PrWorker
  BY DEF PrInv, PrType
<1>4. /\ proposer' = [d \in Pr!Callers |-> proposer'[d]] /\ poster' = [y \in Pr!Posters |-> poster'[y]]
      /\ \A d \in Pr!Callers : proposer'[d] = proposer[d] \/ proposer'[d].at = "idle"
      /\ \A y \in Pr!Posters : poster'[y] = poster[y] \/ poster'[y].at = "idle"
      /\ extractor' = extractor \/ extractor'.at = "idle"
      /\ extractor' = Pr!Rest \/ extractor' \in PrWorker
  BY <1>2, <1>3 DEF Pr!Rest
<1>5. PrType' BY <1>1, <1>4
     DEF PrInv, PrType, Item, PrRow, PrWorker, Pr!Rest, Pr!Callers, Pr!Posters
<1>. QED BY <1>1, <1>4, <1>5, PrKept

LEMMA PrStep == ASSUME ReadingsNamed, PrInv, Pr!Next PROVE PrInv'
<1>1. CASE \E i \in Item : \/ Pr!ReadFails(i) \/ Pr!Remap(i)
                          \/ \E r \in Readings : Pr!Read(i, r)
  BY <1>1, ReadSteps
<1>2. CASE Pr!Verify \/ Pr!VerifyFails \/ Pr!EnqueueMap \/ Pr!Complete BY <1>2, WorkSteps
<1>3. CASE \E c \in Pr!Callers : \/ \E i \in Item : Pr!BeginPropose(c, i)
                                \/ \E v \in {"clean", "high", "critical"} : Pr!Scan(c, v)
                                \/ Pr!ScanFails(c)
  BY <1>3, BeginSteps
<1>4. CASE \E c \in Pr!Callers : Pr!Write(c) \/ Pr!Record(c) \/ Pr!EnqueuePost(c)
  BY <1>4, WriteStep, RecordStep, EnqueueStep
<1>5. CASE \E x \in Pr!Posters : (\E n \in DOMAIN rows : Pr!BeginPost(x, n)) \/ Pr!Bill(x)
  BY <1>5, BeginPostStep, BillStep
<1>6. CASE (\E x \in Pr!Posters : Pr!MarkPosted(x)) \/ \E n \in DOMAIN rows : Pr!Reject(n)
  BY <1>6, DecideSteps
<1>7. CASE Pr!SetAutomation \/ Pr!Dies BY <1>7, OfficeSteps
<1>8. Pr!Items = Item BY DEF Pr!Items, Item
<1>. QED BY <1>1, <1>2, <1>3, <1>4, <1>5, <1>6, <1>7, <1>8 DEF Pr!Next

(* Where a document is and who has its proofs holds in every state. *)
LEMMA ProposalsInvariant == ASSUME ReadingsNamed PROVE Spec => []PrInv
<1>1. Init => PrInv BY PrInit DEF Init
<1>2. PrInv /\ [Next]_vars => PrInv'
  <2>1. ASSUME PrInv, Pr!Next PROVE PrInv' BY <2>1, PrStep
  <2>2. ASSUME PrInv, UNCHANGED prVars PROVE PrInv' BY <2>2, PrSame
  <2>3. [Next]_vars => Pr!Next \/ UNCHANGED prVars BY DEF Next, vars
  <2>. QED BY <2>1, <2>2, <2>3
<1>. QED BY <1>1, <1>2, PTL DEF Spec

(* Every proposal ends where its proofs allow: a bill has the proof of its verification   *)
(* and of its scan on record, and no document vanishes where a worker dies                *)
(* (posting.ts:103-110, extract.ts:270-287, mapping.ts:284-290).                          *)
THEOREM ProposalsStay == ASSUME ReadingsNamed PROVE Spec => []ProposalsHold
<1>1. PrInv => ProposalsHold BY PrHolds DEF ProposalsHold
<1>. QED BY <1>1, ProposalsInvariant, PTL
-----------------------------------------------------------------------------
(* Mappings: tax codes and the dimension of a proposal. *)

TaxRow == [of : Companies, code : Codes, active : BOOLEAN, stale : BOOLEAN, by : Nat]
Pairs == Companies \X Codes
Words == {"on", "off", "late"}

(* A code of a company has at most one active row, and one that is neither off nor stale *)
(* was let by what was said of the code last.                                            *)
OneEach(t) ==
  \A m, n \in DOMAIN t :
    t[m].active /\ t[n].active /\ t[m].of = t[n].of /\ t[m].code = t[n].code => m = n
Backed(t, w) ==
  \A n \in DOMAIN t : t[n].active /\ ~t[n].stale => w[<<t[n].of, t[n].code>>] # "off"

TaxInv ==
  /\ company \in Companies /\ tax \in Seq(TaxRow) /\ check \in 0..Len(tax)
  /\ outdated \in BOOLEAN /\ word \in [Pairs -> Words]
  /\ \A n \in DOMAIN tax : tax[n].by <= Len(tax)
  /\ OneEach(tax) /\ Backed(tax, word)

DimRow == [of : Companies, state : {"mapped", "not_mapped", "unsupported_by_provider",
                                    "intentionally_blank"},
           id : Ids \cup {"none"}, offered : Ids \cup {"none"}, value : {"raw", "corrected"},
           review : {"accepted", "held", "pending", "rejected", "corrected"}]
Verdicts == {"none", "accepted", "corrected", "rejected", "held"}
Ways == {"second row", "late answer"}
Asked == [at : {"asked"}, row : Nat, id : Ids, over : BOOLEAN]

(* While nothing crossed a decision the proposal has at most one row, which says what the *)
(* person decided last when that was a refusal.                                           *)
OneRow ==
  /\ Len(dims) <= 1
  /\ \A x \in Proposers : writer[x].at = "insert" => dims = <<>>
  /\ \A x, y \in Proposers : writer[x].at = "insert" /\ writer[y].at = "insert" => x = y
  /\ verdict \in Mp!Refusals =>
       dims # <<>> /\ \A n \in DOMAIN dims : dims[n].review = verdict

DimInv ==
  /\ oldest \in Companies /\ dims \in Seq(DimRow)
  /\ guess \in Mp!Dimensions \cup {Mp!NoGuess}
  /\ writer = [x \in Proposers |-> writer[x]]
  /\ \A x \in Proposers : writer[x].at \in {"find", "insert"} => writer[x].dim \in Mp!Dimensions
  /\ choice \in {Mp!Idle} \cup Asked /\ (choice # Mp!Idle => choice.row \in DOMAIN dims)
  /\ verdict \in Verdicts /\ crossed \subseteq Ways
  /\ crossed = {} => OneRow

(* What a run has read of the draft, and what the gates let it write. *)
Drafted == {d \in Mp!Dimensions : d.state \in {"mapped", "intentionally_blank"}}
Reading == [at : {"tax", "dimension"}, of : Companies, draft : Drafted,
            code : Codes \cup {"none"}, said : {"on", "late"}]
Passed ==
  {b \in [of : Companies, id : Ids \cup {"none"}, said : {"on", "late"}, verdict : Verdicts,
          crossed : SUBSET Ways, reviewed : SUBSET (Ids \cup {"none"}), home : SUBSET Companies] :
     b.id # "none" /\ b.verdict \in Mp!Refusals => b.crossed # {}}

RunInv ==
  /\ \/ run = Mp!Idle \/ run \in Reading
     \/ \E b \in Passed : run = [at |-> "create", bill |-> b]
  /\ Mp!MappingsHold

MpInv == TaxInv /\ DimInv /\ RunInv

LEMMA MpInit == ASSUME Mp!Init PROVE MpInv
<1>1. TaxInv
  <2>1. /\ tax = <<>> /\ check = 0 /\ outdated = FALSE /\ company \in Companies
        /\ word = [x \in Pairs |-> "off"]
    BY DEF Mp!Init, Pairs
  <2>2. word \in [Pairs -> Words] BY <2>1 DEF Words
  <2>3. tax \in Seq(TaxRow) /\ Len(tax) = 0 /\ DOMAIN tax = {} BY <2>1
  <2>4. OneEach(tax) /\ Backed(tax, word) BY <2>3 DEF OneEach, Backed
  <2>5. outdated \in BOOLEAN BY <2>1
  <2>6. check \in 0..Len(tax) /\ \A n \in DOMAIN tax : tax[n].by <= Len(tax) BY <2>1, <2>3
  <2>. QED BY <2>1, <2>2, <2>3, <2>4, <2>5, <2>6 DEF TaxInv
<1>2. DimInv
  <2>1. /\ dims = <<>> /\ writer = [x \in Proposers |-> Mp!Idle] /\ choice = Mp!Idle
        /\ guess = Mp!NoGuess /\ oldest \in Companies /\ verdict = "none" /\ crossed = {}
    BY DEF Mp!Init
  <2>2. Mp!Idle.at = "idle" BY DEF Mp!Idle
  <2>. QED BY <2>1, <2>2 DEF DimInv, OneRow, Mp!Refusals, Verdicts
<1>3. RunInv
  BY DEF Mp!Init, RunInv, Mp!MappingsHold, Mp!RejectionHolds, Mp!TaxStands
<1>. QED BY <1>1, <1>2, <1>3 DEF MpInv

LEMMA TaxKept == ASSUME TaxInv, UNCHANGED <<company, tax, check, word, outdated>> PROVE TaxInv'
BY DEF TaxInv, TaxRow, OneEach, Backed, Pairs, Words

LEMMA DimKept == ASSUME DimInv, UNCHANGED <<oldest, Mp!dimension>> PROVE DimInv'
BY DEF DimInv, OneRow, Mp!dimension, DimRow, Mp!Dimensions, Mp!NoGuess, Mp!Idle, Asked, Verdicts,
       Ways, Mp!Refusals

LEMMA RunKept == ASSUME RunInv, UNCHANGED <<run, bill>> PROVE RunInv'
BY DEF RunInv, Reading, Passed, Drafted, Mp!Dimensions, Verdicts, Ways, Mp!Refusals, Mp!Idle,
       Mp!MappingsHold, Mp!RejectionHolds, Mp!TaxStands

LEMMA SeqChanged ==
  ASSUME NEW S, NEW s \in Seq(S), NEW n \in DOMAIN s, NEW r \in S
  PROVE  /\ [s EXCEPT ![n] = r] \in Seq(S) /\ Len([s EXCEPT ![n] = r]) = Len(s)
         /\ [s EXCEPT ![n] = r][n] = r
         /\ \A m \in DOMAIN s : m # n => [s EXCEPT ![n] = r][m] = s[m]
OBVIOUS

(* A row of a code is switched, and one is added where no active one is. *)
Switched(t, w, u, v, n, r) ==
  /\ u = [t EXCEPT ![n] = r] /\ r.of = t[n].of /\ r.code = t[n].code
  /\ \A p \in Pairs : p # <<r.of, r.code>> => v[p] = w[p]
  /\ r.active \/ (v[<<r.of, r.code>>] = "off" /\ w[<<r.of, r.code>>] # "off") =>
       \A m \in DOMAIN t : t[m].of = r.of /\ t[m].code = r.code /\ t[m].active => m = n
  /\ r.active /\ ~r.stale => v[<<r.of, r.code>>] # "off"

LEMMA RowSwitched ==
  ASSUME NEW t \in Seq(TaxRow), NEW w, NEW u, NEW v, NEW n \in DOMAIN t, NEW r \in TaxRow,
         OneEach(t), Backed(t, w), Switched(t, w, u, v, n, r)
  PROVE  OneEach(u) /\ Backed(u, v)
<1>1. /\ u \in Seq(TaxRow) /\ DOMAIN u = DOMAIN t /\ u[n] = r
      /\ \A m \in DOMAIN t : m # n => u[m] = t[m]
  BY SeqChanged DEF Switched
<1>2. \A m \in DOMAIN t : \/ t[m].of = r.of /\ t[m].code = r.code
                         \/ v[<<t[m].of, t[m].code>>] = w[<<t[m].of, t[m].code>>]
  <2>. SUFFICES ASSUME NEW m \in DOMAIN t, ~(t[m].of = r.of /\ t[m].code = r.code)
                PROVE  v[<<t[m].of, t[m].code>>] = w[<<t[m].of, t[m].code>>]
    OBVIOUS
  <2>1. t[m] \in TaxRow OBVIOUS
  <2>2. <<t[m].of, t[m].code>> \in Pairs BY <2>1 DEF TaxRow, Pairs
  <2>3. <<t[m].of, t[m].code>> # <<r.of, r.code>> OBVIOUS
  <2>. QED BY <2>2, <2>3 DEF Switched
<1>3. OneEach(u)
  <2>1. r.active => \A m \in DOMAIN t :
          t[m].of = r.of /\ t[m].code = r.code /\ t[m].active => m = n
    BY DEF Switched
  <2>. SUFFICES ASSUME NEW m \in DOMAIN t, NEW k \in DOMAIN t, u[m].active, u[k].active,
                       u[m].of = u[k].of, u[m].code = u[k].code
                PROVE  m = k
    BY <1>1 DEF OneEach
  <2>2. CASE m = n \/ k = n BY <1>1, <2>1, <2>2
  <2>3. CASE m # n /\ k # n BY <1>1, <2>3 DEF OneEach
  <2>. QED BY <2>2, <2>3
<1>4. Backed(u, v)
  <2>. SUFFICES ASSUME NEW m \in DOMAIN t, u[m].active, ~u[m].stale
                PROVE  v[<<u[m].of, u[m].code>>] # "off"
    BY <1>1 DEF Backed
  <2>1. CASE m = n BY <1>1, <2>1 DEF Switched
  <2>2. CASE m # n
    <3>1. u[m] = t[m] /\ w[<<t[m].of, t[m].code>>] # "off" BY <1>1, <2>2 DEF Backed
    <3>2. CASE t[m].of = r.of /\ t[m].code = r.code BY <1>1, <2>2, <3>1, <3>2 DEF Switched
    <3>. QED BY <1>2, <3>1, <3>2
  <2>. QED BY <2>1, <2>2
<1>. QED BY <1>3, <1>4

LEMMA RowAdded ==
  ASSUME NEW t \in Seq(TaxRow), OneEach(t), NEW w, Backed(t, w), NEW v, NEW s \in TaxRow,
         \A p \in Pairs : p # <<s.of, s.code>> => v[p] = w[p],
         \A m \in DOMAIN t : ~(t[m].of = s.of /\ t[m].code = s.code /\ t[m].active),
         ~s.stale => v[<<s.of, s.code>>] # "off"
  PROVE  OneEach(Append(t, s)) /\ Backed(Append(t, s), v)
<1>1. PICK u : u = Append(t, s) OBVIOUS
<1>2. /\ DOMAIN u = DOMAIN t \cup {Len(t) + 1} /\ Len(t) + 1 \notin DOMAIN t
      /\ u[Len(t) + 1] = s /\ \A m \in DOMAIN t : u[m] = t[m]
  BY <1>1
<1>3. OneEach(u)
  <2>. SUFFICES ASSUME NEW m \in DOMAIN u, NEW k \in DOMAIN u, u[m].active, u[k].active,
                       u[m].of = u[k].of, u[m].code = u[k].code
                PROVE  m = k
    BY DEF OneEach
  <2>1. CASE m \in DOMAIN t /\ k \in DOMAIN t BY <1>2, <2>1 DEF OneEach
  <2>. QED BY <1>2, <2>1
<1>4. Backed(u, v)
  <2>. SUFFICES ASSUME NEW m \in DOMAIN t, t[m].active, ~t[m].stale
                PROVE  v[<<t[m].of, t[m].code>>] # "off"
    BY <1>2 DEF Backed
  <2>1. t[m] \in TaxRow OBVIOUS
  <2>2. <<t[m].of, t[m].code>> \in Pairs BY <2>1 DEF TaxRow, Pairs
  <2>3. <<t[m].of, t[m].code>> # <<s.of, s.code>> OBVIOUS
  <2>. QED BY <2>2, <2>3 DEF Backed
<1>. QED BY <1>1, <1>3, <1>4

(* What is said of a code is said of no other. *)
LEMMA WordSaid ==
  ASSUME NEW w \in [Pairs -> Words], NEW p \in Pairs, NEW x \in Words
  PROVE  /\ [w EXCEPT ![p] = x] \in [Pairs -> Words] /\ [w EXCEPT ![p] = x][p] = x
         /\ \A q \in Pairs : q # p => [w EXCEPT ![p] = x][q] = w[q]
OBVIOUS

LEMMA NewTaxIs ==
  ASSUME NEW of \in Companies, NEW code \in Codes, NEW stale \in BOOLEAN
  PROVE  /\ Mp!NewTax(of, code, stale) \in TaxRow
         /\ Mp!NewTax(of, code, stale).of = of /\ Mp!NewTax(of, code, stale).code = code
         /\ Mp!NewTax(of, code, stale).stale = stale /\ Mp!NewTax(of, code, stale).by = 0
BY DEF Mp!NewTax, TaxRow

(* One row changes to r, and what is said of its code to x. *)
LEMMA TaxChanged ==
  ASSUME TaxInv, UNCHANGED company, NEW n \in DOMAIN tax, NEW r \in TaxRow,
         r.of = tax[n].of, r.code = tax[n].code, r.by = tax[n].by,
         tax' = [tax EXCEPT ![n] = r], check' \in {check, 0}, outdated' \in BOOLEAN,
         NEW x \in Words, word' = [word EXCEPT ![<<tax[n].of, tax[n].code>>] = x],
         r.active \/ (x = "off" /\ word[<<tax[n].of, tax[n].code>>] # "off") =>
           \A m \in DOMAIN tax :
             tax[m].of = tax[n].of /\ tax[m].code = tax[n].code /\ tax[m].active => m = n,
         r.active /\ ~r.stale => x # "off"
  PROVE  TaxInv'
<1>1. tax \in Seq(TaxRow) /\ OneEach(tax) /\ Backed(tax, word) /\ word \in [Pairs -> Words]
  BY DEF TaxInv
<1>2. tax[n] \in TaxRow BY <1>1
<1>3. <<tax[n].of, tax[n].code>> \in Pairs BY <1>2 DEF TaxRow, Pairs
<1>4. PICK p \in Pairs : p = <<tax[n].of, tax[n].code>> BY <1>3
<1>5. /\ word' \in [Pairs -> Words] /\ word'[p] = x /\ \A q \in Pairs : q # p => word'[q] = word[q]
  BY <1>1, <1>4, WordSaid
<1>6. PICK t, u, w, v : t = tax /\ u = tax' /\ w = word /\ v = word' OBVIOUS
<1>7. OneEach(u) /\ Backed(u, v)
  <2>1. p = <<r.of, r.code>> BY <1>4
  <2>2. \A q \in Pairs : q # <<r.of, r.code>> => v[q] = w[q] BY <1>5, <1>6, <2>1
  <2>3. v[<<r.of, r.code>>] = x BY <1>5, <1>6, <2>1
  <2>4. r.active \/ (v[<<r.of, r.code>>] = "off" /\ w[<<r.of, r.code>>] # "off") =>
          \A m \in DOMAIN t : t[m].of = r.of /\ t[m].code = r.code /\ t[m].active => m = n
    BY <1>6, <2>3
  <2>5. r.active /\ ~r.stale => v[<<r.of, r.code>>] # "off" BY <2>3
  <2>6. t \in Seq(TaxRow) /\ OneEach(t) /\ Backed(t, w) /\ n \in DOMAIN t BY <1>1, <1>6
  <2>7. u = [t EXCEPT ![n] = r] /\ r.of = t[n].of /\ r.code = t[n].code BY <1>6
  <2>8. Switched(t, w, u, v, n, r) BY <2>2, <2>4, <2>5, <2>7 DEF Switched
  <2>. QED BY <2>6, <2>8, RowSwitched
<1>8. OneEach(tax)' /\ Backed(tax, word)' BY <1>6, <1>7 DEF OneEach, Backed
<1>9. /\ tax' \in Seq(TaxRow) /\ Len(tax') = Len(tax) /\ DOMAIN tax' = DOMAIN tax
      /\ tax'[n] = r /\ \A m \in DOMAIN tax : m # n => tax'[m] = tax[m]
  BY <1>1, SeqChanged
<1>10. \A m \in DOMAIN tax' : tax'[m].by <= Len(tax') BY <1>9 DEF TaxInv
<1>11. check' \in 0..Len(tax') /\ company' \in Companies BY <1>9 DEF TaxInv
<1>12. TaxRow' = TaxRow /\ Pairs' = Pairs /\ Words' = Words BY DEF TaxRow, Pairs, Words
<1>. QED BY <1>5, <1>8, <1>9, <1>10, <1>11, <1>12 DEF TaxInv

(* A row is added behind t, which is the table with one row changed at most. *)
Grown(t, s) ==
  /\ OneEach(t) /\ Len(t) = Len(tax) /\ \A n \in DOMAIN t : t[n].by <= Len(tax) + 1
  /\ s.by = 0 /\ \A m \in DOMAIN t : ~(t[m].of = s.of /\ t[m].code = s.code /\ t[m].active)

LEMMA TaxAdded ==
  ASSUME TaxInv, UNCHANGED <<company, check>>, outdated' \in BOOLEAN,
         NEW t \in Seq(TaxRow), NEW s \in TaxRow, tax' = Append(t, s), Grown(t, s),
         NEW w \in [Pairs -> Words], Backed(t, w), NEW x \in Words,
         word' = [w EXCEPT ![<<s.of, s.code>>] = x], ~s.stale => x # "off"
  PROVE  TaxInv'
<1>1. PICK p \in Pairs : p = <<s.of, s.code>> BY DEF TaxRow, Pairs
<1>2. PICK v : v = word' OBVIOUS
<1>3. /\ v \in [Pairs -> Words] /\ v[p] = x /\ \A q \in Pairs : q # p => v[q] = w[q]
  BY <1>1, <1>2, WordSaid
<1>4. OneEach(Append(t, s)) /\ Backed(Append(t, s), v) BY <1>1, <1>3, RowAdded DEF Grown
<1>5. OneEach(tax)' /\ Backed(tax, word)' BY <1>2, <1>4 DEF OneEach, Backed
<1>6. /\ tax' \in Seq(TaxRow) /\ Len(tax') = Len(tax) + 1
      /\ \A m \in DOMAIN tax' : tax'[m] = s \/ (m \in DOMAIN t /\ tax'[m] = t[m])
  BY DEF Grown
<1>7. Len(tax) \in Nat /\ check \in 0..Len(tax) BY DEF TaxInv
<1>8. \A m \in DOMAIN tax' : tax'[m].by <= Len(tax')
  <2>. SUFFICES ASSUME NEW m \in DOMAIN tax' PROVE tax'[m].by <= Len(tax') OBVIOUS
  <2>1. CASE tax'[m] = s
    <3>1. tax'[m].by = 0 BY <2>1 DEF Grown
    <3>. QED BY <1>6, <1>7, <3>1
  <2>2. CASE m \in DOMAIN t /\ tax'[m] = t[m]
    <3>1. tax'[m].by = t[m].by BY <2>2
    <3>. QED BY <1>6, <2>2, <3>1 DEF Grown
  <2>. QED BY <1>6, <2>1, <2>2
<1>9. check' \in 0..Len(tax') /\ company' \in Companies /\ outdated' \in BOOLEAN
  BY <1>6, <1>7 DEF TaxInv
<1>10. TaxRow' = TaxRow /\ Pairs' = Pairs /\ Words' = Words BY DEF TaxRow, Pairs, Words
<1>. QED BY <1>2, <1>3, <1>5, <1>6, <1>8, <1>9, <1>10 DEF TaxInv

TaxStep ==
  \/ \E c \in Companies, k \in Codes : Mp!CreateTax(c, k)
  \/ \E n \in DOMAIN tax : \/ Mp!EditTax(n) \/ Mp!DisableTax(n) \/ Mp!BeginCheck(n)
                           \/ \E k \in Codes : Mp!ReplaceTax(n, k)
  \/ \E valid \in BOOLEAN : Mp!EndCheck(valid)

LEMMA TaxSteps == ASSUME TaxInv, TaxStep PROVE TaxInv'
<1>0. /\ tax \in Seq(TaxRow) /\ word \in [Pairs -> Words] /\ OneEach(tax) /\ Backed(tax, word)
      /\ \A n \in DOMAIN tax : tax[n] \in TaxRow /\ tax[n].by <= Len(tax)
      /\ check \in 0..Len(tax) /\ outdated \in BOOLEAN
  BY DEF TaxInv
<1>1. ASSUME NEW n \in DOMAIN tax, Mp!EditTax(n) \/ Mp!DisableTax(n) PROVE TaxInv'
  <2>1. PICK a \in BOOLEAN : a = IF Mp!EditTax(n) THEN tax[n].active ELSE FALSE BY <1>0 DEF TaxRow
  <2>2. PICK b \in Nat : b = tax[n].by BY <1>0 DEF TaxRow
  <2>3. PICK r : r = [tax[n] EXCEPT !.active = a, !.stale = TRUE, !.by = b] OBVIOUS
  <2>4. /\ r \in TaxRow /\ r.of = tax[n].of /\ r.code = tax[n].code
        /\ r.active = a /\ r.stale = TRUE /\ r.by = tax[n].by
    <3>1. tax[n] \in TaxRow BY <1>0
    <3>. QED BY <2>1, <2>2, <2>3, <3>1 DEF TaxRow
  <2>5. tax' = [tax EXCEPT ![n] = r]
    <3>1. tax[n] = [of |-> tax[n].of, code |-> tax[n].code, active |-> tax[n].active,
                    stale |-> tax[n].stale, by |-> tax[n].by]
      BY <1>0 DEF TaxRow
    <3>2. CASE Mp!EditTax(n)
      <4>1. r = [tax[n] EXCEPT !.stale = TRUE] BY <2>1, <2>2, <2>3, <3>1, <3>2
      <4>. QED BY <1>0, <3>2, <4>1 DEF Mp!EditTax
    <3>3. CASE ~Mp!EditTax(n)
      <4>1. r = [tax[n] EXCEPT !.active = FALSE, !.stale = TRUE] BY <2>1, <2>2, <2>3, <3>1, <3>3
      <4>. QED BY <1>0, <1>1, <3>3, <4>1 DEF Mp!DisableTax
    <3>. QED BY <3>2, <3>3
  <2>6. /\ tax[n].active /\ UNCHANGED <<company, check>> /\ outdated' \in BOOLEAN
        /\ word' = [word EXCEPT ![<<tax[n].of, tax[n].code>>] = "off"]
    BY <1>0, <1>1 DEF Mp!EditTax, Mp!DisableTax, Mp!Changed, Mp!Says
  <2>7. "off" \in Words BY DEF Words
  <2>8. \A m \in DOMAIN tax :
          tax[m].of = tax[n].of /\ tax[m].code = tax[n].code /\ tax[m].active => m = n
    BY <1>0, <2>6 DEF OneEach
  <2>. QED BY <2>4, <2>5, <2>6, <2>7, <2>8, TaxChanged
<1>2. ASSUME NEW c \in Companies, NEW k \in Codes, Mp!CreateTax(c, k) PROVE TaxInv'
  <2>1. PICK s \in TaxRow : s = Mp!NewTax(c, k, FALSE) BY NewTaxIs
  <2>2. s.of = c /\ s.code = k /\ s.by = 0 BY <2>1, NewTaxIs
  <2>3. /\ tax' = Append(tax, s) /\ UNCHANGED <<company, check, outdated>>
        /\ word' = [word EXCEPT ![<<s.of, s.code>>] = "on"]
        /\ \A m \in DOMAIN tax : ~(tax[m].of = s.of /\ tax[m].code = s.code /\ tax[m].active)
    BY <1>2, <2>1, <2>2 DEF Mp!CreateTax, Mp!Says, Mp!Active
  <2>4. PICK x \in Words : x = "on" BY DEF Words
  <2>5. \A m \in DOMAIN tax : tax[m].by <= Len(tax) + 1
    <3>. SUFFICES ASSUME NEW m \in DOMAIN tax PROVE tax[m].by <= Len(tax) + 1 OBVIOUS
    <3>1. tax[m].by \in Nat /\ Len(tax) \in Nat BY <1>0 DEF TaxRow
    <3>. QED BY <1>0, <3>1
  <2>6. PICK t, w : t = tax /\ w = word OBVIOUS
  <2>7. t \in Seq(TaxRow) /\ w \in [Pairs -> Words] /\ Backed(t, w) BY <1>0, <2>6
  <2>8. Grown(t, s) BY <1>0, <2>2, <2>3, <2>5, <2>6 DEF Grown
  <2>9. tax' = Append(t, s) /\ word' = [w EXCEPT ![<<s.of, s.code>>] = x] BY <2>3, <2>4, <2>6
  <2>10. outdated' \in BOOLEAN BY <1>0, <2>3
  <2>11. UNCHANGED <<company, check>> /\ x # "off" BY <2>3, <2>4
  <2>. QED BY <2>1, <2>4, <2>7, <2>8, <2>9, <2>10, <2>11, TaxAdded
<1>3. ASSUME NEW n \in DOMAIN tax, NEW k \in Codes, Mp!ReplaceTax(n, k) PROVE TaxInv'
  <2>1. PICK b \in Nat : b = Len(tax) + 1 BY <1>0
  <2>2. PICK r : r = [tax[n] EXCEPT !.active = FALSE, !.stale = TRUE, !.by = b] OBVIOUS
  <2>3. /\ r \in TaxRow /\ r.of = tax[n].of /\ r.code = tax[n].code /\ ~r.active /\ r.by = b
    <3>1. tax[n] \in TaxRow BY <1>0
    <3>. QED BY <2>1, <2>2, <3>1 DEF TaxRow
  <2>4. PICK t : t = [tax EXCEPT ![n] = r] OBVIOUS
  <2>5. /\ t \in Seq(TaxRow) /\ Len(t) = Len(tax) /\ DOMAIN t = DOMAIN tax /\ t[n] = r
        /\ \A m \in DOMAIN tax : m # n => t[m] = tax[m]
    BY <1>0, <2>3, <2>4, SeqChanged
  <2>6. PICK o \in Companies : o = tax[n].of BY <1>0 DEF TaxRow
  <2>7. PICK s \in TaxRow : s = Mp!NewTax(o, k, TRUE) BY NewTaxIs
  <2>8. s.of = o /\ s.code = k /\ s.by = 0 /\ s.stale = TRUE BY <2>7, NewTaxIs
  <2>9. PICK p \in Pairs : p = <<tax[n].of, tax[n].code>> BY <1>0 DEF TaxRow, Pairs
  <2>10. PICK w : w = [word EXCEPT ![p] = "off"] OBVIOUS
  <2>11. "off" \in Words BY DEF Words
  <2>12. w \in [Pairs -> Words] /\ w[p] = "off" /\ \A q \in Pairs : q # p => w[q] = word[q]
    BY <1>0, <2>10, <2>11, WordSaid
  <2>13. tax[n].active /\ \A m \in DOMAIN tax :
           tax[m].of = tax[n].of /\ tax[m].code = tax[n].code /\ tax[m].active => m = n
    BY <1>0, <1>3 DEF Mp!ReplaceTax, Mp!Changed, OneEach
  <2>14. OneEach(t) /\ Backed(t, w)
    <3>1. PICK z, v : z = tax /\ v = word OBVIOUS
    <3>2. p = <<r.of, r.code>> BY <2>3, <2>9
    <3>3. \A q \in Pairs : q # <<r.of, r.code>> => w[q] = v[q] BY <2>12, <3>1, <3>2
    <3>4. \A m \in DOMAIN z : z[m].of = r.of /\ z[m].code = r.code /\ z[m].active => m = n
      BY <2>3, <2>13, <3>1
    <3>5. t = [z EXCEPT ![n] = r] /\ r.of = z[n].of /\ r.code = z[n].code BY <2>3, <2>4, <3>1
    <3>6. Switched(z, v, t, w, n, r) BY <2>3, <3>3, <3>4, <3>5 DEF Switched
    <3>7. z \in Seq(TaxRow) /\ n \in DOMAIN z /\ OneEach(z) /\ Backed(z, v) BY <1>0, <3>1
    <3>. QED BY <2>3, <3>6, <3>7, RowSwitched
  <2>15. [tax EXCEPT ![n].active = FALSE, ![n].stale = TRUE, ![n].by = Len(tax) + 1] = t
    BY <1>0, <2>1, <2>2, <2>4
  <2>16. tax' = Append(t, s) /\ UNCHANGED <<company, check>>
    BY <1>3, <2>6, <2>7, <2>15 DEF Mp!ReplaceTax, Mp!Changed
  <2>17. word' = [w EXCEPT ![<<s.of, s.code>>] = "off"]
    BY <1>3, <2>6, <2>8, <2>9, <2>10 DEF Mp!ReplaceTax
  <2>18. \A m \in DOMAIN t : ~(t[m].of = s.of /\ t[m].code = s.code /\ t[m].active)
    <3>1. \A m \in DOMAIN tax : tax[m].of = o /\ tax[m].code = k /\ tax[m].active => m = n
      BY <1>3, <2>6 DEF Mp!ReplaceTax, Mp!Active
    <3>. QED BY <2>3, <2>5, <2>8, <3>1
  <2>19. outdated' \in BOOLEAN BY <1>0, <1>3 DEF Mp!ReplaceTax, Mp!Changed
  <2>20. \A m \in DOMAIN t : t[m].by <= Len(tax) + 1
    <3>. SUFFICES ASSUME NEW m \in DOMAIN tax PROVE t[m].by <= Len(tax) + 1 BY <2>5
    <3>1. CASE m = n BY <2>1, <2>3, <2>5, <3>1
    <3>2. CASE m # n
      <4>1. t[m].by = tax[m].by /\ tax[m].by \in Nat /\ tax[m].by <= Len(tax) /\ Len(tax) \in Nat
        BY <1>0, <2>5, <3>2 DEF TaxRow
      <4>. QED BY <4>1
    <3>. QED BY <3>1, <3>2
  <2>21. Grown(t, s) BY <2>5, <2>8, <2>14, <2>18, <2>20 DEF Grown
  <2>. QED BY <2>5, <2>8, <2>11, <2>12, <2>14, <2>16, <2>17, <2>19, <2>21, TaxAdded
<1>4. ASSUME NEW n \in DOMAIN tax, Mp!BeginCheck(n) PROVE TaxInv'
  <2>1. check' = n /\ outdated' = FALSE /\ UNCHANGED <<company, tax, word>>
    BY <1>4 DEF Mp!BeginCheck
  <2>2. check' \in 0..Len(tax) BY <1>0, <2>1
  <2>. QED BY <2>1, <2>2 DEF TaxInv, TaxRow, Pairs, Words, OneEach, Backed
<1>5. ASSUME NEW valid \in BOOLEAN, Mp!EndCheck(valid) PROVE TaxInv'
  <2>1. PICK n \in DOMAIN tax : n = check BY <1>0, <1>5 DEF Mp!EndCheck
  <2>2. PICK s \in BOOLEAN, b \in Nat : s = ~valid /\ b = tax[n].by BY <1>0, <1>5 DEF TaxRow
  <2>3. PICK r : r = [tax[n] EXCEPT !.active = valid, !.stale = s, !.by = b] OBVIOUS
  <2>4. /\ r \in TaxRow /\ r.of = tax[n].of /\ r.code = tax[n].code
        /\ r.active = valid /\ r.stale = s /\ r.by = tax[n].by
    <3>1. tax[n] \in TaxRow BY <1>0
    <3>. QED BY <1>5, <2>2, <2>3, <3>1 DEF TaxRow
  <2>5. r = [tax[n] EXCEPT !.active = valid, !.stale = s]
    <3>1. tax[n] = [of |-> tax[n].of, code |-> tax[n].code, active |-> tax[n].active,
                    stale |-> tax[n].stale, by |-> tax[n].by]
      BY <1>0 DEF TaxRow
    <3>. QED BY <2>2, <2>3, <3>1
  <2>6. PICK others : others = Mp!Active(tax[n].of, tax[n].code) \ {n} OBVIOUS
  <2>7. PICK x \in Words : x = IF others # {} THEN word[<<tax[n].of, tax[n].code>>]
                           ELSE IF ~valid THEN "off" ELSE IF outdated THEN "late" ELSE "on"
    <3>1. <<tax[n].of, tax[n].code>> \in Pairs BY <1>0 DEF TaxRow, Pairs
    <3>. QED BY <1>0, <3>1 DEF Words
  <2>8. word' = [word EXCEPT ![<<tax[n].of, tax[n].code>>] = x]
    <3>1. CASE others # {}
      <4>1. word' = word BY <1>5, <2>1, <2>6, <3>1 DEF Mp!EndCheck
      <4>. QED BY <1>0, <2>7, <3>1, <4>1
    <3>2. CASE others = {}
      BY <1>5, <2>1, <2>6, <2>7, <3>2 DEF Mp!EndCheck, Mp!Says
    <3>. QED BY <3>1, <3>2
  <2>9. check' \in {check, 0} /\ outdated' \in BOOLEAN /\ UNCHANGED company
    BY <1>5 DEF Mp!EndCheck
  <2>10. CASE valid /\ others # {}
    <3>1. tax' = tax /\ word' = word
      BY <1>5, <2>1, <2>6, <2>10 DEF Mp!EndCheck
    <3>2. check' \in 0..Len(tax) BY <1>0, <2>9
    <3>. QED BY <2>9, <3>1, <3>2 DEF TaxInv, TaxRow, Pairs, Words, OneEach, Backed
  <2>11. CASE ~(valid /\ others # {})
    <3>1. tax' = [tax EXCEPT ![n] = r]
      BY <1>0, <1>5, <2>1, <2>2, <2>5, <2>6, <2>11 DEF Mp!EndCheck
    <3>2. r.active \/ (x = "off" /\ word[<<tax[n].of, tax[n].code>>] # "off") => others = {}
      BY <2>4, <2>7, <2>11
    <3>3. others = {} => \A m \in DOMAIN tax :
            tax[m].of = tax[n].of /\ tax[m].code = tax[n].code /\ tax[m].active => m = n
      BY <2>6 DEF Mp!Active
    <3>4. r.active /\ ~r.stale => x # "off" BY <2>4, <2>7, <2>11
    <3>. QED BY <2>4, <2>8, <2>9, <3>1, <3>2, <3>3, <3>4, TaxChanged
  <2>. QED BY <2>10, <2>11
<1>. QED BY <1>1, <1>2, <1>3, <1>4, <1>5 DEF TaxStep

(* The dimension's rows: a run of the propose job adds one where there is none, and the *)
(* person's decision is written where it is taken.                                      *)
LEMMA NewRowIs ==
  ASSUME oldest \in Companies, NEW d \in Mp!Dimensions PROVE Mp!RowOf(d) \in DimRow
<1>1. /\ d.state \in {"mapped", "not_mapped", "unsupported_by_provider", "intentionally_blank"}
      /\ d.id \in Ids \cup {"none"}
  BY DEF Mp!Dimensions
<1>2. PICK v : v = CASE d.state \in {"mapped", "intentionally_blank"} -> "accepted"
                     [] d.state = "unsupported_by_provider" -> "held"
                     [] OTHER -> "pending"
  OBVIOUS
<1>3. v \in {"accepted", "held", "pending"} BY <1>1, <1>2
<1>. QED BY <1>1, <1>2, <1>3 DEF Mp!RowOf, DimRow

LEMMA DimSets ==
  /\ DimRow' = DimRow /\ Mp!Dimensions' = Mp!Dimensions /\ Mp!NoGuess' = Mp!NoGuess
  /\ Mp!Idle' = Mp!Idle /\ Mp!Idle.at = "idle" /\ Asked' = Asked /\ Verdicts' = Verdicts
  /\ Ways' = Ways /\ Mp!Refusals' = Mp!Refusals
BY DEF DimRow, Mp!Dimensions, Mp!NoGuess, Mp!Idle, Asked, Verdicts, Ways, Mp!Refusals

LEMMA ProposeSteps ==
  ASSUME DimInv, NEW x \in Proposers,
         \/ \E d \in Mp!Dimensions : Mp!Propose(x, d)
         \/ Mp!FindRow(x) \/ Mp!InsertRow(x)
  PROVE  DimInv'
<1>1. UNCHANGED <<oldest, choice, verdict>>
  BY DEF Mp!Propose, Mp!FindRow, Mp!InsertRow, Mp!taxes
<1>2. /\ dims \in Seq(DimRow) /\ oldest \in Companies /\ verdict \in Verdicts /\ crossed \subseteq Ways
      /\ guess \in Mp!Dimensions \cup {Mp!NoGuess}
      /\ writer = [y \in Proposers |-> writer[y]]
      /\ \A y \in Proposers : writer[y].at \in {"find", "insert"} => writer[y].dim \in Mp!Dimensions
      /\ choice \in {Mp!Idle} \cup Asked /\ (choice # Mp!Idle => choice.row \in DOMAIN dims)
      /\ crossed = {} => OneRow
  BY DEF DimInv
<1>3. ASSUME NEW w, writer' = [writer EXCEPT ![x] = w],
             w.at \in {"find", "insert"} => w.dim \in Mp!Dimensions,
             dims' \in Seq(DimRow), DOMAIN dims \subseteq DOMAIN dims',
             guess' \in Mp!Dimensions \cup {Mp!NoGuess}, crossed' \subseteq Ways,
             crossed' = {} => OneRow'
      PROVE  DimInv'
  <2>1. writer' = [y \in Proposers |-> IF y = x THEN w ELSE writer[y]] BY <1>2, <1>3
  <2>2. writer' = [y \in Proposers |-> writer'[y]] BY <2>1
  <2>3. \A y \in Proposers : writer'[y].at \in {"find", "insert"} => writer'[y].dim \in Mp!Dimensions
    BY <1>2, <1>3, <2>1
  <2>4. choice' \in {Mp!Idle} \cup Asked /\ (choice' # Mp!Idle => choice'.row \in DOMAIN dims')
    BY <1>1, <1>2, <1>3
  <2>. QED BY <1>1, <1>2, <1>3, <2>2, <2>3, <2>4, DimSets DEF DimInv
<1>4. ASSUME NEW d \in Mp!Dimensions, Mp!Propose(x, d) PROVE DimInv'
  <2>1. PICK w : w = [at |-> "find", dim |-> d] OBVIOUS
  <2>2. writer' = [writer EXCEPT ![x] = w] /\ guess' = d /\ UNCHANGED <<dims, crossed>>
    BY <1>4, <2>1 DEF Mp!Propose
  <2>3. \A y \in Proposers : writer'[y].at = "insert" => writer[y].at = "insert"
    BY <1>2, <2>1, <2>2
  <2>4. crossed' = {} => OneRow' BY <1>1, <1>2, <2>2, <2>3, DimSets DEF OneRow
  <2>5. w.dim \in Mp!Dimensions BY <2>1
  <2>6. guess' \in Mp!Dimensions \cup {Mp!NoGuess} /\ crossed' \subseteq Ways
    BY <1>2, <2>2
  <2>7. dims' \in Seq(DimRow) /\ DOMAIN dims \subseteq DOMAIN dims' BY <1>2, <2>2
  <2>. QED BY <1>3, <2>2, <2>4, <2>5, <2>6, <2>7
<1>5. CASE Mp!FindRow(x)
  <2>1. writer[x].at = "find" /\ writer[x].dim \in Mp!Dimensions /\ UNCHANGED <<dims, guess>>
    BY <1>2, <1>5 DEF Mp!FindRow
  <2>2. PICK w : w = IF dims = <<>> THEN [at |-> "insert", dim |-> writer[x].dim] ELSE Mp!Idle
    OBVIOUS
  <2>3. writer' = [writer EXCEPT ![x] = w] BY <1>5, <2>2 DEF Mp!FindRow
  <2>4. w.at \in {"find", "insert"} => w.dim \in Mp!Dimensions /\ dims = <<>>
    BY <2>1, <2>2, DimSets
  <2>5. crossed' \subseteq Ways /\ (crossed' = {} => crossed = {}) BY <1>2, <1>5 DEF Mp!FindRow, Ways
  <2>6. crossed' = {} /\ dims = <<>> => \A y \in Proposers : writer[y].at # "insert"
    BY <1>5 DEF Mp!FindRow
  <2>7. ASSUME crossed' = {} PROVE OneRow'
    <3>1. OneRow BY <1>2, <2>5, <2>7
    <3>2. writer' = [y \in Proposers |-> IF y = x THEN w ELSE writer[y]] BY <1>2, <2>3
    <3>3. \A y \in Proposers : writer'[y].at = "insert" => dims = <<>>
      BY <2>2, <3>1, <3>2, DimSets DEF OneRow
    <3>4. \A y \in Proposers : writer'[y].at = "insert" => y = x BY <2>6, <2>7, <3>2, <3>3
    <3>. QED BY <1>1, <2>1, <3>1, <3>3, <3>4, DimSets DEF OneRow
  <2>8. dims' \in Seq(DimRow) /\ DOMAIN dims \subseteq DOMAIN dims'
        /\ guess' \in Mp!Dimensions \cup {Mp!NoGuess}
    BY <1>2, <2>1
  <2>. QED BY <1>3, <2>3, <2>4, <2>5, <2>7, <2>8
<1>6. CASE Mp!InsertRow(x)
  <2>1. /\ writer[x].at = "insert" /\ writer[x].dim \in Mp!Dimensions /\ UNCHANGED <<guess, crossed>>
        /\ writer' = [writer EXCEPT ![x] = Mp!Idle]
    BY <1>2, <1>6 DEF Mp!InsertRow
  <2>2. PICK r \in DimRow : dims' = Append(dims, r) BY <1>2, <1>6, <2>1, NewRowIs DEF Mp!InsertRow
  <2>3. dims' \in Seq(DimRow) /\ DOMAIN dims \subseteq DOMAIN dims' BY <1>2, <2>2
  <2>4. ASSUME crossed' = {} PROVE OneRow'
    <3>1. OneRow /\ dims = <<>> BY <1>2, <2>1, <2>4 DEF OneRow
    <3>2. Len(dims') <= 1 BY <2>2, <3>1
    <3>3. writer' = [y \in Proposers |-> IF y = x THEN Mp!Idle ELSE writer[y]] BY <1>2, <2>1
    <3>4. \A y \in Proposers : writer'[y].at # "insert"
      BY <2>1, <3>1, <3>3, DimSets DEF OneRow
    <3>5. verdict' \notin Mp!Refusals BY <1>1, <3>1 DEF OneRow
    <3>. QED BY <3>2, <3>4, <3>5, DimSets DEF OneRow
  <2>5. guess' \in Mp!Dimensions \cup {Mp!NoGuess} /\ crossed' \subseteq Ways BY <1>2, <2>1
  <2>6. PICK w : w = Mp!Idle OBVIOUS
  <2>7. ~(w.at \in {"find", "insert"}) BY <2>6, DimSets
  <2>. QED BY <1>3, <2>1, <2>3, <2>4, <2>5, <2>6, <2>7
<1>. QED BY <1>4, <1>5, <1>6

(* A row is decided: by the person, or by the answer to the alternative chosen. *)
LEMMA RowDecided ==
  ASSUME DimInv, UNCHANGED <<oldest, guess, writer>>,
         NEW n \in DOMAIN dims, NEW r \in DimRow,
         dims' = [dims EXCEPT ![n] = r],
         verdict' \in Verdicts, crossed' \subseteq Ways, crossed' = {} => crossed = {},
         crossed' = {} /\ verdict' \in Mp!Refusals => r.review = verdict',
         \/ choice' = Mp!Idle
         \/ choice' \in Asked /\ choice'.row = choice.row /\ choice # Mp!Idle
  PROVE  DimInv'
<1>1. dims \in Seq(DimRow) BY DEF DimInv
<1>2. /\ dims' \in Seq(DimRow) /\ Len(dims') = Len(dims) /\ dims'[n] = r
      /\ \A m \in DOMAIN dims : m # n => dims'[m] = dims[m]
  BY <1>1, SeqChanged
<1>3. DOMAIN dims' = DOMAIN dims /\ dims # <<>> /\ dims' # <<>> BY <1>1, <1>2
<1>4. ASSUME crossed' = {} PROVE OneRow'
  <2>1. OneRow BY <1>4 DEF DimInv
  <2>2. \A m \in DOMAIN dims : m = n BY <1>1, <2>1 DEF OneRow
  <2>3. verdict' \in Mp!Refusals => \A m \in DOMAIN dims' : dims'[m].review = verdict'
    BY <1>2, <1>3, <1>4, <2>2
  <2>4. \A x \in Proposers : writer'[x].at # "insert" BY <1>3, <2>1 DEF OneRow
  <2>5. Len(dims') <= 1 BY <1>2, <2>1 DEF OneRow
  <2>. QED BY <1>3, <2>3, <2>4, <2>5, DimSets DEF OneRow
<1>5. choice' \in {Mp!Idle} \cup Asked /\ (choice' # Mp!Idle => choice'.row \in DOMAIN dims')
  BY <1>3 DEF DimInv
<1>. QED BY <1>2, <1>4, <1>5, DimSets DEF DimInv

LEMMA PersonDecides ==
  ASSUME DimInv, NEW n \in DOMAIN dims,
         \/ Mp!Accept(n) \/ Mp!Correct(n) \/ \E s \in {"rejected", "held"} : Mp!RejectOrHold(n, s)
  PROVE  DimInv'
<1>1. dims \in Seq(DimRow) /\ dims[n] \in DimRow BY DEF DimInv
<1>2. ASSUME NEW d \in Verdicts, Mp!Decides(d), NEW r \in DimRow, dims' = [dims EXCEPT ![n] = r],
             d \in Mp!Refusals => r.review = d
      PROVE  DimInv'
  <2>1. UNCHANGED <<oldest, guess, writer, crossed>> /\ verdict' = d
    BY <1>2 DEF Mp!Decides, Mp!taxes
  <2>2. \/ choice' = Mp!Idle
        \/ choice' \in Asked /\ choice'.row = choice.row /\ choice # Mp!Idle
    <3>1. CASE choice = Mp!Idle BY <1>2, <3>1 DEF Mp!Decides
    <3>2. CASE choice # Mp!Idle
      <4>1. choice \in Asked /\ choice' = [choice EXCEPT !.over = TRUE]
        BY <1>2, <3>2 DEF Mp!Decides, DimInv
      <4>. QED BY <3>2, <4>1 DEF Asked
    <3>. QED BY <3>1, <3>2
  <2>3. crossed' \subseteq Ways BY <2>1 DEF DimInv
  <2>. QED BY <1>2, <2>1, <2>2, <2>3, RowDecided
<1>3. CASE Mp!Accept(n)
  <2>1. PICK id \in Ids : id = dims[n].offered BY <1>1, <1>3 DEF Mp!Accept, DimRow
  <2>2. PICK r : r = [dims[n] EXCEPT !.id = id, !.review = "accepted", !.state = "mapped"] OBVIOUS
  <2>3. r \in DimRow BY <1>1, <2>2 DEF DimRow
  <2>4. dims' = [dims EXCEPT ![n] = r] /\ Mp!Decides("accepted")
    BY <1>1, <1>3, <2>1, <2>2 DEF Mp!Accept, Mp!Resolved
  <2>5. "accepted" \in Verdicts /\ "accepted" \notin Mp!Refusals BY DEF Verdicts, Mp!Refusals
  <2>. QED BY <1>2, <2>3, <2>4, <2>5
<1>4. CASE Mp!Correct(n)
  <2>1. PICK r : r = [dims[n] EXCEPT !.value = "corrected", !.review = "corrected"] OBVIOUS
  <2>2. r \in DimRow BY <1>1, <2>1 DEF DimRow
  <2>3. dims' = [dims EXCEPT ![n] = r] /\ Mp!Decides("corrected") BY <1>1, <1>4, <2>1 DEF Mp!Correct
  <2>4. "corrected" \in Verdicts /\ "corrected" \notin Mp!Refusals BY DEF Verdicts, Mp!Refusals
  <2>. QED BY <1>2, <2>2, <2>3, <2>4
<1>5. ASSUME NEW s \in {"rejected", "held"}, Mp!RejectOrHold(n, s) PROVE DimInv'
  <2>1. PICK r : r = [dims[n] EXCEPT !.review = s] OBVIOUS
  <2>2. r \in DimRow /\ r.review = s BY <1>1, <2>1 DEF DimRow
  <2>3. dims' = [dims EXCEPT ![n] = r] /\ Mp!Decides(s) BY <1>1, <1>5, <2>1 DEF Mp!RejectOrHold
  <2>4. s \in Verdicts BY DEF Verdicts
  <2>. QED BY <1>2, <2>2, <2>3, <2>4
<1>. QED BY <1>3, <1>4, <1>5

(* An alternate is chosen for a row that stays where it is while the provider is asked. *)
LEMMA AlternateSteps ==
  ASSUME DimInv,
         \/ \E n \in DOMAIN dims, id \in Ids : Mp!BeginAlternate(n, id)
         \/ \E n \in DOMAIN dims : Mp!SaveRule(n)
         \/ \E valid \in BOOLEAN : Mp!EndAlternate(valid)
  PROVE  DimInv'
<1>1. UNCHANGED <<oldest, guess, writer>>
  BY DEF Mp!BeginAlternate, Mp!EndAlternate, Mp!SaveRule, Mp!taxes
<1>2. dims \in Seq(DimRow) /\ verdict \in Verdicts /\ crossed \subseteq Ways BY DEF DimInv
<1>3. ASSUME UNCHANGED <<dims, verdict, crossed>>,
             \/ choice' = choice \/ choice' = Mp!Idle
             \/ choice' \in Asked /\ choice'.row \in DOMAIN dims
      PROVE  DimInv'
  <2>1. choice' \in {Mp!Idle} \cup Asked /\ (choice' # Mp!Idle => choice'.row \in DOMAIN dims')
    BY <1>3 DEF DimInv
  <2>2. crossed' = {} => OneRow' BY <1>1, <1>3, DimSets DEF DimInv, OneRow
  <2>. QED BY <1>1, <1>3, <2>1, <2>2, DimSets DEF DimInv
<1>4. ASSUME NEW n \in DOMAIN dims, NEW id \in Ids, Mp!BeginAlternate(n, id) PROVE DimInv'
  <2>1. choice' = [at |-> "asked", row |-> n, id |-> id, over |-> FALSE]
        /\ UNCHANGED <<dims, verdict, crossed>>
    BY <1>4 DEF Mp!BeginAlternate
  <2>2. n \in Nat BY <1>2
  <2>3. choice' \in Asked /\ choice'.row \in DOMAIN dims BY <2>1, <2>2 DEF Asked
  <2>. QED BY <1>3, <2>1, <2>3
<1>5. ASSUME NEW n \in DOMAIN dims, Mp!SaveRule(n) PROVE DimInv'
  BY <1>3, <1>5 DEF Mp!SaveRule
<1>6. ASSUME NEW valid \in BOOLEAN, Mp!EndAlternate(valid) PROVE DimInv'
  <2>1. choice' = Mp!Idle /\ choice \in Asked BY <1>6 DEF Mp!EndAlternate, DimInv
  <2>2. CASE ~valid BY <1>3, <1>6, <2>1, <2>2 DEF Mp!EndAlternate
  <2>3. CASE valid
    <3>1. PICK n \in DOMAIN dims, id \in Ids : n = choice.row /\ id = choice.id
      BY <1>6, <2>1 DEF DimInv, Asked, Mp!EndAlternate
    <3>2. PICK r : r = [dims[n] EXCEPT !.id = id, !.review = "accepted", !.state = "mapped"] OBVIOUS
    <3>3. dims[n] \in DimRow BY <1>2
    <3>4. r \in DimRow BY <3>2, <3>3 DEF DimRow
    <3>5. dims' = [dims EXCEPT ![n] = r]
      BY <1>2, <1>6, <2>3, <3>1, <3>2 DEF Mp!EndAlternate, Mp!Resolved
    <3>6. CASE choice.over
      <4>1. verdict' = verdict /\ crossed' = crossed \cup {"late answer"}
        BY <1>6, <2>3, <3>6 DEF Mp!EndAlternate
      <4>2. verdict' \in Verdicts /\ crossed' \subseteq Ways /\ crossed' # {}
        BY <1>2, <4>1 DEF Ways
      <4>. QED BY <1>1, <2>1, <3>4, <3>5, <4>2, RowDecided
    <3>7. CASE ~choice.over
      <4>1. verdict' = "accepted" /\ crossed' = crossed
        BY <1>6, <2>3, <3>7 DEF Mp!EndAlternate
      <4>2. verdict' \in Verdicts /\ verdict' \notin Mp!Refusals /\ crossed' \subseteq Ways
        BY <1>2, <4>1 DEF Verdicts, Mp!Refusals
      <4>. QED BY <1>1, <2>1, <3>4, <3>5, <4>1, <4>2, RowDecided
    <3>. QED BY <3>6, <3>7
  <2>. QED BY <2>2, <2>3
<1>. QED BY <1>4, <1>5, <1>6

DimStep ==
  \/ \E x \in Proposers : \/ \E d \in Mp!Dimensions : Mp!Propose(x, d)
                          \/ Mp!FindRow(x) \/ Mp!InsertRow(x)
  \/ \E n \in DOMAIN dims : \/ Mp!Accept(n) \/ Mp!Correct(n) \/ Mp!SaveRule(n)
                            \/ \E id \in Ids : Mp!BeginAlternate(n, id)
                            \/ \E s \in {"rejected", "held"} : Mp!RejectOrHold(n, s)
  \/ \E valid \in BOOLEAN : Mp!EndAlternate(valid)

LEMMA DimSteps == ASSUME DimInv, DimStep PROVE DimInv'
BY ProposeSteps, PersonDecides, AlternateSteps DEF DimStep

(* The posting run: each gate passes on what it reads, and the bill says what the gates *)
(* were shown.                                                                          *)
PostingStep ==
  \/ \E k \in Codes \cup {"none"} : Mp!ReadDraft(k)
  \/ Mp!TaxGate \/ Mp!DimensionGate \/ Mp!Create

LEMMA RunSets ==
  /\ Reading' = Reading /\ Passed' = Passed /\ Mp!Idle' = Mp!Idle
BY DEF Reading, Passed, Drafted, Mp!Dimensions, Verdicts, Ways, Mp!Refusals, Mp!Idle

LEMMA RunGoes ==
  ASSUME RunInv, UNCHANGED bill, \/ run' = Mp!Idle \/ run' \in Reading
                                 \/ \E b \in Passed : run' = [at |-> "create", bill |-> b]
  PROVE  RunInv'
<1>1. Mp!MappingsHold' BY DEF RunInv, Mp!MappingsHold, Mp!RejectionHolds, Mp!TaxStands, Mp!Refusals
<1>. QED BY <1>1, RunSets DEF RunInv

(* A refusal of the person's lets the dimension gate pass only what crossed it. *)
LEMMA GateRefuses ==
  ASSUME DimInv, run \in Reading, Mp!DimensionPasses, run.draft.id # "none", verdict \in Mp!Refusals
  PROVE  crossed # {}
<1>. SUFFICES ASSUME crossed = {} PROVE FALSE OBVIOUS
<1>1. OneRow BY DEF DimInv
<1>2. \A n \in DOMAIN dims : dims[n].review \notin {"accepted", "corrected"}
  BY <1>1 DEF OneRow, Mp!Refusals
<1>3. run.draft \in Mp!Dimensions BY DEF Reading, Drafted
<1>4. run.draft.state # "intentionally_blank" BY <1>3 DEF Mp!Dimensions
<1>. QED BY <1>2, <1>4 DEF Mp!DimensionPasses

LEMMA PostingSteps == ASSUME MpInv, PostingStep PROVE RunInv'
<1>1. /\ RunInv /\ \/ run = Mp!Idle \/ run \in Reading
                   \/ \E b \in Passed : run = [at |-> "create", bill |-> b]
      /\ company \in Companies /\ tax \in Seq(TaxRow) /\ word \in [Pairs -> Words]
      /\ dims \in Seq(DimRow) /\ verdict \in Verdicts /\ crossed \subseteq Ways
  BY DEF MpInv, RunInv, TaxInv, DimInv
<1>2. Mp!Idle.at = "idle" BY DEF Mp!Idle
<1>3. ASSUME run.at \in {"tax", "dimension"} PROVE run \in Reading
  BY <1>1, <1>2, <1>3
<1>4. ASSUME NEW k \in Codes \cup {"none"}, Mp!ReadDraft(k) PROVE RunInv'
  <2>1. guess \in Drafted BY <1>4 DEF Mp!ReadDraft, Drafted, MpInv, DimInv, Mp!NoGuess
  <2>2. run' = [at |-> "tax", of |-> company, draft |-> guess, code |-> k, said |-> "on"]
        /\ UNCHANGED bill
    BY <1>4 DEF Mp!ReadDraft
  <2>3. run' \in Reading BY <1>1, <2>1, <2>2 DEF Reading
  <2>. QED BY <1>1, <2>2, <2>3, RunGoes DEF MpInv
<1>5. CASE Mp!TaxGate
  <2>1. run \in Reading /\ UNCHANGED bill BY <1>3, <1>5 DEF Mp!TaxGate
  <2>2. PICK r : r = [run EXCEPT !.at = "dimension"] OBVIOUS
  <2>3. r \in Reading BY <2>1, <2>2 DEF Reading
  <2>4. CASE run.code = "none"
    <3>1. run' = r BY <1>5, <2>2, <2>4 DEF Mp!TaxGate
    <3>. QED BY <2>1, <2>3, <3>1, RunGoes DEF MpInv
  <2>5. CASE run.code # "none" /\ \E n \in Mp!Chosen(run.code) : Mp!TaxPasses(n)
    <3>1. PICK n \in DOMAIN tax : /\ tax[n].active /\ ~tax[n].stale
                                  /\ tax[n].of = run.of /\ tax[n].code = run.code
      BY <2>5 DEF Mp!Chosen, Mp!Matches, Mp!TaxPasses
    <3>2. tax[n] \in TaxRow BY <1>1
    <3>3. <<run.of, run.code>> \in Pairs BY <3>1, <3>2 DEF TaxRow, Pairs
    <3>4. word[<<run.of, run.code>>] # "off" BY <3>1 DEF MpInv, TaxInv, Backed
    <3>5. PICK w \in {"on", "late"} : w = word[<<run.of, run.code>>]
      BY <1>1, <3>3, <3>4 DEF Words
    <3>6. run' = [run EXCEPT !.at = "dimension", !.said = w]
      BY <1>5, <2>5, <3>5 DEF Mp!TaxGate
    <3>7. run' \in Reading BY <2>1, <3>5, <3>6 DEF Reading
    <3>. QED BY <2>1, <3>7, RunGoes DEF MpInv
  <2>6. CASE run.code # "none" /\ ~\E n \in Mp!Chosen(run.code) : Mp!TaxPasses(n)
    <3>1. run' = Mp!Idle BY <1>5, <2>6 DEF Mp!TaxGate
    <3>. QED BY <2>1, <3>1, RunGoes DEF MpInv
  <2>. QED BY <2>4, <2>5, <2>6
<1>6. CASE Mp!DimensionGate
  <2>1. run \in Reading /\ UNCHANGED bill BY <1>3, <1>6 DEF Mp!DimensionGate
  <2>2. CASE ~Mp!DimensionPasses
    <3>1. run' = Mp!Idle BY <1>6, <2>2 DEF Mp!DimensionGate
    <3>. QED BY <2>1, <3>1, RunGoes DEF MpInv
  <2>3. CASE Mp!DimensionPasses
    <3>1. PICK p, q : p = {dims[k].id : k \in DOMAIN dims} /\ q = {dims[k].of : k \in DOMAIN dims}
      OBVIOUS
    <3>2. \A k \in DOMAIN dims : dims[k] \in DimRow BY <1>1
    <3>3. p \in SUBSET (Ids \cup {"none"}) /\ q \in SUBSET Companies BY <3>1, <3>2 DEF DimRow
    <3>4. PICK b : b = [of |-> run.of, id |-> run.draft.id, said |-> run.said,
                        verdict |-> verdict, crossed |-> crossed, reviewed |-> p, home |-> q]
      OBVIOUS
    <3>5. run.of \in Companies /\ run.draft.id \in Ids \cup {"none"} /\ run.said \in {"on", "late"}
      BY <2>1 DEF Reading, Drafted, Mp!Dimensions
    <3>6. run.draft.id # "none" /\ verdict \in Mp!Refusals => crossed # {}
      BY <2>1, <2>3, GateRefuses DEF MpInv
    <3>7. b \in Passed BY <1>1, <3>3, <3>4, <3>5, <3>6 DEF Passed
    <3>8. run' = [at |-> "create", bill |-> b]
      BY <1>6, <2>3, <3>1, <3>4 DEF Mp!DimensionGate
    <3>. QED BY <2>1, <3>7, <3>8, RunGoes DEF MpInv
  <2>. QED BY <2>2, <2>3
<1>7. CASE Mp!Create
  <2>1. run.at = "create" BY <1>7 DEF Mp!Create
  <2>2. PICK b \in Passed : run = [at |-> "create", bill |-> b]
    BY <1>1, <1>2, <2>1 DEF Reading
  <2>3. PICK c : c = [b EXCEPT !.verdict = <<b.verdict, verdict>>] OBVIOUS
  <2>4. run' = Mp!Idle /\ bill' = {c} BY <1>7, <2>2, <2>3 DEF Mp!Create
  <2>5. /\ c.id = b.id /\ c.said = b.said /\ c.crossed = b.crossed
        /\ c.verdict[1] = b.verdict
    BY <2>2, <2>3 DEF Passed
  <2>6. /\ b.said \in {"on", "late"}
        /\ b.id # "none" /\ b.verdict \in Mp!Refusals => b.crossed # {}
    BY <2>2 DEF Passed
  <2>7. Mp!MappingsHold'
    BY <2>4, <2>5, <2>6 DEF Mp!MappingsHold, Mp!RejectionHolds, Mp!TaxStands, Mp!Refusals
  <2>. QED BY <2>4, <2>7, RunSets DEF RunInv
<1>. QED BY <1>4, <1>5, <1>6, <1>7 DEF PostingStep

LEMMA MpStep == ASSUME MpInv, Mp!Next PROVE MpInv'
<1>1. CASE TaxStep
  <2>1. UNCHANGED <<oldest, Mp!dimension, run, bill>>
    BY <1>1 DEF TaxStep, Mp!CreateTax, Mp!EditTax, Mp!DisableTax, Mp!BeginCheck, Mp!ReplaceTax,
                Mp!EndCheck, Mp!Changed, Mp!books
  <2>. QED BY <1>1, <2>1, TaxSteps, DimKept, RunKept DEF MpInv
<1>2. CASE DimStep
  <2>1. UNCHANGED <<company, tax, check, word, outdated, run, bill>>
    BY <1>2 DEF DimStep, Mp!Propose, Mp!FindRow, Mp!InsertRow, Mp!Accept, Mp!Correct, Mp!SaveRule,
                Mp!BeginAlternate, Mp!RejectOrHold, Mp!EndAlternate, Mp!Decides, Mp!taxes, Mp!books
  <2>. QED BY <1>2, <2>1, DimSteps, TaxKept, RunKept DEF MpInv
<1>3. CASE PostingStep
  <2>1. UNCHANGED <<company, oldest, tax, check, word, outdated, Mp!dimension>>
    BY <1>3 DEF PostingStep, Mp!ReadDraft, Mp!TaxGate, Mp!DimensionGate, Mp!Create, Mp!taxes
  <2>. QED BY <1>3, <2>1, PostingSteps, TaxKept, DimKept DEF MpInv
<1>4. ASSUME NEW c \in Companies, Mp!Reconnect(c) PROVE MpInv'
  <2>1. company' = c /\ UNCHANGED <<run, bill, tax, check, word, outdated, oldest, Mp!dimension>>
    BY <1>4 DEF Mp!Reconnect, Mp!taxes, Mp!books
  <2>2. TaxInv' BY <2>1 DEF MpInv, TaxInv, TaxRow, OneEach, Backed, Pairs, Words
  <2>. QED BY <2>1, <2>2, DimKept, RunKept DEF MpInv
<1>. QED BY <1>1, <1>2, <1>3, <1>4 DEF Mp!Next, TaxStep, DimStep, PostingStep

(* What was decided of the mappings holds in every state. *)
LEMMA MappingsInvariant == Spec => []MpInv
<1>1. Init => MpInv BY MpInit DEF Init
<1>2. MpInv /\ [Next]_vars => MpInv'
  <2>1. ASSUME MpInv, UNCHANGED mpVars PROVE MpInv'
    BY <2>1, TaxKept, DimKept, RunKept DEF MpInv, mpVars, Mp!dimension
  <2>2. [Next]_vars => Mp!Next \/ UNCHANGED mpVars BY DEF Next, vars
  <2>. QED BY <2>1, <2>2, MpStep
<1>. QED BY <1>1, <1>2, PTL DEF Spec

(* The gates pass no dimension the person rejected or held last, unless two proposers      *)
(* looked for its row at once or an alternative chosen before was answered after; and no   *)
(* tax code that was last switched off at the company of the bill, however many companies, *)
(* codes, proposers and changes there are (posting.ts:222-270, dimensionMappings.ts:184-   *)
(* 233, taxMappings.ts:307-340).                                                           *)
THEOREM MappingsStay == Spec => []MappingsHold
<1>1. MpInv => MappingsHold BY DEF MpInv, RunInv, MappingsHold
<1>. QED BY <1>1, MappingsInvariant, PTL
-----------------------------------------------------------------------------
(* Review: the packet, the pages, the exported decisions and their application. *)

RvBounds == Runs \in Nat

Decision == {"pending", "approved", "rejected"}
Chosen == [Rows -> Decision]
RvTab == [run : 0..Runs, chosen : Chosen, saves : BOOLEAN]

(* Whatever a page or the storage holds for a run was clicked on a page of that run. *)
PagesInv ==
  /\ packets \in Seq(SUBSET Rows) /\ Len(packets) <= Runs
  /\ tab \in [Tabs -> RvTab] /\ browser \in [0..Runs -> Chosen]
  /\ \A t \in Tabs, n \in Rows :
       tab[t].chosen[n] # "pending" => <<tab[t].run, n, tab[t].chosen[n]>> \in clicked
  /\ \A k \in 0..Runs, n \in Rows :
       browser[k][n] # "pending" => <<k, n, browser[k][n]>> \in clicked
  /\ \A f \in files : f.chosen \in Chosen
  /\ Rv!OwnDecisions

RvRun == [chosen : Chosen, left : SUBSET Rows, told : SUBSET Rows,
          at : {"idle", "on", "disturbed"}]

Applied(r) == \A n \in Rows \ r.left :
  /\ r.chosen[n] = "approved" => n \in paid \cup r.told \cup noted
  /\ r.chosen[n] = "rejected" => row[n] = "rejected"

(* An undisturbed application has applied, reported or noted what is no longer left of *)
(* its file; only one that ended is judged, and none runs meanwhile.                   *)
ApplyInv ==
  /\ row \in [Rows -> {"review", "ready", "exception", "posted", "rejected"}]
  /\ \A n \in Rows : row[n] = "posted" => n \in paid
  /\ cli \in RvRun /\ ended \in RvRun
  /\ cli.at = "on" => Applied(cli)
  /\ cli # Rv!None => ended = Rv!None
  /\ Rv!AppliedInFull

RvInv == PagesInv /\ ApplyInv

LEMMA NothingChosen ==
  /\ Rv!Undecided \in Chosen /\ \A n \in Rows : Rv!Undecided[n] = "pending"
  /\ Rv!None \in RvRun /\ Rv!None.at = "idle" /\ Rv!None.chosen = Rv!Undecided /\ Rv!None.left = {}
BY DEF Rv!Undecided, Chosen, Decision, Rv!None, RvRun

LEMMA RvInit == ASSUME RvBounds, Rv!Init PROVE RvInv
<1>1. PagesInv
  <2>1. packets \in Seq(SUBSET Rows) /\ Len(packets) = 0 BY DEF Rv!Init
  <2>2. Rv!NoTab \in RvTab /\ Rv!NoTab.chosen = Rv!Undecided
    BY NothingChosen DEF RvBounds, RvTab, Rv!NoTab
  <2>3. tab = [t \in Tabs |-> Rv!NoTab] /\ browser = [k \in 0..Runs |-> Rv!Undecided] /\ files = {}
    BY DEF Rv!Init
  <2>. QED BY <2>1, <2>2, <2>3, NothingChosen DEF RvBounds, PagesInv, Rv!OwnDecisions
<1>2. ApplyInv
  <2>1. /\ row \in [Rows -> {"review", "ready"}] /\ cli = Rv!None /\ ended = Rv!None
    BY DEF Rv!Init
  <2>. QED BY <2>1, NothingChosen DEF ApplyInv, Rv!AppliedInFull
<1>. QED BY <1>1, <1>2 DEF RvInv

LEMMA PagesKept == ASSUME PagesInv, UNCHANGED Rv!page PROVE PagesInv'
BY DEF PagesInv, Rv!page, Rv!OwnDecisions

LEMMA ApplyKept ==
  ASSUME ApplyInv, UNCHANGED <<Rv!books, cli, ended>> PROVE ApplyInv'
BY DEF ApplyInv, Rv!books, Rv!AppliedInFull, Applied

LEMMA SnapshotStep == ASSUME RvBounds, RvInv, Rv!Snapshot PROVE RvInv'
<1>1. UNCHANGED <<Rv!books, cli, ended>> BY DEF Rv!Snapshot
<1>2. ApplyInv' BY <1>1, ApplyKept DEF RvInv
<1>3. /\ Len(packets) < Runs /\ UNCHANGED <<browser, tab, clicked, files>>
      /\ packets' = Append(packets, {n \in Rows : row[n] \in Rv!Open})
  BY DEF Rv!Snapshot
<1>4. packets' \in Seq(SUBSET Rows) /\ Len(packets') <= Runs
  BY <1>3 DEF RvInv, PagesInv, RvBounds
<1>. QED BY <1>2, <1>3, <1>4 DEF RvInv, PagesInv, Rv!OwnDecisions

(* A page of a packet opens, is clicked, exported and closed. *)
LEMMA PageSteps ==
  ASSUME RvBounds, RvInv, NEW t \in Tabs,
         \/ Rv!ClosePage(t) \/ Rv!Export(t)
         \/ \E k \in DOMAIN packets, b \in BOOLEAN : Rv!OpenPage(t, k, b)
         \/ \E n \in Rows, v \in {"approved", "rejected"} : Rv!SetDecision(t, n, v)
  PROVE  RvInv'
<1>0. /\ packets \in Seq(SUBSET Rows) /\ Len(packets) <= Runs /\ Runs \in Nat
      /\ tab \in [Tabs -> RvTab] /\ browser \in [0..Runs -> Chosen]
      /\ \A s \in Tabs, n \in Rows :
           tab[s].chosen[n] # "pending" => <<tab[s].run, n, tab[s].chosen[n]>> \in clicked
      /\ \A k \in 0..Runs, n \in Rows :
           browser[k][n] # "pending" => <<k, n, browser[k][n]>> \in clicked
      /\ \A f \in files : f.chosen \in Chosen
      /\ Rv!OwnDecisions
  BY DEF RvInv, PagesInv, RvBounds
<1>1. ApplyInv'
  <2>1. UNCHANGED <<Rv!books, cli, ended>>
    BY DEF Rv!ClosePage, Rv!Export, Rv!OpenPage, Rv!SetDecision
  <2>. QED BY <2>1, ApplyKept DEF RvInv
<1>3. CASE Rv!ClosePage(t)
  <2>1. tab' = [tab EXCEPT ![t] = Rv!NoTab] /\ UNCHANGED <<packets, browser, clicked, files>>
    BY <1>3 DEF Rv!ClosePage
  <2>2. Rv!NoTab \in RvTab /\ Rv!NoTab.chosen = Rv!Undecided
    BY NothingChosen DEF RvBounds, RvTab, Rv!NoTab
  <2>. QED BY <1>0, <1>1, <2>1, <2>2, NothingChosen DEF RvInv, PagesInv, Rv!OwnDecisions
<1>4. CASE Rv!Export(t)
  <2>1. PICK c : /\ c = [n \in Rows |-> IF n \in packets[tab[t].run] THEN tab[t].chosen[n] ELSE "pending"]
                 /\ files' = files \cup {[run |-> tab[t].run, chosen |-> c]}
    BY <1>4 DEF Rv!Export
  <2>2. UNCHANGED <<packets, browser, tab, clicked>> BY <1>4 DEF Rv!Export
  <2>3. c \in Chosen BY <1>0, <2>1 DEF Chosen, Decision, RvTab
  <2>4. \A n \in Rows : c[n] # "pending" => <<tab[t].run, n, c[n]>> \in clicked BY <1>0, <2>1
  <2>5. ASSUME NEW f \in files'
        PROVE  f.chosen \in Chosen
               /\ \A n \in Rows : f.chosen[n] # "pending" => <<f.run, n, f.chosen[n]>> \in clicked
    <3>1. CASE f \in files BY <1>0, <3>1 DEF Rv!OwnDecisions
    <3>2. CASE f = [run |-> tab[t].run, chosen |-> c] BY <2>3, <2>4, <3>2
    <3>. QED BY <2>1, <3>1, <3>2
  <2>6. (\A f \in files' : f.chosen \in Chosen) /\ Rv!OwnDecisions'
    BY <2>2, <2>5 DEF Rv!OwnDecisions
  <2>. QED BY <1>0, <1>1, <2>2, <2>6 DEF RvInv, PagesInv
<1>5. ASSUME NEW k \in DOMAIN packets, NEW b \in BOOLEAN, Rv!OpenPage(t, k, b) PROVE RvInv'
  <2>1. k \in 0..Runs BY <1>0
  <2>2. PICK c : /\ c = IF b THEN browser[k] ELSE Rv!Undecided
                 /\ tab' = [tab EXCEPT ![t] = [run |-> k, saves |-> b, chosen |-> c]]
    BY <1>5 DEF Rv!OpenPage, Rv!StorageKey
  <2>3. UNCHANGED <<packets, browser, clicked, files>> BY <1>5 DEF Rv!OpenPage
  <2>4. c \in Chosen /\ \A n \in Rows : c[n] # "pending" => <<k, n, c[n]>> \in clicked
    BY <1>0, <2>1, <2>2, NothingChosen
  <2>5. [run |-> k, saves |-> b, chosen |-> c] \in RvTab BY <2>1, <2>4 DEF RvTab
  <2>6. tab' \in [Tabs -> RvTab] BY <1>0, <2>2, <2>5
  <2>7. \A s \in Tabs, n \in Rows :
          tab'[s].chosen[n] # "pending" => <<tab'[s].run, n, tab'[s].chosen[n]>> \in clicked
    BY <1>0, <2>2, <2>4
  <2>. QED BY <1>0, <1>1, <2>3, <2>6, <2>7 DEF RvInv, PagesInv, Rv!OwnDecisions
<1>6. ASSUME NEW n \in Rows, NEW v \in {"approved", "rejected"}, Rv!SetDecision(t, n, v)
      PROVE  RvInv'
  <2>1. PICK now \in Decision :
          /\ tab' = [tab EXCEPT ![t].chosen[n] = now]
          /\ browser' = IF tab[t].saves THEN [browser EXCEPT ![tab[t].run] = tab'[t].chosen] ELSE browser
          /\ clicked' = clicked \cup {<<tab[t].run, n, now>>}
    BY <1>6 DEF Rv!SetDecision, Rv!StorageKey, Decision
  <2>2. UNCHANGED <<packets, files>> BY <1>6 DEF Rv!SetDecision
  <2>3. PICK r, c : r = tab[t].run /\ c = [tab[t].chosen EXCEPT ![n] = now] OBVIOUS
  <2>4. tab[t] \in RvTab /\ tab[t].chosen \in Chosen /\ r \in 0..Runs BY <1>0, <2>3 DEF RvTab
  <2>5. c \in Chosen BY <2>3, <2>4 DEF Chosen
  <2>6. \A m \in Rows : c[m] # "pending" => <<r, m, c[m]>> \in clicked'
    BY <1>0, <2>1, <2>3, <2>4 DEF Chosen
  <2>7. tab' = [tab EXCEPT ![t] = [tab[t] EXCEPT !.chosen = c]] BY <1>0, <2>1, <2>3
  <2>8. [tab[t] EXCEPT !.chosen = c] \in RvTab /\ [tab[t] EXCEPT !.chosen = c].run = r
        /\ [tab[t] EXCEPT !.chosen = c].chosen = c
    BY <2>3, <2>4, <2>5 DEF RvTab
  <2>9. /\ tab' \in [Tabs -> RvTab] /\ tab'[t].run = r /\ tab'[t].chosen = c
        /\ \A s \in Tabs : s # t => tab'[s] = tab[s]
    BY <1>0, <2>7, <2>8
  <2>10. browser' \in [0..Runs -> Chosen]
         /\ \A k \in 0..Runs : browser'[k] = browser[k] \/ (k = r /\ browser'[k] = c)
    BY <1>0, <2>1, <2>3, <2>4, <2>5, <2>9
  <2>11. \A k \in 0..Runs, m \in Rows :
           browser'[k][m] # "pending" => <<k, m, browser'[k][m]>> \in clicked'
    BY <1>0, <2>1, <2>6, <2>10
  <2>12. \A s \in Tabs, m \in Rows :
           tab'[s].chosen[m] # "pending" => <<tab'[s].run, m, tab'[s].chosen[m]>> \in clicked'
    BY <1>0, <2>1, <2>6, <2>9
  <2>13. Rv!OwnDecisions' BY <1>0, <2>1, <2>2 DEF Rv!OwnDecisions
  <2>. QED BY <1>0, <1>1, <2>2, <2>9, <2>10, <2>11, <2>12, <2>13 DEF RvInv, PagesInv
<1>. QED BY <1>3, <1>4, <1>5, <1>6

(* One decision is applied: what was applied before stays so. *)
LEMMA OneApplied ==
  ASSUME ApplyInv, NEW n \in Rows, cli.left # {}, UNCHANGED ended, noted \subseteq noted',
         Rv!Done(n) \/ Rv!Told(n),
         \/ UNCHANGED <<row, paid>>
         \/ row' = [row EXCEPT ![n] = "rejected"] /\ paid' = paid /\ cli.chosen[n] = "rejected"
         \/ row' = [row EXCEPT ![n] = "posted"] /\ paid' = paid \cup {n} /\ cli.chosen[n] = "approved",
         cli.chosen[n] = "approved" => Rv!Told(n) \/ n \in paid' \cup noted',
         cli.chosen[n] = "rejected" => row'[n] = "rejected"
  PROVE  ApplyInv'
<1>0. /\ row \in [Rows -> {"review", "ready", "exception", "posted", "rejected"}]
      /\ \A m \in Rows : row[m] = "posted" => m \in paid
      /\ cli \in RvRun /\ ended \in RvRun /\ (cli.at = "on" => Applied(cli))
      /\ cli # Rv!None => ended = Rv!None
  BY DEF ApplyInv
<1>1. /\ cli' \in RvRun /\ cli'.chosen = cli.chosen /\ cli'.at = cli.at
      /\ cli'.left = cli.left \ {n} /\ cli.told \subseteq cli'.told
      /\ Rv!Told(n) => n \in cli'.told
  <2>1. CASE Rv!Done(n) /\ ~Rv!Told(n)
    <3>1. cli' = [cli EXCEPT !.left = cli.left \ {n}] BY <1>0, <2>1 DEF Rv!Done, RvRun
    <3>. QED BY <1>0, <2>1, <3>1 DEF RvRun
  <2>2. CASE Rv!Told(n)
    <3>1. cli' = [chosen |-> cli.chosen, left |-> cli.left \ {n}, told |-> cli.told \cup {n},
                  at |-> cli.at]
      BY <1>0, <2>2 DEF Rv!Told, RvRun
    <3>2. cli.left \ {n} \subseteq Rows /\ cli.told \cup {n} \subseteq Rows /\ cli.chosen \in Chosen
          /\ cli.at \in {"idle", "on", "disturbed"}
      BY <1>0 DEF RvRun
    <3>. QED BY <3>1, <3>2 DEF RvRun
  <2>. QED BY <2>1, <2>2
<1>2. row' \in [Rows -> {"review", "ready", "exception", "posted", "rejected"}]
      /\ \A m \in Rows : row'[m] = "posted" => m \in paid'
  BY <1>0
<1>3. ASSUME cli.at = "on" PROVE Applied(cli)'
  <2>1. ASSUME NEW m \in Rows \ cli'.left
        PROVE  /\ cli'.chosen[m] = "approved" => m \in paid' \cup cli'.told \cup noted'
               /\ cli'.chosen[m] = "rejected" => row'[m] = "rejected"
    <3>1. CASE m = n BY <1>1, <3>1
    <3>2. CASE m # n
      <4>1. m \in Rows \ cli.left BY <1>1, <2>1, <3>2
      <4>2. /\ cli.chosen[m] = "approved" => m \in paid \cup cli.told \cup noted
            /\ cli.chosen[m] = "rejected" => row[m] = "rejected"
        BY <1>0, <1>3, <4>1 DEF Applied
      <4>3. row'[m] = row[m] /\ paid \subseteq paid' BY <1>0, <3>2
      <4>. QED BY <1>1, <4>2, <4>3
    <3>. QED BY <3>1, <3>2
  <2>. QED BY <2>1 DEF Applied
<1>4. ended' = Rv!None /\ Rv!None' = Rv!None
  <2>1. cli # Rv!None BY NothingChosen
  <2>. QED BY <1>0, <2>1 DEF Rv!None, Rv!Undecided
<1>5. Rv!AppliedInFull' BY <1>4, NothingChosen DEF Rv!AppliedInFull
<1>. QED BY <1>0, <1>1, <1>2, <1>3, <1>4, <1>5 DEF ApplyInv

(* apply-review-decisions takes a file, one decision after the other, and ends. *)
LEMMA RunSteps ==
  ASSUME RvBounds, RvInv, Rv!BeginApply \/ Rv!EndApply \/ Rv!Throws PROVE RvInv'
<1>1. UNCHANGED <<Rv!page, row, paid, noted>> BY DEF Rv!BeginApply, Rv!EndApply, Rv!Throws, Rv!books
<1>2. PagesInv' BY <1>1, PagesKept DEF RvInv
<1>3. Rv!None' = Rv!None BY DEF Rv!None, Rv!Undecided
<1>4. ApplyInv'
  <2>1. CASE Rv!BeginApply
    <3>1. PICK f \in files : cli' = [chosen |-> f.chosen, left |-> Rows, told |-> {}, at |-> "on"]
      BY <2>1 DEF Rv!BeginApply
    <3>2. ended' = Rv!None BY <2>1 DEF Rv!BeginApply
    <3>3. f.chosen \in Chosen BY DEF RvInv, PagesInv
    <3>4. cli' \in RvRun /\ cli'.left = Rows BY <3>1, <3>3 DEF RvRun
    <3>. QED BY <1>1, <1>3, <3>2, <3>4, NothingChosen
         DEF RvInv, ApplyInv, Rv!AppliedInFull, Applied
  <2>2. CASE Rv!EndApply
    <3>1. cli.left = {} /\ cli' = Rv!None /\ ended' = IF cli.at = "on" THEN cli ELSE Rv!None
      BY <2>2 DEF Rv!EndApply
    <3>2. cli.at = "on" => Applied(cli) BY DEF RvInv, ApplyInv
    <3>3. Rv!AppliedInFull'
      BY <1>1, <3>1, <3>2, NothingChosen DEF Rv!AppliedInFull, Applied
    <3>. QED BY <1>1, <1>3, <3>1, <3>3, NothingChosen DEF RvInv, ApplyInv
  <2>3. CASE Rv!Throws
    <3>1. cli' = Rv!None /\ ended' = ended BY <2>3 DEF Rv!Throws
    <3>. QED BY <1>1, <1>3, <3>1, NothingChosen DEF RvInv, ApplyInv, Rv!AppliedInFull
  <2>. QED BY <2>1, <2>2, <2>3
<1>. QED BY <1>2, <1>4 DEF RvInv

LEMMA DecisionSteps ==
  ASSUME RvBounds, RvInv, NEW n \in Rows,
         \/ Rv!Pass(n) \/ Rv!ApplyApproved(n) \/ Rv!Duplicate(n) \/ Rv!Held(n)
         \/ Rv!ApplyRejected(n)
  PROVE  RvInv'
<1>1. UNCHANGED <<Rv!page, ended>> /\ cli.left # {} /\ noted \subseteq noted'
  BY DEF Rv!Pass, Rv!ApplyApproved, Rv!Duplicate, Rv!Held, Rv!ApplyRejected, Rv!Turn, Rv!books
<1>2. PagesInv' BY <1>1, PagesKept DEF RvInv
<1>3. ApplyInv BY DEF RvInv
<1>4. row \in [Rows -> {"review", "ready", "exception", "posted", "rejected"}]
      /\ \A m \in Rows : row[m] = "posted" => m \in paid
  BY DEF RvInv, ApplyInv
<1>5. CASE Rv!Pass(n)
  <2>1. /\ Rv!Done(n) /\ UNCHANGED <<row, paid>> /\ cli.chosen[n] # "rejected"
        /\ cli.chosen[n] = "approved" => n \in paid'
    BY <1>4, <1>5 DEF Rv!Pass, Rv!Decided, Rv!books
  <2>. QED BY <1>1, <1>2, <1>3, <2>1, OneApplied DEF RvInv
<1>6. CASE Rv!ApplyApproved(n)
  <2>1. /\ Rv!Done(n) /\ cli.chosen[n] = "approved" /\ n \in paid'
        /\ row' = [row EXCEPT ![n] = "posted"] /\ paid' = paid \cup {n}
    BY <1>6 DEF Rv!ApplyApproved, Rv!Decided
  <2>. QED BY <1>1, <1>2, <1>3, <2>1, OneApplied DEF RvInv
<1>7. CASE Rv!Held(n)
  <2>1. Rv!Told(n) /\ UNCHANGED <<row, paid>> /\ cli.chosen[n] = "approved"
    BY <1>7 DEF Rv!Held, Rv!Decided, Rv!books
  <2>. QED BY <1>1, <1>2, <1>3, <2>1, OneApplied DEF RvInv
<1>8. CASE Rv!ApplyRejected(n)
  <2>1. /\ Rv!Done(n) /\ cli.chosen[n] = "rejected" /\ paid' = paid
        /\ row' = [row EXCEPT ![n] = "rejected"] /\ row'[n] = "rejected"
    BY <1>4, <1>8 DEF Rv!ApplyRejected, Rv!Decided
  <2>. QED BY <1>1, <1>2, <1>3, <2>1, OneApplied DEF RvInv
<1>9. CASE Rv!Duplicate(n)
  <2>1. Rv!Done(n) /\ UNCHANGED <<row, paid>> /\ cli.chosen[n] = "approved" /\ n \in noted'
    BY <1>9 DEF Rv!Duplicate, Rv!Decided
  <2>. QED BY <1>1, <1>2, <1>3, <2>1, OneApplied DEF RvInv
<1>. QED BY <1>5, <1>6, <1>7, <1>8, <1>9

(* Others change the proposals: a running application counts as disturbed from then on. *)
LEMMA OthersSteps ==
  ASSUME RvBounds, RvInv, NEW n \in Rows,
         \/ Rv!QueuePosts(n) \/ Rv!PersonRejects(n) \/ \E s \in Rv!Open : Rv!Repropose(n, s)
  PROVE  RvInv'
<1>1. UNCHANGED Rv!page /\ Rv!Spend BY DEF Rv!QueuePosts, Rv!PersonRejects, Rv!Repropose
<1>2. PagesInv' BY <1>1, PagesKept DEF RvInv
<1>3. /\ row' \in [Rows -> {"review", "ready", "exception", "posted", "rejected"}]
      /\ \A m \in Rows : row'[m] = "posted" => m \in paid'
  BY DEF RvInv, ApplyInv, Rv!QueuePosts, Rv!PersonRejects, Rv!Repropose, Rv!Open
<1>4. cli \in RvRun /\ ended' = Rv!None
      /\ cli' = IF cli = Rv!None THEN Rv!None ELSE [cli EXCEPT !.at = "disturbed"]
  BY <1>1 DEF RvInv, ApplyInv, Rv!Spend
<1>5. cli' \in RvRun /\ cli'.at # "on" BY <1>4, NothingChosen DEF RvRun
<1>6. Rv!None' = Rv!None BY DEF Rv!None, Rv!Undecided
<1>7. ApplyInv' BY <1>3, <1>4, <1>5, <1>6, NothingChosen DEF ApplyInv, Rv!AppliedInFull
<1>. QED BY <1>2, <1>7 DEF RvInv

(* What the pages and the application hold, holds in every state. *)
LEMMA ReviewInvariant == ASSUME RvBounds PROVE Spec => []RvInv
<1>1. Init => RvInv BY RvInit DEF Init
<1>2. RvInv /\ [Next]_vars => RvInv'
  <2>1. ASSUME RvInv, Rv!Next PROVE RvInv'
    BY <2>1, PageSteps, RunSteps, DecisionSteps, OthersSteps, SnapshotStep DEF Rv!Next
  <2>2. ASSUME RvInv, UNCHANGED rvVars PROVE RvInv'
    BY <2>2, PagesKept, ApplyKept DEF RvInv, rvVars, Rv!page, Rv!books
  <2>3. [Next]_vars => Rv!Next \/ UNCHANGED rvVars BY DEF Next, vars
  <2>. QED BY <2>1, <2>2, <2>3
<1>. QED BY <1>1, <1>2, PTL DEF Spec

(* An exported decision was made on its own packet, and an application that ends undisturbed *)
(* has applied every decision of its file, reported it or left the exception of a duplicate, *)
(* for any number of runs, tabs and rows (build-review-dashboard.mjs:305-327,                *)
(* apply-decisions.ts:84-126, posting.ts:185-186, 277-279).                                  *)
THEOREM ReviewStays == ASSUME RvBounds PROVE Spec => []ReviewHolds
<1>1. RvInv => ReviewHolds
  BY DEF RvInv, PagesInv, ApplyInv, ReviewHolds, Rv!ReviewHolds
<1>. QED BY <1>1, ReviewInvariant, PTL
-----------------------------------------------------------------------------
(* Nights: the anchor of the audit log. *)

NtBounds == Days \in Nat /\ Retries \in Nat

NtSubmission == [day : 0..Days, rows : Nat]
NtWorker == [at : {"idle", "ask", "wait", "fail"}, day : 0..Days, rows : Nat, tries : Nat]

NtType ==
  /\ today \in 0..Days /\ log \in [0..Days -> Nat] /\ anchorer \in NtWorker
  /\ wire \subseteq NtSubmission /\ chain \subseteq NtSubmission
  /\ DOMAIN anchored \subseteq 0..Days

(* Rows are never taken back, so whatever was read, sent or executed is a part of the *)
(* log of its day, also when it is executed days later.                               *)
RowsInLog ==
  /\ \A s \in wire \cup chain : s.rows <= log[s.day]
  /\ anchorer.rows <= log[anchorer.day]

(* The worker asks for a day without a record only, and what it read of that day no   *)
(* submission of an earlier attempt is ahead of.                                      *)
AskingNewest ==
  anchorer.at \in {"ask", "wait"} =>
    /\ anchorer.day \notin DOMAIN anchored
    /\ \A s \in wire \cup chain : s.day = anchorer.day => s.rows <= anchorer.rows

NtInv == NtType /\ RowsInLog /\ AskingNewest /\ Nt!RecordedIsNewest

LEMMA NtInit == ASSUME NtBounds, Nt!Init PROVE NtInv
<1>1. NtType BY DEF Nt!Init, NtBounds, NtType, NtWorker, Nt!Idle
<1>2. RowsInLog BY DEF Nt!Init, NtBounds, RowsInLog, Nt!Idle
<1>3. AskingNewest BY DEF Nt!Init, AskingNewest, Nt!Idle
<1>4. Nt!RecordedIsNewest BY DEF Nt!Init, Nt!RecordedIsNewest
<1>. QED BY <1>1, <1>2, <1>3, <1>4 DEF NtInv

(* The clock, the digest, and a death, which takes the worker with it. *)
LEMMA ClockSteps ==
  ASSUME NtBounds, NtInv,
         \/ Nt!ThreeOClock \/ Nt!SevenOClock \/ Nt!Midnight \/ Nt!Starts \/ Nt!Dies
         \/ Nt!BeginDigest \/ Nt!Defer \/ Nt!Digest \/ UNCHANGED ntVars
  PROVE  NtInv'
<1>1. /\ today' \in 0..Days /\ UNCHANGED <<log, wire, chain, anchored>>
      /\ anchorer' = anchorer \/ anchorer' = Nt!Idle
  BY DEF Nt!ThreeOClock, Nt!SevenOClock, Nt!Midnight, Nt!Starts, Nt!Dies, Nt!BeginDigest,
         Nt!Defer, Nt!Digest, Nt!NoticeStep, Nt!clock, Nt!Hour, Nt!anchors, ntVars, NtInv,
         NtType, NtBounds
<1>2. Nt!Idle \in NtWorker /\ Nt!Idle.rows <= log[Nt!Idle.day] /\ Nt!Idle.at = "idle"
  BY DEF Nt!Idle, NtWorker, NtBounds, NtInv, NtType
<1>3. NtType' BY <1>1, <1>2 DEF NtInv, NtType
<1>4. RowsInLog' BY <1>1, <1>2 DEF NtInv, RowsInLog
<1>5. AskingNewest' BY <1>1, <1>2 DEF NtInv, AskingNewest
<1>6. Nt!RecordedIsNewest' BY <1>1 DEF NtInv, Nt!RecordedIsNewest
<1>. QED BY <1>3, <1>4, <1>5, <1>6 DEF NtInv

LEMMA LogStep == ASSUME NtBounds, NtInv, Nt!Write PROVE NtInv'
<1>1. /\ log' = [log EXCEPT ![today] = @ + 1]
      /\ UNCHANGED <<today, anchorer, wire, chain, anchored>>
  BY DEF Nt!Write, Nt!clock, Nt!anchors
<1>2. today \in 0..Days /\ log \in [0..Days -> Nat] BY DEF NtInv, NtType
<1>3. log' \in [0..Days -> Nat] /\ \A d \in 0..Days : log[d] <= log'[d] BY <1>1, <1>2
<1>4. NtType' BY <1>1, <1>3 DEF NtInv, NtType
<1>5. RowsInLog'
  <2>1. \A s \in wire \cup chain : s.day \in 0..Days /\ s.rows \in Nat
    BY DEF NtInv, NtType, NtSubmission
  <2>2. anchorer.day \in 0..Days /\ anchorer.rows \in Nat BY DEF NtInv, NtType, NtWorker
  <2>3. \A s \in wire \cup chain : s.rows <= log'[s.day]
    BY <1>2, <1>3, <2>1 DEF NtInv, RowsInLog
  <2>4. anchorer.rows <= log'[anchorer.day]
    BY <1>2, <1>3, <2>2 DEF NtInv, RowsInLog
  <2>. QED BY <1>1, <2>3, <2>4 DEF RowsInLog
<1>6. AskingNewest' BY <1>1 DEF NtInv, AskingNewest
<1>7. Nt!RecordedIsNewest' BY <1>1 DEF NtInv, Nt!RecordedIsNewest
<1>. QED BY <1>4, <1>5, <1>6, <1>7 DEF NtInv

(* A cycle ends, or goes on with its submission; one that was sent is executed or refused. *)
LEMMA WorkerGoes ==
  ASSUME NtBounds, NtInv, UNCHANGED <<today, log, anchored>>,
         \/ anchorer' = Nt!Idle /\ wire' \cup chain' \subseteq wire \cup chain
         \/ /\ anchorer' \in NtWorker /\ anchorer'.rows = anchorer.rows
            /\ anchorer'.day = anchorer.day /\ anchorer.at \in {"ask", "wait"}
            /\ wire' \cup chain' \subseteq wire \cup chain \cup {Nt!Asked}
         \/ anchorer' = anchorer /\ wire' \cup chain' \subseteq wire \cup chain,
         chain \subseteq chain'
  PROVE  NtInv'
<1>0. Nt!Idle \in NtWorker /\ Nt!Idle.rows <= log[Nt!Idle.day] /\ Nt!Idle.at = "idle"
  BY DEF Nt!Idle, NtWorker, NtBounds, NtInv, NtType
<1>1. Nt!Asked \in NtSubmission /\ Nt!Asked.rows <= log[Nt!Asked.day]
      /\ Nt!Asked.day = anchorer.day /\ Nt!Asked.rows = anchorer.rows
      /\ anchorer.rows <= anchorer.rows
  BY DEF Nt!Asked, NtSubmission, NtInv, NtType, NtWorker, RowsInLog
<1>2. wire' \cup chain' \subseteq wire \cup chain \cup {Nt!Asked} OBVIOUS
<1>3. NtType' BY <1>0, <1>1, <1>2 DEF NtInv, NtType
<1>4. RowsInLog' BY <1>0, <1>1, <1>2 DEF NtInv, RowsInLog
<1>5. AskingNewest'
  <2>1. CASE anchorer' = Nt!Idle BY <1>0, <2>1 DEF AskingNewest
  <2>2. CASE anchorer' = anchorer /\ wire' \cup chain' \subseteq wire \cup chain
    BY <2>2 DEF NtInv, AskingNewest
  <2>3. CASE anchorer'.rows = anchorer.rows /\ anchorer'.day = anchorer.day
             /\ anchorer.at \in {"ask", "wait"}
    <3>1. /\ anchorer.day \notin DOMAIN anchored
          /\ \A s \in wire \cup chain : s.day = anchorer.day => s.rows <= anchorer.rows
      BY <2>3 DEF NtInv, AskingNewest
    <3>. QED BY <1>1, <1>2, <2>3, <3>1 DEF AskingNewest
  <2>. QED BY <2>1, <2>2, <2>3
<1>6. Nt!RecordedIsNewest'
  <2>1. CASE wire' \cup chain' \subseteq wire \cup chain
    BY <2>1 DEF NtInv, Nt!RecordedIsNewest
  <2>2. CASE anchorer.at \in {"ask", "wait"}
    <3>1. anchorer.day \notin DOMAIN anchored BY <2>2 DEF NtInv, AskingNewest
    <3>. QED BY <1>1, <1>2, <3>1 DEF NtInv, Nt!RecordedIsNewest
  <2>. QED BY <2>1, <2>2
<1>. QED BY <1>3, <1>4, <1>5, <1>6 DEF NtInv

(* The worker reads the whole log of the day, so nothing of it that is under way is ahead. *)
LEMMA ReadStep == ASSUME NtBounds, NtInv, Nt!ReadDay PROVE NtInv'
<1>0. today \in 0..Days /\ log \in [0..Days -> Nat] BY DEF NtInv, NtType
<1>1. /\ anchorer' = [at |-> "ask", day |-> today, rows |-> log[today], tries |-> 0]
      /\ UNCHANGED <<today, log, wire, chain, anchored>> /\ today \notin DOMAIN anchored
  BY DEF Nt!ReadDay, Nt!AnchorStep, Nt!clock
<1>2. anchorer' \in NtWorker /\ anchorer'.rows <= log[anchorer'.day]
      /\ anchorer'.day = today /\ anchorer'.rows = log[today]
  BY <1>0, <1>1 DEF NtWorker
<1>3. NtType' BY <1>1, <1>2 DEF NtInv, NtType
<1>4. RowsInLog' BY <1>1, <1>2 DEF NtInv, RowsInLog
<1>5. AskingNewest' BY <1>1, <1>2 DEF NtInv, RowsInLog, AskingNewest
<1>6. Nt!RecordedIsNewest' BY <1>1 DEF NtInv, Nt!RecordedIsNewest
<1>. QED BY <1>3, <1>4, <1>5, <1>6 DEF NtInv

LEMMA AnchorSteps ==
  ASSUME NtBounds, NtInv,
         \/ Nt!Skip \/ Nt!Submit \/ Nt!AskAgain \/ Nt!Refused \/ Nt!Fail
         \/ \E s \in wire : Nt!Execute(s)
  PROVE  NtInv'
<1>0. anchorer \in NtWorker BY DEF NtInv, NtType
<1>1. UNCHANGED <<today, log, anchored>>
  BY DEF Nt!Skip, Nt!Submit, Nt!AskAgain, Nt!Refused, Nt!Fail, Nt!Execute, Nt!AnchorStep,
         Nt!clock
<1>2. CASE Nt!Skip \/ Nt!Fail
  BY <1>1, <1>2, WorkerGoes DEF Nt!Skip, Nt!Fail, Nt!EndCycle
<1>3. CASE Nt!Submit \/ Nt!AskAgain \/ Nt!Refused
  <2>1. \E a \in {"ask", "wait", "fail"}, t \in {anchorer.tries, anchorer.tries + 1} :
          anchorer' = [anchorer EXCEPT !.at = a, !.tries = t]
    <3>1. \A a : [anchorer EXCEPT !.at = a] = [anchorer EXCEPT !.at = a, !.tries = anchorer.tries]
      BY <1>0 DEF NtWorker
    <3>2. CASE Nt!Submit BY <3>1, <3>2 DEF Nt!Submit
    <3>3. CASE Nt!AskAgain BY <3>1, <3>3 DEF Nt!AskAgain
    <3>4. CASE Nt!Refused BY <3>1, <3>4 DEF Nt!Refused
    <3>. QED BY <1>3, <3>2, <3>3, <3>4
  <2>2. anchorer' \in NtWorker /\ anchorer'.rows = anchorer.rows /\ anchorer'.day = anchorer.day
    <3>1. PICK a \in {"ask", "wait", "fail"}, t \in {anchorer.tries, anchorer.tries + 1} :
            anchorer' = [anchorer EXCEPT !.at = a, !.tries = t]
      BY <2>1
    <3>2. t \in Nat BY <1>0 DEF NtWorker
    <3>3. a \in {"idle", "ask", "wait", "fail"} OBVIOUS
    <3>4. anchorer' \in NtWorker BY <1>0, <3>1, <3>2, <3>3 DEF NtWorker
    <3>. QED BY <1>0, <3>1, <3>4 DEF NtWorker
  <2>3. /\ chain' = chain /\ wire' \subseteq wire \cup {Nt!Asked}
        /\ anchorer.at \in {"ask", "wait"}
    BY <1>3 DEF Nt!Submit, Nt!AskAgain, Nt!Refused
  <2>. QED BY <1>1, <2>2, <2>3, WorkerGoes
<1>4. ASSUME NEW s \in wire, Nt!Execute(s) PROVE NtInv'
  <2>1. anchorer' = anchorer /\ wire' = wire \ {s} /\ chain' = chain \cup {s}
    BY <1>4 DEF Nt!Execute
  <2>. QED BY <1>1, <2>1, WorkerGoes
<1>. QED BY <1>2, <1>3, <1>4

LEMMA ProofStep == ASSUME NtBounds, NtInv, Nt!Record PROVE NtInv'
<1>1. /\ Nt!Asked \in chain /\ anchored' = Nt!Recorded /\ anchorer' = Nt!Idle
      /\ anchorer.at = "wait" /\ UNCHANGED <<today, log, wire, chain>>
  BY DEF Nt!Record, Nt!EndCycle, Nt!AnchorStep, Nt!clock
<1>2. Nt!Idle \in NtWorker /\ Nt!Idle.rows <= log[Nt!Idle.day] /\ Nt!Idle.at = "idle"
  BY DEF Nt!Idle, NtWorker, NtBounds, NtInv, NtType
<1>3. anchorer \in NtWorker BY DEF NtInv, NtType
<1>4. DOMAIN anchored' = DOMAIN anchored \cup {anchorer.day}
      /\ \A d \in DOMAIN anchored' :
           anchored'[d] = IF d \in DOMAIN anchored THEN anchored[d] ELSE anchorer.rows
  BY <1>1 DEF Nt!Recorded
<1>5. NtType' BY <1>1, <1>2, <1>3, <1>4 DEF NtInv, NtType, NtWorker
<1>6. RowsInLog' BY <1>1, <1>2 DEF NtInv, RowsInLog
<1>7. AskingNewest' BY <1>1, <1>2 DEF AskingNewest
<1>8. Nt!RecordedIsNewest'
  <2>1. ASSUME NEW d \in DOMAIN anchored'
        PROVE  /\ [day |-> d, rows |-> anchored'[d]] \in chain
               /\ \A s \in wire \cup chain : s.day = d => s.rows <= anchored'[d]
    <3>1. CASE d \in DOMAIN anchored
      BY <1>4, <3>1 DEF NtInv, Nt!RecordedIsNewest
    <3>2. CASE d \notin DOMAIN anchored
      <4>1. d = anchorer.day /\ anchored'[d] = anchorer.rows BY <1>4, <3>2
      <4>. QED BY <1>1, <4>1 DEF Nt!Asked, NtInv, AskingNewest
    <3>. QED BY <3>1, <3>2
  <2>. QED BY <1>1, <2>1 DEF Nt!RecordedIsNewest
<1>. QED BY <1>5, <1>6, <1>7, <1>8 DEF NtInv

(* What was read, sent and executed for a day is in its log in every state. *)
LEMMA NightsInvariant == ASSUME NtBounds PROVE Spec => []NtInv
<1>1. Init => NtInv BY NtInit DEF Init
<1>2. NtInv /\ [Next]_vars => NtInv'
  <2>1. ASSUME NtInv, Next PROVE NtInv'
    <3>1. CASE Nt!Next
      BY <2>1, <3>1, ClockSteps, LogStep, ReadStep, AnchorSteps, ProofStep DEF Nt!Next
    <3>2. CASE UNCHANGED ntVars BY <2>1, <3>2, ClockSteps
    <3>. QED BY <2>1, <3>1, <3>2 DEF Next
  <2>2. ASSUME NtInv, UNCHANGED vars PROVE NtInv' BY <2>2, ClockSteps DEF vars
  <2>. QED BY <2>1, <2>2
<1>. QED BY <1>1, <1>2, PTL DEF Spec
-----------------------------------------------------------------------------
(* Alerts: a call between its statements has written its exception, and a call of a job *)
(* is of a job that is not done.                                                        *)

AlInv ==
  /\ raising \subseteq Al!Raiser
  /\ \A a \in raising : a.risk \in raised /\ (a.by = "job" => a.risk \in riskJobs)
  /\ raised \cup riskJobs \cup unsaid \subseteq Risks /\ alerted \subseteq raised
  /\ Al!RisksAreAlerted

(* What breaks off is owed by the job that is handed out again, or is unsaid. *)
LEMMA BreakStep ==
  ASSUME AlInv, NEW A \in SUBSET raising, Al!BrokenOff(A)
  PROVE  AlInv'
<1>1. /\ raising' = raising \ A /\ UNCHANGED <<raised, alerted>>
      /\ unsaid' = unsaid \cup {a.risk : a \in Al!LastTry(A)}
      /\ riskJobs' = {r \in riskJobs : Al!Job(r) \notin Al!LastTry(A)}
  BY DEF Al!BrokenOff
<1>2. Al!LastTry(A) \subseteq A BY DEF Al!LastTry
<1>3. \A a \in raising : a \in Al!Raiser BY DEF AlInv
<1>4. ASSUME NEW r \in riskJobs, r \notin riskJobs' PROVE r \in unsaid'
  <2>1. Al!Job(r) \in Al!LastTry(A) BY <1>1, <1>4
  <2>2. Al!Job(r).risk = r BY DEF Al!Job
  <2>. QED BY <1>1, <2>1, <2>2
<1>5. ASSUME NEW a \in raising', a.by = "job" PROVE a.risk \in riskJobs'
  <2>1. a \in raising /\ a \notin A /\ a \in Al!Raiser BY <1>1, <1>3
  <2>2. a = Al!Job(a.risk) BY <1>5, <2>1 DEF Al!Raiser, Al!Job
  <2>3. a.risk \in riskJobs BY <1>5, <2>1 DEF AlInv
  <2>4. Al!Job(a.risk) \notin Al!LastTry(A) BY <1>2, <2>1, <2>2
  <2>. QED BY <1>1, <2>3, <2>4
<1>6. ASSUME NEW a \in A PROVE a.risk \in riskJobs' \cup unsaid'
  <2>1. a \in raising /\ a \in Al!Raiser BY <1>3
  <2>2. CASE a \in Al!LastTry(A) BY <1>1, <2>2
  <2>3. CASE a \notin Al!LastTry(A)
    <3>1. a.by # "request" BY <2>3 DEF Al!LastTry
    <3>2. a.by = "job" BY <2>1, <3>1 DEF Al!Raiser
    <3>3. a.risk \in riskJobs BY <2>1, <3>2 DEF AlInv
    <3>. QED BY <1>4, <3>3
  <2>. QED BY <2>2, <2>3
<1>7. Al!RisksAreAlerted'
  <2>1. ASSUME NEW r \in raised PROVE r \in alerted \cup Al!Owed' \cup unsaid'
    <3>1. r \in alerted \cup unsaid \cup riskJobs \cup {a.risk : a \in raising}
      BY DEF AlInv, Al!RisksAreAlerted, Al!Owed
    <3>2. CASE r \in alerted \cup unsaid BY <1>1, <3>2
    <3>3. CASE r \in riskJobs BY <1>4, <3>3 DEF Al!Owed
    <3>4. ASSUME NEW a \in raising, r = a.risk PROVE r \in Al!Owed' \cup unsaid'
      <4>1. CASE a \in A BY <1>6, <3>4, <4>1 DEF Al!Owed
      <4>2. CASE a \notin A BY <1>1, <3>4, <4>2 DEF Al!Owed
      <4>. QED BY <4>1, <4>2
    <3>. QED BY <3>1, <3>2, <3>3, <3>4
  <2>. QED BY <1>1, <2>1 DEF Al!RisksAreAlerted
<1>8. raised' \cup riskJobs' \cup unsaid' \subseteq Risks /\ alerted' \subseteq raised'
      /\ raising' \subseteq Al!Raiser
  <2>1. \A a \in Al!LastTry(A) : a.risk \in Risks BY <1>2, <1>3 DEF Al!Raiser
  <2>. QED BY <1>1, <2>1 DEF AlInv
<1>9. \A a \in raising' : a.risk \in raised' BY <1>1 DEF AlInv
<1>. QED BY <1>5, <1>7, <1>8, <1>9 DEF AlInv, Al!Raiser

LEMMA AlertSteps ==
  ASSUME AlInv, \/ UNCHANGED alVars
                \/ \E a \in Al!Raiser : Al!Raise(a) \/ Al!Alert(a)
  PROVE  AlInv'
<1>1. CASE UNCHANGED alVars
  BY <1>1 DEF alVars, AlInv, Al!Raiser, Al!RisksAreAlerted, Al!Owed
<1>2. ASSUME NEW a \in Al!Raiser, Al!Raise(a) PROVE AlInv'
  BY <1>2 DEF Al!Raise, AlInv, Al!Raiser, Al!RisksAreAlerted, Al!Owed
<1>3. ASSUME NEW a \in Al!Raiser, Al!Alert(a) PROVE AlInv'
  <2>1. /\ a \in raising /\ raising' = raising \ {a} /\ alerted' = alerted \cup {a.risk}
        /\ UNCHANGED <<raised, unsaid>> /\ riskJobs' \subseteq riskJobs
        /\ riskJobs \subseteq riskJobs' \cup {a.risk}
        /\ (a.by # "job" => riskJobs' = riskJobs) /\ (a.by = "job" => riskJobs' = riskJobs \ {a.risk})
    BY <1>3 DEF Al!Alert
  <2>2. ASSUME NEW b \in raising', b.by = "job" PROVE b.risk \in riskJobs'
    <3>1. b \in raising /\ b # a /\ b.risk \in riskJobs /\ b \in Al!Raiser
      BY <2>1, <2>2 DEF AlInv
    <3>2. a.by = "job" => b.risk # a.risk BY <2>2, <3>1 DEF Al!Raiser
    <3>. QED BY <2>1, <3>1, <3>2
  <2>3. Al!RisksAreAlerted'
    <3>1. ASSUME NEW r \in raised PROVE r \in alerted' \cup Al!Owed' \cup unsaid'
      <4>1. r \in alerted \cup unsaid \cup riskJobs \cup {b.risk : b \in raising}
        BY DEF AlInv, Al!RisksAreAlerted, Al!Owed
      <4>2. CASE r \in alerted \cup unsaid \cup riskJobs BY <2>1, <4>2 DEF Al!Owed
      <4>3. ASSUME NEW b \in raising, r = b.risk PROVE r \in alerted' \cup Al!Owed'
        <5>1. CASE b = a BY <2>1, <4>3, <5>1
        <5>2. CASE b # a BY <2>1, <4>3, <5>2 DEF Al!Owed
        <5>. QED BY <5>1, <5>2
      <4>. QED BY <4>1, <4>2, <4>3
    <3>. QED BY <2>1, <3>1 DEF Al!RisksAreAlerted
  <2>. QED BY <2>1, <2>2, <2>3 DEF AlInv, Al!Raiser
<1>. QED BY <1>1, <1>2, <1>3

(* An exception between its statements is owed by its job until it is told. *)
LEMMA AlertsInvariant == Spec => []AlInv
<1>1. Init => AlInv
  BY DEF Init, Al!Init, AlInv, Al!Raiser, Al!RisksAreAlerted, Al!Owed
<1>2. AlInv /\ [Next]_vars => AlInv'
  <2>1. ASSUME AlInv, Al!Next PROVE AlInv'
    <3>1. CASE Al!Dies BY <2>1, <3>1, BreakStep DEF Al!Dies
    <3>2. ASSUME NEW a \in Al!Raiser, Al!AlertFails(a) PROVE AlInv'
      <4>1. {a} \in SUBSET raising /\ Al!BrokenOff({a}) BY <3>2 DEF Al!AlertFails
      <4>. QED BY <2>1, <4>1, BreakStep
    <3>. QED BY <2>1, <3>1, <3>2, AlertSteps DEF Al!Next
  <2>2. ASSUME AlInv, UNCHANGED alVars PROVE AlInv' BY <2>2, AlertSteps
  <2>3. [Next]_vars => Al!Next \/ UNCHANGED alVars BY DEF Next, vars
  <2>. QED BY <2>1, <2>2, <2>3
<1>. QED BY <1>1, <1>2, PTL DEF Spec

(* A day's proof on record is the newest SwarmSync has of it or may yet execute, however *)
(* submissions are lost, repeated or late; and a material exception, raised by a job or  *)
(* in a request, gets its alert unless what raised it broke off between the statements   *)
(* and nothing raises it again (audit-anchor.ts:30-53, exceptions.ts:88-95).             *)
THEOREM NightsStay == ASSUME NtBounds PROVE Spec => []NightsHold
<1>1. NtInv /\ AlInv => NightsHold BY DEF NtInv, AlInv, NightsHold
<1>. QED BY <1>1, NightsInvariant, AlertsInvariant, PTL

-----------------------------------------------------------------------------
(* Bills: what a connector makes of an approved transaction, and takes for it. *)

BlBounds == Total \in Int /\ MaxLines \in Nat /\ Bl!None \notin Values

BlFields == {"number", "total", "lines", "header", "ours", "touched", "extra"}

(* The bill that the connector made, whatever a bookkeeper does to it later: as long as *)
(* nobody edits it, every line and the header carry what was approved for them.         *)
Sent(b) ==
  /\ b.ours
  /\ ~b.touched => /\ b.number = draft.number /\ b.total = Bl!Billed + b.extra
                   /\ 1 \in DOMAIN b.lines
                   /\ \A n \in DOMAIN b.lines : b.lines[n].tags = Bl!LineTags
                   /\ b.header = Bl!Mapped(Bl!HeaderKinds)

BooksKept == /\ \E S : books \in Seq(S)
             /\ \A i \in DOMAIN books : BlFields \subseteq DOMAIN books[i]

DraftKept == /\ draft.total = Total
             /\ draft.lines = <<>> \/ 1 \in DOMAIN draft.lines
             /\ \A k \in DOMAIN draft.dims : draft.dims[k] \in Values \cup {Bl!Blank}

(* The id under which the connector reads a bill back is the one of the bill it made. *)
IdIsOurs == call.at \in {"made", "unread", "read"} /\ call.id # 0 =>
              call.id \in DOMAIN books /\ Sent(books[call.id])

BlInv == /\ DraftKept /\ BooksKept /\ IdIsOurs
         /\ {"at", "tries", "id"} \subseteq DOMAIN call
         /\ read # Bl!None => call.at = "read"
         /\ Bl!BillsHold

LEMMA AppendKeeps ==
  ASSUME NEW S, NEW s \in Seq(S), NEW e
  PROVE  /\ Append(s, e) \in Seq(S \cup {e})
         /\ DOMAIN Append(s, e) = DOMAIN s \cup {Len(s) + 1}
         /\ Len(s) + 1 \notin DOMAIN s
         /\ \A i \in DOMAIN s : Append(s, e)[i] = s[i]
         /\ Append(s, e)[Len(s) + 1] = e
<1>1. s \in Seq(S \cup {e}) OBVIOUS
<1>. QED BY <1>1

(* Of the tags that a line or the header may carry, Found names one that is there. *)
LEMMA FoundIsThere ==
  ASSUME NEW b, NEW k, Bl!Found(b, k) # Bl!None
  PROVE  \/ k \in DOMAIN b.header /\ b.header[k] = Bl!Found(b, k)
         \/ \E n \in DOMAIN b.lines :
              k \in DOMAIN b.lines[n].tags /\ b.lines[n].tags[k] = Bl!Found(b, k)
<1>1. CASE k \in Bl!HeaderKinds BY <1>1 DEF Bl!Found
<1>2. CASE k \notin Bl!HeaderKinds
  <2>1. Bl!FirstWith(b, k) # {} /\ Bl!Found(b, k) = b.lines[CHOOSE n \in Bl!FirstWith(b, k) : TRUE].tags[k]
    BY <1>2 DEF Bl!Found
  <2>2. (CHOOSE n \in Bl!FirstWith(b, k) : TRUE) \in Bl!FirstWith(b, k) BY <2>1
  <2>. QED BY <2>1, <2>2 DEF Bl!FirstWith
<1>. QED BY <1>1, <1>2

LEMMA ApprovedValues ==
  ASSUME BlBounds, DraftKept, NEW kinds, NEW k \in DOMAIN Bl!Mapped(kinds)
  PROVE  /\ k \in kinds /\ k \in DOMAIN draft.dims
         /\ Bl!Mapped(kinds)[k] = draft.dims[k] /\ draft.dims[k] # Bl!None
BY DEF BlBounds, DraftKept, Bl!Mapped, Bl!Blank, Bl!None

LEMMA MappedHas ==
  ASSUME NEW kinds, NEW k \in kinds, k \in DOMAIN draft.dims, draft.dims[k] # Bl!Blank
  PROVE  k \in DOMAIN Bl!Mapped(kinds) /\ Bl!Mapped(kinds)[k] = draft.dims[k]
BY DEF Bl!Mapped

(* A bill as it was sent carries every approved dimension where Found looks for it. *)
LEMMA SentCarries ==
  ASSUME BlBounds, DraftKept, NEW b, Sent(b), ~b.touched, NEW k \in DOMAIN Bl!Approved
  PROVE  /\ Bl!Found(b, k) = draft.dims[k]
         /\ Bl!OnHeader(b, k) \/ \A n \in DOMAIN b.lines : Bl!OnLine(b, n, k)
<1>1. /\ k \in Bl!HeaderKinds \/ k \in Bl!LineKinds
      /\ k \in DOMAIN draft.dims /\ draft.dims[k] # Bl!Blank
  BY DEF Bl!Approved, Bl!Mapped
<1>2. CASE k \in Bl!HeaderKinds
  <2>1. k \in DOMAIN b.header /\ b.header[k] = draft.dims[k] BY <1>1, <1>2, MappedHas DEF Sent
  <2>. QED BY <1>2, <2>1 DEF Bl!Found, Bl!OnHeader
<1>3. CASE k \notin Bl!HeaderKinds
  <2>1. \A n \in DOMAIN b.lines :
          k \in DOMAIN b.lines[n].tags /\ b.lines[n].tags[k] = draft.dims[k]
    BY <1>1, <1>3, MappedHas DEF Sent, Bl!LineTags
  <2>2. 1 \in Bl!FirstWith(b, k) BY <2>1 DEF Sent, Bl!FirstWith
  <2>3. Bl!Found(b, k) = b.lines[CHOOSE n \in Bl!FirstWith(b, k) : TRUE].tags[k]
    BY <1>3, <2>2 DEF Bl!Found
  <2>4. (CHOOSE n \in Bl!FirstWith(b, k) : TRUE) \in Bl!FirstWith(b, k) BY <2>2
  <2>. QED BY <2>1, <2>3, <2>4 DEF Bl!OnLine, Bl!FirstWith
<1>. QED BY <1>2, <1>3

(* The verdict of either read-back; QuickBooks Desktop has no dimensions to compare. *)
Verdict(b, exact) ==
  IF provider = "qbd" THEN Bl!BillMismatch(b, exact) ELSE Bl!Compared(b, exact)

LEMMA ComparedHolds ==
  ASSUME BlBounds, DraftKept, NEW b, Sent(b), NEW exact \in BOOLEAN
  PROVE  /\ Verdict(b, exact) = "match" =>
              /\ Bl!SameMoney(b) /\ (draft.number # Bl!None => b.number = draft.number)
              /\ \A k \in DOMAIN Bl!Approved :
                   /\ Bl!OnHeader(b, k) \/ \E n \in DOMAIN b.lines : Bl!OnLine(b, n, k)
                   /\ ~b.touched =>
                        Bl!OnHeader(b, k) \/ \A n \in DOMAIN b.lines : Bl!OnLine(b, n, k)
         /\ Verdict(b, exact) # "match" =>
              \/ b.touched \/ b.extra # 0
              \/ draft.lines # <<>> /\ Bl!Sum(draft.lines) # draft.total
<1>1. ASSUME Verdict(b, exact) = "match"
      PROVE  /\ Bl!Near(draft.total, b.total, exact)
             /\ draft.number # Bl!None => b.number = draft.number
             /\ \A k \in DOMAIN Bl!Approved : Bl!Found(b, k) = Bl!Approved[k]
  <2>1. provider = "qbd" => DOMAIN Bl!Approved = {}
    BY DEF Bl!Approved, Bl!Mapped, Bl!LineKinds, Bl!HeaderKinds
  <2>. QED BY <1>1, <2>1 DEF Verdict, Bl!BillMismatch, Bl!Compared, Bl!Approved
<1>2. ASSUME Bl!Near(draft.total, b.total, exact) PROVE Bl!SameMoney(b)
  <2>1. draft.total \in Int BY DEF BlBounds, DraftKept
  <2>. QED BY <1>2, <2>1 DEF Bl!Near, Bl!SameMoney
<1>3. ASSUME NEW k \in DOMAIN Bl!Approved, Bl!Found(b, k) = Bl!Approved[k]
      PROVE  Bl!OnHeader(b, k) \/ \E n \in DOMAIN b.lines : Bl!OnLine(b, n, k)
  <2>1. Bl!Approved[k] = draft.dims[k] /\ draft.dims[k] # Bl!None
    BY ApprovedValues DEF Bl!Approved
  <2>. QED BY <1>3, <2>1, FoundIsThere DEF Bl!OnHeader, Bl!OnLine
<1>4. ASSUME ~b.touched, b.extra = 0, draft.lines = <<>> \/ Bl!Sum(draft.lines) = draft.total
      PROVE  Verdict(b, exact) = "match"
  <2>1. Bl!Billed = draft.total BY <1>4 DEF Bl!Billed
  <2>2. b.total = draft.total BY <1>4, <2>1 DEF Sent, BlBounds, DraftKept
  <2>3. Bl!Near(draft.total, b.total, exact) BY <2>2 DEF Bl!Near
  <2>4. b.number = draft.number BY <1>4 DEF Sent
  <2>5. \A k \in DOMAIN Bl!Approved : Bl!Found(b, k) = Bl!Approved[k]
    BY <1>4, SentCarries, ApprovedValues DEF Bl!Approved
  <2>. QED BY <2>3, <2>4, <2>5 DEF Verdict, Bl!BillMismatch, Bl!Compared, Bl!Approved
<1>. QED BY <1>1, <1>2, <1>3, <1>4, SentCarries

LEMMA BlInit == ASSUME BlBounds, Bl!Init PROVE BlInv
<1>1. draft \in Bl!Drafts /\ books = <<>> /\ call.at = "start" /\ read = Bl!None
      /\ {"at", "tries", "id"} \subseteq DOMAIN call
  BY DEF Bl!Init
<1>2. DraftKept
  <2>1. draft.total = Total /\ draft.dims \in Bl!Dims
        /\ draft.lines \in UNION {[1..n -> Amounts] : n \in 0..MaxLines}
    BY <1>1 DEF Bl!Drafts
  <2>2. PICK n \in 0..MaxLines : draft.lines \in [1..n -> Amounts] BY <2>1
  <2>3. CASE n = 0
    <3>1. draft.lines \in Seq(Amounts) /\ Len(draft.lines) = 0 BY <2>2, <2>3
    <3>. QED BY <2>1, <3>1 DEF DraftKept, Bl!Dims
  <2>4. CASE n # 0
    <3>1. 1 \in DOMAIN draft.lines BY <2>2, <2>4 DEF BlBounds
    <3>. QED BY <2>1, <3>1 DEF DraftKept, Bl!Dims
  <2>. QED BY <2>3, <2>4
<1>3. BooksKept
  <2>1. books \in Seq({}) /\ DOMAIN books = {} BY <1>1
  <2>. QED BY <2>1 DEF BooksKept
<1>. QED BY <1>1, <1>2, <1>3 DEF BlInv, IdIsOurs, Bl!BillsHold, Bl!AdoptedIsSame,
             Bl!MatchIsApproved, Bl!NoFalseAlarm, Bl!None

(* Nothing changes the draft, so a bill that was sent stays one until somebody edits it. *)
LEMMA DraftStays ==
  ASSUME UNCHANGED <<provider, draft>>
  PROVE  /\ DraftKept => DraftKept'
         /\ \A b : Sent(b) => Sent(b)'
<1>1. DraftKept => DraftKept' BY DEF DraftKept
<1>2. ASSUME NEW b, Sent(b) PROVE Sent(b)'
  <2>1. Bl!LineKinds' = Bl!LineKinds /\ Bl!HeaderKinds' = Bl!HeaderKinds
    BY DEF Bl!LineKinds, Bl!HeaderKinds
  <2>2. \A kinds : Bl!Mapped(kinds)' = Bl!Mapped(kinds) BY DEF Bl!Mapped
  <2>3. Bl!Billed' = Bl!Billed BY DEF Bl!Billed
  <2>. QED BY <1>2, <2>1, <2>2, <2>3 DEF Sent, Bl!LineTags
<1>. QED BY <1>1, <1>2

LEMMA NoVerdictYet ==
  ASSUME BlInv, call.at # "read", read' = read, call'.at # "adopted"
  PROVE  (read # Bl!None => call.at = "read")' /\ Bl!BillsHold'
<1>1. read' = Bl!None BY DEF BlInv
<1>. QED BY <1>1 DEF Bl!BillsHold, Bl!AdoptedIsSame, Bl!MatchIsApproved, Bl!NoFalseAlarm, Bl!None

LEMMA VerdictStays ==
  ASSUME BlInv, UNCHANGED <<provider, draft, call, seen, read>>
  PROVE  (read # Bl!None => call.at = "read")' /\ Bl!BillsHold'
<1>1. Bl!Approved' = Bl!Approved
  BY DEF Bl!Approved, Bl!Mapped, Bl!LineKinds, Bl!HeaderKinds
<1>2. Bl!AdoptedIsSame' BY DEF BlInv, Bl!BillsHold, Bl!AdoptedIsSame, Bl!SameMoney
<1>3. Bl!MatchIsApproved'
  BY <1>1 DEF BlInv, Bl!BillsHold, Bl!MatchIsApproved, Bl!SameMoney, Bl!OnHeader, Bl!OnLine
<1>4. Bl!NoFalseAlarm' BY DEF BlInv, Bl!BillsHold, Bl!NoFalseAlarm
<1>. QED BY <1>2, <1>3, <1>4 DEF BlInv, Bl!BillsHold

Edited(b, c) ==
  LET t == [b EXCEPT !.touched = TRUE] IN
  c \in {[t EXCEPT !.total = @ + 2], [t EXCEPT !.number = Bl!None], [t EXCEPT !.header = <<>>]}
        \cup {[t EXCEPT !.lines[n].tags = <<>>] : n \in DOMAIN t.lines}

LEMMA EditedKeeps ==
  ASSUME NEW b, NEW c, BlFields \subseteq DOMAIN b, Edited(b, c)
  PROVE  BlFields \subseteq DOMAIN c /\ c.touched = TRUE /\ c.ours = b.ours
BY DEF BlFields, Edited

LEMMA GrownBooks ==
  ASSUME BlInv, NEW b, books' = Append(books, b), BlFields \subseteq DOMAIN b
  PROVE  /\ BooksKept'
         /\ Len(books) + 1 \in DOMAIN books' /\ books'[Len(books) + 1] = b
         /\ \A i \in DOMAIN books : i \in DOMAIN books' /\ books'[i] = books[i]
<1>1. PICK S : books \in Seq(S) BY DEF BlInv, BooksKept
<1>2. /\ books' \in Seq(S \cup {b})
      /\ DOMAIN books' = DOMAIN books \cup {Len(books) + 1}
      /\ \A i \in DOMAIN books : books'[i] = books[i]
      /\ books'[Len(books) + 1] = b
  BY <1>1, AppendKeeps
<1>3. \A i \in DOMAIN books : BlFields \subseteq DOMAIN books[i] BY DEF BlInv, BooksKept
<1>4. \A i \in DOMAIN books' : BlFields \subseteq DOMAIN books'[i] BY <1>2, <1>3
<1>. QED BY <1>2, <1>4 DEF BooksKept

(* The bookkeeper's bills come after the others, and an edited bill is no longer as sent. *)
LEMMA HandSteps == ASSUME BlInv, Bl!HandEnters \/ Bl!HandEdits PROVE BlInv'
<1>1. UNCHANGED <<provider, draft, call, seen, read>> BY DEF Bl!HandEnters, Bl!HandEdits
<1>2. DraftKept' /\ \A b : Sent(b) => Sent(b)' BY <1>1, DraftStays DEF BlInv
<1>3. PICK S : books \in Seq(S) BY DEF BlInv, BooksKept
<1>4. CASE Bl!HandEnters
  <2>1. PICK b : books' = Append(books, b) /\ BlFields \subseteq DOMAIN b
    BY <1>4 DEF Bl!HandEnters, BlFields
  <2>2. /\ BooksKept'
        /\ \A i \in DOMAIN books : i \in DOMAIN books' /\ books'[i] = books[i]
    BY <2>1, GrownBooks
  <2>3. IdIsOurs' BY <1>1, <1>2, <2>2 DEF BlInv, IdIsOurs
  <2>. QED BY <1>1, <1>2, <2>2, <2>3, VerdictStays DEF BlInv
<1>5. CASE Bl!HandEdits
  <2>a. PICK i \in DOMAIN books :
          \E c : books' = [books EXCEPT ![i] = c] /\ Edited(books[i], c)
    BY <1>5 DEF Bl!HandEdits, Edited
  <2>0. PICK c : books' = [books EXCEPT ![i] = c] /\ Edited(books[i], c) BY <2>a
  <2>1. /\ books' = [books EXCEPT ![i] = c]
        /\ BlFields \subseteq DOMAIN c /\ c.touched = TRUE /\ c.ours = books[i].ours
    BY <2>0, EditedKeeps DEF BlInv, BooksKept
  <2>2. DOMAIN books' = DOMAIN books /\ books'[i] = c
        /\ \A j \in DOMAIN books : j # i => books'[j] = books[j]
    BY <2>1
  <2>3. BooksKept'
    <3>1. books' \in Seq(S \cup {c}) BY <1>3, <2>1
    <3>. QED BY <2>1, <2>2, <3>1 DEF BlInv, BooksKept
  <2>4. IdIsOurs'
    <3>1. PICK b : b = books'[call.id] OBVIOUS
    <3>2. ASSUME call.at \in {"made", "unread", "read"}, call.id # 0
          PROVE  call.id \in DOMAIN books' /\ Sent(b)'
      <4>1. call.id \in DOMAIN books /\ Sent(books[call.id]) BY <3>2 DEF BlInv, IdIsOurs
      <4>2. CASE call.id = i
        <5>1. b.ours = books[i].ours /\ b.touched = TRUE BY <2>1, <2>2, <3>1, <4>2
        <5>. QED BY <2>2, <4>1, <4>2, <5>1 DEF Sent
      <4>3. CASE call.id # i
        <5>1. b = books[call.id] BY <2>2, <3>1, <4>1, <4>3
        <5>. QED BY <1>2, <2>2, <4>1, <5>1
      <4>. QED BY <4>2, <4>3
    <3>. QED BY <1>1, <3>1, <3>2 DEF IdIsOurs
  <2>. QED BY <1>1, <1>2, <2>3, <2>4, VerdictStays DEF BlInv
<1>. QED BY <1>4, <1>5

(* The bill that a create sends is the approved one, and the id of the answer is its own. *)
LEMMA PostStep == ASSUME BlBounds, BlInv, Bl!PostBill PROVE BlInv'
<1>0. PICK extra : books' = Append(books, Bl!Bill(Bl!Payload, extra))
  BY DEF Bl!PostBill
<1>1. PICK b : b = Bl!Bill(Bl!Payload, extra) /\ books' = Append(books, b)
  BY <1>0
<1>2. /\ UNCHANGED <<provider, draft, seen, read>> /\ call.at = "absent"
      /\ {"at", "tries", "id"} \subseteq DOMAIN call'
      /\ \/ call'.at = "made" /\ call'.id = Len(books) + 1
         \/ call'.at = "made" /\ call'.id = 0
         \/ call'.at = "unknown"
  BY DEF Bl!PostBill, Bl!Ends
<1>3. BlFields \subseteq DOMAIN b BY <1>1 DEF BlFields, Bl!Bill
<1>4. Sent(b)
  <2>1. 1 \in DOMAIN Bl!Payable
    <3>1. CASE draft.lines = <<>> BY <3>1 DEF Bl!Payable
    <3>2. CASE draft.lines # <<>> BY <3>2 DEF Bl!Payable, BlInv, DraftKept
    <3>. QED BY <3>1, <3>2
  <2>2. /\ DOMAIN Bl!Payload.lines = DOMAIN Bl!Payable
        /\ \A n \in DOMAIN Bl!Payable : Bl!Payload.lines[n].tags = Bl!LineTags
        /\ Bl!Payload.header = Bl!Mapped(Bl!HeaderKinds)
    BY DEF Bl!Payload
  <2>3. /\ b.ours = TRUE /\ b.number = draft.number /\ b.extra = extra
        /\ b.total = Bl!Billed + extra
        /\ b.lines = Bl!Payload.lines /\ b.header = Bl!Payload.header
    BY <1>1 DEF Bl!Bill
  <2>. QED BY <2>1, <2>2, <2>3 DEF Sent
<1>5. DraftKept' /\ Sent(b)' BY <1>2, <1>4, DraftStays DEF BlInv
<1>6. BooksKept' /\ Len(books) + 1 \in DOMAIN books' /\ books'[Len(books) + 1] = b
  BY <1>1, <1>3, GrownBooks
<1>7. IdIsOurs' BY <1>2, <1>5, <1>6 DEF IdIsOurs
<1>. QED BY <1>2, <1>5, <1>6, <1>7, NoVerdictYet DEF BlInv

(* A bill of the canonical create is not read back. *)
LEMMA CanonicalStep == ASSUME BlInv, Bl!CreateCanonical PROVE BlInv'
<1>1. /\ UNCHANGED <<provider, draft, seen, read>>
      /\ call.at = "start" /\ call'.at = "created"
      /\ {"at", "tries", "id"} \subseteq DOMAIN call'
      /\ books' = Append(books, Bl!Bill(Bl!CanonicalPayload, 0))
  BY DEF Bl!CreateCanonical, Bl!Ends
<1>2. BlFields \subseteq DOMAIN Bl!Bill(Bl!CanonicalPayload, 0) BY DEF BlFields, Bl!Bill
<1>3. BooksKept' BY <1>1, <1>2, GrownBooks
<1>4. DraftKept' BY <1>1, DraftStays DEF BlInv
<1>. QED BY <1>1, <1>3, <1>4, NoVerdictYet DEF BlInv, IdIsOurs

(* A call that is refused, limited, lost or made again changes nothing in the books. *)
LEMMA CallSteps ==
  ASSUME BlInv,
         Bl!Refuse \/ Bl!Limited \/ Bl!PostFails \/ Bl!ReadFails \/ Bl!ReadAgain
  PROVE  BlInv'
<1>1. /\ UNCHANGED <<provider, draft, books, seen, read>>
      /\ {"at", "tries", "id"} \subseteq DOMAIN call'
      /\ call.at # "read" /\ call'.at # "adopted"
      /\ call'.at \in {"made", "unread", "read"} =>
           call.at \in {"made", "unread"} /\ call'.id = call.id
  <2>1. CASE Bl!Refuse BY <2>1 DEF Bl!Refuse, Bl!Ends
  <2>2. CASE Bl!Limited BY <2>2 DEF Bl!Limited, BlInv
  <2>3. CASE Bl!PostFails BY <2>3 DEF Bl!PostFails, Bl!Ends
  <2>4. CASE Bl!ReadFails \/ Bl!ReadAgain
    BY <2>4 DEF Bl!ReadFails, Bl!ReadAgain, Bl!Goes, BlInv
  <2>. QED BY <2>1, <2>2, <2>3, <2>4
<1>2. DraftKept' /\ \A b : Sent(b) => Sent(b)' BY <1>1, DraftStays DEF BlInv
<1>3. BooksKept' BY <1>1 DEF BlInv, BooksKept
<1>4. IdIsOurs' BY <1>1, <1>2 DEF BlInv, IdIsOurs
<1>. QED BY <1>1, <1>2, <1>3, <1>4, NoVerdictYet DEF BlInv

(* What the query finds alone has the vendor, the number and the amount of the draft. *)
Candidates(exact) == IF provider = "qbd" THEN Bl!Preflight(exact) ELSE Bl!Detected(exact)

LEMMA ProbeSteps ==
  ASSUME BlBounds, BlInv, NEW again \in BOOLEAN, Bl!Probe(again) PROVE BlInv'
<1>1. UNCHANGED <<provider, draft, books, read>> /\ call.at \in {"start", "unknown"}
  BY DEF Bl!Probe
<1>2. DraftKept' /\ BooksKept' BY <1>1, DraftStays DEF BlInv, BooksKept
<1>3. read' = Bl!None BY <1>1 DEF BlInv
<1>4. /\ {"at", "tries", "id"} \subseteq DOMAIN call'
      /\ call'.at \in {"held", "absent", "adopted"}
      /\ call'.at = "adopted" =>
           \E exact \in BOOLEAN : \E i \in Candidates(exact) : seen' = {books[i]}
  BY DEF Bl!Probe, Bl!Ends, Candidates
<1>5. IdIsOurs' BY <1>4 DEF IdIsOurs
<1>6. Bl!AdoptedIsSame'
  <2>1. CASE call'.at = "adopted"
    <3>1. PICK exact \in BOOLEAN : \E i \in Candidates(exact) : seen' = {books[i]}
      BY <1>4, <2>1
    <3>2. PICK i \in Candidates(exact) : seen' = {books[i]} BY <3>1
    <3>3. PICK b : b = books[i] OBVIOUS
    <3>4. /\ b.vendor = draft.vendor /\ (draft.number # Bl!None => b.number = draft.number)
          /\ Bl!Near(draft.total, b.total, exact)
      BY <3>3 DEF Candidates, Bl!Preflight, Bl!Detected, Bl!BillMismatch, Bl!Where
    <3>5. draft.total \in Int BY DEF BlBounds, BlInv, DraftKept
    <3>6. draft.total - b.total \in -1..1 BY <3>4, <3>5 DEF Bl!Near
    <3>. QED BY <1>1, <3>2, <3>3, <3>4, <3>6 DEF Bl!AdoptedIsSame, Bl!SameMoney
  <2>2. CASE call'.at # "adopted" BY <2>2 DEF Bl!AdoptedIsSame
  <2>. QED BY <2>1, <2>2
<1>7. Bl!MatchIsApproved' /\ Bl!NoFalseAlarm'
  BY <1>3 DEF Bl!MatchIsApproved, Bl!NoFalseAlarm, Bl!None
<1>. QED BY <1>2, <1>3, <1>4, <1>5, <1>6, <1>7 DEF BlInv, Bl!BillsHold

LEMMA ReadBackStep == ASSUME BlBounds, BlInv, Bl!ReadBackVerify PROVE BlInv'
<1>1. /\ UNCHANGED <<provider, draft, books>>
      /\ call.at = "made" /\ call.id # 0 /\ seen' = {books[call.id]}
      /\ call'.at = "read" /\ call'.id = call.id
      /\ {"at", "tries", "id"} \subseteq DOMAIN call'
  BY DEF Bl!ReadBackVerify, Bl!Ends
<1>2. PICK exact \in BOOLEAN : read' = Verdict(books[call.id], exact)
  BY DEF Bl!ReadBackVerify, Verdict
<1>3. PICK b : b = books[call.id] OBVIOUS
<1>4. call.id \in DOMAIN books /\ Sent(b) BY <1>1, <1>3 DEF BlInv, IdIsOurs
<1>5. DraftKept' /\ BooksKept' /\ Sent(b)' BY <1>1, <1>4, DraftStays DEF BlInv, BooksKept
<1>6. IdIsOurs' BY <1>1, <1>3, <1>4, <1>5 DEF IdIsOurs
<1>7. Bl!Approved' = Bl!Approved
  BY <1>1 DEF Bl!Approved, Bl!Mapped, Bl!LineKinds, Bl!HeaderKinds
<1>8. Bl!AdoptedIsSame' BY <1>1 DEF Bl!AdoptedIsSame
<1>9. seen' = {b} /\ read' = Verdict(b, exact) /\ b.ours BY <1>1, <1>2, <1>3, <1>4 DEF Sent
<1>10. Bl!MatchIsApproved'
  <2>1. ASSUME read' = "match"
        PROVE  /\ Bl!SameMoney(b) /\ (draft.number # Bl!None => b.number = draft.number)
               /\ \A k \in DOMAIN Bl!Approved :
                    /\ Bl!OnHeader(b, k) \/ \E n \in DOMAIN b.lines : Bl!OnLine(b, n, k)
                    /\ ~b.touched =>
                         Bl!OnHeader(b, k) \/ \A n \in DOMAIN b.lines : Bl!OnLine(b, n, k)
    BY <1>4, <1>9, <2>1, ComparedHolds DEF BlInv
  <2>2. /\ \A k : Bl!OnHeader(b, k)' <=> Bl!OnHeader(b, k)
        /\ \A n, k : Bl!OnLine(b, n, k)' <=> Bl!OnLine(b, n, k)
        /\ Bl!SameMoney(b)' <=> Bl!SameMoney(b)
    BY <1>1 DEF Bl!OnHeader, Bl!OnLine, Bl!SameMoney
  <2>3. ASSUME read' = "match", NEW c \in seen' PROVE c = b BY <1>9, <2>3
  <2>. QED BY <1>1, <1>7, <1>9, <2>1, <2>2, <2>3, Zenon DEF Bl!MatchIsApproved
<1>11. Bl!NoFalseAlarm'
  <2>1. ASSUME read' # "match"
        PROVE  \/ b.touched \/ b.extra # 0
               \/ draft.lines # <<>> /\ Bl!Sum(draft.lines) # draft.total
    BY <1>4, <1>9, <2>1, ComparedHolds DEF BlInv
  <2>. QED BY <1>1, <1>9, <2>1 DEF Bl!NoFalseAlarm
<1>. QED BY <1>1, <1>5, <1>6, <1>8, <1>10, <1>11 DEF BlInv, Bl!BillsHold

(* What the connector made and what it knows of it holds in every state. *)
LEMMA BillsInvariant == ASSUME BlBounds PROVE Spec => []BlInv
<1>1. Init => BlInv BY BlInit DEF Init
<1>2. BlInv /\ [Next]_vars => BlInv'
  <2>1. ASSUME BlInv, UNCHANGED blVars PROVE BlInv'
    <3>1. UNCHANGED <<provider, draft, books, call, seen, read>> BY <2>1 DEF blVars
    <3>2. DraftKept' /\ \A b : Sent(b) => Sent(b)' BY <3>1, DraftStays, <2>1 DEF BlInv
    <3>3. BooksKept' BY <2>1, <3>1 DEF BlInv, BooksKept
    <3>4. IdIsOurs' BY <2>1, <3>1, <3>2 DEF BlInv, IdIsOurs
    <3>. QED BY <2>1, <3>1, <3>2, <3>3, <3>4, VerdictStays DEF BlInv
  <2>2. ASSUME BlInv, Bl!Next PROVE BlInv'
    BY <2>2, HandSteps, ProbeSteps, CallSteps, PostStep, CanonicalStep, ReadBackStep
       DEF Bl!Next
  <2>. QED BY <2>1, <2>2 DEF Next, vars
<1>. QED BY <1>1, <1>2, PTL DEF Spec

(* A bill that is adopted has the vendor, number and amount of the draft; one that was made *)
(* and verifies has its amount, its number and every approved dimension, unless somebody    *)
(* edited it on every line; and one that is held after its creation was edited, taxed or    *)
(* has lines that do not add up (qbo.ts:256-298, xero.ts:450-498).                          *)
THEOREM BillsStay == ASSUME BlBounds PROVE Spec => []BillsHold
<1>1. BlInv => BillsHold BY DEF BlInv, BillsHold
<1>. QED BY <1>1, BillsInvariant, PTL
-----------------------------------------------------------------------------
(* Types: what the invariants above leave open of them. *)

(* What Gmail left out are mails, and what was scanned are attachments. *)
MrTyped == unlisted \subseteq 1..Mails /\ clean \subseteq Enclosures

LEMMA RelayTyped == ASSUME MrBounds PROVE Spec => []Mr!TypeOK
<1>1. Init => MrTyped BY DEF Init, Mr!Init, MrTyped
<1>2. MrInv /\ MrTyped /\ [Next]_vars => MrTyped'
  <2>. SUFFICES ASSUME MrInv, MrTyped, [Next]_vars PROVE MrTyped' OBVIOUS
  <2>1. CASE UNCHANGED <<unlisted, clean>> BY <2>1 DEF MrTyped
  <2>2. CASE Mr!GetProfile
    BY <2>2 DEF Mr!GetProfile, Mr!relay, MrTyped, MrInv, IntakeInv, MrBounds
  <2>3. CASE Mr!ListHistory
    <3>1. cursor \in 0..arrived BY <2>3 DEF Mr!ListHistory, MrInv, IntakeInv, MrBounds, Mr!None
    <3>2. PICK listed \in Nat : unlisted' = unlisted \cup (cursor + listed + 1)..arrived
      <4>. DEFINE listed == IF arrived - cursor < Page THEN arrived - cursor ELSE Page
      <4>1. listed \in Nat BY <3>1 DEF MrInv, IntakeInv, MrBounds
      <4>2. unlisted' = unlisted \cup (cursor + listed + 1)..arrived
        BY <2>3 DEF Mr!ListHistory
      <4>. QED BY <4>1, <4>2
    <3>3. (cursor + listed + 1)..arrived \subseteq 1..Mails
      BY <3>1 DEF MrInv, IntakeInv, MrBounds
    <3>4. UNCHANGED clean BY <2>3 DEF Mr!ListHistory, Mr!relay
    <3>. QED BY <3>2, <3>3, <3>4 DEF MrTyped
  <2>4. CASE Mr!ScanClean
    BY <2>4 DEF Mr!ScanClean, Mr!intake, Mr!Enclosed, MrTyped, MrInv, RelayInv, OwnerKnown
  <2>. QED
    BY <2>1, <2>2, <2>3, <2>4 DEF Next, vars, mrVars, Mr!Next, Mr!Cycle, Mr!Gatekeeper, Mr!Person,
       Mr!Arrive, Mr!ListRecent, Mr!Persist, Mr!FetchFails, Mr!SendClassify, Mr!SendGatekeep,
       Mr!Send, Mr!SaveCursor, Mr!Intent, Mr!ScanHolds, Mr!Forward, Mr!RecordForward,
       Mr!ForwardFails, Mr!BeginRelease, Mr!Release, Mr!RecordRelease, Mr!Dies, Mr!relay, Mr!intake
<1>3. MrInv /\ MrTyped => Mr!TypeOK
  BY DEF MrInv, MrTyped, IntakeInv, RelayInv, OwnerKnown, RowsKeyed, GateKnows, ClerkKnows,
     MrPoll, MrGate, MrRow, MrBounds, Mr!TypeOK, Mr!None, Mr!Messages
<1>. QED BY <1>1, <1>2, <1>3, RelayInvariant, PTL DEF Spec
(* A job in the hands of the statement worker is still in the queue, whose answer takes it *)
(* out; what a dispatcher read or marks is in the outbox, which holds kinds only.          *)
DcTyped ==
  /\ \A d \in DOMAIN docs : docs[d] \in {"held", "received", "review", "filed", "rejected"}
  /\ DOMAIN hold = DOMAIN docs
  /\ DOMAIN outbox \subseteq DOMAIN docs /\ \A d \in DOMAIN outbox : d[2] # "unknown"
  /\ \A x \in Dispatchers :
       /\ sender[x].list \subseteq DOMAIN outbox
       /\ sender[x].at = "mark" => sender[x].doc \in DOMAIN outbox
  /\ jobs \in [Paper -> 0..Queued] /\ (reader # Dc!None => jobs[reader] > 0)
  /\ mishaps \in 0..Mishaps

(* A dispatcher or the worker takes jobs in and out; the documents stay. *)
LEMMA QueueTyped ==
  ASSUME DcInv, DcTyped, Queued \in Nat,
         \/ \E x \in Dispatchers : Dc!Begin(x) \/ Dc!Enqueue(x)
         \/ \E p \in Papers : Dc!Take(p) \/ Dc!TakeInvoice(p)
  PROVE  DcTyped'
<1>1. UNCHANGED <<docs, hold, outbox, mishaps>>
  BY DEF Dc!Begin, Dc!Enqueue, Dc!Take, Dc!TakeInvoice, Dc!intake
<1>2. sender \in [Dispatchers -> [at : {"idle", "next", "mark"}, list : SUBSET Paper,
                                  doc : Paper \cup {Dc!None}]]
  BY DEF DcInv, GivenInv
<1>3. CASE \E x \in Dispatchers : Dc!Begin(x)
  <2>1. PICK x \in Dispatchers : Dc!Begin(x) BY <1>3
  <2>2. UNCHANGED <<jobs, reader>> BY <2>1 DEF Dc!Begin
  <2>3. sender' = [sender EXCEPT ![x] = [at |-> "next", list |-> Dc!Pending, doc |-> Dc!None]]
    BY <2>1 DEF Dc!Begin
  <2>4. Dc!Pending \subseteq DOMAIN outbox BY DEF Dc!Pending
  <2>5. \A y \in Dispatchers : /\ sender'[y].list \subseteq DOMAIN outbox
                               /\ sender'[y].at = "mark" => sender'[y].doc \in DOMAIN outbox
    BY <1>2, <2>3, <2>4 DEF DcTyped
  <2>. QED BY <1>1, <2>2, <2>5 DEF DcTyped
<1>4. CASE \E x \in Dispatchers : Dc!Enqueue(x)
  <2>1. PICK x \in Dispatchers : Dc!Enqueue(x) BY <1>4
  <2>2. PICK d \in sender[x].list : 
          /\ jobs[d] < Queued /\ jobs' = [jobs EXCEPT ![d] = @ + 1]
          /\ sender' = [sender EXCEPT ![x].at = "mark", ![x].doc = d, ![x].list = @ \ {d}]
    BY <2>1 DEF Dc!Enqueue
  <2>3. d \in DOMAIN outbox /\ d \in Paper BY <1>2 DEF DcTyped
  <2>4. \A y \in Dispatchers : /\ sender'[y].list \subseteq DOMAIN outbox
                               /\ sender'[y].at = "mark" => sender'[y].doc \in DOMAIN outbox
    BY <1>2, <2>2, <2>3 DEF DcTyped
  <2>5. jobs' \in [Paper -> 0..Queued] /\ \A e \in Paper : jobs'[e] >= jobs[e]
    BY <2>2, <2>3 DEF DcTyped
  <2>6. UNCHANGED reader /\ (reader # Dc!None => reader \in Paper)
    BY <2>1 DEF Dc!Enqueue, DcInv, GivenInv
  <2>. QED BY <1>1, <2>4, <2>5, <2>6 DEF DcTyped
<1>5. CASE \E p \in Papers : Dc!Take(p)
  <2>1. PICK p \in Papers : Dc!Take(p) BY <1>5
  <2>. QED BY <1>1, <2>1 DEF DcTyped, Dc!Take, Dc!queue
<1>6. CASE \E p \in Papers : Dc!TakeInvoice(p)
  <2>1. PICK p \in Papers : Dc!TakeInvoice(p) BY <1>6
  <2>2. <<p, "invoice">> \in Paper BY DEF Paper, Dc!Kinds
  <2>3. reader # Dc!None => reader # <<p, "invoice">> /\ reader \in Paper
    BY DEF DcInv, GivenInv, Filing
  <2>4. UNCHANGED <<reader, sender>> /\ jobs[<<p, "invoice">>] > 0
        /\ jobs' = [jobs EXCEPT ![<<p, "invoice">>] = @ - 1]
    BY <2>1 DEF Dc!TakeInvoice
  <2>5. jobs' \in [Paper -> 0..Queued] BY <2>2, <2>4 DEF DcTyped
  <2>. QED BY <1>1, <2>2, <2>3, <2>4, <2>5 DEF DcTyped
<1>. QED BY <1>3, <1>4, <1>5, <1>6

(* Documents and the reasons they are held for come and go together. *)
LEMMA RowsTyped ==
  ASSUME DcTyped, NEW d, NEW s \in {"held", "received", "review", "filed", "rejected"}, NEW r,
         docs' = Dc!Put(docs, d, s), hold' = Dc!Put(hold, d, r)
  PROVE  /\ \A e \in DOMAIN docs' :
              docs'[e] \in {"held", "received", "review", "filed", "rejected"}
         /\ DOMAIN hold' = DOMAIN docs' /\ DOMAIN docs' = DOMAIN docs \cup {d}
<1>1. DOMAIN docs' = DOMAIN docs \cup {d} /\ DOMAIN hold' = DOMAIN hold \cup {d} BY DEF Dc!Put
<1>2. docs'[d] = s /\ \A e \in DOMAIN docs : e # d => docs'[e] = docs[e] BY DEF Dc!Put
<1>. QED BY <1>1, <1>2 DEF DcTyped

LEMMA ClassifyTyped ==
  ASSUME DcInv, DcTyped, Mishaps \in Nat, NEW p \in Papers, Dc!Classify(p) PROVE DcTyped'
<1>. DEFINE d == <<p, route[p]>>
<1>1. UNCHANGED <<jobs, reader, sender>> /\ mishaps' \in 0..Mishaps
  BY DEF Dc!Classify, Dc!queue, Dc!Spend, DcTyped
<1>2. CASE d \in DOMAIN docs
  <2>1. UNCHANGED <<docs, hold>> BY <1>2 DEF Dc!Classify
  <2>2. \/ UNCHANGED outbox
        \/ route[p] # "unknown" /\ outbox' = Dc!Put(outbox, d, "pending")
    BY DEF Dc!Classify
  <2>3. DOMAIN outbox \subseteq DOMAIN outbox' /\ DOMAIN outbox' \subseteq DOMAIN docs
        /\ \A e \in DOMAIN outbox' : e[2] # "unknown"
    BY <1>2, <2>2 DEF DcTyped, Dc!Put
  <2>. QED BY <1>1, <2>1, <2>3 DEF DcTyped
<1>3. CASE d \notin DOMAIN docs
  <2>1. PICK r : hold' = Dc!Put(hold, d, r) /\ docs' = Dc!Put(docs, d, "held")
    BY <1>3 DEF Dc!Classify
  <2>2. /\ \A e \in DOMAIN docs' :
              docs'[e] \in {"held", "received", "review", "filed", "rejected"}
        /\ DOMAIN hold' = DOMAIN docs' /\ DOMAIN docs' = DOMAIN docs \cup {d}
    BY <2>1, RowsTyped
  <2>3. \/ UNCHANGED outbox
        \/ route[p] # "unknown" /\ outbox' = Dc!Put(outbox, d, "pending")
    BY DEF Dc!Classify
  <2>4. DOMAIN outbox \subseteq DOMAIN outbox' /\ DOMAIN outbox' \subseteq DOMAIN docs'
        /\ \A e \in DOMAIN outbox' : e[2] # "unknown"
    BY <2>2, <2>3 DEF DcTyped, Dc!Put
  <2>. QED BY <1>1, <2>2, <2>4 DEF DcTyped
<1>. QED BY <1>2, <1>3

LEMMA HeldTyped ==
  ASSUME DcInv, DcTyped, NEW p \in Papers, NEW k \in Dc!Kinds, Dc!ClassifyHeld(p, k)
  PROVE  DcTyped'
<1>. DEFINE old == <<p, "unknown">>  new == <<p, k>>
<1>1. UNCHANGED <<jobs, reader, sender, mishaps>> BY DEF Dc!ClassifyHeld, Dc!queue
<1>2. CASE k = "unknown"
  <2>1. docs' = Dc!Put(docs, old, "rejected") /\ hold' = Dc!Put(hold, old, "none")
        /\ UNCHANGED outbox
    BY <1>2 DEF Dc!ClassifyHeld
  <2>2. /\ \A e \in DOMAIN docs' :
              docs'[e] \in {"held", "received", "review", "filed", "rejected"}
        /\ DOMAIN hold' = DOMAIN docs' /\ DOMAIN docs' = DOMAIN docs \cup {old}
    BY <2>1, RowsTyped
  <2>. QED BY <1>1, <2>1, <2>2 DEF DcTyped
<1>3. CASE k # "unknown"
  <2>1. /\ docs' = Dc!Put(Dc!Without(docs, old), new, "held")
        /\ hold' = Dc!Put(Dc!Without(hold, old), new, "DISPATCH_PENDING")
        /\ outbox' = Dc!Put(outbox, new, "pending")
    BY <1>3 DEF Dc!ClassifyHeld
  <2>2. DOMAIN docs' = (DOMAIN docs \ {old}) \cup {new} /\ docs'[new] = "held"
        /\ \A e \in DOMAIN docs \ {old} : e # new => docs'[e] = docs[e]
    <3>1. DOMAIN Dc!Without(docs, old) = DOMAIN docs \ {old}
          /\ \A e \in DOMAIN docs \ {old} : Dc!Without(docs, old)[e] = docs[e]
      BY DEF Dc!Without
    <3>. QED BY <2>1, <3>1 DEF Dc!Put
  <2>3. DOMAIN hold' = (DOMAIN hold \ {old}) \cup {new}
    <3>1. DOMAIN Dc!Without(hold, old) = DOMAIN hold \ {old} BY DEF Dc!Without
    <3>. QED BY <2>1, <3>1 DEF Dc!Put
  <2>4. DOMAIN outbox' = DOMAIN outbox \cup {new} BY <2>1 DEF Dc!Put
  <2>5. old \notin DOMAIN outbox BY DEF DcTyped
  <2>6. \A e \in DOMAIN docs' :
           docs'[e] \in {"held", "received", "review", "filed", "rejected"}
    BY <2>2 DEF DcTyped
  <2>. QED BY <1>1, <1>3, <2>2, <2>3, <2>4, <2>5, <2>6 DEF DcTyped
<1>. QED BY <1>2, <1>3

LEMMA MarkTyped ==
  ASSUME DcInv, DcTyped, NEW x \in Dispatchers, Dc!Mark(x) PROVE DcTyped'
<1>. DEFINE d == sender[x].doc
<1>1. UNCHANGED <<jobs, reader, mishaps>> /\ d \in DOMAIN outbox /\ d \in DOMAIN docs
  BY DEF Dc!Mark, DcTyped
<1>2. sender \in [Dispatchers -> [at : {"idle", "next", "mark"}, list : SUBSET Paper,
                                  doc : Paper \cup {Dc!None}]]
  BY DEF DcInv, GivenInv
<1>3. sender' = [sender EXCEPT ![x].at = IF sender[x].list = {} THEN "idle" ELSE "next",
                               ![x].doc = Dc!None]
  BY DEF Dc!Mark
<1>4. \A y \in Dispatchers : sender'[y].list = sender[y].list
        /\ (sender'[y].at = "mark" => y # x /\ sender'[y] = sender[y])
  BY <1>2, <1>3
<1>5. UNCHANGED outbox \/ outbox' = Dc!Put(outbox, d, "dispatched")
  BY DEF Dc!Mark, Dc!intake
<1>6. DOMAIN outbox' = DOMAIN outbox BY <1>1, <1>5 DEF Dc!Put
<1>7. \/ UNCHANGED <<docs, hold>>
      \/ docs' = Dc!Put(docs, d, "received") /\ hold' = Dc!Put(hold, d, "none")
  BY DEF Dc!Mark, Dc!intake
<1>8. /\ \A e \in DOMAIN docs' :
            docs'[e] \in {"held", "received", "review", "filed", "rejected"}
      /\ DOMAIN hold' = DOMAIN docs' /\ DOMAIN docs' = DOMAIN docs
  <2>1. CASE UNCHANGED <<docs, hold>> BY <2>1 DEF DcTyped
  <2>2. CASE docs' = Dc!Put(docs, d, "received") /\ hold' = Dc!Put(hold, d, "none")
    BY <1>1, <2>2, RowsTyped
  <2>. QED BY <1>7, <2>1, <2>2
<1>. QED BY <1>1, <1>4, <1>6, <1>8 DEF DcTyped

(* The worker ends its job and writes the document with its reason. *)
LEMMA WorkerTyped ==
  ASSUME DcInv, DcTyped, Mishaps \in Nat, Queued \in Nat, Dc!Import \/ Dc!HoldUnreadable
  PROVE  DcTyped'
<1>1. /\ reader # Dc!None /\ reader' = Dc!None /\ jobs' = [jobs EXCEPT ![reader] = @ - 1]
      /\ UNCHANGED <<outbox, sender>> /\ mishaps' \in 0..Mishaps
  BY DEF Dc!Import, Dc!HoldUnreadable, Dc!Acknowledge, Dc!Spend, DcTyped
<1>2. jobs' \in [Paper -> 0..Queued]
  <2>1. reader \in Paper /\ jobs[reader] \in 0..Queued /\ jobs[reader] > 0
    BY <1>1 DEF DcTyped, DcInv, GivenInv
  <2>2. PICK d \in Paper : d = reader BY <2>1
  <2>. QED BY <1>1, <2>1, <2>2 DEF DcTyped
<1>3. \/ UNCHANGED <<docs, hold>>
      \/ \E s \in {"review", "held"}, r \in {"none", "STATEMENT_UNBALANCED", "UNREADABLE"} :
           docs' = Dc!Put(docs, reader, s) /\ hold' = Dc!Put(hold, reader, r)
  BY DEF Dc!Import, Dc!HoldUnreadable, Dc!DocStatus, Dc!Reason
<1>4. /\ \A e \in DOMAIN docs' :
            docs'[e] \in {"held", "received", "review", "filed", "rejected"}
      /\ DOMAIN hold' = DOMAIN docs' /\ DOMAIN docs \subseteq DOMAIN docs'
  BY <1>3, RowsTyped DEF DcTyped
<1>. QED BY <1>1, <1>2, <1>4 DEF DcTyped

LEMMA PersonTyped ==
  ASSUME DcInv, DcTyped, NEW p \in Papers,
         Dc!CorrectFact(p) \/ Dc!FileStatement(p) \/ (\E l \in Lines : Dc!Resolve(p, l))
  PROVE  DcTyped'
<1>1. UNCHANGED <<outbox, jobs, sender, reader, mishaps>>
  BY DEF Dc!CorrectFact, Dc!FileStatement, Dc!Resolve, Dc!queue, Dc!intake
<1>2. \/ UNCHANGED <<docs, hold>>
      \/ \E s \in {"review", "held", "filed"}, r \in {"none", "STATEMENT_UNBALANCED"} :
           docs' = Dc!Put(docs, Filing(p), s) /\ hold' = Dc!Put(hold, Filing(p), r)
  BY DEF Dc!CorrectFact, Dc!FileStatement, Dc!Resolve, Dc!intake, Dc!Revalidated, Dc!DocStatus,
         Dc!Reason, Filing
<1>3. /\ \A e \in DOMAIN docs' :
            docs'[e] \in {"held", "received", "review", "filed", "rejected"}
      /\ DOMAIN hold' = DOMAIN docs' /\ DOMAIN docs \subseteq DOMAIN docs'
  BY <1>2, RowsTyped DEF DcTyped
<1>. QED BY <1>1, <1>3 DEF DcTyped

LEMMA OthersTyped ==
  ASSUME DcTyped, Mishaps \in Nat, Dc!Posts \/ Dc!Dies \/ UNCHANGED dcVars PROVE DcTyped'
<1>1. CASE Dc!Posts \/ UNCHANGED dcVars
  BY <1>1 DEF Dc!Posts, dcVars, Dc!intake, Dc!queue, DcTyped
<1>2. CASE Dc!Dies
  <2>1. /\ \A x \in Dispatchers : sender'[x].at = "idle" /\ sender'[x].list = {}
        /\ reader' = Dc!None
    BY <1>2 DEF Dc!Dies, Dc!Free
  <2>. QED BY <1>2, <2>1 DEF Dc!Dies, Dc!Spend, Dc!intake, DcTyped
<1>. QED BY <1>1, <1>2

LEMMA DocumentsTyped ==
  ASSUME Queued \in Nat, Mishaps \in Nat PROVE Spec => []Dc!TypeOK
<1>1. Init => DcTyped
  <2>. SUFFICES ASSUME Dc!Init PROVE DcTyped BY DEF Init
  <2>1. /\ docs = <<>> /\ hold = <<>> /\ outbox = <<>> /\ jobs = [d \in Paper |-> 0]
        /\ \A x \in Dispatchers : sender[x].at = "idle" /\ sender[x].list = {}
        /\ reader = Dc!None /\ mishaps = 0
    BY DEF Dc!Init, Dc!Free, Paper
  <2>. QED BY <2>1 DEF DcTyped
<1>2. DcInv /\ DcTyped /\ [Next]_vars => DcTyped'
  <2>. SUFFICES ASSUME DcInv, DcTyped, [Next]_vars PROVE DcTyped' OBVIOUS
  <2>1. CASE Dc!Next
    BY <2>1, QueueTyped, ClassifyTyped, HeldTyped, MarkTyped, WorkerTyped, PersonTyped, OthersTyped
       DEF Dc!Next
  <2>2. CASE UNCHANGED dcVars BY <2>2, OthersTyped
  <2>. QED BY <2>1, <2>2 DEF Next, vars
<1>3. DcInv /\ DcTyped => Dc!TypeOK
  BY DEF DcInv, DcTyped, GivenInv, Paper, Dc!TypeOK
<1>. QED BY <1>1, <1>2, <1>3, DocumentsInvariant, PTL DEF Spec
(* Proofs, jobs and posters are of rows that exist, and only an attachment is billed. *)
PrTyped ==
  /\ DOMAIN scanned \subseteq DOMAIN rows /\ postJobs \subseteq DOMAIN rows
  /\ billed \subseteq Bills
  /\ \A x \in Pr!Posters : poster[x].at \in {"bill", "mark"} =>
       poster[x].row \in DOMAIN rows /\ rows[poster[x].row].item \in Bills
  /\ trouble \in 0..Troubles

(* Rows are only appended and keep their document. *)
RowsGrow == DOMAIN rows \subseteq DOMAIN rows'
            /\ \A n \in DOMAIN rows : rows'[n].item = rows[n].item

LEMMA RowsOnlyGrow == ASSUME PrInv, Pr!Next PROVE RowsGrow
<1>. rows \in Seq(PrRow) BY DEF PrInv, PrType
<1>1. CASE UNCHANGED rows BY <1>1 DEF RowsGrow
<1>2. ASSUME NEW n, NEW s, rows' = [rows EXCEPT ![n].status = s] PROVE RowsGrow
  <2>1. DOMAIN rows' = DOMAIN rows BY <1>2
  <2>2. \A m \in DOMAIN rows : rows'[m] = IF m = n THEN [rows[n] EXCEPT !.status = s] ELSE rows[m]
    BY <1>2
  <2>3. \A m \in DOMAIN rows : rows[m] \in PrRow OBVIOUS
  <2>. QED BY <2>1, <2>2, <2>3 DEF RowsGrow, PrRow
<1>3. ASSUME NEW c \in Pr!Callers, Pr!Write(c) PROVE RowsGrow
  <2>1. \/ \E n, s : rows' = [rows EXCEPT ![n].status = s]
        \/ \E e : rows' = Append(rows, e)
    BY <1>3 DEF Pr!Write
  <2>2. ASSUME NEW e, rows' = Append(rows, e) PROVE RowsGrow
    BY <2>2 DEF RowsGrow
  <2>. QED BY <1>2, <2>1, <2>2
<1>4. ASSUME NEW x \in Pr!Posters, Pr!MarkPosted(x) PROVE RowsGrow BY <1>2, <1>4 DEF Pr!MarkPosted
<1>5. ASSUME NEW n, Pr!Reject(n) PROVE RowsGrow BY <1>2, <1>5 DEF Pr!Reject
<1>6. ASSUME NEW i \in Pr!Items,
             \/ Pr!ReadFails(i) \/ Pr!Remap(i) \/ \E r \in Readings : Pr!Read(i, r)
             \/ \E c \in Pr!Callers : Pr!BeginPropose(c, i)
      PROVE  UNCHANGED rows
  BY <1>6 DEF Pr!ReadFails, Pr!Remap, Pr!Read, Pr!BeginPropose, Pr!proposing
<1>7. Pr!Verify \/ Pr!VerifyFails \/ Pr!EnqueueMap \/ Pr!Complete \/ Pr!SetAutomation \/ Pr!Dies
        => UNCHANGED rows
  BY DEF Pr!Verify, Pr!VerifyFails, Pr!EnqueueMap, Pr!Complete, Pr!SetAutomation, Pr!Dies,
         Pr!proposing
<1>8. ASSUME NEW c \in Pr!Callers,
             \/ Pr!ScanFails(c) \/ Pr!Record(c) \/ Pr!EnqueuePost(c)
             \/ \E v \in {"clean", "high", "critical"} : Pr!Scan(c, v)
      PROVE  UNCHANGED rows
  BY <1>8 DEF Pr!Scan, Pr!ScanFails, Pr!Record, Pr!EnqueuePost
<1>9. ASSUME NEW x \in Pr!Posters, Pr!Bill(x) \/ \E n \in DOMAIN rows : Pr!BeginPost(x, n)
      PROVE  UNCHANGED rows
  BY <1>9 DEF Pr!Bill, Pr!BeginPost, Pr!proposing
<1>. QED BY <1>1, <1>3, <1>4, <1>5, <1>6, <1>7, <1>8, <1>9 DEF Pr!Next

(* What the other steps leave alone stays typed. *)
LEMMA SameTyped ==
  ASSUME PrTyped, RowsGrow, UNCHANGED <<scanned, postJobs, billed, poster>>,
         trouble' \in 0..Troubles
  PROVE  PrTyped'
BY DEF PrTyped, RowsGrow

LEMMA ReadTyped ==
  ASSUME PrTyped, RowsGrow, Troubles \in Nat,
         \/ \E i \in Item : \/ Pr!ReadFails(i) \/ Pr!Remap(i) \/ \E r \in Readings : Pr!Read(i, r)
                            \/ \E c \in Pr!Callers : Pr!BeginPropose(c, i)
         \/ Pr!Verify \/ Pr!VerifyFails \/ Pr!EnqueueMap \/ Pr!Complete
         \/ \E c \in Pr!Callers : Pr!ScanFails(c) \/ Pr!Write(c)
                                  \/ \E v \in {"clean", "high", "critical"} : Pr!Scan(c, v)
         \/ \E n \in DOMAIN rows : Pr!Reject(n)
         \/ Pr!SetAutomation \/ UNCHANGED prVars
  PROVE  PrTyped'
<1>1. UNCHANGED <<scanned, postJobs, billed, poster>>
  BY DEF Pr!ReadFails, Pr!Remap, Pr!Read, Pr!BeginPropose, Pr!Verify, Pr!VerifyFails,
     Pr!EnqueueMap, Pr!Complete, Pr!Scan, Pr!ScanFails, Pr!Write, Pr!Reject, Pr!SetAutomation,
     Pr!proposing, Pr!gating, prVars
<1>2. UNCHANGED trouble \/ (trouble < Troubles /\ trouble' = trouble + 1)
  BY DEF Pr!ReadFails, Pr!Remap, Pr!Read, Pr!BeginPropose, Pr!Verify, Pr!VerifyFails,
     Pr!EnqueueMap, Pr!Complete, Pr!Scan, Pr!ScanFails, Pr!Write, Pr!Reject, Pr!SetAutomation,
     Pr!Spend, prVars
<1>3. trouble' \in 0..Troubles BY <1>2 DEF PrTyped
<1>. QED BY <1>1, <1>3, SameTyped

LEMMA ProposeTyped ==
  ASSUME PrInv, PrTyped, RowsGrow, NEW c \in Pr!Callers, Pr!Record(c) \/ Pr!EnqueuePost(c)
  PROVE  PrTyped'
<1>1. proposer[c].at \in {"record", "enqueue"}
  BY DEF Pr!Record, Pr!EnqueuePost
<1>2. proposer[c].row \in DOMAIN rows BY <1>1 DEF PrInv, PlacesInv, Written
<1>3. UNCHANGED <<rows, billed, poster, trouble>>
  BY DEF Pr!Record, Pr!EnqueuePost, Pr!gating
<1>4. DOMAIN scanned' \subseteq DOMAIN scanned \cup {proposer[c].row}
  BY DEF Pr!Record, Pr!EnqueuePost
<1>5. postJobs' \subseteq postJobs \cup {proposer[c].row}
  BY DEF Pr!Record, Pr!EnqueuePost, Pr!gating
<1>. QED BY <1>2, <1>3, <1>4, <1>5 DEF PrTyped

LEMMA PostTyped ==
  ASSUME PrInv, PrTyped, RowsGrow, NEW x \in Pr!Posters,
         Pr!Bill(x) \/ Pr!MarkPosted(x) \/ \E n \in DOMAIN rows : Pr!BeginPost(x, n)
  PROVE  PrTyped'
<1>0. poster = [y \in Pr!Posters |-> poster[y]] BY DEF PrInv, PrType
<1>1. UNCHANGED <<scanned, trouble>>
  BY DEF Pr!Bill, Pr!MarkPosted, Pr!BeginPost, Pr!proposing
<1>2. postJobs' \subseteq postJobs BY DEF Pr!Bill, Pr!MarkPosted, Pr!BeginPost
<1>3. billed' \subseteq Bills BY DEF Pr!Bill, Pr!MarkPosted, Pr!BeginPost, PrTyped
<1>4. poster'[x].at \in {"bill", "mark"} =>
        poster'[x].row \in DOMAIN rows /\ rows[poster'[x].row].item \in Bills
  <2>1. CASE Pr!Bill(x) BY <1>0, <2>1 DEF Pr!Bill, PrTyped, Pr!Rest
  <2>2. CASE Pr!MarkPosted(x) BY <1>0, <2>2 DEF Pr!MarkPosted, Pr!Rest
  <2>3. CASE \E n \in DOMAIN rows : Pr!BeginPost(x, n)
    BY <1>0, <2>3 DEF Pr!BeginPost, Pr!Open, PrTyped
  <2>. QED BY <2>1, <2>2, <2>3
<1>5. \A y \in Pr!Posters : y # x => poster'[y] = poster[y]
  BY <1>0 DEF Pr!Bill, Pr!MarkPosted, Pr!BeginPost
<1>. QED BY <1>1, <1>2, <1>3, <1>4, <1>5 DEF PrTyped, RowsGrow

LEMMA DiesTyped ==
  ASSUME PrTyped, Troubles \in Nat, Pr!Dies PROVE PrTyped'
<1>1. \A x \in Pr!Posters : poster'[x] = [at |-> "idle"] BY DEF Pr!Dies, Pr!Rest
<1>. QED BY <1>1 DEF Pr!Dies, Pr!Spend, PrTyped

LEMMA ProposalsTyped ==
  ASSUME ReadingsNamed, Troubles \in Nat PROVE Spec => []Pr!TypeOK
<1>1. Init => PrTyped
  <2>. SUFFICES ASSUME Pr!Init PROVE PrTyped BY DEF Init
  <2>1. /\ rows = <<>> /\ scanned = <<>> /\ postJobs = {} /\ billed = {} /\ trouble = 0
        /\ \A x \in Pr!Posters : poster[x] = [at |-> "idle"]
    BY DEF Pr!Init, Pr!Rest
  <2>. QED BY <2>1 DEF PrTyped
<1>2. PrInv /\ PrTyped /\ [Next]_vars => PrTyped'
  <2>. SUFFICES ASSUME PrInv, PrTyped, [Next]_vars PROVE PrTyped' OBVIOUS
  <2>1. CASE Pr!Next
    <3>1. RowsGrow BY <2>1, RowsOnlyGrow
    <3>2. Pr!Items = Item BY DEF Pr!Items, Item
    <3>. QED BY <2>1, <3>1, <3>2, ReadTyped, ProposeTyped, PostTyped, DiesTyped DEF Pr!Next
  <2>2. CASE UNCHANGED prVars
    <3>1. RowsGrow BY <2>2 DEF RowsGrow, prVars
    <3>. QED BY <2>2, <3>1, ReadTyped
  <2>. QED BY <2>1, <2>2 DEF Next, vars
<1>3. PrInv /\ PrTyped => Pr!TypeOK
  <2>. SUFFICES ASSUME PrInv, PrTyped PROVE Pr!TypeOK OBVIOUS
  <2>1. \A n \in DOMAIN rows : rows[n] \in PrRow BY DEF PrInv, PrType
  <2>2. \A i \in Item : ext[i].state \in {"none", "inserted", "done"} BY DEF PrInv, PrType
  <2>3. Pr!Items = Item BY DEF Pr!Items, Item
  <2>. QED BY <2>1, <2>2, <2>3 DEF PrTyped, PrRow, Pr!TypeOK
<1>. QED BY <1>1, <1>2, <1>3, ProposalsInvariant, PTL DEF Spec
(* A row that gave way names a row that exists, and rows of a dimension are rows. *)
LEMMA MappingsTyped == ASSUME Changes \in Nat PROVE Spec => []Mp!TypeOK
<1>. DEFINE Spent == changes \in 0..Changes
<1>1. Init => Spent BY DEF Init, Mp!Init
<1>2. Spent /\ [Next]_vars => Spent'
  <2>1. [Next]_vars => \/ changes' = changes \/ (changes < Changes /\ changes' = changes + 1)
    BY DEF Next, vars, mpVars, Mp!Next, Mp!Reconnect, Mp!CreateTax, Mp!EditTax, Mp!DisableTax,
           Mp!BeginCheck, Mp!ReplaceTax, Mp!EndCheck, Mp!Changed, Mp!Propose, Mp!FindRow,
           Mp!InsertRow, Mp!Accept, Mp!Correct, Mp!SaveRule, Mp!BeginAlternate, Mp!RejectOrHold,
           Mp!EndAlternate, Mp!Decides, Mp!ReadDraft, Mp!TaxGate, Mp!DimensionGate, Mp!Create,
           Mp!Spend
  <2>. QED BY <2>1
<1>3. MpInv /\ Spent => Mp!TypeOK
  <2>. SUFFICES ASSUME MpInv, Spent PROVE Mp!TypeOK OBVIOUS
  <2>1. \A n \in DOMAIN tax : tax[n] \in TaxRow /\ tax[n].by <= Len(tax) BY DEF MpInv, TaxInv
  <2>2. \A n \in DOMAIN dims : dims[n] \in DimRow BY DEF MpInv, DimInv
  <2>3. company \in Companies /\ check \in 0..Len(tax) /\ Len(tax) \in Nat BY DEF MpInv, TaxInv
  <2>. QED BY <2>1, <2>2, <2>3 DEF TaxRow, DimRow, Mp!TypeOK
<1>. QED BY <1>1, <1>2, <1>3, MappingsInvariant, PTL DEF Spec
(* Only proposals are billed, a page is one of a packet that was built, and others act a *)
(* bounded number of times.                                                              *)
RvTyped == /\ paid \cup noted \subseteq Rows /\ meddled \in 0..Meddling
           /\ \A t \in Tabs : tab[t].run <= Len(packets)

(* A page stays with its packet, or another is opened. *)
LEMMA TabsTyped ==
  ASSUME RvInv, RvTyped, Rv!Next \/ UNCHANGED rvVars
  PROVE  \A t \in Tabs : tab'[t].run <= Len(packets')
<1>0. /\ packets \in Seq(SUBSET Rows) /\ tab \in [Tabs -> RvTab] /\ Len(packets) \in Nat
      /\ \A t \in Tabs : tab[t].run \in Nat /\ tab[t].run <= Len(packets)
  BY DEF RvInv, PagesInv, RvTab, RvTyped
<1>1. UNCHANGED packets \/ \E p : packets' = Append(packets, p)
  BY DEF Rv!Next, rvVars, Rv!Snapshot, Rv!BeginApply, Rv!EndApply, Rv!Throws, Rv!OpenPage,
         Rv!SetDecision, Rv!ClosePage, Rv!Export, Rv!Pass, Rv!ApplyApproved, Rv!Duplicate, Rv!Held,
         Rv!ApplyRejected, Rv!QueuePosts, Rv!PersonRejects, Rv!Repropose, Rv!page
<1>2. Len(packets) <= Len(packets') /\ Len(packets') \in Nat
  <2>1. ASSUME NEW p, packets' = Append(packets, p)
        PROVE  Len(packets) <= Len(packets') /\ Len(packets') \in Nat
    BY <1>0, <2>1
  <2>. QED BY <1>0, <1>1, <2>1
<1>3. ASSUME NEW t \in Tabs PROVE tab'[t].run \in 0..Len(packets)
  <2>1. ASSUME NEW u \in Tabs, NEW k \in DOMAIN packets, NEW b \in BOOLEAN, Rv!OpenPage(u, k, b)
        PROVE  tab'[t].run \in 0..Len(packets)
    <3>1. tab'[t].run = k \/ tab'[t] = tab[t] BY <1>0, <2>1 DEF Rv!OpenPage
    <3>. QED BY <1>0, <3>1
  <2>2. ASSUME NEW u \in Tabs, NEW n \in Rows, NEW v, Rv!SetDecision(u, n, v)
        PROVE  tab'[t].run \in 0..Len(packets)
    <3>1. tab'[t].run = tab[t].run BY <1>0, <2>2 DEF Rv!SetDecision, RvTab
    <3>. QED BY <1>0, <3>1
  <2>3. ASSUME NEW u \in Tabs, Rv!ClosePage(u) PROVE tab'[t].run \in 0..Len(packets)
    <3>1. tab'[t].run = 0 \/ tab'[t] = tab[t] BY <1>0, <2>3 DEF Rv!ClosePage, Rv!NoTab
    <3>. QED BY <1>0, <3>1
  <2>4. \/ UNCHANGED tab
        \/ \E u \in Tabs : \/ \E k \in DOMAIN packets, b \in BOOLEAN : Rv!OpenPage(u, k, b)
                           \/ \E n \in Rows, v \in {"approved", "rejected"} : Rv!SetDecision(u, n, v)
                           \/ Rv!ClosePage(u)
    BY DEF Rv!Next, rvVars, Rv!Snapshot, Rv!BeginApply, Rv!EndApply, Rv!Throws, Rv!Export, Rv!Pass,
           Rv!ApplyApproved, Rv!Duplicate, Rv!Held, Rv!ApplyRejected, Rv!QueuePosts,
           Rv!PersonRejects, Rv!Repropose, Rv!page
  <2>. QED BY <1>0, <2>1, <2>2, <2>3, <2>4
<1>. QED BY <1>0, <1>2, <1>3

LEMMA ReviewTyped == ASSUME RvBounds, Meddling \in Nat PROVE Spec => []Rv!TypeOK
<1>1. Init => RvTyped BY DEF Init, Rv!Init, RvTyped, Rv!NoTab
<1>2. RvInv /\ RvTyped /\ [Next]_vars => RvTyped'
  <2>. SUFFICES ASSUME RvInv, RvTyped, [Next]_vars PROVE RvTyped' OBVIOUS
  <2>1. CASE UNCHANGED rvVars BY <2>1 DEF RvTyped, rvVars
  <2>2. CASE Rv!Next
    <3>1. UNCHANGED paid \/ \E n \in Rows : paid' = paid \cup {n}
      BY <2>2 DEF Rv!Next, Rv!Snapshot, Rv!BeginApply, Rv!EndApply, Rv!Throws, Rv!OpenPage,
                  Rv!SetDecision, Rv!ClosePage, Rv!Export, Rv!Pass, Rv!ApplyApproved, Rv!Duplicate, Rv!Held,
                  Rv!ApplyRejected, Rv!QueuePosts, Rv!PersonRejects, Rv!Repropose, Rv!books
    <3>3. UNCHANGED noted \/ \E n \in Rows : noted' = noted \cup {n}
      BY <2>2 DEF Rv!Next, Rv!Snapshot, Rv!BeginApply, Rv!EndApply, Rv!Throws, Rv!OpenPage,
                  Rv!SetDecision, Rv!ClosePage, Rv!Export, Rv!Pass, Rv!ApplyApproved,
                  Rv!Duplicate, Rv!Held, Rv!ApplyRejected, Rv!QueuePosts, Rv!PersonRejects,
                  Rv!Repropose, Rv!books
    <3>2. UNCHANGED meddled \/ (meddled < Meddling /\ meddled' = meddled + 1)
      BY <2>2 DEF Rv!Next, Rv!Snapshot, Rv!BeginApply, Rv!EndApply, Rv!Throws, Rv!OpenPage,
                  Rv!SetDecision, Rv!ClosePage, Rv!Export, Rv!Pass, Rv!ApplyApproved, Rv!Duplicate, Rv!Held,
                  Rv!ApplyRejected, Rv!QueuePosts, Rv!PersonRejects, Rv!Repropose, Rv!Spend
    <3>. QED BY <2>2, <3>1, <3>2, <3>3, TabsTyped DEF RvTyped
  <2>. QED BY <2>1, <2>2 DEF Next, vars
<1>3. RvInv /\ RvTyped => Rv!TypeOK
  <2>. SUFFICES ASSUME RvInv, RvTyped PROVE Rv!TypeOK OBVIOUS
  <2>1. row \in [Rows -> Rv!Open \cup {"posted", "rejected"}] BY DEF RvInv, ApplyInv, Rv!Open
  <2>2. packets \in Seq(SUBSET Rows) /\ \A k \in DOMAIN packets : packets[k] \subseteq Rows
    BY DEF RvInv, PagesInv
  <2>3. cli.left \subseteq Rows /\ cli.told \subseteq Rows BY DEF RvInv, ApplyInv, RvRun
  <2>4. \A t \in Tabs : tab[t].run \in 0..Len(packets)
    BY <2>2 DEF RvInv, PagesInv, RvTab, RvTyped
  <2>. QED BY <2>1, <2>2, <2>3, <2>4 DEF RvTyped, Rv!TypeOK
<1>. QED BY <1>1, <1>2, <1>3, ReviewInvariant, PTL DEF Spec
NoticeSpan == {"night", "morning", "day"}

(* A job is sent once a day and stays in the queue until its worker has answered. *)
NtTyped ==
  /\ hour \in NoticeSpan /\ up \in BOOLEAN /\ log \in [0..Days -> 0..MaxLog]
  /\ nightJobs = [j \in {"anchor", "digest"} |-> nightJobs[j]]
  /\ nightJobs["anchor"] \in 0..(IF hour = "night" THEN today ELSE today + 1)
  /\ nightJobs["digest"] \in 0..(IF hour = "day" THEN today + 1 ELSE today)
  /\ anchorer.at # "idle" => nightJobs["anchor"] > 0
  /\ anchorer.tries \in 0..Retries
  /\ digester.at # "idle" => nightJobs["digest"] > 0 /\ digester.day \in 0..Days
  /\ unanchored \cup cycles \cup digests \subseteq 0..Days
  /\ nightMishaps \in 0..NightMishaps

LEMMA HoursTyped ==
  ASSUME NtBounds, NtInv, NtTyped, Nt!ThreeOClock \/ Nt!SevenOClock \/ Nt!Midnight PROVE NtTyped'
<1>0. today \in Nat /\ today \in 0..Days /\ Days \in Nat BY DEF NtInv, NtType, NtBounds
<1>1. UNCHANGED <<up, log, anchorer, unanchored, cycles, digester, digests,
                  nightMishaps>>
  BY DEF Nt!ThreeOClock, Nt!SevenOClock, Nt!Midnight, Nt!Hour, Nt!anchors, Nt!notices
<1>2. CASE Nt!ThreeOClock
  <2>1. hour = "night" /\ hour' = "morning" /\ today' = today
        /\ (nightJobs' = nightJobs \/ nightJobs' = [nightJobs EXCEPT !["anchor"] = @ + 1])
    BY <1>2 DEF Nt!ThreeOClock, Nt!Hour, Nt!Sent
  <2>2. /\ nightJobs' = [j \in {"anchor", "digest"} |-> nightJobs'[j]]
        /\ nightJobs'["digest"] = nightJobs["digest"]
        /\ nightJobs'["anchor"] \in {nightJobs["anchor"], nightJobs["anchor"] + 1}
    BY <2>1 DEF NtTyped
  <2>. QED BY <1>0, <1>1, <2>1, <2>2 DEF NtTyped, NoticeSpan
<1>3. CASE Nt!SevenOClock
  <2>1. hour = "morning" /\ hour' = "day" /\ today' = today
        /\ (nightJobs' = nightJobs \/ nightJobs' = [nightJobs EXCEPT !["digest"] = @ + 1])
    BY <1>3 DEF Nt!SevenOClock, Nt!Hour, Nt!Sent
  <2>2. /\ nightJobs' = [j \in {"anchor", "digest"} |-> nightJobs'[j]]
        /\ nightJobs'["anchor"] = nightJobs["anchor"]
        /\ nightJobs'["digest"] \in {nightJobs["digest"], nightJobs["digest"] + 1}
    BY <2>1 DEF NtTyped
  <2>. QED BY <1>0, <1>1, <2>1, <2>2 DEF NtTyped, NoticeSpan
<1>4. CASE Nt!Midnight
  <2>1. hour = "day" /\ hour' = "night" /\ today' = today + 1 /\ nightJobs' = nightJobs
    BY <1>4 DEF Nt!Midnight, Nt!Hour
  <2>. QED BY <1>0, <1>1, <2>1 DEF NtTyped, NoticeSpan
<1>. QED BY <1>2, <1>3, <1>4

LEMMA ProcessTyped ==
  ASSUME NtBounds, NtTyped, NightMishaps \in Nat, MaxLog \in Nat, today \in 0..Days,
         Nt!Write \/ Nt!Dies \/ Nt!Starts \/ (\E s \in wire : Nt!Execute(s)) \/ UNCHANGED ntVars
  PROVE  NtTyped'
<1>1. UNCHANGED <<today, hour, nightJobs, unanchored, cycles, digests>>
  BY DEF Nt!Write, Nt!Dies, Nt!Starts, Nt!Execute, Nt!clock, Nt!anchors, Nt!notices, ntVars
<1>2. CASE Nt!Dies
  <2>1. /\ anchorer' = Nt!Idle /\ digester' = Nt!Rest /\ up' = FALSE
        /\ UNCHANGED log /\ nightMishaps' \in 0..NightMishaps
    BY <1>2 DEF Nt!Dies, Nt!Fault, NtTyped
  <2>2. anchorer'.at = "idle" /\ anchorer'.tries = 0 /\ digester'.at = "idle"
    BY <2>1 DEF Nt!Idle, Nt!Rest
  <2>3. 0 \in 0..Retries BY DEF NtBounds
  <2>4. /\ anchorer'.at # "idle" => nightJobs'["anchor"] > 0
        /\ anchorer'.tries \in 0..Retries
        /\ digester'.at # "idle" => nightJobs'["digest"] > 0 /\ digester'.day \in 0..Days
    BY <2>2, <2>3
  <2>5. up' \in BOOLEAN /\ log' \in [0..Days -> 0..MaxLog]
    BY <1>1, <2>1 DEF NtTyped
  <2>. QED BY <1>1, <2>1, <2>4, <2>5 DEF NtTyped
<1>3. CASE ~Nt!Dies
  <2>1. UNCHANGED <<anchorer, digester, nightMishaps>>
    BY <1>3 DEF Nt!Write, Nt!Starts, Nt!Execute, Nt!clock, Nt!anchors, Nt!notices, ntVars
  <2>2. up' \in BOOLEAN
    BY <1>3 DEF Nt!Write, Nt!Starts, Nt!Execute, Nt!clock, ntVars, NtTyped
  <2>3. log' \in [0..Days -> 0..MaxLog]
    <3>1. UNCHANGED log \/ (log[today] < MaxLog /\ log' = [log EXCEPT ![today] = @ + 1])
      BY <1>3 DEF Nt!Write, Nt!Starts, Nt!Execute, ntVars
    <3>. QED BY <3>1 DEF NtTyped
  <2>. QED BY <1>1, <2>1, <2>2, <2>3 DEF NtTyped, NoticeSpan
<1>. QED BY <1>2, <1>3

LEMMA AnchorTyped ==
  ASSUME NtBounds, NtInv, NtTyped, NightMishaps \in Nat,
         Nt!Skip \/ Nt!ReadDay \/ Nt!Submit \/ Nt!AskAgain \/ Nt!Refused \/ Nt!Record \/ Nt!Fail
  PROVE  NtTyped'
<1>0. /\ today \in 0..Days /\ anchorer \in NtWorker /\ Days \in Nat /\ Retries \in Nat
      /\ UNCHANGED <<today, hour, up, log, digester, digests>>
  BY DEF NtInv, NtType, NtBounds, Nt!Skip, Nt!ReadDay, Nt!Submit, Nt!AskAgain, Nt!Refused,
         Nt!Record, Nt!Fail, Nt!AnchorStep, Nt!clock, Nt!notices
<1>1. nightMishaps' \in 0..NightMishaps
  <2>1. UNCHANGED nightMishaps
        \/ (nightMishaps < NightMishaps /\ nightMishaps' = nightMishaps + 1)
    BY DEF Nt!Skip, Nt!ReadDay, Nt!Submit, Nt!AskAgain, Nt!Refused, Nt!Record, Nt!Fail, Nt!Fault
  <2>. QED BY <2>1 DEF NtTyped
<1>2. CASE Nt!Skip \/ Nt!Record \/ Nt!Fail
  <2>1. nightJobs["anchor"] > 0 /\ anchorer.day \in 0..Days
    BY <1>0, <1>2 DEF Nt!Skip, Nt!Record, Nt!Fail, NtTyped, NtWorker
  <2>2. /\ anchorer' = Nt!Idle /\ nightJobs' = [nightJobs EXCEPT !["anchor"] = @ - 1]
        /\ cycles' \subseteq cycles \cup {today, anchorer.day}
        /\ unanchored' \subseteq unanchored \cup {anchorer.day}
    BY <1>2 DEF Nt!Skip, Nt!Record, Nt!Fail, Nt!EndCycle, Nt!Ended
  <2>3. /\ nightJobs' = [j \in {"anchor", "digest"} |-> nightJobs'[j]]
        /\ nightJobs'["digest"] = nightJobs["digest"]
        /\ nightJobs'["anchor"] = nightJobs["anchor"] - 1
    BY <2>2 DEF NtTyped
  <2>4. anchorer'.at = "idle" /\ anchorer'.tries = 0 BY <2>2 DEF Nt!Idle
  <2>5. 0 \in 0..Retries BY <1>0
  <2>6. unanchored' \cup cycles' \cup digests' \subseteq 0..Days
    BY <1>0, <2>1, <2>2 DEF NtTyped
  <2>7. /\ nightJobs'["anchor"] \in 0..(IF hour' = "night" THEN today' ELSE today' + 1)
        /\ nightJobs'["digest"] \in 0..(IF hour' = "day" THEN today' + 1 ELSE today')
    BY <1>0, <2>1, <2>3 DEF NtTyped
  <2>8. digester'.at # "idle" => nightJobs'["digest"] > 0 /\ digester'.day \in 0..Days
    BY <1>0, <2>3 DEF NtTyped
  <2>. QED BY <1>0, <1>1, <2>3, <2>4, <2>5, <2>6, <2>7, <2>8 DEF NtTyped
<1>3. CASE Nt!ReadDay \/ Nt!Submit \/ Nt!AskAgain \/ Nt!Refused
  <2>1. UNCHANGED <<nightJobs, unanchored, cycles>>
    BY <1>3 DEF Nt!ReadDay, Nt!Submit, Nt!AskAgain, Nt!Refused
  <2>2. nightJobs["anchor"] > 0
    BY <1>3 DEF Nt!ReadDay, Nt!Submit, Nt!AskAgain, Nt!Refused, NtTyped
  <2>3. anchorer'.tries \in 0..Retries
    <3>1. \/ anchorer'.tries = 0 \/ anchorer'.tries = anchorer.tries
          \/ anchorer.tries < Retries /\ anchorer'.tries = anchorer.tries + 1
      <4>1. CASE Nt!ReadDay BY <4>1 DEF Nt!ReadDay
      <4>2. CASE Nt!Submit \/ Nt!Refused
        BY <1>0, <4>2 DEF Nt!Submit, Nt!Refused, NtWorker
      <4>3. CASE Nt!AskAgain BY <1>0, <4>3 DEF Nt!AskAgain, NtWorker
      <4>. QED BY <1>3, <4>1, <4>2, <4>3
    <3>. QED BY <1>0, <3>1 DEF NtTyped
  <2>. QED BY <1>0, <1>1, <2>1, <2>2, <2>3 DEF NtTyped, NoticeSpan
<1>. QED BY <1>2, <1>3

LEMMA NoticesTyped ==
  ASSUME NtBounds, NtInv, NtTyped, NightMishaps \in Nat,
         Nt!BeginDigest \/ Nt!Defer \/ Nt!Digest
  PROVE  NtTyped'
<1>0. /\ today \in 0..Days /\ Days \in Nat
      /\ UNCHANGED <<today, hour, up, log, anchorer, unanchored, cycles>>
  BY DEF NtInv, NtType, NtBounds, Nt!BeginDigest, Nt!Defer, Nt!Digest, Nt!NoticeStep,
         Nt!clock, Nt!anchors
<1>1. nightMishaps' \in 0..NightMishaps
  <2>1. UNCHANGED nightMishaps
        \/ (nightMishaps < NightMishaps /\ nightMishaps' = nightMishaps + 1)
    BY DEF Nt!BeginDigest, Nt!Defer, Nt!Digest, Nt!Fault
  <2>. QED BY <2>1 DEF NtTyped
<1>2. nightJobs["digest"] > 0 /\ digests' \subseteq 0..Days
  BY DEF Nt!BeginDigest, Nt!Defer, Nt!Digest, NtTyped
<1>3. \/ nightJobs' = [nightJobs EXCEPT !["digest"] = @ - 1] /\ digester' = Nt!Rest
      \/ UNCHANGED nightJobs /\ digester' = [at |-> "count", day |-> today]
  BY DEF Nt!BeginDigest, Nt!Defer, Nt!Digest, Nt!Ended
<1>4. CASE UNCHANGED nightJobs /\ digester' = [at |-> "count", day |-> today]
  BY <1>0, <1>1, <1>2, <1>4 DEF NtTyped, NoticeSpan
<1>5. CASE nightJobs' = [nightJobs EXCEPT !["digest"] = @ - 1] /\ digester' = Nt!Rest
  <2>1. /\ nightJobs' = [j \in {"anchor", "digest"} |-> nightJobs'[j]]
        /\ nightJobs'["anchor"] = nightJobs["anchor"]
        /\ nightJobs'["digest"] = nightJobs["digest"] - 1
    BY <1>5 DEF NtTyped
  <2>2. digester'.at = "idle" BY <1>5 DEF Nt!Rest
  <2>. QED BY <1>0, <1>1, <1>2, <2>1, <2>2 DEF NtTyped, NoticeSpan
<1>. QED BY <1>3, <1>4, <1>5

LEMMA NightsTyped ==
  ASSUME NtBounds, NightMishaps \in Nat, MaxLog \in Nat PROVE Spec => []Nt!TypeOK
<1>1. Init => NtTyped
  BY DEF Init, Nt!Init, Nt!Idle, Nt!Rest, NtTyped, NoticeSpan, NtBounds
<1>2. NtInv /\ NtTyped /\ [Next]_vars => NtTyped'
  <2>. SUFFICES ASSUME NtInv, NtTyped, [Next]_vars PROVE NtTyped' OBVIOUS
  <2>1. today \in 0..Days BY DEF NtInv, NtType
  <2>2. CASE Nt!Next
    BY <2>1, <2>2, HoursTyped, ProcessTyped, AnchorTyped, NoticesTyped DEF Nt!Next
  <2>3. CASE UNCHANGED ntVars BY <2>1, <2>3, ProcessTyped
  <2>. QED BY <2>2, <2>3 DEF Next, vars
<1>3. NtInv /\ NtTyped => Nt!TypeOK
  <2>. SUFFICES ASSUME NtInv, NtTyped PROVE Nt!TypeOK OBVIOUS
  <2>1. today \in 0..Days /\ anchorer \in NtWorker /\ DOMAIN anchored \subseteq 0..Days
    BY DEF NtInv, NtType
  <2>2. \A j \in DOMAIN nightJobs : nightJobs[j] \in 0..(Days + 1)
    <3>1. DOMAIN nightJobs = {"anchor", "digest"} BY DEF NtTyped
    <3>. QED BY <2>1, <3>1 DEF NtTyped, NtBounds
  <2>. QED BY <2>1, <2>2 DEF NtTyped, NtWorker, NoticeSpan, Nt!TypeOK
<1>. QED BY <1>1, <1>2, <1>3, NightsInvariant, PTL DEF Spec

AlTyped == attempts \in [Risks -> 0..Redeliveries] /\ breaks \in 0..Breaks

LEMMA AlertsTyped ==
  ASSUME Redeliveries \in Nat, Breaks \in Nat PROVE Spec => []Al!TypeOK
<1>1. Init => AlTyped BY DEF Init, Al!Init, AlTyped
<1>2. AlTyped /\ [Next]_vars => AlTyped'
  <2>1. ASSUME AlTyped, NEW A, Al!BrokenOff(A) PROVE AlTyped'
    <3>1. breaks' \in 0..Breaks BY <2>1 DEF Al!BrokenOff, Al!Fault, AlTyped
    <3>2. attempts' = [r \in Risks |-> IF Al!Job(r) \in A \ Al!LastTry(A)
                                        THEN attempts[r] + 1 ELSE attempts[r]]
      BY <2>1 DEF Al!BrokenOff
    <3>3. ASSUME NEW r \in Risks, Al!Job(r) \in A \ Al!LastTry(A)
          PROVE  attempts[r] # Redeliveries
      <4>1. Al!Job(r).risk = r BY DEF Al!Job
      <4>. QED BY <3>3, <4>1 DEF Al!LastTry
    <3>4. \A r \in Risks : attempts[r] \in 0..Redeliveries BY <2>1 DEF AlTyped
    <3>5. \A r \in Risks : attempts[r] # Redeliveries => attempts[r] + 1 \in 0..Redeliveries
      BY <3>4
    <3>6. attempts' \in [Risks -> 0..Redeliveries] BY <3>2, <3>3, <3>4, <3>5
    <3>. QED BY <3>1, <3>6 DEF AlTyped
  <2>2. ASSUME AlTyped, UNCHANGED <<attempts, breaks>> PROVE AlTyped' BY <2>2 DEF AlTyped
  <2>3. Al!Next => \/ \E A : Al!BrokenOff(A)
                   \/ UNCHANGED <<attempts, breaks>>
    BY DEF Al!Next, Al!Dies, Al!AlertFails, Al!Raise, Al!Alert
  <2>4. [Next]_vars => Al!Next \/ UNCHANGED <<attempts, breaks>> BY DEF Next, vars, alVars
  <2>. QED BY <2>1, <2>2, <2>3, <2>4
<1>3. AlInv /\ AlTyped => Al!TypeOK BY DEF AlInv, AlTyped, Al!TypeOK
<1>. QED BY <1>1, <1>2, <1>3, AlertsInvariant, PTL DEF Spec

(* The id under which the connector knows a bill is the place of one in the books, and a *)
(* call is made MaxTries times at most.                                                  *)
BlCall == [at : {"start", "absent", "unknown", "made", "unread", "read", "adopted", "held",
                 "created"},
           tries : 0..MaxTries - 1, id : Nat]
BlTyped == /\ call \in BlCall /\ call.id <= Len(books)
           /\ read \in {Bl!None, "match", "amount", "docnumber", "dimension"}

(* The bookkeeper and the connector only ever add bills, or edit one in its place. *)
LEMMA BooksGrow ==
  ASSUME BlInv, Bl!Next
  PROVE  /\ Len(books) \in Nat /\ Len(books') \in Nat
         /\ \/ Len(books') = Len(books)
            \/ Len(books') = Len(books) + 1
         /\ Bl!PostBill \/ Bl!CreateCanonical => Len(books') = Len(books) + 1
         /\ DOMAIN books = 1..Len(books)
<1>1. PICK S : books \in Seq(S) BY DEF BlInv, BooksKept
<1>2. Len(books) \in Nat /\ DOMAIN books = 1..Len(books) BY <1>1
<1>3. ASSUME NEW e, books' = Append(books, e)
      PROVE  Len(books') \in Nat /\ Len(books') = Len(books) + 1
  <2>1. Append(books, e) \in Seq(S \cup {e}) /\ books \in Seq(S \cup {e}) BY <1>1
  <2>. QED BY <2>1, <1>3
<1>4. CASE Bl!HandEnters /\ ~Bl!PostBill /\ ~Bl!CreateCanonical
  <2>1. PICK b : books' = Append(books, b) BY <1>4 DEF Bl!HandEnters
  <2>. QED BY <1>2, <1>3, <1>4, <2>1
<1>5. CASE Bl!HandEdits /\ ~Bl!PostBill /\ ~Bl!CreateCanonical
  <2>1. PICK i, c : i \in DOMAIN books /\ books' = [books EXCEPT ![i] = c]
    BY <1>5 DEF Bl!HandEdits
  <2>2. books' \in Seq(S \cup {c}) /\ Len(books') = Len(books)
    <3>1. books \in [1..Len(books) -> S] BY <1>1
    <3>2. books' \in [1..Len(books) -> S \cup {c}] BY <2>1, <3>1
    <3>. QED BY <1>2, <3>2
  <2>. QED BY <1>2, <1>5, <2>2
<1>6. CASE Bl!PostBill
  <2>1. PICK b : books' = Append(books, b) BY <1>6 DEF Bl!PostBill
  <2>. QED BY <1>2, <1>3, <2>1
<1>7. CASE Bl!CreateCanonical
  <2>1. books' = Append(books, Bl!Bill(Bl!CanonicalPayload, 0)) BY <1>7 DEF Bl!CreateCanonical
  <2>. QED BY <1>2, <1>3, <2>1
<1>8. CASE ~Bl!HandEnters /\ ~Bl!HandEdits /\ ~Bl!PostBill /\ ~Bl!CreateCanonical
  <2>1. books' = books
    BY <1>8 DEF Bl!Next, Bl!Probe, Bl!Refuse, Bl!Limited, Bl!PostFails, Bl!ReadBackVerify,
                Bl!ReadFails, Bl!ReadAgain
  <2>. QED BY <1>2, <1>8, <2>1
<1>. QED BY <1>4, <1>5, <1>6, <1>7, <1>8

LEMMA CallTyped ==
  ASSUME BlInv, BlTyped, Bl!Next, MaxTries \in Nat \ {0}
  PROVE  call' \in BlCall /\ call'.id <= Len(books')
<1>0. /\ Len(books) \in Nat /\ Len(books') \in Nat /\ Len(books) <= Len(books')
      /\ DOMAIN books = 1..Len(books)
  BY BooksGrow
<1>1. 0 \in 0..MaxTries - 1 OBVIOUS
<1>2. ASSUME NEW to \in {"start", "absent", "unknown", "made", "unread", "read", "adopted",
                         "held", "created"},
             NEW i \in Nat, i <= Len(books'), Bl!Ends(to, i)
      PROVE  call' \in BlCall /\ call'.id <= Len(books')
  BY <1>1, <1>2 DEF Bl!Ends, BlCall
<1>3. CASE Bl!HandEnters \/ Bl!HandEdits
  <2>1. UNCHANGED call BY <1>3 DEF Bl!HandEnters, Bl!HandEdits
  <2>. QED BY <1>0, <2>1 DEF BlTyped, BlCall
<1>4. ASSUME NEW again \in BOOLEAN, Bl!Probe(again)
      PROVE  call' \in BlCall /\ call'.id <= Len(books')
  <2>1. \/ Bl!Ends("held", 0) \/ Bl!Ends("absent", 0)
        \/ \E i \in DOMAIN books : Bl!Ends("adopted", i)
    BY <1>4 DEF Bl!Probe, Bl!Preflight, Bl!Detected
  <2>2. CASE Bl!Ends("held", 0) BY <1>0, <1>2, <2>2
  <2>3. CASE Bl!Ends("absent", 0) BY <1>0, <1>2, <2>3
  <2>4. CASE \E i \in DOMAIN books : Bl!Ends("adopted", i)
    <3>1. PICK i \in DOMAIN books : Bl!Ends("adopted", i) BY <2>4
    <3>2. i \in Nat /\ i <= Len(books') BY <1>0
    <3>. QED BY <1>2, <3>1, <3>2
  <2>. QED BY <2>1, <2>2, <2>3, <2>4
<1>5. CASE Bl!Refuse \/ Bl!PostFails
  <2>1. Bl!Ends("held", 0) \/ Bl!Ends("unknown", 0) BY <1>5 DEF Bl!Refuse, Bl!PostFails
  <2>2. CASE Bl!Ends("held", 0) BY <1>0, <1>2, <2>2
  <2>3. CASE Bl!Ends("unknown", 0) BY <1>0, <1>2, <2>3
  <2>. QED BY <2>1, <2>2, <2>3
<1>6. CASE Bl!Limited
  <2>1. \/ call.tries + 1 < MaxTries /\ call' = [call EXCEPT !.tries = @ + 1]
        \/ \E to \in {"unknown", "unread", "held"} :
             call' = [at |-> to, tries |-> 0, id |-> call.id]
    BY <1>6 DEF Bl!Limited
  <2>. QED BY <1>0, <1>1, <2>1 DEF BlTyped, BlCall
<1>7. CASE Bl!PostBill
  <2>1. Len(books') = Len(books) + 1 BY <1>7, BooksGrow
  <2>2. \E to \in {"made", "unknown"}, i \in {0, Len(books) + 1} : Bl!Ends(to, i)
    BY <1>7 DEF Bl!PostBill
  <2>3. PICK to \in {"made", "unknown"}, i \in {0, Len(books) + 1} : Bl!Ends(to, i) BY <2>2
  <2>4. i \in Nat /\ i <= Len(books') BY <1>0, <2>1
  <2>. QED BY <1>2, <2>3, <2>4
<1>8. CASE Bl!CreateCanonical
  <2>1. Len(books') = Len(books) + 1 /\ Bl!Ends("created", Len(books) + 1)
    BY <1>8, BooksGrow DEF Bl!CreateCanonical
  <2>2. Len(books) + 1 \in Nat /\ Len(books) + 1 <= Len(books') BY <1>0, <2>1
  <2>. QED BY <1>2, <2>1, <2>2
<1>9. CASE Bl!ReadBackVerify
  <2>1. Bl!Ends("read", call.id) BY <1>9 DEF Bl!ReadBackVerify
  <2>2. call.id \in Nat /\ call.id <= Len(books') BY <1>0 DEF BlTyped, BlCall
  <2>. QED BY <1>2, <2>1, <2>2
<1>10. CASE Bl!ReadFails \/ Bl!ReadAgain
  BY <1>0, <1>10 DEF Bl!ReadFails, Bl!ReadAgain, Bl!Goes, BlTyped, BlCall
<1>. QED BY <1>3, <1>4, <1>5, <1>6, <1>7, <1>8, <1>9, <1>10 DEF Bl!Next

LEMMA BillsTyped == ASSUME BlBounds, MaxTries \in Nat \ {0} PROVE Spec => []Bl!TypeOK
<1>1. Init => BlTyped
  <2>. SUFFICES ASSUME Bl!Init PROVE BlTyped BY DEF Init
  <2>1. 0 \in 0..MaxTries - 1 /\ Len(books) = 0 BY DEF Bl!Init
  <2>. QED BY <2>1 DEF Bl!Init, BlTyped, BlCall
<1>2. BlInv /\ BlTyped /\ [Next]_vars => BlTyped'
  <2>. SUFFICES ASSUME BlInv, BlTyped, [Next]_vars PROVE BlTyped' OBVIOUS
  <2>1. CASE UNCHANGED blVars BY <2>1 DEF blVars, BlTyped
  <2>2. CASE Bl!Next
    <3>1. read' \in {Bl!None, "match", "amount", "docnumber", "dimension"}
      BY <2>2 DEF BlTyped, Bl!Next, Bl!HandEnters, Bl!HandEdits, Bl!Probe, Bl!Refuse, Bl!Limited,
         Bl!PostBill, Bl!PostFails, Bl!CreateCanonical, Bl!ReadBackVerify, Bl!ReadFails,
         Bl!ReadAgain, Bl!BillMismatch, Bl!Compared
    <3>. QED BY <2>2, <3>1, CallTyped DEF BlTyped
  <2>. QED BY <2>1, <2>2 DEF Next, vars
<1>3. BlInv /\ BlTyped => Bl!TypeOK
  <2>. SUFFICES ASSUME BlInv, BlTyped PROVE Bl!TypeOK OBVIOUS
  <2>1. PICK S : books \in Seq(S) BY DEF BlInv, BooksKept
  <2>2. Len(books) \in Nat BY <2>1
  <2>. QED BY <2>2 DEF BlTyped, BlCall, Bl!TypeOK
<1>. QED BY <1>1, <1>2, <1>3, BillsInvariant, PTL DEF Spec

(* A run exercises components of the system. *)
PartsKnown == Parts \subseteq {"mailroom", "documents", "proposals", "mappings", "review",
                               "nights", "alerts", "bills"}

(* Whatever the bounds are, every component stays within its types: a job is queued at most *)
(* as often as it was sent, a document, row, worker or packet is in one of the states the   *)
(* code gives it, and no counter passes its limit.                                          *)
THEOREM TypesStay ==
  ASSUME PartsKnown, MrBounds, Queued \in Nat, Mishaps \in Nat, ReadingsNamed, Troubles \in Nat,
         Changes \in Nat, RvBounds, Meddling \in Nat, NtBounds, NightMishaps \in Nat,
         MaxLog \in Nat, Redeliveries \in Nat, Breaks \in Nat, BlBounds, MaxTries \in Nat \ {0}
  PROVE  Spec => []TypeOK
<1>1. Spec => [](focus \in Parts)
  <2>1. Init => focus \in Parts BY DEF Init
  <2>2. focus \in Parts /\ [Next]_vars => (focus \in Parts)' BY DEF Next, vars
  <2>. QED BY <2>1, <2>2, PTL DEF Spec
<1>2. /\ focus \in Parts
      /\ Mr!TypeOK /\ Dc!TypeOK /\ Pr!TypeOK /\ Mp!TypeOK /\ Rv!TypeOK /\ Nt!TypeOK
      /\ Al!TypeOK /\ Bl!TypeOK
      => TypeOK
  BY DEF PartsKnown, TypeOK
<1>. QED BY <1>1, <1>2, RelayTyped, DocumentsTyped, ProposalsTyped, MappingsTyped, ReviewTyped,
            NightsTyped, AlertsTyped, BillsTyped, PTL
=============================================================================
