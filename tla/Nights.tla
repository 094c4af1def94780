-------------------------------- MODULE Nights --------------------------------
(***************************************************************************)
(* What runs by the clock: the anchor of the audit log at 03:00            *)
(* (src/pipeline/audit-anchor.ts, src/swarmsync/client.ts) and the digest  *)
(* at 07:00 (src/services/digest.ts).                                      *)
(*                                                                         *)
(* The schedule sends a job without a day while the application runs; a    *)
(* handler takes the day on which it runs.  A submission that timed out    *)
(* may be executed late and is sent again.  A process that dies leaves     *)
(* jobs, which are handed out again at the next start.                     *)
(***************************************************************************)
EXTENDS Naturals, FiniteSets

CONSTANTS Days,     \* bound: midnights
          MaxLog,   \* bound: rows of the audit log of a day
          Retries,  \* of the SwarmSync client
          Mishaps   \* bound: deaths, failed submissions, failed counts

VARIABLES today, hour, up,
          enabled,   \* SWARMSYNC_ENABLED
          log,       \* audit_log: how many rows a day has
          jobs,      \* jobs waiting, of "anchor" and of "digest"
          anchorer,  \* the anchor worker
          wire,      \* submissions sent and neither executed nor refused
          chain,     \* submissions SwarmSync has executed: [day, rows]
          anchored,  \* proof_refs of an audit_day: day -> rows of its digest
          failed,    \* days with an exception proof_scan_unavailable
          retried,   \* history: days tried again after they failed
          cycles,    \* history: days whose anchor job has ended
          digester,  \* the digest worker
          digests,   \* notifications daily_digest: the days they are of
          mishaps

vars == <<today, hour, up, enabled, log, jobs, anchorer, wire, chain, anchored, failed,
          retried, cycles, digester, digests, mishaps>>
clock == <<today, hour, up, enabled>>
anchors == <<anchorer, wire, chain, anchored, failed, retried, cycles>>
notices == <<digester, digests>>

Idle == [at |-> "idle", day |-> 0, rows |-> 0, tries |-> 0]
Rest == [at |-> "idle", day |-> 0]
Fault == mishaps < Mishaps /\ mishaps' = mishaps + 1

Init ==
  /\ today = 0 /\ hour = "night" /\ up = TRUE /\ enabled \in BOOLEAN
  /\ log = [d \in 0..Days |-> 0] /\ jobs = [j \in {"anchor", "digest"} |-> 0]
  /\ anchorer = Idle /\ wire = {} /\ chain = {} /\ anchored = [d \in {} |-> 0]
  /\ failed = {} /\ retried = {} /\ cycles = {}
  /\ digester = Rest /\ digests = {} /\ mishaps = 0
----------------------------------------------------------------------------
(* The clock and the schedules *)

\* the jobs of an hour are sent only while the application runs
Sent(job) == jobs' = IF up THEN [jobs EXCEPT ![job] = @ + 1] ELSE jobs
Ended(job) == jobs' = [jobs EXCEPT ![job] = @ - 1]

Hour(h, next) == hour = h /\ hour' = next /\ UNCHANGED <<up, enabled>>
                 /\ UNCHANGED <<log, anchors, notices, mishaps>>
ThreeOClock == Hour("night", "morning") /\ Sent("anchor") /\ UNCHANGED today
SevenOClock == Hour("morning", "day") /\ Sent("digest") /\ UNCHANGED today
Midnight == Hour("day", "night") /\ today < Days /\ today' = today + 1 /\ UNCHANGED jobs

\* every transition and call of the system writes a row
Write == /\ up /\ log[today] < MaxLog /\ log' = [log EXCEPT ![today] = @ + 1]
         /\ UNCHANGED <<clock, jobs, anchors, notices, mishaps>>

Dies == /\ up /\ Fault /\ up' = FALSE
        /\ anchorer' = Idle /\ digester' = Rest
        /\ UNCHANGED <<today, hour, enabled, log, jobs, wire, chain, anchored, failed,
                       retried, cycles, digests>>
Starts == /\ ~up /\ up' = TRUE
          /\ UNCHANGED <<today, hour, enabled, log, jobs, anchors, notices, mishaps>>
----------------------------------------------------------------------------
(* anchorAuditDay *)

AnchorStep == up /\ UNCHANGED <<clock, log, notices>>
EndCycle(d) == /\ anchorer' = Idle /\ Ended("anchor") /\ cycles' = cycles \cup {d}

\* switched off, or a proof of the day is on record
Skip == /\ AnchorStep /\ jobs["anchor"] > 0 /\ anchorer = Idle
        /\ ~enabled \/ today \in DOMAIN anchored
        /\ EndCycle(today) /\ UNCHANGED <<wire, chain, anchored, failed, retried, mishaps>>

ReadDayAgain ==  \* Mutant: no look for a proof of the day
  /\ AnchorStep /\ jobs["anchor"] > 0 /\ anchorer = Idle /\ enabled
  /\ anchorer' = [at |-> "ask", day |-> today, rows |-> log[today], tries |-> 0]
  /\ retried' = retried \cup ({today} \cap failed)
  /\ UNCHANGED <<jobs, wire, chain, anchored, failed, cycles, mishaps>>
\* the digest of the rows the day has so far
ReadDay ==
  /\ AnchorStep /\ jobs["anchor"] > 0 /\ anchorer = Idle /\ enabled
  /\ today \notin DOMAIN anchored
  /\ anchorer' = [at |-> "ask", day |-> today, rows |-> log[today], tries |-> 0]
  /\ retried' = retried \cup ({today} \cap failed)
  /\ UNCHANGED <<jobs, wire, chain, anchored, failed, cycles, mishaps>>

Asked == [day |-> anchorer.day, rows |-> anchorer.rows]
Submit == /\ AnchorStep /\ anchorer.at = "ask" /\ wire' = wire \cup {Asked}
          /\ anchorer' = [anchorer EXCEPT !.at = "wait"]
          /\ UNCHANGED <<jobs, chain, anchored, failed, retried, cycles, mishaps>>

Execute(s) == /\ s \in wire /\ wire' = wire \ {s} /\ chain' = chain \cup {s}
              /\ UNCHANGED <<clock, log, jobs, anchorer, anchored, failed, retried, cycles,
                             notices, mishaps>>

\* one retry too many
AskAgainMore ==
  /\ AnchorStep /\ anchorer.at = "wait" /\ Fault
  /\ anchorer' = IF anchorer.tries <= Retries
                   THEN [anchorer EXCEPT !.at = "ask", !.tries = @ + 1]
                   ELSE [anchorer EXCEPT !.at = "fail"]
  /\ UNCHANGED <<jobs, wire, chain, anchored, failed, retried, cycles>>

\* a timeout, a lost answer or a 5xx: again, up to Retries times
AskAgain ==
  /\ AnchorStep /\ anchorer.at = "wait" /\ Fault
  /\ anchorer' = IF anchorer.tries < Retries
                   THEN [anchorer EXCEPT !.at = "ask", !.tries = @ + 1]
                   ELSE [anchorer EXCEPT !.at = "fail"]
  /\ UNCHANGED <<jobs, wire, chain, anchored, failed, retried, cycles>>

Refused == /\ AnchorStep /\ anchorer.at = "wait" /\ Asked \in wire /\ Fault
           /\ wire' = wire \ {Asked} /\ anchorer' = [anchorer EXCEPT !.at = "fail"]
           /\ UNCHANGED <<jobs, chain, anchored, failed, retried, cycles>>

\* the proof is recorded on the answer; a record of the day would stay as it is
Recorded == [d \in DOMAIN anchored \cup {anchorer.day} |->
               IF d \in DOMAIN anchored THEN anchored[d] ELSE anchorer.rows]
RecordSubmitted ==  \* Mutant: recorded when it is sent
  /\ AnchorStep /\ anchorer.at = "wait"
  /\ anchored' = Recorded /\ EndCycle(anchorer.day)
  /\ UNCHANGED <<wire, chain, failed, retried, mishaps>>
Record ==
  /\ AnchorStep /\ anchorer.at = "wait" /\ Asked \in chain
  /\ anchored' = Recorded /\ EndCycle(anchorer.day)
  /\ UNCHANGED <<wire, chain, failed, retried, mishaps>>

\* the exception is raised and the job succeeds
Fail == /\ AnchorStep /\ anchorer.at = "fail" /\ failed' = failed \cup {anchorer.day}
        /\ EndCycle(anchorer.day) /\ UNCHANGED <<wire, chain, anchored, retried, mishaps>>
----------------------------------------------------------------------------
(* generateDailyDigest *)

NoticeStep == up /\ UNCHANGED <<clock, log, anchors>>

BeginDigest ==
  /\ NoticeStep /\ jobs["digest"] > 0 /\ digester = Rest
  /\ IF today \in digests THEN Ended("digest") /\ UNCHANGED digester
     ELSE digester' = [at |-> "count", day |-> today] /\ UNCHANGED jobs
  /\ UNCHANGED <<digests, mishaps>>

\* no counts: no row is written and the job succeeds
Defer == /\ NoticeStep /\ digester.at = "count" /\ Fault
         /\ digester' = Rest /\ Ended("digest") /\ UNCHANGED digests

Digest == /\ NoticeStep /\ digester.at = "count" /\ digests' = digests \cup {digester.day}
          /\ digester' = Rest /\ Ended("digest") /\ UNCHANGED mishaps

Next == \/ ThreeOClock \/ SevenOClock \/ Midnight \/ Write \/ Dies \/ Starts
        \/ Skip \/ ReadDay \/ Submit \/ AskAgain \/ Refused \/ Record \/ Fail
        \/ \E s \in wire : Execute(s)
        \/ BeginDigest \/ Defer \/ Digest

Spec == Init /\ [][Next]_vars
----------------------------------------------------------------------------
(* Properties *)

TypeOK ==
  /\ today \in 0..Days /\ hour \in {"night", "morning", "day"} /\ up \in BOOLEAN
  /\ log \in [0..Days -> 0..MaxLog] /\ \A j \in DOMAIN jobs : jobs[j] \in 0..(Days + 1)
  /\ anchorer.at \in {"idle", "ask", "wait", "fail"} /\ anchorer.tries \in 0..Retries
  /\ DOMAIN anchored \subseteq 0..Days /\ failed \cup cycles \cup digests \subseteq 0..Days
  /\ mishaps \in 0..Mishaps

\* The proof on record of a day is the newest SwarmSync has of it or may yet execute,
\* whatever was lost, repeated after a death, or executed late (audit-anchor.ts:30-53,
\* proof.ts:39-43).
RecordedIsNewest ==
  \A d \in DOMAIN anchored :
    /\ [day |-> d, rows |-> anchored[d]] \in chain
    /\ \A s \in wire \cup chain : s.day = d => s.rows <= anchored[d]

\* "job retries never double-submit a proof" (proof.ts:6-7).
NeverTwice == \A s, t \in chain : s.day = t.day => s = t

\* "Failure -> proof_scan_unavailable + retry next cycle" (audit-anchor.ts:14).
RetriedNextCycle ==
  \A d \in failed : (\E c \in cycles : c > d) => d \in retried \cup DOMAIN anchored
=============================================================================
