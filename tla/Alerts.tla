-------------------------------- MODULE Alerts --------------------------------
(***************************************************************************)
(* Material exceptions and their immediate alerts (src/exceptions.ts,      *)
(* maybeRaiseRiskAlert of src/services/digest.ts): two statements outside  *)
(* a transaction.  A finding is raised by the propose job of its           *)
(* extraction, or in a person's request: a dry run proposes the same       *)
(* extraction, and a rejection can mark a proposal as a duplicate.         *)
(*                                                                         *)
(* A job that fails or dies is handed out again, a few times; what broke   *)
(* off in a request nothing takes up again.  Only the set of findings is   *)
(* kept: a finding raised twice has two rows and two alerts.               *)
(***************************************************************************)
EXTENDS Naturals

CONSTANTS Risks,        \* findings that are raised as material exceptions
          Redeliveries, \* retryLimit of the queue
          Mishaps       \* bound: deaths and failed statements

VARIABLES raised,    \* exceptions: the findings written
          alerted,   \* notifications risk_alert: the findings told
          raising,   \* calls of raiseException between their two statements
          riskJobs,  \* findings whose propose job is not done
          attempts,  \* how often that job was handed out again
          unsaid,    \* history: broken off, and nothing will raise it again
          mishaps

vars == <<raised, alerted, raising, riskJobs, attempts, unsaid, mishaps>>

Raiser == [risk : Risks, by : {"job", "request"}]
Job(r) == [risk |-> r, by |-> "job"]
Fault == mishaps < Mishaps /\ mishaps' = mishaps + 1

Init == /\ raised = {} /\ alerted = {} /\ raising = {} /\ riskJobs = Risks
        /\ attempts = [r \in Risks |-> 0] /\ unsaid = {} /\ mishaps = 0
----------------------------------------------------------------------------
RaiseUnawaited(a) ==  \* Mutant: the job does not await the alert
  /\ a \notin raising /\ (a.by = "job" => a.risk \in riskJobs)
  /\ raised' = raised \cup {a.risk} /\ raising' = raising \cup {a}
  /\ riskJobs' = IF a.by = "job" THEN riskJobs \ {a.risk} ELSE riskJobs
  /\ UNCHANGED <<alerted, attempts, unsaid, mishaps>>
\* the exception
Raise(a) ==
  /\ a \notin raising /\ (a.by = "job" => a.risk \in riskJobs)
  /\ raised' = raised \cup {a.risk} /\ raising' = raising \cup {a}
  /\ UNCHANGED <<alerted, riskJobs, attempts, unsaid, mishaps>>

\* the alert; what raised it goes on to its end
Alert(a) ==
  /\ a \in raising /\ raising' = raising \ {a} /\ alerted' = alerted \cup {a.risk}
  /\ riskJobs' = IF a.by = "job" THEN riskJobs \ {a.risk} ELSE riskJobs
  /\ UNCHANGED <<raised, attempts, unsaid, mishaps>>

\* nothing comes back to a request, nor to a job that was handed out often enough
LastTry(A) == {a \in A : a.by = "request" \/ attempts[a.risk] = Redeliveries}
BrokenOff(A) ==
  /\ Fault /\ raising' = raising \ A
  /\ unsaid' = unsaid \cup {a.risk : a \in LastTry(A)}
  /\ riskJobs' = {r \in riskJobs : Job(r) \notin LastTry(A)}
  /\ attempts' = [r \in Risks |-> IF Job(r) \in A \ LastTry(A) THEN attempts[r] + 1
                                                               ELSE attempts[r]]
  /\ UNCHANGED <<raised, alerted>>

\* the second statement fails, or the process dies and starts again
AlertFails(a) == a \in raising /\ BrokenOff({a})
Dies == raising # {} /\ BrokenOff(raising)

Next == Dies \/ \E a \in Raiser : Raise(a) \/ Alert(a) \/ AlertFails(a)

Spec == Init /\ [][Next]_vars
----------------------------------------------------------------------------
(* Properties *)

TypeOK == /\ alerted \subseteq raised /\ raised \cup riskJobs \cup unsaid \subseteq Risks
          /\ raising \subseteq Raiser /\ attempts \in [Risks -> 0..Redeliveries]
          /\ mishaps \in 0..Mishaps

\* A material exception has its alert, or what raises it is under way, or its job is
\* handed out again.  One stays without only when a request broke off between the two
\* statements, or the job did at its last attempt (exceptions.ts:88-95).
Owed == riskJobs \cup {a.risk : a \in raising}
RisksAreAlerted == raised \subseteq alerted \cup Owed \cup unsaid

\* "material-risk reason codes ... also earn an immediate risk_alert notification"
\* (exceptions.ts:92-94).
EveryRiskIsAlerted == raised \subseteq alerted \cup Owed
=============================================================================
