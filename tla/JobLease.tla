------------------------------ MODULE JobLease ------------------------------
(***************************************************************************)
(* One job lease in time: the platform that lets it run out, the worker    *)
(* whose keep_lease thread renews it (worker.py:100-112), and the rivals   *)
(* that may claim the job once it is free.  Time is discrete; every        *)
(* request is answered, or has failed, Timeout after it was sent, and may  *)
(* reach the platform at any moment in between.                            *)
(*                                                                         *)
(* The question is the arithmetic of three constants: the lease of         *)
(* claim/heartbeat (lease_seconds=120), the pause of the thread (wait(30)) *)
(* and the time a request takes (timeout=30).                              *)
(***************************************************************************)
EXTENDS Naturals

CONSTANTS
  Ttl,          \* lease_seconds
  Interval,     \* the pause between an answer and the next heartbeat
  Timeout       \* the longest a request takes

ASSUME TimesAssumption ==
  Ttl \in Nat /\ Interval \in Nat \ {0} /\ Timeout \in Nat \ {0}

\* A renewal may be served as soon as it is sent and the next one only when it
\* times out: two requests and a pause may pass between two renewals.
ASSUME LeaseOutlivesHeartbeat == Ttl > Interval + 2 * Timeout

VARIABLES
  owner,        \* whose lease the platform honours
  left,         \* how long it still does
  main,         \* the main thread: outside, in the claim call, in process
  thread,       \* the keep_lease thread
  age           \* how long the claim, the pause or the request has lasted

vars == <<owner, left, main, thread, age>>

\* "wait": in stop_heartbeat.wait.  "send": the request has not been served.
\* "reply": it has, and the answer is on its way.  "lost": lease_lost is set.
\* "dead": the thread ended in an error it does not catch.
Renewing == {"wait", "send", "reply"}

\* The type invariant.
TypeOK ==
  /\ owner \in {"none", "worker", "rival"}
  /\ left \in 0 .. Ttl
  /\ main \in {"idle", "claiming", "process"}
  /\ thread \in Renewing \cup {"off", "lost", "dead"}
  /\ age \in Nat

Init ==
  /\ owner = "none" /\ left = 0
  /\ main = "idle" /\ thread = "off" /\ age = 0

-----------------------------------------------------------------------------
\* Variant: a renewal adds to the time that is left.
HoldLonger(who) == owner' = who /\ left' = left + Ttl

Hold(who) == owner' = who /\ left' = Ttl
Drop == owner' = "none" /\ left' = 0

\* The platform serves the claim; the answer is still on its way.
ClaimServed ==
  /\ main = "idle" /\ owner = "none"
  /\ Hold("worker")
  /\ main' = "claiming" /\ age' = 0
  /\ UNCHANGED thread

\* process starts its heartbeat thread.
StartHeartbeat ==
  /\ main = "claiming"
  /\ main' = "process" /\ thread' = "wait" /\ age' = 0
  /\ UNCHANGED <<owner, left>>

\* Variant: a pause twice as long.
PauseDoubled == 2 * Interval

Pause == Interval

SendHeartbeat ==
  /\ thread = "wait" /\ age = Pause
  /\ thread' = "send" /\ age' = 0
  /\ UNCHANGED <<owner, left, main>>

\* Variant: the heartbeat is answered, and nothing prolonged.
ServeHeartbeatUnrenewed ==
  /\ thread = "send"
  /\ thread' = IF owner = "worker" THEN "reply" ELSE "lost"
  /\ UNCHANGED <<owner, left, main, age>>

\* The platform prolongs the lease the heartbeat names, or refuses it.
ServeHeartbeat ==
  /\ thread = "send"
  /\ IF owner = "worker" THEN Hold("worker") /\ thread' = "reply"
                         ELSE UNCHANGED <<owner, left>> /\ thread' = "lost"
  /\ UNCHANGED <<main, age>>

HeartbeatAnswered ==
  /\ thread = "reply"
  /\ thread' = "wait" /\ age' = 0
  /\ UNCHANGED <<owner, left, main>>

\* An HTTP error although the lease is good, or no answer in time: ApiFailure
\* sets lease_lost, URLError ends the thread unnoticed.
HeartbeatFails ==
  /\ thread \in {"send", "reply"}
  /\ thread' \in {"lost", "dead"}
  /\ UNCHANGED <<owner, left, main, age>>

\* A result or an infrastructure failure is accepted: the lease is given up
\* and the thread stopped.  A heartbeat still under way names a dead lease.
Report ==
  /\ main = "process" /\ owner = "worker"
  /\ Drop
  /\ main' = "idle" /\ thread' = "off"
  /\ UNCHANGED age

\* process returns because lease_lost is set, or the worker process ends:
\* nobody tells the platform.
Abandon ==
  /\ main # "idle"
  /\ main' = "idle" /\ thread' = "off"
  /\ UNCHANGED <<owner, left, age>>

RivalClaims == owner = "none" /\ Hold("rival") /\ UNCHANGED <<main, thread, age>>
RivalReports == owner = "rival" /\ Drop /\ UNCHANGED <<main, thread, age>>

\* How long the phase that age measures may last.
Bounded ==
  /\ thread = "wait" => age < Pause
  /\ thread \in {"send", "reply"} => age < Timeout
  /\ main = "claiming" => age < Timeout

Tick ==
  /\ Bounded
  /\ age' = IF thread \in Renewing \/ main = "claiming" THEN age + 1 ELSE age
  /\ left' = IF left > 0 THEN left - 1 ELSE 0
  /\ owner' = IF left > 1 THEN owner ELSE "none"
  /\ UNCHANGED <<main, thread>>

Next ==
  \/ ClaimServed \/ StartHeartbeat \/ SendHeartbeat \/ ServeHeartbeat
  \/ HeartbeatAnswered \/ HeartbeatFails \/ Report \/ Abandon
  \/ RivalClaims \/ RivalReports \/ Tick

Spec == Init /\ [][Next]_vars
-----------------------------------------------------------------------------
\* The job is never offered to another worker while process runs and its
\* heartbeat thread has not ended (worker.py:103-112 with api.py:48-52).
HeartbeatKeepsLease ==
  main = "process" /\ thread \in Renewing => owner = "worker" /\ left > 0

\* A worker that loses its lease has either reported, or ended, or lost its
\* heartbeat thread before: no takeover happens behind a live heartbeat, nor
\* while the answer to the claim is still under way.
NoTakeover ==
  [][owner = "worker" /\ owner' = "none" /\ main' # "idle"
       => main = "process" /\ thread \in {"lost", "dead"}]_vars

\* What is left of the lease in each phase of the thread: the slack the three
\* constants leave (api.py:16,51, worker.py:104).  This is the inductive
\* invariant behind the two properties above.
Slack ==
  /\ main = "claiming" =>
       owner = "worker" /\ age <= Timeout /\ left + age >= Ttl
  /\ thread = "off" <=> main # "process"
  /\ thread \in Renewing => main = "process" /\ owner = "worker"
  /\ thread = "wait" => age <= Pause /\ left + age + Timeout >= Ttl
  /\ thread = "send" => age <= Timeout /\ left + age + Timeout + Pause >= Ttl
  /\ thread = "reply" => age <= Timeout /\ left + age >= Ttl
=============================================================================
