--------------------------- MODULE JobLeaseProofs ---------------------------
(***************************************************************************)
(* JobLease for every lease time, pause and request timeout that satisfies *)
(* LeaseOutlivesHeartbeat.                                                 *)
(***************************************************************************)
EXTENDS JobLease, TLAPS

USE TimesAssumption, LeaseOutlivesHeartbeat

Inv == TypeOK /\ Slack

\* The lease calls of worker.py and api.py start with the slack they need.
LEMMA InitInv == Init => Inv
  BY DEF Init, Inv, TypeOK, Slack, Renewing

\* Each step of the worker, its heartbeat thread, a rival or the clock keeps
\* the slack.
LEMMA NextInv == Inv /\ [Next]_vars => Inv'
  <1> SUFFICES ASSUME Inv, [Next]_vars
               PROVE  Inv'
    OBVIOUS
  <1> USE DEF Inv, TypeOK, Slack, Renewing, Pause
  <1>1. CASE ClaimServed
    BY <1>1 DEF ClaimServed, Hold
  <1>2. CASE StartHeartbeat
    BY <1>2 DEF StartHeartbeat
  <1>3. CASE SendHeartbeat
    BY <1>3 DEF SendHeartbeat
  <1>4. CASE ServeHeartbeat
    BY <1>4 DEF ServeHeartbeat, Hold
  <1>5. CASE HeartbeatAnswered
    BY <1>5 DEF HeartbeatAnswered
  <1>6. CASE HeartbeatFails
    BY <1>6 DEF HeartbeatFails
  <1>7. CASE Report
    BY <1>7 DEF Report, Drop
  <1>8. CASE Abandon
    BY <1>8 DEF Abandon
  <1>9. CASE RivalClaims \/ RivalReports
    BY <1>9 DEF RivalClaims, RivalReports, Hold, Drop
  <1>10. CASE Tick
    BY <1>10 DEF Tick, Bounded
  <1>11. CASE UNCHANGED vars
    BY <1>11 DEF vars
  <1> QED
    BY <1>1, <1>2, <1>3, <1>4, <1>5, <1>6, <1>7, <1>8, <1>9, <1>10, <1>11
       DEF Next

\* In every phase of a live heartbeat thread some of the lease is left.
LEMMA InvKeepsLease == Inv => HeartbeatKeepsLease
  BY DEF Inv, TypeOK, Slack, HeartbeatKeepsLease, Renewing, Pause

LEMMA Invariance == Spec => []Inv
  BY InitInv, NextInv, PTL DEF Spec

\* The variables of the lease protocol keep their types.
THEOREM LeaseTypeCorrect == Spec => []TypeOK
  <1>1. Inv => TypeOK
    BY DEF Inv
  <1> QED
    BY <1>1, Invariance, PTL

\* The slack left in each phase of the heartbeat thread is an invariant.
THEOREM LeaseSlack == Spec => []Slack
  <1>1. Inv => Slack
    BY DEF Inv
  <1> QED
    BY <1>1, Invariance, PTL

\* No job is offered to another worker behind a live heartbeat thread.
THEOREM LeaseKept == Spec => []HeartbeatKeepsLease
  BY Invariance, InvKeepsLease, PTL

\* A lease is lost only after its heartbeat thread ended.
THEOREM LeaseNotTakenOver == Spec => NoTakeover
  <1>1. Inv /\ Inv' /\ [Next]_vars
          => [owner = "worker" /\ owner' = "none" /\ main' # "idle"
                => main = "process" /\ thread \in {"lost", "dead"}]_vars
    <2> SUFFICES ASSUME Inv, Inv', Next, owner = "worker", owner' = "none",
                        main' # "idle"
                 PROVE  main = "process" /\ thread \in {"lost", "dead"}
      BY DEF vars
    <2>1. Tick
      BY DEF Next, ClaimServed, StartHeartbeat, SendHeartbeat, ServeHeartbeat,
             HeartbeatAnswered, HeartbeatFails, Report, Abandon, RivalClaims,
             RivalReports, Hold, Drop
    <2>2. main # "idle" /\ main # "claiming" /\ thread \notin Renewing
      BY <2>1 DEF Tick, Inv, TypeOK, Slack, Renewing, Pause
    <2>3. thread # "off"
      BY <2>1 DEF Tick, Inv, TypeOK, Slack, Renewing, Pause
    <2> QED
      BY <2>2, <2>3 DEF Inv, TypeOK
  <1> QED
    BY <1>1, Invariance, PTL DEF Spec, NoTakeover
=============================================================================
