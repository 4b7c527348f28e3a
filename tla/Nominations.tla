---------------------------- MODULE Nominations ----------------------------
(***************************************************************************)
(* How achievements are nominated: by the handlers of a laboratory through *)
(* the EventPipeline (pipeline.py), by its static inspection of a solution *)
(* (static_achievements.py), and by resolve_achievement_triggers           *)
(* (achievements.py), which decides on the host what is sent on.           *)
(*                                                                         *)
(* A nomination is its achievement, the part of its source before the      *)
(* colon, what made it, and the evidence it names.                         *)
(***************************************************************************)
EXTENDS Naturals, Sequences, Functions, FiniteSetsExt

CONSTANTS
  Achievements,
  MaxActions    \* EventPipeline.max_actions_per_event

ASSUME MaxActionsAssumption == MaxActions \in Nat

\* What a nomination may rest on: a check, an event of the sandbox, the outcome.
EvidenceIds == [kind : {"check", "event", "outcome"}, of : Nat]
Evidence(kind, n) == [kind |-> kind, of |-> n]

Sources == {"pipeline", "grader", "runtime"}
Nominated == [id : Achievements, source : Sources,
              maker : {"api", "returned", "ast", "runtime", "first"},
              evidence : SUBSET EvidenceIds]
Nomination(id, source, maker, evidence) ==
  [id |-> id, source |-> source, maker |-> maker, evidence |-> evidence]

-----------------------------------------------------------------------------
(* EventPipeline.  A handler answers events of one type; it declares what  *)
(* it emits, calls achievements.nominate for some claims, and may return   *)
(* further nominations as actions of its own, under any source.            *)

Claims == [id : Achievements, evidence : SUBSET EvidenceIds]
ReturnedClaims == [id : Achievements, source : Sources, evidence : SUBSET EvidenceIds]
Handlers == [event : STRING, emits : SUBSET Achievements,
             nominates : Seq(Claims), returns : Seq(ReturnedClaims)]
Labs == [allowed : SUBSET Achievements, handlers : Seq(Handlers)]

\* AchievementAPI.nominate
Accepted(n, allowed, known) ==
  n.id \in allowed /\ n.evidence \subseteq known /\ n.evidence # {}

Answering(lab, event) == {m \in DOMAIN lab.handlers : lab.handlers[m].event = event}

ActionCount(lab, event) ==
  MapThenSumSet(LAMBDA m : Len(lab.handlers[m].nominates) + Len(lab.handlers[m].returns),
                Answering(lab, event))

\* EventPipeline() and dispatch let a ValueError pass, AchievementNomination's for
\* want of evidence as well.
DispatchRaises(lab, event, known) ==
  \/ \E m \in DOMAIN lab.handlers : ~(lab.handlers[m].emits \subseteq lab.allowed)
  \/ \E m \in Answering(lab, event) :
       \E n \in Range(lab.handlers[m].nominates) : ~Accepted(n, lab.allowed, known)
  \/ \E m \in Answering(lab, event) :
       \E n \in Range(lab.handlers[m].returns) : n.evidence = {}
  \/ ActionCount(lab, event) > MaxActions

\* What dispatch returns; nobody else checks what a handler returns itself.
Dispatched(lab, event) ==
  UNION {{Nomination(n.id, "pipeline", "api", n.evidence) : n \in Range(lab.handlers[m].nominates)}
           \cup {Nomination(n.id, n.source, "returned", n.evidence) :
                   n \in Range(lab.handlers[m].returns)}
         : m \in Answering(lab, event)}

-----------------------------------------------------------------------------
(* detect: idioms is the set of checks whose function shows the idiom that *)
(* the achievement of that check is about.                                 *)
StaticNominations(idioms, idiomId) ==
  {Nomination(idiomId[i], "grader", "ast", {Evidence("check", i)}) : i \in idioms}

-----------------------------------------------------------------------------
(* resolve_achievement_triggers.  "any" stands for a key the definition's  *)
(* trigger does not have.                                                  *)

Definitions == [id : Achievements, sources : SUBSET STRING, source : STRING,
                outcome : STRING, eventKind : STRING, event : STRING]

\* Variant: the source is not compared.
AllowedById(triggers, definitions) ==
  {t \in triggers : \E d \in definitions : d.id = t.id}

Allowed(triggers, definitions) ==
  {t \in triggers : \E d \in definitions : d.id = t.id /\ t.source \in d.sources}

MatchingEvents(d, events) ==
  {i \in DOMAIN events : d.eventKind = "any" \/ events[i] = d.eventKind}

RuntimeNominations(outcome, events, definitions) ==
  LET matched(d) == MatchingEvents(d, events)
      fires(d) == /\ "runtime" \in d.sources
                  /\ d.source \in {"any", "runtime"}
                  /\ d.outcome \in {"any", outcome}
                  /\ matched(d) # {} \/ (d.outcome # "any" /\ d.eventKind = "any")
      proof(d) == IF matched(d) = {} THEN {Evidence("outcome", 0)}
                  ELSE {Evidence("event", i) : i \in matched(d)}
  IN {Nomination(d.id, "runtime", "runtime", proof(d)) : d \in {e \in definitions : fires(e)}}

FirstSubmission(gate, passed, attempt, definitions) ==
  {Nomination(d.id, "grader", "first", {Evidence("check", i) : i \in passed}) :
     d \in {e \in definitions : /\ gate = "passed" /\ attempt = 1 /\ passed # {}
                                /\ "grader" \in e.sources
                                /\ e.event = "first_submission_passed"}}
=============================================================================
