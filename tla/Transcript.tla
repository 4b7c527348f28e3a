----------------------------- MODULE Transcript -----------------------------
(***************************************************************************)
(* What a review session promises to those who read it, whoever writes it  *)
(* and however often writing fails: after each answer one step is added,   *)
(* which asks or closes; what has been observed stays known and is never   *)
(* told differently; the assessment that closes the session rests on all   *)
(* that is known, and comes after a bounded number of questions.           *)
(***************************************************************************)
EXTENDS Naturals

CONSTANTS MaxRounds, Checks

VARIABLES
  rounds,     \* the number of steps
  known,      \* the observations that hold
  state,      \* "queued", "student" or "closed"
  basis       \* what the assessment was made of

tvars == <<rounds, known, state, basis>>

Unambiguous(observations) == \A o, p \in observations : o.id = p.id => o = p

Init == rounds = 0 /\ known = {} /\ state = "queued" /\ basis = {}

Learn ==
  /\ state = "queued"
  /\ rounds' = rounds + 1
  /\ known \subseteq known' /\ Unambiguous(known')

Ask ==
  /\ Learn
  /\ rounds < MaxRounds
  /\ state' = "student"
  /\ UNCHANGED basis

Close ==
  /\ Learn
  /\ state' = "closed"
  /\ basis' = Checks \cup {o.id : o \in known'}

Answer ==
  /\ state = "student"
  /\ state' = "queued"
  /\ UNCHANGED <<rounds, known, basis>>

Next == Ask \/ Close \/ Answer

Spec == Init /\ [][Next]_tvars
=============================================================================
