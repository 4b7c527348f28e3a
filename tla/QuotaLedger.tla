---------------------------- MODULE QuotaLedger ----------------------------
(***************************************************************************)
(* The local token budget of grader_worker/llm_quota.py and the attempts   *)
(* that draw on it: run_initial_review, run_followup_review and            *)
(* run_assessment of every worker that shares one LLM_QUOTA_DB.  An        *)
(* attempt reserves its tokens before it asks a provider and then marks    *)
(* the reservation consumed or released.                                   *)
(*                                                                         *)
(* A reservation is named by the submission and the step, not by the       *)
(* attempt: a second attempt at the same step, after a crash or behind the *)
(* back of the first one, finds the reservation of the first.  The clock   *)
(* is read before the transaction begins, so a day may end in between.     *)
(***************************************************************************)
EXTENDS Naturals, FiniteSetsExt

CONSTANTS
  Attempts,     \* the workers, each at one LLM step at a time
  Ids,          \* reservation ids
  NoId,
  Cost,         \* what each id reserves
  Budget,       \* LLM_LOCAL_DAILY_TOKEN_BUDGET
  MaxDay        \* bound on the days of a behaviour

ASSUME NoIdAssumption == NoId \notin Ids
ASSUME CostAssumption == Cost \in [Ids -> Nat \ {0}]
ASSUME BudgetAssumption == Budget \in Nat
ASSUME MaxDayAssumption == MaxDay \in Nat

VARIABLES
  day,          \* the date, in UTC days
  state,        \* reservations.state, "none" before the row exists
  created,      \* the day of reservations.created_at
  pc, id, seen, \* each attempt: where it stands, what it reserves, its clock
  shared,       \* history: ids two attempts worked on at once
  answered      \* history: ids for which an attempt got its answer

rows == <<state, created>>
vars == <<day, rows, pc, id, seen, shared, answered>>

Live == {"reserved", "consumed"}

\* The type invariant.
TypeOK ==
  /\ day \in 0 .. MaxDay
  /\ state \in [Ids -> Live \cup {"none", "released"}]
  /\ created \in [Ids -> 0 .. MaxDay]
  /\ pc \in [Attempts -> {"idle", "reserve", "call"}]
  /\ id \in [Attempts -> Ids \cup {NoId}]
  /\ seen \in [Attempts -> 0 .. MaxDay]
  /\ shared \subseteq Ids /\ answered \subseteq Ids

Init ==
  /\ day = 0
  /\ state = [i \in Ids |-> "none"]
  /\ created = [i \in Ids |-> 0]
  /\ pc = [a \in Attempts |-> "idle"]
  /\ id = [a \in Attempts |-> NoId]
  /\ seen = [a \in Attempts |-> 0]
  /\ shared = {} /\ answered = {}

-----------------------------------------------------------------------------
\* The function ends, and its locals are gone.
Leave(a) ==
  /\ pc' = [pc EXCEPT ![a] = "idle"]
  /\ id' = [id EXCEPT ![a] = NoId]
  /\ seen' = [seen EXCEPT ![a] = 0]

Call(a) == pc' = [pc EXCEPT ![a] = "call"] /\ UNCHANGED <<id, seen>>

\* now = time.time(), before BEGIN IMMEDIATE.
ReadClock(a, i) ==
  LET others == {b \in Attempts \ {a} : id[b] = i} IN
  /\ pc[a] = "idle"
  /\ pc' = [pc EXCEPT ![a] = "reserve"]
  /\ id' = [id EXCEPT ![a] = i]
  /\ seen' = [seen EXCEPT ![a] = day]
  /\ shared' = shared \cup {j \in {i} : others # {}}
  /\ UNCHANGED <<day, rows, answered>>

\* sum(tokens)
Tokens(reservations) == MapThenSumSet(LAMBDA i : Cost[i], reservations)

\* Variant: tokens in use are not counted yet.
UsedUp(d) == Tokens({i \in Ids : state[i] = "consumed" /\ created[i] >= d})

\* The sum of the tokens a transaction of day d counts.
Used(d) == Tokens({i \in Ids : state[i] \in Live /\ created[i] >= d})

\* Variant: any row of the id will do.
ReserveAnyRow(a) ==
  LET i == id[a] IN
  /\ pc[a] = "reserve"
  /\ IF state[i] # "none" THEN Call(a) /\ UNCHANGED rows
     ELSE IF Used(seen[a]) + Cost[i] > Budget THEN Leave(a) /\ UNCHANGED rows
     ELSE /\ Call(a)
          /\ state' = [state EXCEPT ![i] = "reserved"]
          /\ created' = [created EXCEPT ![i] = seen[a]]
  /\ UNCHANGED <<day, shared, answered>>

\* The transaction: an active reservation is used again as it is; otherwise one
\* is made, if the budget allows, and CapacityUnavailable raised if not.
Reserve(a) ==
  LET i == id[a] IN
  /\ pc[a] = "reserve"
  /\ \/ /\ state[i] \in Live
        /\ Call(a)
        /\ UNCHANGED rows
     \/ /\ state[i] \notin Live
        /\ Used(seen[a]) + Cost[i] > Budget
        /\ Leave(a)
        /\ UNCHANGED rows
     \/ /\ state[i] \notin Live
        /\ Used(seen[a]) + Cost[i] <= Budget
        /\ Call(a)
        /\ state' = [state EXCEPT ![i] = "reserved"]
        /\ created' = [created EXCEPT ![i] = seen[a]]
  /\ UNCHANGED <<day, shared, answered>>

\* Variant: the update of any row.
FinishAnyRow(i, consumed) ==
  /\ state' = [state EXCEPT ![i] = IF consumed THEN "consumed" ELSE "released"]
  /\ UNCHANGED created

\* Variant: a state that nobody knows.
FinishFailed(i, consumed) ==
  /\ state' = [state EXCEPT ![i] = IF consumed THEN "consumed" ELSE "failed"]
  /\ UNCHANGED created

\* ledger.finish: an update where state='reserved'.
Finish(i, consumed) ==
  /\ state' = [state EXCEPT ![i] =
       IF @ # "reserved" THEN @ ELSE IF consumed THEN "consumed" ELSE "released"]
  /\ UNCHANGED created

Succeed(a) ==
  /\ pc[a] = "call"
  /\ Leave(a)
  /\ Finish(id[a], TRUE)
  /\ answered' = answered \cup {id[a]}
  /\ UNCHANGED <<day, shared>>

\* ALL_PROVIDERS_UNAVAILABLE, or any other exception in the try block.
Fail(a) ==
  /\ pc[a] = "call"
  /\ Leave(a)
  /\ Finish(id[a], FALSE)
  /\ UNCHANGED <<day, shared, answered>>

\* The process is killed; its reservation stays as it is.
Crash(a) ==
  /\ pc[a] # "idle"
  /\ Leave(a)
  /\ UNCHANGED <<day, rows, shared, answered>>

Midnight ==
  /\ day < MaxDay
  /\ day' = day + 1
  /\ UNCHANGED <<rows, pc, id, seen, shared, answered>>

Next ==
  \/ \E a \in Attempts :
       \/ \E i \in Ids : ReadClock(a, i)
       \/ Reserve(a) \/ Succeed(a) \/ Fail(a) \/ Crash(a)
  \/ Midnight

Spec == Init /\ [][Next]_vars
-----------------------------------------------------------------------------
\* The active reservations of a day never exceed the budget, whatever day the
\* attempts that made them took it to be (llm_quota.py:20-31).
BudgetKept ==
  \A d \in 0 .. MaxDay :
    Tokens({i \in Ids : state[i] \in Live /\ created[i] = d}) <= Budget

\* No provider is asked without an active reservation, except by two attempts
\* at one step that overlap: the failure of the one releases the tokens under
\* the other (llm_quota.py:27-29, 44-46).
CoveredCalls ==
  \A a \in Attempts : pc[a] = "call" /\ id[a] \notin shared => state[id[a]] \in Live

\* Tokens that bought an answer stay counted, through crashes of earlier
\* attempts at the step and failures of later ones, unless attempts overlapped
\* (llm_quota.py:45: only a reserved row is released).
AnsweredStaysCounted ==
  \A i \in answered \ shared : state[i] = "consumed"
=============================================================================
