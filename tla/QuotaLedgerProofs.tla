------------------------- MODULE QuotaLedgerProofs -------------------------
(***************************************************************************)
(* What reservations guarantee for every number of attempts, ids and days. *)
(* The inductive invariant adds to the properties what makes them stable:  *)
(* an attempt outside its function has no id, two attempts with the same   *)
(* id have been recorded in shared, and only finitely many rows have been  *)
(* made, so that their tokens have a sum.                                  *)
(*                                                                         *)
(* The sum is a fold, a recursive function over the subsets of the set.    *)
(* What is needed of it is shown first: that the function exists, that it  *)
(* does not matter which element is taken first, and that a part has no    *)
(* more tokens than the whole.  Each time a counterexample would be a      *)
(* finite set, so there would be one without a smaller one in it.          *)
(***************************************************************************)
EXTENDS QuotaLedger, FiniteSetTheorems, TLAPS

-----------------------------------------------------------------------------
(* The sum of tokens.                                                      *)

FirstOf(S) == CHOOSE i \in S : TRUE

\* g adds up the costs of every subset of S, one element after the other.
AddsUp(g, S) == g = [s \in SUBSET S |->
  IF s = {} THEN 0 ELSE Cost[FirstOf(s)] + g[s \ {FirstOf(s)}]]

Summer(S) == CHOOSE g : AddsUp(g, S)

\* The definition of Tokens, without the operators it is made of.
LEMMA TokensDef == ASSUME NEW S PROVE Tokens(S) = Summer(S)[S]
  BY DEF Tokens, MapThenSumSet, MapThenFoldSet, AddsUp, FirstOf, Summer

\* Among finite sets there is one that has none of the others in it.
LEMMA Smallest ==
  ASSUME NEW X, NEW B, B \subseteq FiniteSubsetsOf(X), B # {}
  PROVE  \E T \in B : \A U \in B : U \subseteq T => U = T
  <1>1. PICK T \in B : \A U \in B : <<U, T>> \notin StrictSubsetOrdering(X)
    BY FS_StrictSubsetOrderingWellFounded, WFMin
  <1> QED BY <1>1 DEF StrictSubsetOrdering, FiniteSubsetsOf

\* One function at most adds up the costs of a finite set.
LEMMA SummerUnique ==
  ASSUME NEW S, IsFiniteSet(S), NEW g, NEW h, AddsUp(g, S), AddsUp(h, S)
  PROVE  g = h
  <1> DEFINE B == {s \in SUBSET S : g[s] # h[s]}
  <1>1. B \subseteq FiniteSubsetsOf(S)
    BY FS_Subset DEF FiniteSubsetsOf
  <1>2. ASSUME B # {} PROVE FALSE
    <2>1. PICK T \in B : \A U \in B : U \subseteq T => U = T
      <3> HIDE DEF B
      <3> QED BY <1>1, <1>2, Smallest
    <2>2. CASE T = {}
      BY <2>1, <2>2 DEF AddsUp
    <2>3. CASE T # {}
      <3>1. FirstOf(T) \in T
        BY <2>3 DEF FirstOf
      <3>2. g[T \ {FirstOf(T)}] = h[T \ {FirstOf(T)}]
        BY <2>1, <3>1
      <3>3. /\ g[T] = Cost[FirstOf(T)] + g[T \ {FirstOf(T)}]
            /\ h[T] = Cost[FirstOf(T)] + h[T \ {FirstOf(T)}]
        BY <2>3 DEF AddsUp
      <3> QED BY <3>2, <3>3
    <2> QED BY <2>2, <2>3
  <1>3. \A s \in SUBSET S : g[s] = h[s]
    BY <1>2
  <1> HIDE DEF B
  <1> QED BY <1>3 DEF AddsUp

\* What adds up the costs of a set adds up those of its subsets.
LEMMA AddsUpWithin ==
  ASSUME NEW S, NEW g, AddsUp(g, S), NEW T \in SUBSET S
  PROVE  AddsUp([s \in SUBSET T |-> g[s]], T)
  <1> DEFINE h == [s \in SUBSET T |-> g[s]]
  <1>1. ASSUME NEW s \in SUBSET T
        PROVE  h[s] = IF s = {} THEN 0 ELSE Cost[FirstOf(s)] + h[s \ {FirstOf(s)}]
    <2>1. s \in SUBSET S /\ s \ {FirstOf(s)} \in SUBSET T
      OBVIOUS
    <2> QED BY <2>1 DEF AddsUp
  <1>2. h = [s \in SUBSET T |-> h[s]]
    OBVIOUS
  <1> QED BY <1>1, <1>2 DEF AddsUp

\* The equation of Tokens, for the sets below which it adds up.
LEMMA EquationWithin ==
  ASSUME NEW S, IsFiniteSet(S), \E g : AddsUp(g, S), S # {}
  PROVE  Tokens(S) = Cost[FirstOf(S)] + Tokens(S \ {FirstOf(S)})
  <1> DEFINE T == S \ {FirstOf(S)}
             g == Summer(S)
  <1>1. AddsUp(g, S)
    BY DEF Summer
  <1>2. AddsUp([s \in SUBSET T |-> g[s]], T)
    BY <1>1, AddsUpWithin
  <1>3. AddsUp(Summer(T), T)
    BY <1>2 DEF Summer
  <1>4. IsFiniteSet(T)
    BY FS_Subset
  <1>5. Summer(T) = [s \in SUBSET T |-> g[s]]
    BY <1>2, <1>3, <1>4, SummerUnique
  <1>6. Tokens(T) = g[T]
    BY <1>5, TokensDef
  <1>7. g[S] = Cost[FirstOf(S)] + g[T]
    BY <1>1 DEF AddsUp
  <1> QED BY <1>6, <1>7, TokensDef

\* The costs of a finite set can be added up.
LEMMA SummerExists ==
  ASSUME NEW S, IsFiniteSet(S)
  PROVE  \E g : AddsUp(g, S)
  <1> DEFINE B == {s \in SUBSET S : ~ \E g : AddsUp(g, s)}
  <1>1. B \subseteq FiniteSubsetsOf(S)
    BY FS_Subset DEF FiniteSubsetsOf
  <1>2. ASSUME B # {} PROVE FALSE
    <2>1. PICK T \in B : \A U \in B : U \subseteq T => U = T
      <3> HIDE DEF B
      <3> QED BY <1>1, <1>2, Smallest
    <2> DEFINE Value(s) == IF s = {} THEN 0 ELSE Cost[FirstOf(s)] + Tokens(s \ {FirstOf(s)})
               g == [s \in SUBSET T |-> Value(s)]
    <2>2. ASSUME NEW s \in SUBSET T, s # T PROVE Tokens(s) = Value(s)
      <3>1. IsFiniteSet(s) /\ \E f : AddsUp(f, s)
        BY <2>1, <2>2, FS_Subset
      <3>2. CASE s = {}
        <4>1. AddsUp(Summer(s), s)
          BY <3>1 DEF Summer
        <4> QED BY <3>2, <4>1, TokensDef DEF AddsUp
      <3>3. CASE s # {}
        BY <3>1, <3>3, EquationWithin
      <3> QED BY <3>2, <3>3
    <2>3. ASSUME NEW s \in SUBSET T
          PROVE  g[s] = IF s = {} THEN 0 ELSE Cost[FirstOf(s)] + g[s \ {FirstOf(s)}]
      <3>1. CASE s = {}
        BY <3>1
      <3>2. CASE s # {}
        <4>1. FirstOf(s) \in s
          BY <3>2 DEF FirstOf
        <4> DEFINE r == s \ {FirstOf(s)}
        <4>2. r \in SUBSET T /\ r # T
          BY <4>1
        <4>3. g[r] = Value(r) /\ g[s] = Value(s)
          BY <4>2
        <4>4. Tokens(r) = Value(r)
          BY <4>2, <2>2
        <4>5. g[s] = Cost[FirstOf(s)] + Tokens(r)
          BY <3>2
        <4> HIDE DEF g, Value
        <4> QED BY <3>2, <4>3, <4>4, <4>5
      <3> QED BY <3>1, <3>2
    <2>4. g = [s \in SUBSET T |-> g[s]]
      OBVIOUS
    <2>5. AddsUp(g, T)
      <3> HIDE DEF g
      <3> QED BY <2>3, <2>4 DEF AddsUp
    <2> QED BY <2>1, <2>5
  <1> QED BY <1>2

\* No reservations, no tokens.
LEMMA TokensOfNothing == Tokens({}) = 0
  <1>1. AddsUp(Summer({}), {})
    BY FS_EmptySet, SummerExists DEF Summer
  <1> QED BY <1>1, TokensDef DEF AddsUp

LEMMA TokensEquation ==
  ASSUME NEW S, IsFiniteSet(S), S # {}
  PROVE  Tokens(S) = Cost[FirstOf(S)] + Tokens(S \ {FirstOf(S)})
  BY EquationWithin, SummerExists

\* A sum of costs is a number.
LEMMA TokensType ==
  ASSUME NEW S \in SUBSET Ids, IsFiniteSet(S)
  PROVE  Tokens(S) \in Nat
  <1> DEFINE B == {s \in SUBSET S : Tokens(s) \notin Nat}
  <1>1. B \subseteq FiniteSubsetsOf(S)
    BY FS_Subset DEF FiniteSubsetsOf
  <1>2. ASSUME B # {} PROVE FALSE
    <2>1. PICK T \in B : \A U \in B : U \subseteq T => U = T
      <3> HIDE DEF B
      <3> QED BY <1>1, <1>2, Smallest
    <2>2. T # {}
      BY <2>1, TokensOfNothing
    <2>3. FirstOf(T) \in T
      BY <2>2 DEF FirstOf
    <2>4. Tokens(T \ {FirstOf(T)}) \in Nat
      BY <2>1, <2>3
    <2>5. Cost[FirstOf(T)] \in Nat
      BY <2>3, CostAssumption
    <2>6. IsFiniteSet(T)
      BY FS_Subset
    <2> QED BY <2>1, <2>2, <2>4, <2>5, <2>6, TokensEquation
  <1> QED BY <1>2

\* Whichever reservation is counted last.
LEMMA TokensTakeOut ==
  ASSUME NEW S \in SUBSET Ids, IsFiniteSet(S), NEW i \in S
  PROVE  Tokens(S) = Cost[i] + Tokens(S \ {i})
  <1> DEFINE B == {s \in SUBSET S : \E j \in s : Tokens(s) # Cost[j] + Tokens(s \ {j})}
  <1>1. B \subseteq FiniteSubsetsOf(S)
    BY FS_Subset DEF FiniteSubsetsOf
  <1>2. ASSUME B # {} PROVE FALSE
    <2>1. PICK T \in B : \A U \in B : U \subseteq T => U = T
      <3> HIDE DEF B
      <3> QED BY <1>1, <1>2, Smallest
    <2>2. PICK j \in T : Tokens(T) # Cost[j] + Tokens(T \ {j})
      BY <2>1
    <2> DEFINE k == FirstOf(T)
    <2>3. k \in T
      BY <2>2 DEF FirstOf
    <2>4. \A U \in SUBSET T : IsFiniteSet(U)
      BY FS_Subset
    <2>5. Tokens(T) = Cost[k] + Tokens(T \ {k})
      BY <2>3, <2>4, TokensEquation
    <2>6. j # k
      BY <2>2, <2>5
    <2>7. /\ Tokens(T \ {k}) = Cost[j] + Tokens((T \ {k}) \ {j})
          /\ Tokens(T \ {j}) = Cost[k] + Tokens((T \ {j}) \ {k})
      <3>1. T \ {k} \notin B /\ T \ {j} \notin B
        BY <2>1, <2>2, <2>3
      <3> QED BY <2>2, <2>3, <2>6, <3>1
    <2>8. (T \ {k}) \ {j} = (T \ {j}) \ {k}
      OBVIOUS
    <2>9. /\ Cost[j] \in Nat /\ Cost[k] \in Nat
          /\ Tokens((T \ {j}) \ {k}) \in Nat
      BY <2>3, <2>4, TokensType, CostAssumption
    <2> DEFINE r == Tokens((T \ {j}) \ {k})
    <2>10. Tokens(T) = Cost[k] + (Cost[j] + r) /\ Tokens(T \ {j}) = Cost[k] + r
      BY <2>5, <2>7, <2>8
    <2>11. Cost[k] + (Cost[j] + r) = Cost[j] + (Cost[k] + r)
      <3>1. \A a, b, c \in Nat : a + (b + c) = b + (a + c)
        OBVIOUS
      <3> HIDE DEF k
      <3> QED BY <2>9, <3>1
    <2> QED BY <2>2, <2>10, <2>11
  <1> QED BY <1>2

\* More reservations, no fewer tokens.
LEMMA TokensMonotone ==
  ASSUME NEW S \in SUBSET Ids, IsFiniteSet(S), NEW T \in SUBSET S
  PROVE  Tokens(T) <= Tokens(S)
  <1> DEFINE B == {s \in SUBSET S : T \subseteq s /\ ~(Tokens(T) <= Tokens(s))}
  <1>1. B \subseteq FiniteSubsetsOf(S)
    BY FS_Subset DEF FiniteSubsetsOf
  <1>2. ASSUME B # {} PROVE FALSE
    <2>1. PICK U \in B : \A V \in B : V \subseteq U => V = U
      <3> HIDE DEF B
      <3> QED BY <1>1, <1>2, Smallest
    <2>2. \A V \in SUBSET S : IsFiniteSet(V) /\ Tokens(V) \in Nat
      BY FS_Subset, TokensType
    <2>3. PICK i \in U : i \notin T
      <3>1. U # T /\ T \subseteq U
        BY <2>1, <2>2
      <3> QED BY <3>1
    <2>4. Tokens(T) <= Tokens(U \ {i})
      BY <2>1, <2>3
    <2>5. Tokens(U) = Cost[i] + Tokens(U \ {i}) /\ Cost[i] \in Nat
      BY <2>2, <2>3, TokensTakeOut, CostAssumption
    <2> QED BY <2>1, <2>2, <2>4, <2>5
  <1> QED BY <1>2
-----------------------------------------------------------------------------
(* The ledger.                                                             *)

USE NoIdAssumption, MaxDayAssumption

LocalsGone == \A a \in Attempts : pc[a] = "idle" <=> id[a] = NoId

Overlaps == \A a, b \in Attempts :
  a # b /\ id[a] = id[b] /\ id[a] # NoId => id[a] \in shared

IInv == TypeOK /\ LocalsGone /\ Overlaps /\ CoveredCalls /\ AnsweredStaysCounted

Rows == {i \in Ids : state[i] # "none"}

OfDay(d) == {i \in Ids : state[i] \in Live /\ created[i] = d}

Budgeted == IsFiniteSet(Rows) /\ \A d \in 0 .. MaxDay : Tokens(OfDay(d)) <= Budget

\* Nobody reserves anything at first.
LEMMA StartsSound == Init => IInv
  BY DEF Init, IInv, TypeOK, LocalsGone, Overlaps, CoveredCalls,
         AnsweredStaysCounted, Live

\* An attempt that leaves its function keeps the facts about locals.
LEMMA LeaveKeeps ==
  ASSUME IInv, NEW a \in Attempts, Leave(a), shared' = shared
  PROVE  /\ pc' \in [Attempts -> {"idle", "reserve", "call"}]
         /\ id' \in [Attempts -> Ids \cup {NoId}]
         /\ seen' \in [Attempts -> 0 .. MaxDay]
         /\ LocalsGone' /\ Overlaps'
         /\ \A b \in Attempts : pc'[b] # "idle" => b # a /\ pc'[b] = pc[b] /\ id'[b] = id[b]
  BY DEF IInv, TypeOK, Leave, LocalsGone, Overlaps

\* A reservation changes nothing but its own row, which stays active when it
\* was and is consumed for good.
LEMMA FinishKeeps ==
  ASSUME IInv, NEW i \in Ids, NEW consumed \in BOOLEAN, Finish(i, consumed)
  PROVE  /\ state' \in [Ids -> Live \cup {"none", "released"}]
         /\ created' = created
         /\ \A j \in Ids : j # i => state'[j] = state[j]
         /\ state[i] = "consumed" => state'[i] = "consumed"
         /\ consumed /\ state[i] \in Live => state'[i] = "consumed"
  BY DEF IInv, TypeOK, Finish, Live

\* Whatever becomes of an attempt's own reservation, the calls of the others are
\* still covered: theirs is another one, or the id is shared.
LEMMA OthersStayCovered ==
  ASSUME IInv, NEW a \in Attempts, pc[a] = "call", NEW consumed \in BOOLEAN,
         Leave(a), Finish(id[a], consumed), shared' = shared
  PROVE  CoveredCalls'
  <1> USE DEF IInv
  <1>1. id[a] \in Ids
    BY DEF TypeOK, LocalsGone
  <1>2. SUFFICES ASSUME NEW b \in Attempts, pc'[b] = "call", id'[b] \notin shared'
                 PROVE  state'[id'[b]] \in Live
    BY DEF CoveredCalls
  <1>3. b # a /\ pc[b] = "call" /\ id'[b] = id[b] /\ id[b] \in Ids
    BY <1>2, LeaveKeeps DEF TypeOK, LocalsGone
  <1>4. id[b] # id[a]
    BY <1>2, <1>3 DEF Overlaps
  <1>5. state[id[b]] \in Live
    BY <1>2, <1>3 DEF CoveredCalls
  <1> QED BY <1>1, <1>3, <1>4, <1>5, FinishKeeps

\* Every step preserves the invariant.
LEMMA StepsSound == IInv /\ [Next]_vars => IInv'
  <1> SUFFICES ASSUME IInv, [Next]_vars PROVE IInv'
    OBVIOUS
  <1> USE DEF IInv
  <1>1. ASSUME NEW a \in Attempts, NEW i \in Ids, ReadClock(a, i) PROVE IInv'
    <2>1. TypeOK'
      BY <1>1 DEF ReadClock, TypeOK, rows
    <2>2. LocalsGone'
      BY <1>1 DEF ReadClock, TypeOK, LocalsGone
    <2>3. Overlaps'
      BY <1>1 DEF ReadClock, TypeOK, Overlaps
    <2>4. CoveredCalls' /\ AnsweredStaysCounted'
      BY <1>1 DEF ReadClock, TypeOK, CoveredCalls, AnsweredStaysCounted, rows
    <2> QED BY <2>1, <2>2, <2>3, <2>4
  <1>2. ASSUME NEW a \in Attempts, Reserve(a) PROVE IInv'
    <2> DEFINE i == id[a]
    <2>1. pc[a] = "reserve" /\ i \in Ids /\ UNCHANGED <<day, shared, answered>>
      BY <1>2 DEF Reserve, TypeOK, LocalsGone
    <2>2. CASE Leave(a) /\ UNCHANGED rows
      <3>1. TypeOK' /\ LocalsGone' /\ Overlaps'
        BY <2>1, <2>2, LeaveKeeps DEF TypeOK, rows
      <3>2. CoveredCalls' /\ AnsweredStaysCounted'
        BY <2>1, <2>2, LeaveKeeps DEF CoveredCalls, AnsweredStaysCounted, rows
      <3> QED BY <3>1, <3>2
    <2>3. CASE state[i] \in Live /\ Call(a) /\ UNCHANGED rows
      <3>1. TypeOK' /\ LocalsGone' /\ Overlaps'
        BY <2>1, <2>3 DEF Call, TypeOK, LocalsGone, Overlaps, rows
      <3>2. CoveredCalls' /\ AnsweredStaysCounted'
        BY <2>1, <2>3 DEF Call, TypeOK, CoveredCalls, AnsweredStaysCounted, rows
      <3> QED BY <3>1, <3>2
    <2>4. CASE /\ state[i] \notin Live /\ Call(a)
               /\ state' = [state EXCEPT ![i] = "reserved"]
               /\ created' = [created EXCEPT ![i] = seen[a]]
      <3>1. TypeOK' /\ LocalsGone' /\ Overlaps'
        BY <2>1, <2>4 DEF Call, TypeOK, LocalsGone, Overlaps, Live
      <3>2. CoveredCalls' /\ AnsweredStaysCounted'
        BY <2>1, <2>4 DEF Call, TypeOK, CoveredCalls, AnsweredStaysCounted, Live
      <3> QED BY <3>1, <3>2
    <2> QED BY <1>2, <2>2, <2>3, <2>4 DEF Reserve
  <1>3. ASSUME NEW a \in Attempts, Succeed(a) PROVE IInv'
    <2> DEFINE i == id[a]
    <2>1. /\ pc[a] = "call" /\ i \in Ids /\ UNCHANGED <<day, shared>>
          /\ answered' = answered \cup {i}
      BY <1>3 DEF Succeed, TypeOK, LocalsGone
    <2>2. Leave(a) /\ Finish(i, TRUE)
      BY <1>3 DEF Succeed
    <2>3. TypeOK' /\ LocalsGone' /\ Overlaps'
      BY <2>1, <2>2, LeaveKeeps, FinishKeeps DEF TypeOK
    <2>4. i \notin shared => state'[i] = "consumed"
      BY <2>1, <2>2, FinishKeeps DEF CoveredCalls
    <2>5. AnsweredStaysCounted'
      BY <2>1, <2>2, <2>4, FinishKeeps DEF AnsweredStaysCounted, TypeOK
    <2>6. CoveredCalls'
      BY <2>1, <2>2, OthersStayCovered
    <2> QED BY <2>3, <2>5, <2>6
  <1>4. ASSUME NEW a \in Attempts, Fail(a) PROVE IInv'
    <2> DEFINE i == id[a]
    <2>1. pc[a] = "call" /\ i \in Ids /\ UNCHANGED <<day, shared, answered>>
      BY <1>4 DEF Fail, TypeOK, LocalsGone
    <2>2. Leave(a) /\ Finish(i, FALSE)
      BY <1>4 DEF Fail
    <2>3. TypeOK' /\ LocalsGone' /\ Overlaps'
      BY <2>1, <2>2, LeaveKeeps, FinishKeeps DEF TypeOK
    <2>4. AnsweredStaysCounted'
      BY <2>1, <2>2, FinishKeeps DEF AnsweredStaysCounted, TypeOK
    <2>5. CoveredCalls'
      BY <2>1, <2>2, OthersStayCovered
    <2> QED BY <2>3, <2>4, <2>5
  <1>5. ASSUME NEW a \in Attempts, Crash(a) PROVE IInv'
    <2>1. Leave(a) /\ UNCHANGED <<day, rows, shared, answered>>
      BY <1>5 DEF Crash
    <2>2. TypeOK' /\ LocalsGone' /\ Overlaps'
      BY <2>1, LeaveKeeps DEF TypeOK, rows
    <2>3. CoveredCalls' /\ AnsweredStaysCounted'
      BY <2>1, LeaveKeeps DEF CoveredCalls, AnsweredStaysCounted, rows
    <2> QED BY <2>2, <2>3
  <1>6. CASE Midnight \/ UNCHANGED vars
    <2>1. UNCHANGED <<rows, pc, id, seen, shared, answered>>
      BY <1>6 DEF Midnight, vars
    <2>2. day' \in 0 .. MaxDay
      BY <1>6 DEF Midnight, vars, TypeOK
    <2> QED BY <2>1, <2>2 DEF rows, TypeOK, LocalsGone, Overlaps, CoveredCalls,
                              AnsweredStaysCounted
  <1> QED BY <1>1, <1>2, <1>3, <1>4, <1>5, <1>6 DEF Next

\* The reservations of a day are finitely many rows.
LEMMA DaysFinite ==
  ASSUME IsFiniteSet(Rows), NEW d
  PROVE  OfDay(d) \in SUBSET Ids /\ IsFiniteSet(OfDay(d))
  <1>1. OfDay(d) \in SUBSET Rows
    BY DEF OfDay, Rows, Live
  <1> QED BY <1>1, FS_Subset DEF OfDay

\* A reservation that ends makes no day dearer.
LEMMA FinishKeepsBudget ==
  ASSUME TypeOK, Budgeted, NEW i \in Ids, NEW consumed, Finish(i, consumed)
  PROVE  Budgeted'
  <1>1. Rows' \in SUBSET Rows
    BY DEF TypeOK, Finish, Rows
  <1>2. ASSUME NEW d \in 0 .. MaxDay PROVE Tokens(OfDay(d)') <= Budget
    <2>1. OfDay(d)' \in SUBSET OfDay(d)
      BY DEF TypeOK, Finish, OfDay, Live
    <2>2. Tokens(OfDay(d)') <= Tokens(OfDay(d)) /\ Tokens(OfDay(d)) <= Budget
      BY <2>1, DaysFinite, TokensMonotone DEF Budgeted
    <2>3. Tokens(OfDay(d)) \in Nat /\ Tokens(OfDay(d)') \in Nat
      BY <2>1, DaysFinite, FS_Subset, TokensType DEF Budgeted
    <2> QED BY <2>2, <2>3, BudgetAssumption
  <1> QED BY <1>1, <1>2, FS_Subset DEF Budgeted

\* A new reservation was counted against its own day and all later ones.
LEMMA ReserveKeepsBudget ==
  ASSUME TypeOK, Budgeted, NEW i \in Ids, NEW day0 \in 0 .. MaxDay,
         state[i] \notin Live, Used(day0) + Cost[i] <= Budget,
         state' = [state EXCEPT ![i] = "reserved"],
         created' = [created EXCEPT ![i] = day0]
  PROVE  Budgeted'
  <1>1. IsFiniteSet(Rows')
    <2>1. Rows' = Rows \cup {i}
      BY DEF TypeOK, Rows
    <2> QED BY <2>1, FS_AddElement DEF Budgeted
  <1>2. ASSUME NEW d \in 0 .. MaxDay PROVE Tokens(OfDay(d)') <= Budget
    <2>1. CASE d # day0
      <3>1. OfDay(d)' = OfDay(d)
        BY <2>1 DEF TypeOK, OfDay, Live
      <3> QED BY <3>1 DEF Budgeted
    <2>2. CASE d = day0
      <3> DEFINE counted == {j \in Ids : state[j] \in Live /\ created[j] >= day0}
      <3>1. OfDay(d)' = OfDay(d) \cup {i} /\ i \notin OfDay(d)
        BY <2>2 DEF TypeOK, OfDay, Live
      <3>2. counted \in SUBSET Ids /\ IsFiniteSet(counted) /\ OfDay(d) \in SUBSET counted
        <4>1. counted \in SUBSET Rows
          BY DEF Rows, Live
        <4>2. OfDay(d) \in SUBSET counted
          BY <2>2 DEF OfDay, TypeOK
        <4> QED BY <4>1, <4>2, FS_Subset DEF Budgeted
      <3>3. Tokens(OfDay(d)) <= Tokens(counted) /\ Tokens(counted) + Cost[i] <= Budget
        <4> HIDE DEF counted
        <4>1. Tokens(OfDay(d)) <= Tokens(counted)
          BY <3>2, TokensMonotone
        <4>2. Tokens(counted) = Used(day0)
          BY DEF counted, Used
        <4> QED BY <4>1, <4>2
      <3>4. Tokens(OfDay(d)') = Cost[i] + Tokens(OfDay(d))
        <4>1. OfDay(d)' \in SUBSET Ids /\ IsFiniteSet(OfDay(d)')
          BY <3>1, DaysFinite, FS_AddElement DEF Budgeted
        <4>2. OfDay(d)' \ {i} = OfDay(d) /\ i \in OfDay(d)'
          BY <3>1
        <4> QED BY <4>1, <4>2, TokensTakeOut
      <3>5. Tokens(OfDay(d)) \in Nat /\ Tokens(counted) \in Nat /\ Cost[i] \in Nat
        BY <3>2, DaysFinite, TokensType, CostAssumption DEF Budgeted
      <3> HIDE DEF counted
      <3> QED BY <3>3, <3>4, <3>5, BudgetAssumption
    <2> QED BY <2>1, <2>2
  <1> QED BY <1>1, <1>2 DEF Budgeted

\* The budget holds from the first day on, and whatever happens.
LEMMA BudgetStarts == Init => Budgeted
  <1> SUFFICES ASSUME Init PROVE Budgeted
    OBVIOUS
  <1>1. Rows = {} /\ \A d \in 0 .. MaxDay : OfDay(d) = {}
    BY DEF Init, Rows, OfDay, Live
  <1> QED BY <1>1, FS_EmptySet, TokensOfNothing, BudgetAssumption DEF Budgeted

LEMMA BudgetSteps == IInv /\ Budgeted /\ [Next]_vars => Budgeted'
  <1> SUFFICES ASSUME IInv, Budgeted, [Next]_vars PROVE Budgeted'
    OBVIOUS
  <1>1. CASE UNCHANGED rows
    BY <1>1 DEF rows, Budgeted, Rows, OfDay
  <1>2. ASSUME NEW a \in Attempts, Reserve(a), ~ UNCHANGED rows PROVE Budgeted'
    <2>1. id[a] \in Ids /\ seen[a] \in 0 .. MaxDay
      BY <1>2 DEF IInv, TypeOK, LocalsGone, Reserve
    <2> QED BY <1>2, <2>1, ReserveKeepsBudget DEF Reserve, IInv
  <1>3. ASSUME NEW a \in Attempts, Succeed(a) \/ Fail(a) PROVE Budgeted'
    <2>1. id[a] \in Ids
      BY <1>3 DEF IInv, TypeOK, LocalsGone, Succeed, Fail
    <2> QED BY <1>3, <2>1, FinishKeepsBudget DEF Succeed, Fail, IInv
  <1>4. ASSUME NEW a \in Attempts, (\E i \in Ids : ReadClock(a, i)) \/ Crash(a)
        PROVE  UNCHANGED rows
    BY <1>4 DEF ReadClock, Crash
  <1>5. Midnight \/ UNCHANGED vars => UNCHANGED rows
    BY DEF Midnight, vars
  <1> QED BY <1>1, <1>2, <1>3, <1>4, <1>5 DEF Next

\* The ledger and the attempts are well typed.
THEOREM LedgerTypeCorrect == Spec => []TypeOK
  <1>1. IInv => TypeOK
    BY DEF IInv
  <1> QED BY StartsSound, StepsSound, <1>1, PTL DEF Spec

\* No provider is asked without an active reservation unless attempts at one
\* step overlap.
THEOREM CallsAreCovered == Spec => []CoveredCalls
  <1>1. IInv => CoveredCalls
    BY DEF IInv
  <1> QED BY StartsSound, StepsSound, <1>1, PTL DEF Spec

\* Tokens that bought an answer stay counted unless attempts at the step overlap.
THEOREM AnswersAreCounted == Spec => []AnsweredStaysCounted
  <1>1. IInv => AnsweredStaysCounted
    BY DEF IInv
  <1> QED BY StartsSound, StepsSound, <1>1, PTL DEF Spec

\* No day's reservations exceed the budget, for any number of workers, any
\* costs and any budget: the attempt that made a reservation counted at least
\* the others of its day, although it may have read the clock on the day before
\* and rows that had been released are used again (llm_quota.py:20-39).
THEOREM BudgetIsKept == Spec => []BudgetKept
  <1>1. Budgeted => BudgetKept
    BY DEF Budgeted, BudgetKept, OfDay
  <1> QED BY StartsSound, StepsSound, BudgetStarts, BudgetSteps, <1>1, PTL DEF Spec
=============================================================================
