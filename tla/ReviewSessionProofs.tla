------------------------ MODULE ReviewSessionProofs ------------------------
(***************************************************************************)
(* What a review session keeps for every number of attempts, providers and *)
(* rounds, and whatever the providers answer: its steps follow the answers *)
(* one by one, and the search among the providers goes to its end and      *)
(* corrects where it should.                                               *)
(*                                                                         *)
(* The inductive invariant has two independent parts over the shape of the *)
(* locals.  Ordered: the one attempt whose payload would be accepted works *)
(* on the step that comes next.  Search: how far the log of each attempt   *)
(* has come among the providers.  On them rests a third, Content: what the *)
(* evidence of every step and draft holds.  With it the session is shown   *)
(* to implement Transcript.                                                *)
(***************************************************************************)
EXTENDS ReviewSession, FiniteSetTheorems, TLAPS

USE NobodyAssumption, ProvidersAssumption

Entry == [provider : 1 .. Providers, corrected : BOOLEAN, failure : Failures]
Asking == {"review", "assessment"}

\* One attempt's locals: a record whose search is in shape.
LocalsOf(l) ==
  l \in [number : Nat, prior : {l.prior}, draft : {l.draft}, assessed : {l.assessed},
         provider : 1 .. Providers, corrected : BOOLEAN, log : Seq(Entry)]

Shape ==
  /\ \E S : steps \in Seq(S)
  /\ pc \in [Attempts -> {"idle", "review", "assessment", "send", "gaveUp"}]
  /\ local = [a \in Attempts |-> local[a]]
  /\ holder \in Attempts \cup {Nobody}
  /\ \A a \in Attempts : LocalsOf(local[a])

Drafted(l) == l.draft.answer = l.number

Ordered ==
  /\ AnswersInOrder
  /\ \A k \in DOMAIN steps : steps[k].next = "finalize" => state = "closed"
  /\ \A a \in Attempts :
       /\ holder = a => state = "queued"
       /\ holder = a /\ pc[a] # "idle" => local[a].number = Len(steps)
       /\ pc[a] \in {"assessment", "send"} => Drafted(local[a])

Asked(log) == {log[i].provider : i \in DOMAIN log}

\* The next call of a search corrects iff the last one was an invalid first
\* answer of the same provider.
Correcting(l) ==
  /\ Len(l.log) > 0
  /\ l.log[Len(l.log)].provider = l.provider
  /\ l.log[Len(l.log)].failure = "invalid"
  /\ ~l.log[Len(l.log)].corrected

Underway(l) ==
  /\ \A i \in DOMAIN l.log : l.log[i].provider <= l.provider
  /\ \A p \in 1 .. l.provider - 1 : p \in Asked(l.log)
  /\ l.corrected <=> Correcting(l)

InPlace(log) ==
  \A i \in DOMAIN log :
    log[i].corrected <=>
      /\ i > 1
      /\ log[i - 1].provider = log[i].provider
      /\ log[i - 1].failure = "invalid"
      /\ ~log[i - 1].corrected

SearchOf(step, l) ==
  /\ InPlace(l.log)
  /\ step \in Asking => Underway(l)
  /\ step \in {"idle", "send"} => l.log = <<>>
  /\ step = "gaveUp" => l.log = <<>> \/ Asked(l.log) = 1 .. Providers

Search == \A a \in Attempts : SearchOf(pc[a], local[a])

IInv == Shape /\ Ordered /\ Search

-----------------------------------------------------------------------------
(* The search of one attempt.                                              *)

\* A log names configured providers only.
LEMMA EntriesTyped ==
  ASSUME NEW log \in Seq(Entry)
  PROVE  /\ \A i \in DOMAIN log : log[i].provider \in 1 .. Providers
         /\ Asked(log) \subseteq 1 .. Providers
  <1>1. ASSUME NEW i \in DOMAIN log PROVE log[i].provider \in 1 .. Providers
    <2>1. log[i] \in Entry
      OBVIOUS
    <2> QED BY <2>1 DEF Entry
  <1> QED BY <1>1 DEF Asked

\* A search begins with nothing logged.
LEMMA FreshSearch ==
  ASSUME NEW l, LocalsOf(l), l.provider = 1, l.corrected = FALSE, l.log = <<>>,
         NEW step \in Asking \cup {"idle", "send"}
  PROVE  SearchOf(step, l)
  BY DEF SearchOf, Asking, Underway, Asked, Correcting, InPlace, LocalsOf

\* The locals of an attempt that stands outside its functions.
LEMMA NoLocalsShape == LocalsOf(NoLocals)
  BY DEF LocalsOf, NoLocals

\* The log of a failed call: the call corrected exactly when it should.
LEMMA LoggedInPlace ==
  ASSUME NEW l, LocalsOf(l), NEW step \in Asking, SearchOf(step, l),
         NEW failure \in Failures
  PROVE  /\ Logged(l, failure) \in Seq(Entry)
         /\ InPlace(Logged(l, failure))
         /\ Len(Logged(l, failure)) = Len(l.log) + 1
         /\ Logged(l, failure)[Len(l.log) + 1]
              = [provider |-> l.provider, corrected |-> l.corrected, failure |-> failure]
         /\ \A i \in DOMAIN Logged(l, failure) : Logged(l, failure)[i].provider <= l.provider
         /\ \A p \in 1 .. l.provider : p \in Asked(Logged(l, failure))
  <1> DEFINE e == [provider |-> l.provider, corrected |-> l.corrected, failure |-> failure]
             log == Logged(l, failure)
             n == Len(l.log)
  <1>1. e \in Entry /\ l.log \in Seq(Entry) /\ log = Append(l.log, e)
    BY DEF LocalsOf, Entry, Logged
  <1>2. /\ log \in Seq(Entry) /\ Len(log) = n + 1 /\ DOMAIN log = 1 .. n + 1
        /\ log[n + 1] = e /\ \A i \in 1 .. n : log[i] = l.log[i]
        /\ n \in Nat /\ DOMAIN l.log = 1 .. n
    BY <1>1
  <1>3. Underway(l) /\ InPlace(l.log)
    BY DEF SearchOf
  <1>4. InPlace(log)
    <2> SUFFICES ASSUME NEW i \in 1 .. n + 1
                 PROVE  log[i].corrected <=>
                          /\ i > 1
                          /\ log[i - 1].provider = log[i].provider
                          /\ log[i - 1].failure = "invalid"
                          /\ ~log[i - 1].corrected
      BY <1>2 DEF InPlace
    <2>1. CASE i \in 1 .. n
      BY <2>1, <1>2, <1>3 DEF InPlace
    <2>2. CASE i = n + 1
      BY <2>2, <1>2, <1>3 DEF Underway, Correcting
    <2> QED BY <2>1, <2>2, <1>2
  <1>. l.provider \in Nat
    BY DEF LocalsOf
  <1>5. ASSUME NEW i \in DOMAIN log PROVE log[i].provider <= l.provider
    <2>1. CASE i \in 1 .. n
      BY <2>1, <1>2, <1>3 DEF Underway
    <2>2. CASE i = n + 1
      BY <2>2, <1>2
    <2> QED BY <2>1, <2>2, <1>2
  <1>6. ASSUME NEW p \in 1 .. l.provider PROVE p \in Asked(log)
    <2>1. CASE p = l.provider
      BY <2>1, <1>2 DEF Asked
    <2>2. CASE p # l.provider
      <3>1. p \in 1 .. l.provider - 1
        BY <2>2
      <3>2. p \in Asked(l.log)
        BY <3>1, <1>3 DEF Underway
      <3>3. PICK i \in DOMAIN l.log : l.log[i].provider = p
        BY <3>2 DEF Asked
      <3> QED BY <3>3, <1>2 DEF Asked
    <2> QED BY <2>1, <2>2
  <1> QED BY <1>2, <1>4, <1>5, <1>6

\* After a failed call the search goes on, or everybody was asked.
LEMMA FailKeepsSearch ==
  ASSUME Shape, Search, NEW a \in Attempts, pc[a] \in Asking,
         NEW failure \in Failures, Fail(a, failure)
  PROVE  /\ LocalsOf(local'[a]) /\ SearchOf(pc'[a], local'[a])
         /\ local'[a].number = local[a].number /\ local'[a].draft = local[a].draft
         /\ pc'[a] \in {pc[a], "gaveUp"}
  <1> DEFINE l == local[a]
             log == Logged(l, failure)
  <1>1. LocalsOf(l) /\ SearchOf(pc[a], l) /\ a \in DOMAIN local /\ a \in DOMAIN pc
    BY DEF Shape, Search
  <1>2. /\ log \in Seq(Entry) /\ InPlace(log) /\ Len(log) = Len(l.log) + 1
        /\ log[Len(log)] = [provider |-> l.provider, corrected |-> l.corrected,
                            failure |-> failure]
        /\ \A i \in DOMAIN log : log[i].provider <= l.provider
        /\ \A p \in 1 .. l.provider : p \in Asked(log)
        /\ Len(log) > 0
    BY <1>1, LoggedInPlace DEF LocalsOf
  <1>3. CASE failure = "invalid" /\ ~l.corrected
    <2>1. local'[a] = [l EXCEPT !.corrected = TRUE, !.log = log] /\ pc'[a] = pc[a]
      BY <1>1, <1>3 DEF Fail, Update, Shape
    <2>2. LocalsOf(local'[a]) /\ local'[a].log = log /\ local'[a].provider = l.provider
          /\ local'[a].corrected = TRUE
          /\ local'[a].number = l.number /\ local'[a].draft = l.draft
      BY <2>1, <1>1, <1>2 DEF LocalsOf
    <2>3. Underway(local'[a])
      BY <2>2, <1>1, <1>2, <1>3 DEF Underway, Correcting, LocalsOf
    <2> QED BY <2>1, <2>2, <2>3, <1>2 DEF SearchOf, Asking
  <1>4. CASE ~(failure = "invalid" /\ ~l.corrected) /\ l.provider < Providers
    <2>1. /\ local'[a] = [l EXCEPT !.provider = @ + 1, !.corrected = FALSE, !.log = log]
          /\ pc'[a] = pc[a]
      BY <1>1, <1>4 DEF Fail, Update, Shape
    <2>. l.provider \in 1 .. Providers /\ l.provider + 1 \in 1 .. Providers
      BY <1>1, <1>4 DEF LocalsOf
    <2>2. LocalsOf(local'[a]) /\ local'[a].log = log /\ local'[a].provider = l.provider + 1
          /\ local'[a].corrected = FALSE
          /\ local'[a].number = l.number /\ local'[a].draft = l.draft
      <3> HIDE DEF log
      <3> QED BY <2>1, <1>1, <1>2 DEF LocalsOf
    <2>3. Underway(local'[a])
      <3>1. ~Correcting(local'[a])
        BY <2>2, <1>2 DEF Correcting
      <3>2. \A i \in DOMAIN log : log[i].provider <= l.provider + 1
        <4> SUFFICES ASSUME NEW i \in DOMAIN log PROVE log[i].provider <= l.provider + 1
          OBVIOUS
        <4>1. log[i].provider \in 1 .. Providers
          BY <1>2, EntriesTyped
        <4> QED BY <4>1, <1>2
      <3> QED BY <3>1, <3>2, <2>2, <1>2 DEF Underway
    <2> QED BY <2>1, <2>2, <2>3, <1>2 DEF SearchOf, Asking
  <1>5. CASE ~(failure = "invalid" /\ ~l.corrected) /\ ~(l.provider < Providers)
    <2>1. local'[a] = [l EXCEPT !.log = log] /\ pc'[a] = "gaveUp"
      BY <1>1, <1>5 DEF Fail, Update, Shape
    <2>2. LocalsOf(local'[a]) /\ local'[a].log = log
          /\ local'[a].number = l.number /\ local'[a].draft = l.draft
      BY <2>1, <1>1, <1>2 DEF LocalsOf
    <2>3. l.provider = Providers
      BY <1>1, <1>5 DEF LocalsOf
    <2>4. Asked(log) = 1 .. Providers
      <3>1. Asked(log) \subseteq 1 .. Providers
        BY <1>2, EntriesTyped
      <3> QED BY <3>1, <2>3, <1>2
    <2> QED BY <2>1, <2>2, <2>4, <1>2 DEF SearchOf, Asking
  <1> QED BY <1>3, <1>4, <1>5

\* After an answer the next function's search begins.
LEMMA SucceedKeepsSearch ==
  ASSUME Shape, NEW a \in Attempts, NEW step \in {"assessment", "send"}, NEW l,
         LocalsOf(l), Succeed(a, step, l)
  PROVE  /\ LocalsOf(local'[a]) /\ SearchOf(pc'[a], local'[a]) /\ pc'[a] = step
         /\ local'[a].number = l.number /\ local'[a].draft = l.draft
  <1>1. local'[a] = [l EXCEPT !.provider = 1, !.corrected = FALSE, !.log = <<>>]
        /\ pc'[a] = step
    BY DEF Succeed, Update, Shape
  <1>2. /\ LocalsOf(local'[a]) /\ local'[a].provider = 1
        /\ local'[a].corrected = FALSE /\ local'[a].log = <<>>
        /\ local'[a].number = l.number /\ local'[a].draft = l.draft
    <2>1. 1 \in 1 .. Providers /\ <<>> \in Seq(Entry)
      OBVIOUS
    <2> QED BY <2>1, <1>1 DEF LocalsOf
  <1>3. SearchOf(step, local'[a])
    BY <1>2, FreshSearch DEF Asking
  <1> QED BY <1>1, <1>2, <1>3

-----------------------------------------------------------------------------
(* Steps.                                                                  *)

\* An attempt that does nothing, or ends, is as good as it was.
Moves(a, S) ==
  /\ pc' = [pc EXCEPT ![a] = S]
  /\ local' = [local EXCEPT ![a] = local'[a]]

\* If the locals of the one attempt that moved are in shape, all are.
LEMMA OthersStay ==
  ASSUME Shape, Search, NEW a \in Attempts, NEW S, Moves(a, S),
         S \in {"idle", "review", "assessment", "send", "gaveUp"},
         LocalsOf(local'[a]), SearchOf(S, local'[a]),
         holder' \in Attempts \cup {Nobody}, \E T : steps' \in Seq(T)
  PROVE  Shape' /\ Search'
  BY DEF Shape, Search, Moves

\* The part of Ordered that steps inside an attempt do not touch.
LEMMA OrderedWithin ==
  ASSUME Shape, Ordered, UNCHANGED session, NEW a \in Attempts, NEW S, Moves(a, S),
         S = "idle" \/ (pc[a] # "idle" /\ local'[a].number = local[a].number),
         S \in {"assessment", "send"} => Drafted(local'[a])
  PROVE  Ordered'
  <1>1. /\ \A b \in Attempts \ {a} : pc'[b] = pc[b] /\ local'[b] = local[b]
        /\ pc'[a] = S
    BY DEF Shape, Moves
  <1>2. AnswersInOrder'
    BY DEF Ordered, AnswersInOrder, session
  <1>3. ASSUME NEW b \in Attempts
        PROVE /\ holder' = b => state' = "queued"
              /\ holder' = b /\ pc'[b] # "idle" => local'[b].number = Len(steps')
              /\ pc'[b] \in {"assessment", "send"} => Drafted(local'[b])
    <2>1. CASE b = a
      BY <2>1, <1>1 DEF Ordered, session
    <2>2. CASE b # a
      BY <2>2, <1>1 DEF Ordered, session
    <2> QED BY <2>1, <2>2
  <1> QED BY <1>2, <1>3 DEF Ordered, session

\* The claim of the next step.
LEMMA ClaimSound == ASSUME IInv, NEW a \in Attempts, Claim(a) PROVE IInv'
  <1> DEFINE l == [NoLocals EXCEPT !.number = Len(steps), !.prior = PriorEvidence(steps)]
  <1>1. Moves(a, "review") /\ local'[a] = l
    BY DEF Claim, Update, Moves, IInv, Shape
  <1>2. Len(steps) \in Nat
    BY DEF IInv, Shape
  <1>3. /\ LocalsOf(l) /\ l.number = Len(steps) /\ l.provider = 1
        /\ l.corrected = FALSE /\ l.log = <<>>
    <2>1. 1 \in 1 .. Providers /\ <<>> \in Seq(Entry)
      OBVIOUS
    <2> QED BY <2>1, <1>2 DEF LocalsOf, NoLocals
  <1>4. SearchOf("review", l)
    BY <1>3, FreshSearch DEF Asking
  <1>5. Shape' /\ Search'
    BY <1>1, <1>3, <1>4, OthersStay DEF Claim, IInv, Shape
  <1>6. Ordered'
    <2>1. AnswersInOrder' /\ (\A k \in DOMAIN steps : steps[k].next = "finalize" => state = "closed")'
      BY DEF Claim, IInv, Ordered, AnswersInOrder
    <2>2. ASSUME NEW b \in Attempts
          PROVE /\ holder' = b => state' = "queued"
                /\ holder' = b /\ pc'[b] # "idle" => local'[b].number = Len(steps')
                /\ pc'[b] \in {"assessment", "send"} => Drafted(local'[b])
      <3>1. CASE b = a
        BY <3>1, <1>1, <1>3 DEF Claim, Moves, IInv, Shape
      <3>2. CASE b # a
        BY <3>2, <1>1 DEF Claim, Moves, IInv, Shape, Ordered
      <3> QED BY <3>1, <3>2
    <2> QED BY <2>1, <2>2 DEF Ordered
  <1> QED BY <1>5, <1>6 DEF IInv

\* A failed call leaves the attempt at its step, or at the end of its search.
LEMMA FailSound ==
  ASSUME IInv, NEW a \in Attempts, pc[a] \in Asking, NEW failure \in Failures,
         Fail(a, failure), UNCHANGED session
  PROVE  IInv'
  <1>1. Moves(a, pc'[a])
    BY DEF Fail, Update, Moves, IInv, Shape
  <1>2. /\ LocalsOf(local'[a]) /\ SearchOf(pc'[a], local'[a])
        /\ local'[a].number = local[a].number /\ local'[a].draft = local[a].draft
        /\ pc'[a] \in {pc[a], "gaveUp"}
    BY FailKeepsSearch DEF IInv
  <1>3. Shape' /\ Search'
    BY <1>1, <1>2, OthersStay DEF IInv, Shape, session, Asking
  <1>4. pc'[a] \in {"assessment", "send"} => Drafted(local'[a])
    BY <1>2 DEF IInv, Ordered, Drafted
  <1> QED BY <1>1, <1>2, <1>3, <1>4, OrderedWithin DEF IInv, Asking

\* Refused tokens end an attempt that has asked nobody.
LEMMA RefusedSound ==
  ASSUME IInv, NEW a \in Attempts, TokensRefused(a)
  PROVE  IInv'
  <1>1. Moves(a, "gaveUp") /\ local'[a] = local[a] /\ pc[a] \in Asking /\ local[a].log = <<>>
    BY DEF TokensRefused, Update, Moves, IInv, Shape, Asking
  <1>2. LocalsOf(local'[a]) /\ SearchOf("gaveUp", local'[a])
    BY <1>1 DEF IInv, Shape, Search, SearchOf, Asking
  <1>3. Shape' /\ Search'
    BY <1>1, <1>2, OthersStay DEF IInv, Shape, session, TokensRefused
  <1> QED BY <1>1, <1>2, <1>3, OrderedWithin DEF IInv, Asking, TokensRefused

\* So does an answer that is let through.
LEMMA SucceedSound ==
  ASSUME IInv, NEW a \in Attempts, pc[a] \in Asking, NEW step \in {"assessment", "send"},
         NEW l, LocalsOf(l), l.number = local[a].number, Drafted(l),
         Succeed(a, step, l), UNCHANGED session
  PROVE  IInv'
  <1>1. Moves(a, step)
    BY DEF Succeed, Update, Moves, IInv, Shape
  <1>2. /\ LocalsOf(local'[a]) /\ SearchOf(step, local'[a])
        /\ local'[a].number = l.number /\ local'[a].draft = l.draft
    BY SucceedKeepsSearch DEF IInv
  <1>3. Shape' /\ Search'
    BY <1>1, <1>2, OthersStay DEF IInv, Shape, session
  <1>4. Drafted(local'[a])
    BY <1>2 DEF Drafted
  <1> QED BY <1>1, <1>2, <1>3, <1>4, OrderedWithin DEF IInv, Asking

\* An attempt ends, and with it nothing else; perhaps its lease is given back.
LEMMA StopSound ==
  ASSUME IInv, NEW a \in Attempts, Stop(a), holder' \in {holder, Nobody},
         UNCHANGED <<steps, state, assessment>>
  PROVE  IInv'
  <1>1. Moves(a, "idle") /\ local'[a] = NoLocals
    BY DEF Stop, Update, Moves, IInv, Shape
  <1>2. LocalsOf(NoLocals) /\ SearchOf("idle", NoLocals)
    BY NoLocalsShape, FreshSearch DEF NoLocals
  <1>3. Shape' /\ Search'
    BY <1>1, <1>2, OthersStay DEF IInv, Shape
  <1>4. Ordered'
    BY <1>1 DEF Moves, IInv, Shape, Ordered, AnswersInOrder
  <1> QED BY <1>3, <1>4 DEF IInv

\* The accepted payload becomes the next step.
LEMMA AcceptedSound ==
  ASSUME IInv, NEW a \in Attempts, Send(a), holder = a
  PROVE  IInv'
  <1> DEFINE d == local[a].draft
  <1>1. /\ Moves(a, "idle") /\ local'[a] = NoLocals
        /\ pc[a] = "send" /\ holder' = Nobody
        /\ steps' = Append(steps, d)
        /\ state' = IF d.next = "finalize" THEN "closed" ELSE "student"
    BY DEF Send, Stop, Update, Moves, IInv, Shape
  <1>2. LocalsOf(NoLocals) /\ SearchOf("idle", NoLocals)
    BY NoLocalsShape, FreshSearch DEF NoLocals
  <1>3. PICK S : steps \in Seq(S)
    BY DEF IInv, Shape
  <1>4. steps \in Seq(S \cup {d}) /\ steps' \in Seq(S \cup {d})
    BY <1>1, <1>3
  <1>5. Shape' /\ Search'
    BY <1>1, <1>2, <1>4, OthersStay DEF IInv
  <1>6. d.answer = Len(steps) /\ state = "queued"
    BY <1>1 DEF IInv, Ordered, Drafted
  <1>7. /\ Len(steps) \in Nat /\ Len(steps') = Len(steps) + 1
        /\ DOMAIN steps = 1 .. Len(steps) /\ DOMAIN steps' = 1 .. Len(steps) + 1
        /\ steps'[Len(steps) + 1] = d
        /\ \A k \in 1 .. Len(steps) : steps'[k] = steps[k]
    BY <1>1, <1>3, <1>4
  <1>8. \A k \in 1 .. Len(steps) : steps[k].answer = k - 1 /\ steps[k].next # "finalize"
    BY <1>6, <1>7 DEF IInv, Ordered, AnswersInOrder
  <1>9. ASSUME NEW k \in DOMAIN steps'
        PROVE  /\ steps'[k].answer = k - 1
               /\ k < Len(steps') => steps'[k].next # "finalize"
               /\ steps'[k].next = "finalize" => state' = "closed"
    <2>1. CASE k \in 1 .. Len(steps)
      BY <2>1, <1>7, <1>8
    <2>2. CASE k = Len(steps) + 1
      BY <2>2, <1>1, <1>6, <1>7
    <2> QED BY <2>1, <2>2, <1>7
  <1>10. ASSUME NEW b \in Attempts
         PROVE  holder' # b /\ (pc'[b] \in {"assessment", "send"} => Drafted(local'[b]))
    BY <1>1 DEF Moves, IInv, Shape, Ordered
  <1>11. Ordered'
    BY <1>9, <1>10 DEF Ordered, AnswersInOrder
  <1> QED BY <1>5, <1>11 DEF IInv

-----------------------------------------------------------------------------
(* The order of the steps and the search, in every state.                  *)

\* Before the first claim nothing is logged, held or stored.
LEMMA StartsSound == Init => IInv
  <1> SUFFICES ASSUME Init PROVE IInv
    OBVIOUS
  <1>1. LocalsOf(NoLocals) /\ SearchOf("idle", NoLocals)
    BY NoLocalsShape, FreshSearch DEF NoLocals
  <1>2. <<>> \in Seq({})
    OBVIOUS
  <1>3. Shape
    BY <1>1, <1>2 DEF Init, Shape
  <1>4. Search
    BY <1>1 DEF Init, Search
  <1>5. Ordered
    BY DEF Init, Ordered, AnswersInOrder
  <1> QED BY <1>3, <1>4, <1>5 DEF IInv

\* Every step preserves the invariant.
LEMMA StepsSound == IInv /\ [Next]_vars => IInv'
  <1> SUFFICES ASSUME IInv, [Next]_vars PROVE IInv'
    OBVIOUS
  <1>1. ASSUME NEW a \in Attempts, Claim(a) PROVE IInv'
    BY <1>1, ClaimSound
  <1>2. ASSUME NEW a \in Attempts, CallFails(a) PROVE IInv'
    <2>1. PICK failure \in {"rejected", "unavailable"} : Fail(a, failure)
      BY <1>2 DEF CallFails
    <2> QED BY <1>2, <2>1, FailSound DEF CallFails, Asking, Failures
  <1>10. ASSUME NEW a \in Attempts, TokensRefused(a) PROVE IInv'
    BY <1>10, RefusedSound
  <1>3. ASSUME NEW a \in Attempts, AnswerToReview(a) PROVE IInv'
    <2> DEFINE l == local[a]
               n(v) == [l EXCEPT !.draft =
                          [answer |-> l.number, next |-> v.next, cites |-> v.cites,
                           evidence |-> Merged(l.prior, v.evidence)]]
    <2>1. CASE Fail(a, "invalid")
      BY <1>3, <2>1, FailSound DEF AnswerToReview, Asking, Failures
    <2>2. CASE ~Fail(a, "invalid")
      <3>1. PICK v \in ReviewAnswers, step \in {"assessment", "send"} :
              Succeed(a, step, n(v))
        BY <1>3, <2>2 DEF AnswerToReview
      <3>2. LocalsOf(l)
        BY DEF IInv, Shape
      <3>3. LocalsOf(n(v)) /\ n(v).number = l.number /\ Drafted(n(v))
        BY <3>2 DEF LocalsOf, Drafted
      <3> QED BY <1>3, <3>1, <3>3, SucceedSound DEF AnswerToReview, Asking
    <2> QED BY <2>1, <2>2
  <1>4. ASSUME NEW a \in Attempts, AnswerToAssessment(a) PROVE IInv'
    <2> DEFINE l == local[a]
               n(v) == [l EXCEPT !.assessed =
                          [scores |-> v.scores, cites |-> v.cites, total |-> v.total,
                           evidence |-> Normalized(l.draft.evidence)]]
    <2>1. CASE Fail(a, "invalid")
      BY <1>4, <2>1, FailSound DEF AnswerToAssessment, Asking, Failures
    <2>2. CASE ~Fail(a, "invalid")
      <3>1. PICK v \in AssessmentAnswers : Succeed(a, "send", n(v))
        BY <1>4, <2>2 DEF AnswerToAssessment
      <3>2. LocalsOf(l) /\ Drafted(l)
        BY <1>4 DEF IInv, Shape, Ordered, AnswerToAssessment
      <3>3. LocalsOf(n(v)) /\ n(v).number = l.number /\ Drafted(n(v))
        BY <3>2 DEF LocalsOf, Drafted
      <3> QED BY <1>4, <3>1, <3>3, SucceedSound DEF AnswerToAssessment, Asking
    <2> QED BY <2>1, <2>2
  <1>5. ASSUME NEW a \in Attempts, Send(a) PROVE IInv'
    <2>1. CASE holder = a
      BY <1>5, <2>1, AcceptedSound
    <2>2. CASE holder # a
      BY <1>5, <2>2, StopSound DEF Send, session
    <2> QED BY <2>1, <2>2
  <1>6. ASSUME NEW a \in Attempts, GiveUp(a) \/ Crash(a) PROVE IInv'
    BY <1>6, StopSound DEF GiveUp, Crash, session
  <1>7. CASE Expire
    BY <1>7 DEF Expire, IInv, Shape, Search, Ordered, AnswersInOrder
  <1>8. CASE StudentAnswers
    BY <1>8 DEF StudentAnswers, IInv, Shape, Search, Ordered, AnswersInOrder
  <1>9. CASE UNCHANGED vars
    BY <1>9 DEF vars, session, IInv, Shape, Search, Ordered, AnswersInOrder
  <1> QED BY <1>1, <1>2, <1>3, <1>4, <1>5, <1>6, <1>7, <1>8, <1>9, <1>10 DEF Next

\* The invariant holds in every state.
LEMMA Sound == Spec => []IInv
  BY StartsSound, StepsSound, PTL DEF Spec

-----------------------------------------------------------------------------
(* The places of observations.                                             *)

Places == Nat \X Nat

\* Among finite sets there is one that has none of the others in it.
LEMMA Smallest ==
  ASSUME NEW X, NEW B, B \subseteq FiniteSubsetsOf(X), B # {}
  PROVE  \E T \in B : \A U \in B : U \subseteq T => U = T
  <1>1. PICK T \in B : \A U \in B : <<U, T>> \notin StrictSubsetOrdering(X)
    BY FS_StrictSubsetOrderingWellFounded, WFMin
  <1> QED BY <1>1 DEF StrictSubsetOrdering, FiniteSubsetsOf

\* The order of the loops is a strict and total one.
LEMMA BeforeIsOrder ==
  /\ \A p \in Places : ~Before(p, p)
  /\ \A p, q \in Places : p # q => Before(p, q) \/ Before(q, p)
  /\ \A p, q, r \in Places : Before(p, q) /\ Before(q, r) => Before(p, r)
  BY DEF Before, Places

\* Of finitely many places one is the first and one is the last.
LEMMA Extremes ==
  ASSUME NEW S \in SUBSET Places, IsFiniteSet(S), S # {}
  PROVE  /\ \E p \in S : \A q \in S \ {p} : Before(p, q)
         /\ \E p \in S : \A q \in S \ {p} : Before(q, p)
  <1> DEFINE Ends(T) == /\ \E p \in T : \A q \in T \ {p} : Before(p, q)
                        /\ \E p \in T : \A q \in T \ {p} : Before(q, p)
             B == {T \in SUBSET S : T # {} /\ ~Ends(T)}
  <1>1. B \subseteq FiniteSubsetsOf(S)
    BY FS_Subset DEF FiniteSubsetsOf
  <1>2. ASSUME B # {} PROVE FALSE
    <2>1. PICK T \in B : \A U \in B : U \subseteq T => U = T
      <3> HIDE DEF B
      <3> QED BY <1>1, <1>2, Smallest
    <2>2. PICK x \in T : TRUE
      OBVIOUS
    <2>3. CASE T = {x}
      BY <2>3
    <2>4. CASE T # {x}
      <3> DEFINE R == T \ {x}
      <3>1. R \in SUBSET S /\ R # {} /\ R # T
        BY <2>2, <2>4
      <3>2. Ends(R)
        <4> HIDE DEF Ends
        <4> QED BY <2>1, <3>1
      <3>3. \E p \in T : \A q \in T \ {p} : Before(p, q)
        <4>1. PICK p \in R : \A q \in R \ {p} : Before(p, q)
          BY <3>2
        <4>2. CASE Before(p, x)
          BY <4>1, <4>2
        <4>3. CASE ~Before(p, x)
          <5>1. Before(x, p)
            BY <4>1, <4>3, BeforeIsOrder
          <5>2. \A q \in T \ {x} : Before(x, q)
            BY <4>1, <5>1, BeforeIsOrder
          <5> QED BY <5>2
        <4> QED BY <4>2, <4>3
      <3>4. \E p \in T : \A q \in T \ {p} : Before(q, p)
        <4>1. PICK p \in R : \A q \in R \ {p} : Before(q, p)
          BY <3>2
        <4>2. CASE Before(x, p)
          BY <4>1, <4>2
        <4>3. CASE ~Before(x, p)
          <5>1. Before(p, x)
            BY <4>1, <4>3, BeforeIsOrder
          <5>2. \A q \in T \ {x} : Before(q, x)
            BY <4>1, <5>1, BeforeIsOrder
          <5> QED BY <5>2
        <4> QED BY <4>2, <4>3
      <3> QED BY <3>3, <3>4
    <2> QED BY <2>3, <2>4
  <1>3. S \notin B
    BY <1>2
  <1> QED BY <1>3

Increasing(s) == \A i, j \in DOMAIN s : i < j => Before(s[i], s[j])

\* Finitely many places can be put in order.
LEMMA CanBeSorted ==
  ASSUME NEW S \in SUBSET Places, IsFiniteSet(S)
  PROVE  \E s \in [1 .. Cardinality(S) -> S] : Increasing(s)
  <1> DEFINE B == {T \in SUBSET S : ~ \E s \in [1 .. Cardinality(T) -> T] : Increasing(s)}
  <1>1. B \subseteq FiniteSubsetsOf(S)
    BY FS_Subset DEF FiniteSubsetsOf
  <1>2. ASSUME B # {} PROVE FALSE
    <2>1. PICK T \in B : \A U \in B : U \subseteq T => U = T
      <3> HIDE DEF B
      <3> QED BY <1>1, <1>2, Smallest
    <2>2. CASE T = {}
      <3>1. 1 .. Cardinality(T) = {}
        BY <2>2, FS_EmptySet
      <3>2. [i \in {} |-> i] \in [1 .. Cardinality(T) -> T] /\ Increasing([i \in {} |-> i])
        BY <3>1 DEF Increasing
      <3> QED BY <3>2
    <2>3. CASE T # {}
      <3>1. T \in SUBSET Places /\ IsFiniteSet(T)
        BY FS_Subset
      <3>2. PICK m \in T : \A q \in T \ {m} : Before(q, m)
        BY <2>3, <3>1, Extremes
      <3> DEFINE R == T \ {m}
                 n == Cardinality(R)
      <3>3. n \in Nat /\ Cardinality(T) = n + 1
        <4>1. IsFiniteSet(R) /\ Cardinality(R) = Cardinality(T) - 1
          BY <3>1, <3>2, FS_RemoveElement
        <4>2. Cardinality(T) \in Nat /\ Cardinality(R) \in Nat
          BY <3>1, <4>1, FS_CardinalityType
        <4> QED BY <4>1, <4>2
      <3>4. R \notin B
        BY <2>1, <3>2
      <3>5. PICK s \in [1 .. n -> R] : Increasing(s)
        BY <3>4
      <3> DEFINE t == [i \in 1 .. n + 1 |-> IF i = n + 1 THEN m ELSE s[i]]
      <3> HIDE DEF n
      <3>6. t \in [1 .. Cardinality(T) -> T]
        BY <3>3, <3>5
      <3>7. ASSUME NEW i \in 1 .. n + 1, NEW j \in 1 .. n + 1, i < j
            PROVE  Before(t[i], t[j])
        <4>1. i \in 1 .. n /\ t[i] = s[i] /\ s[i] \in R
          BY <3>3, <3>5, <3>7
        <4>2. CASE j = n + 1
          BY <4>1, <4>2, <3>2
        <4>3. CASE j # n + 1
          <5>1. j \in 1 .. n /\ t[j] = s[j]
            BY <4>3, <3>3
          <5> QED BY <4>1, <5>1, <3>5, <3>7 DEF Increasing
        <4> QED BY <4>2, <4>3
      <3>8. Increasing(t)
        BY <3>7 DEF Increasing
      <3> QED BY <3>6, <3>8
    <2> QED BY <2>2, <2>3
  <1> QED BY <1>2

\* Sorted puts every place at one position.
LEMMA SortedFacts ==
  ASSUME NEW S \in SUBSET Places, IsFiniteSet(S)
  PROVE  /\ Cardinality(S) \in Nat
         /\ Sorted(S) \in [1 .. Cardinality(S) -> S]
         /\ \A i, j \in 1 .. Cardinality(S) : i # j => Sorted(S)[i] # Sorted(S)[j]
         /\ \A p \in S : \E i \in 1 .. Cardinality(S) : Sorted(S)[i] = p
  <1> DEFINE s == Sorted(S)
             n == Cardinality(S)
  <1>1. n \in Nat
    BY FS_CardinalityType
  <1>2. s \in [1 .. n -> S] /\ Increasing(s)
    BY CanBeSorted DEF Sorted, Increasing
  <1>3. ASSUME NEW i \in 1 .. n, NEW j \in 1 .. n, i # j PROVE s[i] # s[j]
    <2>1. i < j \/ j < i
      BY <1>1, <1>3
    <2>2. Before(s[i], s[j]) \/ Before(s[j], s[i])
      BY <1>2, <2>1 DEF Increasing
    <2>3. s[i] \in Places
      BY <1>2
    <2> QED BY <2>2, <2>3, BeforeIsOrder
  <1>4. s \in Injection(1 .. n, S)
    BY <1>2, <1>3 DEF Injection, IsInjective
  <1>5. IsFiniteSet(1 .. n) /\ Cardinality(1 .. n) = n
    BY <1>1, FS_Interval
  <1>6. s \in Surjection(1 .. n, S)
    <2> HIDE DEF s
    <2> QED BY <1>4, <1>5, FS_Injection
  <1>7. \A p \in S : \E i \in 1 .. n : s[i] = p
    BY <1>6 DEF Surjection
  <1> QED BY <1>1, <1>2, <1>3, <1>7

\* Steps that hold evidence of the reviewer.
Witnessed(earlier) ==
  /\ \E S : earlier \in Seq(S)
  /\ \A k \in DOMAIN earlier : earlier[k].evidence \in Seq(Observation)

LEMMA ObservedFinite ==
  ASSUME NEW earlier, Witnessed(earlier)
  PROVE  Observed(earlier) \in SUBSET Places /\ IsFiniteSet(Observed(earlier))
  <1> DEFINE of == [k \in DOMAIN earlier |-> {k} \X DOMAIN earlier[k].evidence]
             all == {of[k] : k \in DOMAIN earlier}
  <1>1. DOMAIN earlier = 1 .. Len(earlier) /\ Len(earlier) \in Nat
    BY DEF Witnessed
  <1>2. ASSUME NEW k \in DOMAIN earlier
        PROVE  /\ DOMAIN earlier[k].evidence = 1 .. Len(earlier[k].evidence)
               /\ Len(earlier[k].evidence) \in Nat
    BY DEF Witnessed
  <1>3. Observed(earlier) = UNION all
    BY DEF Observed
  <1>4. Observed(earlier) \in SUBSET Places
    BY <1>1, <1>2 DEF Observed, Places
  <1>5. IsFiniteSet(DOMAIN earlier)
    BY <1>1, FS_Interval
  <1>6. of \in Surjection(DOMAIN earlier, all)
    BY DEF Surjection
  <1>7. IsFiniteSet(all)
    <2> HIDE DEF of, all
    <2> QED BY <1>5, <1>6, FS_Surjection
  <1>8. ASSUME NEW k \in DOMAIN earlier PROVE IsFiniteSet(of[k])
    <2>1. IsFiniteSet(DOMAIN earlier[k].evidence)
      BY <1>2, FS_Interval
    <2> QED BY <2>1, FS_Singleton, FS_Product
  <1>9. \A T \in all : IsFiniteSet(T)
    BY <1>8
  <1> HIDE DEF all
  <1> QED BY <1>3, <1>4, <1>7, <1>9, FS_UNION

\* What an observation was made of.
LEMMA AtPlace ==
  ASSUME NEW earlier, Witnessed(earlier), NEW p \in Observed(earlier)
  PROVE  /\ p = <<p[1], p[2]>>
         /\ p[1] \in DOMAIN earlier /\ p[2] \in DOMAIN earlier[p[1]].evidence
         /\ At(earlier, p) \in Observation
  BY DEF Observed, At, Witnessed

\* The prior evidence: of every id that was observed the first observation, once.
LEMMA PriorFacts ==
  ASSUME NEW earlier, Witnessed(earlier)
  PROVE  /\ PriorEvidence(earlier) \in Seq(Observation)
         /\ \A p \in Observed(earlier) :
              \E q \in Firsts(earlier), j \in DOMAIN PriorEvidence(earlier) :
                /\ q = p \/ Before(q, p)
                /\ At(earlier, q).id = At(earlier, p).id
                /\ PriorEvidence(earlier)[j] = At(earlier, q)
                /\ \A l \in DOMAIN PriorEvidence(earlier) \ {j} :
                     PriorEvidence(earlier)[l].id # At(earlier, p).id
  <1> DEFINE F == Firsts(earlier)
             s == Sorted(F)
             n == Cardinality(F)
             prior == PriorEvidence(earlier)
  <1>1. F \in SUBSET Observed(earlier) /\ F \in SUBSET Places /\ IsFiniteSet(F)
    BY ObservedFinite, FS_Subset DEF Firsts
  <1>2. /\ n \in Nat /\ s \in [1 .. n -> F]
        /\ \A i, j \in 1 .. n : i # j => s[i] # s[j]
        /\ \A p \in F : \E i \in 1 .. n : s[i] = p
    <2> HIDE DEF F
    <2> QED BY <1>1, SortedFacts
  <1>3. prior = [i \in 1 .. n |-> At(earlier, s[i])]
    BY <1>2 DEF PriorEvidence
  <1>4. \A i \in 1 .. n : At(earlier, s[i]) \in Observation
    BY <1>1, <1>2, AtPlace
  <1>5. prior \in Seq(Observation) /\ DOMAIN prior = 1 .. n
    <2> HIDE DEF prior
    <2> QED BY <1>2, <1>3, <1>4
  <1>6. \A q, r \in F : q # r => At(earlier, q).id # At(earlier, r).id
    BY <1>1, BeforeIsOrder DEF Firsts
  <1>7. ASSUME NEW p \in Observed(earlier)
        PROVE  \E q \in F, j \in DOMAIN prior :
                 /\ q = p \/ Before(q, p)
                 /\ At(earlier, q).id = At(earlier, p).id
                 /\ prior[j] = At(earlier, q)
                 /\ \A l \in DOMAIN prior \ {j} : prior[l].id # At(earlier, p).id
    <2> DEFINE same == {r \in Observed(earlier) : At(earlier, r).id = At(earlier, p).id}
    <2>1. same \in SUBSET Places /\ IsFiniteSet(same) /\ p \in same
      BY ObservedFinite, FS_Subset
    <2>2. PICK q \in same : \A r \in same \ {q} : Before(q, r)
      <3> HIDE DEF same
      <3> QED BY <2>1, Extremes
    <2>3. q \in F
      <3>1. ASSUME NEW r \in Observed(earlier), Before(r, q), r \in same PROVE FALSE
        BY <2>1, <2>2, <3>1, BeforeIsOrder
      <3> QED BY <2>2, <3>1 DEF Firsts
    <2>4. q = p \/ Before(q, p)
      BY <2>1, <2>2
    <2>5. PICK j \in 1 .. n : s[j] = q
      BY <1>2, <2>3
    <2>6. prior[j] = At(earlier, q)
      BY <1>3, <2>5
    <2>7. ASSUME NEW l \in 1 .. n, l # j PROVE prior[l].id # At(earlier, p).id
      <3>1. s[l] \in F /\ s[l] # q
        BY <1>2, <2>5, <2>7
      <3>2. At(earlier, s[l]).id # At(earlier, q).id
        BY <1>6, <2>3, <3>1
      <3> QED BY <1>3, <2>2, <3>2
    <2> HIDE DEF prior, F, s, n
    <2> QED BY <1>5, <2>2, <2>3, <2>4, <2>5, <2>6, <2>7
  <1> QED BY <1>5, <1>7
-----------------------------------------------------------------------------
(* What is said in a session.                                              *)

Replies == {"ask_student", "ask_student_again", "finalize"}

\* What the validators let through: the evidence of the claim, then new one.
DraftOf(l) ==
  /\ \E current \in Seq(Observation) :
       /\ l.draft.evidence = l.prior \o current
       /\ IdsOf(current) \cap IdsOf(l.prior) = {}
       /\ l.draft.cites \subseteq Available(l.number, current)
  /\ l.draft.next \in Replies
  /\ l.draft.next # "finalize" => l.number < MaxRounds

LocalsKept(step, l) ==
  /\ l.number \in 0 .. MaxRounds
  /\ l.prior \in Seq(Observation)
  /\ l.draft.evidence \in Seq(Observation)
  /\ step \in {"assessment", "send"} => DraftOf(l)
  /\ step = "assessment" => l.draft.next = "finalize"
  /\ IF step = "send" /\ l.draft.next = "finalize"
       THEN /\ l.assessed.evidence = Normalized(l.draft.evidence)
            /\ \A c \in DOMAIN Rubric : l.assessed.cites[c] \subseteq Normalized(l.draft.evidence)
       ELSE l.assessed = NoAssessment

StepsKept ==
  /\ \A k \in DOMAIN steps :
       /\ steps[k].evidence \in Seq(Observation)
       /\ steps[k].next \in Replies
       /\ steps[k].next # "finalize" => k <= MaxRounds
  /\ PriorEvidenceKept /\ CitationsResolve

Content ==
  /\ StepsKept /\ AssessmentSeesSession
  /\ state # "closed" => assessment = NoAssessment
  /\ state \in {"queued", "student", "closed"}
  /\ \A a \in Attempts :
       /\ LocalsKept(pc[a], local[a])
       /\ holder = a /\ pc[a] # "idle" => local[a].prior = PriorEvidence(steps)

\* An attempt outside its functions has drafted nothing.
LEMMA NoLocalsKept == LocalsKept("idle", NoLocals)
  <1>1. <<>> \in Seq(Observation) /\ 0 \in 0 .. MaxRounds
    BY MaxRoundsAssumption
  <1> QED BY <1>1 DEF LocalsKept, NoLocals, NoStep

\* The evidence of an answer that is let through is the reviewer's.
LEMMA AcceptedEvidence ==
  ASSUME NEW v \in ReviewAnswers, NEW n, NEW prior, Accepts(v, n, prior)
  PROVE  v.evidence \in Seq(Observation)
  <1> DEFINE Item == [id : STRING, severity : STRING]
  <1>1. v.evidence \in Seq(Item)
    BY AnswersAssumption DEF Accepts, ValidReview
  <1>2. ASSUME NEW i \in DOMAIN v.evidence PROVE v.evidence[i] \in Observation
    <2>1. v.evidence[i] \in Item
      <3> HIDE DEF Item
      <3> QED BY <1>1
    <2>2. v.evidence[i].severity \in Severities /\ v.evidence[i].id \in ReviewerIds
      BY DEF Accepts, ValidReview, ReviewerEvidence
    <2> QED BY <2>1, <2>2 DEF Observation
  <1> HIDE DEF Item
  <1> QED BY <1>1, <1>2

\* The session is as it was, and so are the facts about it.
LEMMA ContentWithin ==
  ASSUME Shape, Content, UNCHANGED <<steps, state, assessment>>, holder' \in {holder, Nobody},
         NEW a \in Attempts, NEW S, Moves(a, S), LocalsKept(S, local'[a]),
         S = "idle" \/ (pc[a] # "idle" /\ local'[a].prior = local[a].prior)
  PROVE  Content'
  <1>1. /\ \A b \in Attempts \ {a} : pc'[b] = pc[b] /\ local'[b] = local[b]
        /\ pc'[a] = S
    BY DEF Shape, Moves
  <1>2. StepsKept' /\ AssessmentSeesSession' /\ state' \in {"queued", "student", "closed"}
    BY DEF Content, StepsKept, AssessmentSeesSession, PriorEvidenceKept, CitationsResolve
  <1>3. ASSUME NEW b \in Attempts
        PROVE  /\ LocalsKept(pc'[b], local'[b])
               /\ holder' = b /\ pc'[b] # "idle" => local'[b].prior = PriorEvidence(steps')
    <2>1. CASE b = a
      BY <2>1, <1>1 DEF Content
    <2>2. CASE b # a
      BY <2>2, <1>1, NobodyAssumption DEF Content
    <2> QED BY <2>1, <2>2
  <1> QED BY <1>2, <1>3 DEF Content

\* An attempt ends.
LEMMA StopContent ==
  ASSUME Shape, Content, NEW a \in Attempts, Stop(a), holder' \in {holder, Nobody},
         UNCHANGED <<steps, state, assessment>>
  PROVE  Content'
  <1>1. Moves(a, "idle") /\ local'[a] = NoLocals
    BY DEF Stop, Update, Moves, Shape
  <1> QED BY <1>1, NoLocalsKept, ContentWithin

\* A failed call leaves the draft alone.
LEMMA FailContent ==
  ASSUME Shape, Content, NEW a \in Attempts, pc[a] \in Asking, NEW failure,
         Fail(a, failure), UNCHANGED session
  PROVE  Content'
  <1> DEFINE l == local[a]
  <1>1. LocalsOf(l) /\ LocalsKept(pc[a], l)
    BY DEF Shape, Content
  <1>2. PICK step, m :
          /\ step \in {pc[a], "gaveUp"}
          /\ Update(a, step, m)
          /\ m.number = l.number /\ m.prior = l.prior /\ m.draft = l.draft
          /\ m.assessed = l.assessed
    <2> DEFINE log == Logged(l, failure)
               again == [l EXCEPT !.corrected = TRUE, !.log = log]
               onward == [l EXCEPT !.provider = @ + 1, !.corrected = FALSE, !.log = log]
               over == [l EXCEPT !.log = log]
               Alike(m) == /\ m.number = l.number /\ m.prior = l.prior
                           /\ m.draft = l.draft /\ m.assessed = l.assessed
    <2>1. \/ Update(a, pc[a], again) \/ Update(a, pc[a], onward)
          \/ Update(a, "gaveUp", over)
      BY DEF Fail
    <2>2. Alike(again) /\ Alike(onward) /\ Alike(over)
      <3> HIDE DEF log, l
      <3> QED BY <1>1 DEF LocalsOf
    <2> HIDE DEF again, onward, over
    <2> QED BY <2>1, <2>2
  <1>3. Moves(a, step) /\ local'[a] = m /\ pc[a] # "idle"
    BY <1>2 DEF Update, Moves, Shape, Asking
  <1>4. LocalsKept(step, m)
    BY <1>1, <1>2 DEF LocalsKept, DraftOf, Asking
  <1> QED BY <1>2, <1>3, <1>4, ContentWithin DEF session

\* So do refused tokens.
LEMMA RefusedContent ==
  ASSUME Shape, Content, NEW a \in Attempts, TokensRefused(a)
  PROVE  Content'
  <1>1. Moves(a, "gaveUp") /\ local'[a] = local[a] /\ pc[a] \in Asking
    BY DEF TokensRefused, Update, Moves, Shape, Asking
  <1>2. LocalsKept("gaveUp", local[a])
    BY <1>1 DEF Content, LocalsKept, Asking
  <1> QED BY <1>1, <1>2, ContentWithin DEF TokensRefused, session, Asking

\* An answer that is let through is drafted.
LEMMA SucceedContent ==
  ASSUME Shape, Content, NEW a \in Attempts, pc[a] \in Asking, NEW step, NEW l,
         LocalsOf(l), l.prior = local[a].prior, LocalsKept(step, l),
         Succeed(a, step, l), UNCHANGED session
  PROVE  Content'
  <1>1. /\ local'[a] = [l EXCEPT !.provider = 1, !.corrected = FALSE, !.log = <<>>]
        /\ Moves(a, step)
    BY DEF Succeed, Update, Moves, Shape
  <1>2. /\ local'[a].number = l.number /\ local'[a].prior = l.prior
        /\ local'[a].draft = l.draft /\ local'[a].assessed = l.assessed
    BY <1>1 DEF LocalsOf
  <1>3. LocalsKept(step, local'[a])
    BY <1>2 DEF LocalsKept, DraftOf
  <1> QED BY <1>1, <1>2, <1>3, ContentWithin DEF session, Asking

LEMMA StepsWitnessed == Shape /\ StepsKept => Witnessed(steps)
  BY DEF Shape, StepsKept, Witnessed

\* The claim gives what was observed so far, and a number of rounds that the
\* platform allows.
LEMMA ClaimContent ==
  ASSUME IInv, Content, NEW a \in Attempts, Claim(a)
  PROVE  Content'
  <1> DEFINE l == [NoLocals EXCEPT !.number = Len(steps), !.prior = PriorEvidence(steps)]
             n == Len(steps)
  <1>1. Moves(a, "review") /\ local'[a] = l /\ holder' = a
    BY DEF Claim, Update, Moves, IInv, Shape
  <1>2. n \in Nat /\ DOMAIN steps = 1 .. n
    BY DEF IInv, Shape
  <1>3. n \in 0 .. MaxRounds
    <2>1. CASE n = 0
      BY <2>1, MaxRoundsAssumption
    <2>2. CASE n # 0
      <3>1. n \in DOMAIN steps /\ steps[n].next # "finalize"
        BY <1>2, <2>2 DEF IInv, Ordered, Claim
      <3> QED BY <3>1, <1>2, MaxRoundsAssumption DEF Content, StepsKept
    <2> QED BY <2>1, <2>2
  <1>4. PriorEvidence(steps) \in Seq(Observation)
    BY StepsWitnessed, PriorFacts DEF IInv, Content
  <1>5. l.number = n /\ l.prior = PriorEvidence(steps) /\ l.draft = NoStep
        /\ l.assessed = NoAssessment
    BY DEF NoLocals
  <1>6. LocalsKept("review", l)
    <2>1. <<>> \in Seq(Observation)
      OBVIOUS
    <2> HIDE DEF l
    <2> QED BY <2>1, <1>3, <1>4, <1>5 DEF LocalsKept, NoStep
  <1>7. /\ \A b \in Attempts \ {a} : pc'[b] = pc[b] /\ local'[b] = local[b]
        /\ pc'[a] = "review" /\ UNCHANGED <<steps, state, assessment>>
    BY <1>1 DEF Moves, IInv, Shape, Claim
  <1>8. StepsKept' /\ AssessmentSeesSession' /\ state' \in {"queued", "student", "closed"}
    BY <1>7 DEF Content, StepsKept, AssessmentSeesSession, PriorEvidenceKept, CitationsResolve
  <1>9. ASSUME NEW b \in Attempts
        PROVE  /\ LocalsKept(pc'[b], local'[b])
               /\ holder' = b /\ pc'[b] # "idle" => local'[b].prior = PriorEvidence(steps')
    <2>1. CASE b = a
      BY <2>1, <1>1, <1>5, <1>6, <1>7
    <2>2. CASE b # a
      BY <2>2, <1>1, <1>7 DEF Content
    <2> QED BY <2>1, <2>2
  <1> QED BY <1>7, <1>8, <1>9 DEF Content

\* Every id observed in a step is an id of the prior evidence.
LEMMA AllIsPrior ==
  ASSUME NEW earlier, Witnessed(earlier), NEW k \in DOMAIN earlier
  PROVE  IdsOf(earlier[k].evidence) \subseteq IdsOf(PriorEvidence(earlier))
  <1> SUFFICES ASSUME NEW m \in DOMAIN earlier[k].evidence
               PROVE  earlier[k].evidence[m].id \in IdsOf(PriorEvidence(earlier))
    BY DEF IdsOf
  <1>1. <<k, m>> \in Observed(earlier)
    BY DEF Observed
  <1>2. PICK q \in Firsts(earlier), j \in DOMAIN PriorEvidence(earlier) :
          /\ At(earlier, q).id = At(earlier, <<k, m>>).id
          /\ PriorEvidence(earlier)[j] = At(earlier, q)
    BY <1>1, PriorFacts
  <1> QED BY <1>2 DEF IdsOf, At

\* The prior evidence has an observation as each step has it, and once: a step
\* repeats what an earlier one observed first.
LEMMA PriorHoldsLeading ==
  ASSUME Shape, StepsKept, NEW i \in DOMAIN steps, NEW m \in DOMAIN steps[i].evidence,
         Leads(steps[i].evidence, m)
  PROVE  StandsOnce(steps[i].evidence[m], PriorEvidence(steps))
  <1> DEFINE p == <<i, m>>
             o == steps[i].evidence[m]
             prior == PriorEvidence(steps)
  <1>1. Witnessed(steps)
    BY StepsWitnessed
  <1>2. p \in Observed(steps) /\ At(steps, p) = o
    BY DEF Observed, At
  <1>3. PICK q \in Firsts(steps), j \in DOMAIN prior :
          /\ q = p \/ Before(q, p)
          /\ At(steps, q).id = o.id
          /\ prior[j] = At(steps, q)
          /\ \A l \in DOMAIN prior \ {j} : prior[l].id # o.id
    BY <1>1, <1>2, PriorFacts
  <1> DEFINE i0 == q[1]
             m0 == q[2]
             e == steps[i0].evidence
  <1>4. /\ q = <<i0, m0>> /\ i0 \in DOMAIN steps /\ m0 \in DOMAIN e
        /\ At(steps, q) = e[m0] /\ q \in Observed(steps)
    BY <1>1, AtPlace DEF Firsts, At
  <1>5. /\ DOMAIN steps \subseteq Nat /\ DOMAIN e = 1 .. Len(e) /\ Len(e) \in Nat
        /\ DOMAIN steps[i].evidence \subseteq Nat
    BY <1>1, <1>4 DEF Witnessed
  <1>6. At(steps, q) = o
    <2>1. CASE q = p
      BY <2>1, <1>2
    <2>2. CASE q # p /\ i0 = i
      <3>1. m0 \in 1 .. m - 1
        BY <2>2, <1>3, <1>4, <1>5 DEF Before
      <3> QED BY <3>1, <2>2, <1>3, <1>4 DEF Leads
    <2>3. CASE q # p /\ i0 # i
      <3>1. i0 \in 1 .. i - 1
        BY <2>3, <1>3, <1>4, <1>5 DEF Before, Witnessed, Shape
      <3>2. Leads(e, m0)
        <4> SUFFICES ASSUME NEW l \in 1 .. m0 - 1 PROVE e[l].id # e[m0].id
          BY DEF Leads
        <4>1. l \in DOMAIN e
          BY <1>4, <1>5
        <4>2. <<i0, l>> \in Observed(steps)
          BY <4>1, <1>4 DEF Observed
        <4>3. l < m0
          BY <1>4, <1>5
        <4>4. Before(<<i0, l>>, q)
          BY <4>3, <1>4 DEF Before
        <4>5. At(steps, <<i0, l>>) = e[l]
          BY DEF At
        <4> QED BY <4>2, <4>4, <4>5, <1>4 DEF Firsts
      <3>3. PICK h \in DOMAIN steps[i].evidence :
              /\ steps[i].evidence[h] = e[m0]
              /\ \A l \in DOMAIN steps[i].evidence \ {h} :
                   steps[i].evidence[l].id # e[m0].id
        BY <3>1, <3>2, <1>4 DEF StepsKept, PriorEvidenceKept, StandsOnce
      <3>4. m = h
        BY <3>3, <1>3, <1>4
      <3> QED BY <3>3, <3>4, <1>4
    <2> QED BY <2>1, <2>2, <2>3
  <1> QED BY <1>3, <1>6 DEF StandsOnce

\* A step of prior evidence and new ids keeps what was observed.
LEMMA NewStepKeepsEvidence ==
  ASSUME Shape, StepsKept, NEW d, NEW current \in Seq(Observation),
         d.evidence = PriorEvidence(steps) \o current,
         IdsOf(current) \cap IdsOf(PriorEvidence(steps)) = {},
         steps' = Append(steps, d)
  PROVE  PriorEvidenceKept'
  <1> DEFINE prior == PriorEvidence(steps)
             n == Len(steps)
  <1>1. /\ n \in Nat /\ DOMAIN steps = 1 .. n /\ DOMAIN steps' = 1 .. n + 1
        /\ steps'[n + 1] = d /\ \A k \in 1 .. n : steps'[k] = steps[k]
    <2>1. PICK S : steps \in Seq(S)
      BY DEF Shape
    <2>2. steps \in Seq(S \cup {d})
      BY <2>1
    <2> QED BY <2>1, <2>2
  <1>2. prior \in Seq(Observation)
    BY StepsWitnessed, PriorFacts
  <1>3. ASSUME NEW i \in 1 .. n, NEW m \in DOMAIN steps[i].evidence,
               Leads(steps[i].evidence, m)
        PROVE  StandsOnce(steps[i].evidence[m], d.evidence)
    <2> DEFINE o == steps[i].evidence[m]
    <2>1. PICK j \in DOMAIN prior :
            prior[j] = o /\ \A l \in DOMAIN prior \ {j} : prior[l].id # o.id
      BY <1>1, <1>3, PriorHoldsLeading DEF StandsOnce
    <2>2. /\ DOMAIN prior = 1 .. Len(prior) /\ Len(prior) \in Nat
          /\ DOMAIN current = 1 .. Len(current) /\ Len(current) \in Nat
          /\ DOMAIN d.evidence = 1 .. Len(prior) + Len(current)
          /\ \A l \in 1 .. Len(prior) : d.evidence[l] = prior[l]
          /\ \A l \in Len(prior) + 1 .. Len(prior) + Len(current) :
               d.evidence[l] = current[l - Len(prior)]
      <3> HIDE DEF prior
      <3>1. d.evidence = prior \o current
        BY DEF prior
      <3> QED BY <3>1, <1>2
    <2>3. o.id \in IdsOf(prior)
      BY <2>1 DEF IdsOf
    <2>4. \A l \in DOMAIN current : current[l].id # o.id
      BY <2>3 DEF IdsOf
    <2>5. ASSUME NEW l \in DOMAIN d.evidence \ {j} PROVE d.evidence[l].id # o.id
      <3>1. CASE l \in 1 .. Len(prior)
        BY <3>1, <2>1, <2>2
      <3>2. CASE l \notin 1 .. Len(prior)
        <4>1. l - Len(prior) \in DOMAIN current /\ d.evidence[l] = current[l - Len(prior)]
          <5> HIDE DEF prior
          <5> QED BY <3>2, <2>2
        <4> QED BY <4>1, <2>4
      <3> QED BY <3>1, <3>2
    <2>6. j \in DOMAIN d.evidence /\ d.evidence[j] = o
      <3> HIDE DEF prior
      <3> QED BY <2>1, <2>2
    <2> QED BY <2>5, <2>6 DEF StandsOnce
  <1>4. ASSUME NEW k \in DOMAIN steps', NEW i \in 1 .. k - 1,
               NEW m \in DOMAIN steps'[i].evidence, Leads(steps'[i].evidence, m)
        PROVE  StandsOnce(steps'[i].evidence[m], steps'[k].evidence)
    <2>1. i \in 1 .. n /\ steps'[i] = steps[i]
      BY <1>1
    <2>2. CASE k \in 1 .. n
      <3>1. steps'[k] = steps[k]
        BY <2>2, <1>1
      <3> QED BY <2>1, <2>2, <3>1, <1>1, <1>4 DEF StepsKept, PriorEvidenceKept
    <2>3. CASE k = n + 1
      BY <2>1, <2>3, <1>1, <1>3, <1>4
    <2> QED BY <2>2, <2>3, <1>1
  <1> QED BY <1>4 DEF PriorEvidenceKept

\* The accepted payload becomes a step that keeps the promises.
LEMMA AcceptedContent ==
  ASSUME IInv, Content, NEW a \in Attempts, Send(a), holder = a
  PROVE  Content'
  <1> DEFINE l == local[a]
             d == l.draft
             n == Len(steps)
  <1>1. /\ Moves(a, "idle") /\ local'[a] = NoLocals
        /\ pc[a] = "send" /\ holder' = Nobody
        /\ steps' = Append(steps, d) /\ assessment' = l.assessed
        /\ state' = IF d.next = "finalize" THEN "closed" ELSE "student"
    BY DEF Send, Stop, Update, Moves, IInv, Shape
  <1>2. /\ n \in Nat /\ DOMAIN steps = 1 .. n /\ DOMAIN steps' = 1 .. n + 1
        /\ Len(steps') = n + 1
        /\ steps'[n + 1] = d /\ \A k \in 1 .. n : steps'[k] = steps[k]
    <2>1. PICK S : steps \in Seq(S)
      BY DEF IInv, Shape
    <2>2. steps \in Seq(S \cup {d})
      BY <2>1
    <2> HIDE DEF d
    <2> QED BY <1>1, <2>1, <2>2
  <1>3. l.number = n /\ l.prior = PriorEvidence(steps) /\ Witnessed(steps)
    BY <1>1, StepsWitnessed DEF IInv, Ordered, Content
  <1>4. DraftOf(l) /\ LocalsKept("send", l)
    BY <1>1 DEF Content, LocalsKept
  <1>5. PICK current \in Seq(Observation) :
          /\ d.evidence = l.prior \o current
          /\ IdsOf(current) \cap IdsOf(l.prior) = {}
          /\ d.cites \subseteq Available(n, current)
    BY <1>3, <1>4 DEF DraftOf
  <1>6. /\ d.evidence \in Seq(Observation) /\ d.next \in Replies
        /\ d.next # "finalize" => n < MaxRounds
        /\ d.next = "finalize" =>
             /\ l.assessed.evidence = Normalized(d.evidence)
             /\ \A c \in DOMAIN Rubric : l.assessed.cites[c] \subseteq Normalized(d.evidence)
    BY <1>3, <1>4 DEF LocalsKept, DraftOf
  <1>7. PriorEvidenceKept'
    BY <1>1, <1>3, <1>5, NewStepKeepsEvidence DEF IInv, Content
  <1>8. ASSUME NEW k \in DOMAIN steps'
        PROVE  /\ steps'[k].evidence \in Seq(Observation)
               /\ steps'[k].next \in Replies
               /\ steps'[k].next # "finalize" => k <= MaxRounds
    <2>1. CASE k \in 1 .. n
      BY <2>1, <1>2 DEF Content, StepsKept
    <2>2. CASE k = n + 1
      BY <2>2, <1>2, <1>6, MaxRoundsAssumption
    <2> QED BY <2>1, <2>2, <1>2
  <1>9. IdsOf(l.prior) \subseteq IdsOf(d.evidence) /\ IdsOf(current) \subseteq IdsOf(d.evidence)
    <2> DEFINE prior == l.prior
               evidence == d.evidence
    <2>1. prior \in Seq(Observation) /\ evidence = prior \o current
      BY <1>4, <1>5 DEF LocalsKept
    <2> HIDE DEF prior, evidence
    <2>2. /\ DOMAIN prior = 1 .. Len(prior) /\ Len(prior) \in Nat
          /\ DOMAIN current = 1 .. Len(current) /\ Len(current) \in Nat
          /\ DOMAIN evidence = 1 .. Len(prior) + Len(current)
          /\ \A i \in 1 .. Len(prior) : evidence[i] = prior[i]
          /\ \A i \in 1 .. Len(current) : evidence[Len(prior) + i] = current[i]
      BY <2>1
    <2>3. ASSUME NEW i \in DOMAIN prior PROVE prior[i].id \in IdsOf(evidence)
      <3>1. i \in DOMAIN evidence /\ evidence[i] = prior[i]
        BY <2>2
      <3> QED BY <3>1 DEF IdsOf
    <2>4. ASSUME NEW i \in DOMAIN current PROVE current[i].id \in IdsOf(evidence)
      <3>1. Len(prior) + i \in DOMAIN evidence /\ evidence[Len(prior) + i] = current[i]
        BY <2>2
      <3> QED BY <3>1 DEF IdsOf
    <2>5. IdsOf(prior) \subseteq IdsOf(evidence) /\ IdsOf(current) \subseteq IdsOf(evidence)
      BY <2>3, <2>4 DEF IdsOf
    <2> QED BY <2>5 DEF prior, evidence
  <1>10. CitationsResolve'
    <2>1. ASSUME NEW k \in DOMAIN steps'
          PROVE  steps'[k].cites \subseteq
                   Checks \cup IdsOf(steps'[k].evidence) \cup {AnswerRefs[i] : i \in 1 .. k - 1}
      <3>1. CASE k \in 1 .. n
        BY <3>1, <1>2 DEF Content, StepsKept, CitationsResolve
      <3>2. CASE k = n + 1
        <4>1. DOMAIN AnswerRefs = {1, 2}
          BY DEF AnswerRefs
        <4>2. {n} \cap DOMAIN AnswerRefs \subseteq 1 .. k - 1
          BY <3>2, <4>1, <1>2
        <4>3. {AnswerRefs[i] : i \in {n} \cap DOMAIN AnswerRefs}
                \subseteq {AnswerRefs[i] : i \in 1 .. k - 1}
          BY <4>2
        <4>4. d.cites \subseteq Checks \cup IdsOf(d.evidence) \cup {AnswerRefs[i] : i \in 1 .. k - 1}
          BY <4>3, <1>5, <1>9 DEF Available, Normalized
        <4> QED BY <4>4, <3>2, <1>2
      <3> QED BY <3>1, <3>2, <1>2
    <2>2. ASSUME state' = "closed", NEW c \in DOMAIN Rubric
          PROVE  assessment'.cites[c] \subseteq Checks \cup IdsOf(steps'[Len(steps')].evidence)
      BY <2>2, <1>1, <1>2, <1>6 DEF Normalized
    <2> QED BY <2>1, <2>2 DEF CitationsResolve
  <1>11. AssessmentSeesSession'
    <2> SUFFICES ASSUME state' = "closed", NEW k \in DOMAIN steps'
                 PROVE  Checks \cup IdsOf(steps'[k].evidence) \subseteq assessment'.evidence
      BY DEF AssessmentSeesSession
    <2>1. assessment'.evidence = Checks \cup IdsOf(d.evidence)
      BY <1>1, <1>6 DEF Normalized
    <2>2. CASE k \in 1 .. n
      <3>1. IdsOf(steps[k].evidence) \subseteq IdsOf(l.prior)
        BY <2>2, <1>2, <1>3, AllIsPrior
      <3> QED BY <3>1, <2>1, <2>2, <1>2, <1>9
    <2>3. CASE k = n + 1
      BY <2>1, <2>3, <1>2
    <2> QED BY <2>2, <2>3, <1>2
  <1>12. ASSUME NEW b \in Attempts
         PROVE  LocalsKept(pc'[b], local'[b]) /\ holder' # b
    <2>1. holder' # b
      BY <1>1, NobodyAssumption
    <2>2. CASE b = a
      BY <2>1, <2>2, <1>1, NoLocalsKept DEF Moves, IInv, Shape
    <2>3. CASE b # a
      BY <2>1, <2>3, <1>1 DEF Moves, IInv, Shape, Content
    <2> QED BY <2>2, <2>3
  <1>13. /\ state' \in {"queued", "student", "closed"}
         /\ state' # "closed" => assessment' = NoAssessment
    BY <1>1, <1>4 DEF LocalsKept
  <1> QED BY <1>7, <1>8, <1>10, <1>11, <1>12, <1>13 DEF Content, StepsKept

LEMMA ContentStarts == Init => Content
  BY NoLocalsKept, NobodyAssumption DEF Init, Content, StepsKept, PriorEvidenceKept,
     CitationsResolve, AssessmentSeesSession

\* Every step preserves what is said in the session.
LEMMA ContentSteps == IInv /\ Content /\ [Next]_vars => Content'
  <1> SUFFICES ASSUME IInv, Content, [Next]_vars PROVE Content'
    OBVIOUS
  <1>0. Shape
    BY DEF IInv
  <1>1. ASSUME NEW a \in Attempts, Claim(a) PROVE Content'
    BY <1>1, ClaimContent
  <1>2. ASSUME NEW a \in Attempts, CallFails(a) PROVE Content'
    BY <1>0, <1>2, FailContent DEF CallFails, Asking
  <1>10. ASSUME NEW a \in Attempts, TokensRefused(a) PROVE Content'
    BY <1>0, <1>10, RefusedContent
  <1>3. ASSUME NEW a \in Attempts, AnswerToReview(a) PROVE Content'
    <2> DEFINE l == local[a]
               n(v) == [l EXCEPT !.draft =
                          [answer |-> l.number, next |-> v.next, cites |-> v.cites,
                           evidence |-> Merged(l.prior, v.evidence)]]
               next(v) == IF v.next = "finalize" THEN "assessment" ELSE "send"
    <2>1. CASE Fail(a, "invalid")
      BY <1>0, <1>3, <2>1, FailContent DEF AnswerToReview, Asking
    <2>2. CASE ~Fail(a, "invalid")
      <3>1. PICK v \in ReviewAnswers :
              Accepts(v, l.number, l.prior) /\ Succeed(a, next(v), n(v))
        BY <1>3, <2>2 DEF AnswerToReview
      <3>2. LocalsOf(l) /\ LocalsKept(pc[a], l)
        BY <1>0 DEF Shape, Content
      <3> DEFINE m == n(v)
      <3>3. /\ LocalsOf(m) /\ m.number = l.number /\ m.prior = l.prior
            /\ m.draft.evidence = l.prior \o v.evidence
            /\ m.draft.cites = v.cites /\ m.draft.next = v.next
            /\ m.assessed = l.assessed
        BY <3>2 DEF LocalsOf, Merged
      <3> HIDE DEF m
      <3>4. v.evidence \in Seq(Observation) /\ l.prior \in Seq(Observation)
        BY <3>1, <3>2, AcceptedEvidence DEF LocalsKept
      <3>5. DraftOf(m)
        <4>1. /\ IdsOf(v.evidence) \cap IdsOf(l.prior) = {}
              /\ v.cites \subseteq Available(l.number, v.evidence)
              /\ v.next \in Replies
              /\ l.number >= MaxRounds => v.next = "finalize"
          BY <3>1 DEF Accepts, NewIds, ValidReview, Replies
        <4>2. l.number \in Nat
          BY <3>2 DEF LocalsOf
        <4>3. \E current \in Seq(Observation) :
                /\ m.draft.evidence = m.prior \o current
                /\ IdsOf(current) \cap IdsOf(m.prior) = {}
                /\ m.draft.cites \subseteq Available(m.number, current)
          BY <3>3, <3>4, <4>1
        <4>4. m.draft.next # "finalize" => m.number < MaxRounds
          <5> HIDE DEF l
          <5> QED BY <3>3, <4>1, <4>2, MaxRoundsAssumption
        <4> HIDE DEF l
        <4> QED BY <3>3, <4>1, <4>3, <4>4 DEF DraftOf
      <3>6. m.draft.evidence \in Seq(Observation)
        BY <3>3, <3>4
      <3>7. LocalsKept(next(v), m)
        <4>1. m.assessed = NoAssessment
          BY <1>3, <3>2, <3>3 DEF LocalsKept, AnswerToReview
        <4> QED BY <4>1, <3>2, <3>3, <3>5, <3>6 DEF LocalsKept
      <3>8. Succeed(a, next(v), m)
        BY <3>1 DEF m
      <3> QED BY <1>0, <1>3, <3>3, <3>7, <3>8, SucceedContent DEF AnswerToReview, Asking
    <2> QED BY <2>1, <2>2
  <1>4. ASSUME NEW a \in Attempts, AnswerToAssessment(a) PROVE Content'
    <2> DEFINE l == local[a]
               n(v) == [l EXCEPT !.assessed =
                          [scores |-> v.scores, cites |-> v.cites, total |-> v.total,
                           evidence |-> Normalized(l.draft.evidence)]]
    <2>1. CASE Fail(a, "invalid")
      BY <1>0, <1>4, <2>1, FailContent DEF AnswerToAssessment, Asking
    <2>2. CASE ~Fail(a, "invalid")
      <3>1. PICK v \in AssessmentAnswers :
              ValidAssessment(v, l.draft.evidence) /\ Succeed(a, "send", n(v))
        BY <1>4, <2>2 DEF AnswerToAssessment
      <3>2. LocalsOf(l) /\ LocalsKept("assessment", l)
        BY <1>0, <1>4 DEF Shape, Content, AnswerToAssessment
      <3> DEFINE m == n(v)
      <3>3. /\ LocalsOf(m) /\ m.number = l.number /\ m.prior = l.prior
            /\ m.draft = l.draft /\ m.assessed.evidence = Normalized(l.draft.evidence)
            /\ m.assessed.cites = v.cites
        BY <3>2 DEF LocalsOf
      <3>6. \A c \in DOMAIN Rubric : v.cites[c] \subseteq Normalized(l.draft.evidence)
        BY <3>1 DEF ValidAssessment
      <3> HIDE DEF m
      <3>4. LocalsKept("send", m)
        BY <3>2, <3>3, <3>6 DEF LocalsKept, DraftOf
      <3>5. Succeed(a, "send", m)
        BY <3>1 DEF m
      <3> QED BY <1>0, <1>4, <3>3, <3>4, <3>5, SucceedContent DEF AnswerToAssessment, Asking
    <2> QED BY <2>1, <2>2
  <1>5. ASSUME NEW a \in Attempts, Send(a) PROVE Content'
    <2>1. CASE holder = a
      BY <1>5, <2>1, AcceptedContent
    <2>2. CASE holder # a
      BY <1>0, <1>5, <2>2, StopContent DEF Send, session
    <2> QED BY <2>1, <2>2
  <1>6. ASSUME NEW a \in Attempts, GiveUp(a) \/ Crash(a) PROVE Content'
    BY <1>0, <1>6, StopContent DEF GiveUp, Crash, session
  <1>7. CASE Expire
    BY <1>7, NobodyAssumption DEF Expire, Content, StepsKept, PriorEvidenceKept,
       CitationsResolve, AssessmentSeesSession
  <1>8. CASE StudentAnswers
    BY <1>8 DEF StudentAnswers, Content, StepsKept, PriorEvidenceKept, CitationsResolve,
       AssessmentSeesSession
  <1>9. CASE UNCHANGED vars
    BY <1>9 DEF vars, session, Content, StepsKept, PriorEvidenceKept, CitationsResolve,
       AssessmentSeesSession
  <1> QED BY <1>1, <1>2, <1>3, <1>4, <1>5, <1>6, <1>7, <1>8, <1>9, <1>10 DEF Next

LEMMA ContentSound == Spec => []Content
  BY StartsSound, StepsSound, ContentStarts, ContentSteps, PTL DEF Spec

\* Steps follow the answers one by one, whatever leases expire under working
\* attempts: for any number of attempts and rounds (worker.py:84).
THEOREM StepsInOrder == Spec => []AnswersInOrder
  <1>1. IInv => AnswersInOrder
    BY DEF IInv, Ordered
  <1> QED BY <1>1, Sound, PTL

\* The correction goes where it belongs, for any number of providers
\* (llm_providers.py:91, 104-108).
THEOREM CorrectionsAreExact == Spec => []CorrectionsInPlace
  <1>1. IInv => CorrectionsInPlace
    BY DEF IInv, Search, SearchOf, InPlace, CorrectionsInPlace
  <1> QED BY <1>1, Sound, PTL

\* Capacity is given up with nobody asked or with everybody asked, for any number
\* of providers and wherever the budget refuses (llm_providers.py:90-112).
THEOREM SearchesAreWhole == Spec => []NoHalfSearch
  <1>1. IInv => NoHalfSearch
    BY DEF IInv, Search, SearchOf, Asked, NoHalfSearch
  <1> QED BY <1>1, Sound, PTL

\* The session is well typed whatever the providers answer: no critical
\* evidence and no round beyond the last one (llm_schema.py:36-43).
THEOREM SessionTypeCorrect == Spec => []TypeOK
  <1>1. IInv /\ Content => TypeOK
    BY DEF IInv, Shape, LocalsOf, Content, StepsKept, LocalsKept, Replies, TypeOK
  <1> QED BY <1>1, Sound, ContentSound, PTL

\* What was observed first under an id stands in every later step, once, for any
\* number of steps and observations (llm_review.py:85-94).
THEOREM EvidenceIsImmutable == Spec => []PriorEvidenceKept
  <1>1. Content => PriorEvidenceKept
    BY DEF Content, StepsKept
  <1> QED BY <1>1, ContentSound, PTL

\* The assessment of a closed session was given what every step observed
\* (worker.py:81-83).
THEOREM AssessmentIsComplete == Spec => []AssessmentSeesSession
  <1>1. Content => AssessmentSeesSession
    BY DEF Content
  <1> QED BY <1>1, ContentSound, PTL

\* What the steps and the assessment cite was there to be cited, for any rubric and
\* any number of rounds and attempts (llm_schema.py:44, 81, 103-104).
THEOREM ReferencesResolve == Spec => []CitationsResolve
  <1>1. Content => CitationsResolve
    BY DEF Content, StepsKept
  <1> QED BY <1>1, ContentSound, PTL

-----------------------------------------------------------------------------
(* The session implements the transcript.                                  *)

\* Of an id only the first observation is known.
LEMMA KnownOnce ==
  ASSUME NEW earlier, Witnessed(earlier)
  PROVE  Session!Unambiguous(Known(earlier))
  <1>1. Firsts(earlier) \subseteq Observed(earlier) /\ Observed(earlier) \subseteq Places
    BY ObservedFinite DEF Firsts
  <1>2. \A p, q \in Firsts(earlier) : p # q => At(earlier, p).id # At(earlier, q).id
    BY <1>1, BeforeIsOrder DEF Firsts
  <1> QED BY <1>2 DEF Known, Session!Unambiguous

\* What is known after some steps is known after one more.
LEMMA KnownGrows ==
  ASSUME NEW earlier, NEW d, NEW later, Witnessed(earlier), Witnessed(later),
         later = Append(earlier, d)
  PROVE  Known(earlier) \subseteq Known(later)
  <1> DEFINE n == Len(earlier)
  <1>1. /\ n \in Nat /\ DOMAIN earlier = 1 .. n /\ DOMAIN later = 1 .. n + 1
        /\ \A k \in 1 .. n : later[k] = earlier[k]
    <2>1. PICK S : earlier \in Seq(S)
      BY DEF Witnessed
    <2>2. earlier \in Seq(S \cup {d})
      BY <2>1
    <2> QED BY <2>1, <2>2
  <1>2. ASSUME NEW p \in Firsts(earlier)
        PROVE  p \in Firsts(later) /\ At(later, p) = At(earlier, p)
    <2>1. p \in Observed(earlier) /\ p[1] \in 1 .. n
          /\ p[2] \in DOMAIN earlier[p[1]].evidence /\ p = <<p[1], p[2]>>
      BY <1>1, AtPlace DEF Firsts
    <2>2. p \in Observed(later) /\ At(later, p) = At(earlier, p)
      BY <1>1, <2>1 DEF Observed, At
    <2>3. ASSUME NEW q \in Observed(later), Before(q, p)
          PROVE  At(later, q).id # At(later, p).id
      <3>1. q[1] \in 1 .. n + 1 /\ q[2] \in DOMAIN later[q[1]].evidence /\ q = <<q[1], q[2]>>
        BY <1>1, AtPlace
      <3>2. q[1] \in 1 .. n
        BY <3>1, <2>1, <2>3, <1>1 DEF Before
      <3>3. q \in Observed(earlier) /\ At(later, q) = At(earlier, q)
        BY <1>1, <3>1, <3>2 DEF Observed, At
      <3> QED BY <3>3, <2>2, <2>3 DEF Firsts
    <2> QED BY <2>2, <2>3 DEF Firsts
  <1> QED BY <1>2 DEF Known

\* If the last step has every id of the earlier ones, it has all ids that are
\* known.
LEMMA LastStepKnows ==
  ASSUME NEW later, Witnessed(later), NEW n \in Nat, DOMAIN later = 1 .. n + 1,
         \A k \in 1 .. n : IdsOf(later[k].evidence) \subseteq IdsOf(later[n + 1].evidence)
  PROVE  {o.id : o \in Known(later)} = IdsOf(later[n + 1].evidence)
  <1>1. ASSUME NEW p \in Firsts(later)
        PROVE  At(later, p).id \in IdsOf(later[n + 1].evidence)
    <2>1. p[1] \in 1 .. n + 1 /\ p[2] \in DOMAIN later[p[1]].evidence
      BY AtPlace DEF Firsts
    <2>2. At(later, p).id \in IdsOf(later[p[1]].evidence)
      BY <2>1 DEF IdsOf, At
    <2>3. p[1] \in 1 .. n \/ p[1] = n + 1
      BY <2>1
    <2> QED BY <2>2, <2>3
  <1>2. ASSUME NEW m \in DOMAIN later[n + 1].evidence
        PROVE  \E p \in Firsts(later) : At(later, p).id = later[n + 1].evidence[m].id
    <2>1. <<n + 1, m>> \in Observed(later)
      BY DEF Observed
    <2>2. \E p \in Firsts(later) : At(later, p).id = At(later, <<n + 1, m>>).id
      BY <2>1, PriorFacts
    <2> QED BY <2>2 DEF At
  <1>3. {o.id : o \in Known(later)} = {At(later, p).id : p \in Firsts(later)}
    BY DEF Known
  <1> QED BY <1>1, <1>2, <1>3 DEF IdsOf

\* The accepted payload is one step of the transcript.
LEMMA AcceptedRefines ==
  ASSUME IInv, Content, Content', Shape', NEW a \in Attempts, Send(a), holder = a
  PROVE  Session!Ask \/ Session!Close
  <1> DEFINE l == local[a]
             d == l.draft
             n == Len(steps)
  <1>1. /\ state = "queued" /\ steps' = Append(steps, d) /\ assessment' = l.assessed
        /\ state' = IF d.next = "finalize" THEN "closed" ELSE "student"
        /\ pc[a] = "send"
    BY DEF Send, IInv, Ordered
  <1>2. /\ n \in Nat /\ DOMAIN steps = 1 .. n /\ DOMAIN steps' = 1 .. n + 1
        /\ Len(steps') = n + 1
        /\ steps'[n + 1] = d /\ \A k \in 1 .. n : steps'[k] = steps[k]
    <2>1. PICK S : steps \in Seq(S)
      BY DEF IInv, Shape
    <2>2. steps \in Seq(S \cup {d})
      BY <2>1
    <2> HIDE DEF d
    <2> QED BY <1>1, <2>1, <2>2
  <1>3. Witnessed(steps) /\ Witnessed(steps')
    BY StepsWitnessed DEF IInv, Content, Shape, StepsKept, Witnessed
  <1>4. Session!Learn
    <2>1. Known(steps) \subseteq Known(steps')
      <3>1. steps' = Append(steps, d)
        BY <1>1
      <3> HIDE DEF d
      <3> QED BY <3>1, <1>3, KnownGrows
    <2>2. Session!Unambiguous(Known(steps'))
      BY <1>3, KnownOnce
    <2> QED BY <2>1, <2>2, <1>1, <1>2 DEF Session!Learn
  <1>5. CASE d.next # "finalize"
    <2>1. n < MaxRounds
      <3>1. n + 1 \in DOMAIN steps' /\ steps'[n + 1].next # "finalize"
        BY <1>2, <1>5
      <3>2. n + 1 <= MaxRounds
        BY <3>1 DEF Content, StepsKept
      <3> QED BY <3>2, <1>2, MaxRoundsAssumption
    <2>2. assessment' = assessment
      BY <1>1, <1>5 DEF Content
    <2> QED BY <2>1, <2>2, <1>1, <1>4, <1>5 DEF Session!Ask
  <1>6. CASE d.next = "finalize"
    <2>1. assessment'.evidence = Checks \cup IdsOf(d.evidence)
      BY <1>1, <1>6 DEF Content, LocalsKept, Normalized
    <2>2. \A k \in 1 .. n : IdsOf(steps'[k].evidence) \subseteq IdsOf(d.evidence)
      <3> SUFFICES ASSUME NEW k \in 1 .. n, NEW m \in DOMAIN steps'[k].evidence
                   PROVE  steps'[k].evidence[m].id \in IdsOf(d.evidence)
        BY DEF IdsOf
      <3>1. PICK current \in Seq(Observation) : d.evidence = l.prior \o current
        BY <1>1 DEF Content, LocalsKept, DraftOf
      <3>2. l.prior = PriorEvidence(steps) /\ l.prior \in Seq(Observation)
        BY <1>1 DEF Content, LocalsKept, Send
      <3>3. steps'[k].evidence[m].id \in IdsOf(PriorEvidence(steps))
        BY <1>2, <1>3, AllIsPrior DEF IdsOf
      <3>4. PICK j \in DOMAIN l.prior : l.prior[j].id = steps'[k].evidence[m].id
        BY <3>2, <3>3 DEF IdsOf
      <3>5. j \in DOMAIN d.evidence /\ d.evidence[j] = l.prior[j]
        <4> DEFINE prior == l.prior
                   evidence == d.evidence
        <4>1. prior \in Seq(Observation) /\ evidence = prior \o current /\ j \in DOMAIN prior
          BY <3>1, <3>2
        <4> HIDE DEF prior, evidence
        <4>2. j \in DOMAIN evidence /\ evidence[j] = prior[j]
          BY <4>1
        <4> QED BY <4>2 DEF prior, evidence
      <3> QED BY <3>4, <3>5 DEF IdsOf
    <2>3. {o.id : o \in Known(steps')} = IdsOf(d.evidence)
      <3>1. \A k \in 1 .. n :
              IdsOf(steps'[k].evidence) \subseteq IdsOf(steps'[n + 1].evidence)
        BY <2>2, <1>2
      <3>2. {o.id : o \in Known(steps')} = IdsOf(steps'[n + 1].evidence)
        BY <3>1, <1>2, <1>3, LastStepKnows
      <3> QED BY <3>2, <1>2
    <2> QED BY <2>1, <2>3, <1>1, <1>4, <1>6 DEF Session!Close
  <1> QED BY <1>5, <1>6

\* Nothing else writes to the transcript but the student's answer.
LEMMA OthersStutter ==
  ASSUME [Next]_vars, \A a \in Attempts : ~(Send(a) /\ holder = a), ~StudentAnswers
  PROVE  UNCHANGED <<steps, state, assessment>>
  <1>1. ASSUME NEW a \in Attempts,
               Claim(a) \/ TokensRefused(a) \/ CallFails(a) \/ AnswerToReview(a) \/ AnswerToAssessment(a)
                 \/ GiveUp(a) \/ Crash(a)
        PROVE  UNCHANGED <<steps, state, assessment>>
    BY <1>1 DEF Claim, TokensRefused, CallFails, AnswerToReview, AnswerToAssessment, GiveUp, Crash,
       session
  <1>2. ASSUME NEW a \in Attempts, Send(a)
        PROVE  UNCHANGED <<steps, state, assessment>>
    BY <1>2 DEF Send, session
  <1>3. Expire \/ UNCHANGED vars => UNCHANGED <<steps, state, assessment>>
    BY DEF Expire, vars, session
  <1> QED BY <1>1, <1>2, <1>3 DEF Next

\* The review session implements its transcript: the attempts with their
\* leases, crashes and failing providers never add anything to it but a step
\* after each answer, and never take back what was observed.
THEOREM SessionRefinement == Spec => TranscriptSpec
  <1>1. Init => Session!Init
    <2> SUFFICES ASSUME Init PROVE Session!Init
      OBVIOUS
    <2>1. Known(steps) = {}
      BY DEF Init, Known, Firsts, Observed
    <2> QED BY <2>1 DEF Init, NoAssessment, Session!Init
  <1>2. IInv /\ Content /\ [Next]_vars => [Session!Next]_(Session!tvars)
    <2> SUFFICES ASSUME IInv, Content, [Next]_vars PROVE [Session!Next]_(Session!tvars)
      OBVIOUS
    <2>1. Shape' /\ Content'
      BY StepsSound, ContentSteps DEF IInv
    <2>2. ASSUME NEW a \in Attempts, Send(a), holder = a PROVE Session!Next
      BY <2>1, <2>2, AcceptedRefines DEF Session!Next
    <2>3. CASE StudentAnswers
      BY <2>3 DEF StudentAnswers, Session!Next, Session!Answer
    <2>4. CASE UNCHANGED <<steps, state, assessment>>
      BY <2>4 DEF Session!tvars
    <2> QED BY <2>2, <2>3, <2>4, OthersStutter
  <1> QED BY <1>1, <1>2, Sound, ContentSound, PTL DEF Spec, TranscriptSpec, Session!Spec
=============================================================================
