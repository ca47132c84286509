----------------------------- MODULE LiveLoopProofs ----------------------------
(***************************************************************************)
(* The live recovery loop of LiveLoop gives its verdicts in time and       *)
(* within what the server and the breaker ask of it: for any number of     *)
(* retries, any threshold of the breaker, any timeouts and any order of    *)
(* the server's answers.                                                   *)
(***************************************************************************)
EXTENDS LiveLoop, FiniteSetTheorems, TLAPS

(***************************************************************************)
(* Powers of two, which the provers know nothing of but that a set of k    *)
(* members has 2^k subsets.                                                *)
(***************************************************************************)
LEMMA SubsetsCounted ==
  ASSUME NEW k \in Nat
  PROVE  /\ IsFiniteSet(1..k) /\ IsFiniteSet(SUBSET (1..k))
         /\ Cardinality(SUBSET (1..k)) = 2 ^ k /\ 2 ^ k \in Nat
<1>1. IsFiniteSet(1..k) /\ Cardinality(1..k) = k
  <2>1. IsFiniteSet(1..k) /\ Cardinality(1..k) = IF 1 > k THEN 0 ELSE k - 1 + 1
    BY FS_Interval
  <2>. QED
    BY <2>1
<1>2. IsFiniteSet(SUBSET (1..k)) /\ Cardinality(SUBSET (1..k)) = 2 ^ k
  BY <1>1, FS_SUBSET
<1>. QED
  BY <1>1, <1>2, FS_CardinalityType

LEMMA PowersGrow ==
  ASSUME NEW k \in Nat, NEW n \in Nat, k <= n
  PROVE  2 ^ k <= 2 ^ n
<1>1. SUBSET (1..k) \subseteq SUBSET (1..n)
  OBVIOUS
<1>. DEFINE S == SUBSET (1..n)
            T == SUBSET (1..k)
<1>2. /\ IsFiniteSet(S) /\ Cardinality(S) = 2 ^ n
      /\ Cardinality(T) = 2 ^ k
  BY SubsetsCounted
<1>3. T \in SUBSET S
  BY <1>1
<1>. HIDE DEF S, T
<1>4. Cardinality(T) <= Cardinality(S)
  BY <1>2, <1>3, FS_Subset
<1>. QED
  BY <1>2, <1>4

LEMMA PowersDouble ==
  ASSUME NEW k \in Nat
  PROVE  2 ^ (k + 1) = 2 ^ k + 2 ^ k
<1>. DEFINE without == SUBSET (1..k)
            with == {T \cup {k + 1} : T \in without}
<1>1. without \cup with = SUBSET (1..(k + 1))
  <2>1. 1..(k + 1) = (1..k) \cup {k + 1}
    OBVIOUS
  <2>2. ASSUME NEW U \in SUBSET (1..(k + 1))
        PROVE  U \in without \cup with
    <3>1. U \ {k + 1} \in without
      BY <2>1
    <3>2. k + 1 \in U => U = (U \ {k + 1}) \cup {k + 1}
      OBVIOUS
    <3>3. k + 1 \notin U => U = U \ {k + 1}
      OBVIOUS
    <3>. QED
      BY <3>1, <3>2, <3>3
  <2>3. without \cup with \subseteq SUBSET (1..(k + 1))
    BY <2>1
  <2>. QED
    BY <2>2, <2>3
<1>2. without \cap with = {}
  <2>1. k + 1 \notin 1..k
    OBVIOUS
  <2>. QED
    BY <2>1
<1>3. IsFiniteSet(with) /\ Cardinality(with) = Cardinality(without)
  <2>. DEFINE f == [T \in without |-> T \cup {k + 1}]
  <2>1. f \in Bijection(without, with)
    <3>1. ASSUME NEW S \in without, NEW T \in without, f[S] = f[T]
          PROVE  S = T
      BY <3>1
    <3>2. f \in [without -> with]
      OBVIOUS
    <3>3. \A U \in with : \E T \in without : f[T] = U
      OBVIOUS
    <3>. HIDE DEF without, with, f
    <3>4. f \in Injection(without, with)
      BY <3>1, <3>2 DEF Injection, IsInjective
    <3>5. f \in Surjection(without, with)
      BY <3>2, <3>3 DEF Surjection
    <3>. QED
      BY <3>4, <3>5 DEF Bijection
  <2>2. IsFiniteSet(without)
    BY SubsetsCounted
  <2>3. ExistsBijection(without, with)
    BY <2>1 DEF ExistsBijection
  <2>. HIDE DEF without, with
  <2>. QED
    BY <2>2, <2>3, FS_Bijection
<1>4. /\ IsFiniteSet(without) /\ Cardinality(without) = 2 ^ k
      /\ 2 ^ k \in Nat
  BY SubsetsCounted
<1>5. Cardinality(SUBSET (1..(k + 1))) = 2 ^ (k + 1)
  <2>1. k + 1 \in Nat
    OBVIOUS
  <2>. QED
    BY <2>1, SubsetsCounted, Zenon
<1>. HIDE DEF without, with
<1>6. Cardinality(without \cup with)
        = Cardinality(without) + Cardinality(with) - Cardinality(without \cap with)
  BY <1>3, <1>4, FS_Union
<1>7. Cardinality(without \cap with) = 0
  BY <1>2, FS_EmptySet
<1>8. Cardinality(without \cup with) = 2 ^ k + 2 ^ k
  BY <1>3, <1>4, <1>6, <1>7
<1>. QED
  BY <1>1, <1>5, <1>8, Zenon

(***************************************************************************)
(* The client: one request at a time, one wait at a time.                  *)
(***************************************************************************)
Answers == {"none", "created", "paid", "garbled", "refused", "unavailable", "failed", "open"}

Requests == [pc : {"none", "sent", "handled", "pause", "done"},
             attempt : 0..MaxRetries, answer : Answers]

Typed ==
  /\ now \in Nat /\ until \in Nat /\ now <= until
  /\ failures \in Nat /\ streak \in Nat /\ lastFailed \in Nat
  /\ openedAt \in Nat \cup {Never} /\ req \in Requests
  /\ stage \in {"idle", "create", "fetch", "sleep"}
  /\ deadline \in Nat /\ paidAt \in Nat \cup {Never}

\* An answer is dealt with at the moment it comes, and the loop asks again at
\* the moment it wakes up.
Prompt ==
  /\ req.pc = "none" => req = NoRequest
  /\ stage \in {"idle", "sleep"} => req.pc = "none"
  /\ req.pc = "done" => now = until
  /\ req.pc \in {"sent", "handled"} => until - now <= MaxTravel
  /\ stage = "fetch" /\ req.pc = "none" => now = until

\* Between requests, the breaker knows of the last failure of a long streak;
\* while one is under way it may stand open for the probe.
BreakerInv ==
  /\ failures = streak
  /\ req.pc \in {"none", "done"} /\ streak >= Threshold => openedAt = lastFailed

\* What an answer says of the link, and the verdict drawn from it.
HeardOfLink ==
  /\ req.answer = "paid" => paidAt # Never
  /\ stage = "fetch" /\ req.pc \in {"handled", "done"} /\ req.answer = "created" =>
       paidAt = Never \/ paidAt >= until - MaxTravel
  /\ case = "recovered" => stage = "idle" /\ paidAt # Never
  /\ case = "abandoned" =>
       /\ stage = "idle" /\ now >= deadline
       /\ paidAt = Never \/ paidAt >= deadline - MaxTravel

\* The ticks that may have gone by before attempt k of a request is sent.
Spent(k) == k * (2 * MaxTravel) + 2 ^ k - 1 + k

\* The last moment before which the wait of a fetch is over.
Latest == deadline + PollInterval

InTime ==
  /\ stage = "sleep" => until <= Latest
  /\ stage = "fetch" =>
       /\ req.pc = "none" => until <= Latest
       /\ req.pc = "sent" => until <= Latest + Spent(req.attempt) + MaxTravel
       /\ req.pc = "handled" => until <= Latest + Spent(req.attempt) + 2 * MaxTravel
       /\ req.pc = "pause" => until <= Latest + Spent(req.attempt)
       /\ req.pc = "done" => until <= Latest + RequestTime

LoopInv == Typed /\ Prompt /\ BreakerInv /\ HeardOfLink /\ InTime

\* How the ticks add up.
LEMMA SpentAdds ==
  ASSUME NEW k \in 0..MaxRetries
  PROVE  /\ Spent(k) \in Nat /\ 2 ^ k \in Nat /\ Spent(0) = 0
         /\ Spent(k + 1) = Spent(k) + 2 * MaxTravel + 2 ^ k + 1
         /\ Spent(k) + 2 * MaxTravel <= RequestTime
         /\ RequestTime \in Nat
<1>1. k \in Nat /\ MaxRetries \in Nat /\ MaxTravel \in Nat /\ k <= MaxRetries
  BY ClientAssumption
<1>2. /\ 2 ^ k \in Nat /\ 2 ^ MaxRetries \in Nat /\ 2 ^ k <= 2 ^ MaxRetries
      /\ 2 ^ (k + 1) = 2 ^ k + 2 ^ k /\ 2 ^ 0 <= 2 ^ k /\ 2 ^ 0 = 1
  <2>1. 0 \in Nat /\ 0 <= k
    BY <1>1
  <2>2. 2 ^ 0 = 1
    OBVIOUS
  <2>. QED
    BY <1>1, <2>1, <2>2, SubsetsCounted, PowersGrow, PowersDouble
<1>. DEFINE trip == 2 * MaxTravel
            p == 2 ^ k
            q == 2 ^ (k + 1)
            top == 2 ^ MaxRetries
<1>3. /\ Spent(k) = k * trip + p - 1 + k
      /\ Spent(k + 1) = (k + 1) * trip + q - 1 + (k + 1)
      /\ RequestTime = (MaxRetries + 1) * 2 * MaxTravel + top - 1 + MaxRetries
  BY DEF Spent, RequestTime
<1>4. (MaxRetries + 1) * 2 * MaxTravel = (MaxRetries + 1) * trip
  BY <1>1
<1>5. /\ p \in Nat /\ p >= 1 /\ top \in Nat /\ p <= top /\ q = p + p /\ trip \in Nat
      /\ trip = 2 * MaxTravel
  BY <1>1, <1>2
<1>6. Spent(0) = 0
  BY <1>1, <1>2 DEF Spent
<1>. HIDE DEF p, q, top, trip
<1>7. /\ (k + 1) * trip = k * trip + trip
      /\ (MaxRetries + 1) * trip = MaxRetries * trip + trip
      /\ k * trip \in Nat /\ MaxRetries * trip \in Nat
  BY <1>1, <1>5
<1>8. k * trip <= MaxRetries * trip
  <2>1. MaxRetries * trip = k * trip + (MaxRetries - k) * trip
    BY <1>1, <1>5
  <2>2. (MaxRetries - k) * trip \in Nat
    BY <1>1, <1>5
  <2>. QED
    BY <1>7, <2>1, <2>2
<1>9. Spent(k) \in Nat /\ Spent(k + 1) = Spent(k) + trip + p + 1
  BY <1>1, <1>3, <1>5, <1>7
<1>10. Spent(k) + trip <= RequestTime /\ RequestTime \in Nat
  BY <1>1, <1>3, <1>4, <1>5, <1>7, <1>8
<1>. QED
  BY <1>5, <1>6, <1>9, <1>10 DEF p, trip

LEMMA LoopInit == Init => LoopInv
BY ClientAssumption
DEF Init, ClientInit, NoRequest, LoopInv, Typed, Prompt, BreakerInv, HeardOfLink, InTime,
    Requests, Answers

LEMMA TickKeeps ==
  ASSUME LoopInv, Tick
  PROVE  LoopInv'
<1>. USE DEF LoopInv, Tick, loopVars, serverVars
<1>1. Typed'
  BY DEF Typed
<1>2. Prompt'
  BY ClientAssumption DEF Typed, Prompt
<1>3. BreakerInv'
  BY DEF BreakerInv
<1>4. HeardOfLink'
  BY DEF Typed, Prompt, HeardOfLink
<1>5. InTime'
  BY DEF Typed, Prompt, InTime, Latest
<1>. QED
  BY <1>1, <1>2, <1>3, <1>4, <1>5

LEMMA PayKeeps ==
  ASSUME LoopInv, Pay
  PROVE  LoopInv'
<1>. USE DEF LoopInv, Pay, clientVars, loopVars
<1>1. Typed' /\ Prompt' /\ BreakerInv' /\ InTime'
  BY DEF Typed, Prompt, BreakerInv, InTime, Latest
<1>2. HeardOfLink'
  <2>1. /\ now \in Nat /\ until \in Nat /\ deadline \in Nat /\ now \in Int
        /\ MaxTravel \in Nat /\ Never \notin Int
    BY ClientAssumption DEF Typed
  <2>2. req.pc \in {"handled", "done"} => now >= until - MaxTravel
    BY <2>1 DEF Prompt
  <2>3. case = "abandoned" => now >= deadline - MaxTravel
    BY <2>1 DEF HeardOfLink
  <2>. QED
    BY <2>1, <2>2, <2>3 DEF HeardOfLink
<1>. QED
  BY <1>1, <1>2

LEMMA RunKeeps ==
  ASSUME LoopInv, Run
  PROVE  LoopInv'
<1>. USE DEF LoopInv, Run, clientVars
<1>1. req = NoRequest
  BY DEF Prompt
<1>2. Typed' /\ BreakerInv' /\ InTime'
  BY DEF Typed, BreakerInv, InTime
<1>3. Prompt' /\ HeardOfLink'
  BY <1>1 DEF Typed, Prompt, HeardOfLink, NoRequest
<1>. QED
  BY <1>2, <1>3

\* The server answers while the request is on its way.
LEMMA HandledKeeps ==
  ASSUME LoopInv, NEW answer \in {"created", "paid", "garbled", "refused", "unavailable"},
         Handled(answer), stage \in {"create", "fetch"},
         answer = "paid" => paidAt # Never,
         stage = "fetch" /\ answer = "created" => paidAt = Never,
         UNCHANGED <<now, loopVars, paidAt>>
  PROVE  LoopInv'
<1>. USE DEF LoopInv, loopVars
<1>1. PICK d \in 0..MaxTravel : until' = now + d
  BY DEF Handled, WaitFor
<1>2. /\ now = until /\ req.pc = "sent" /\ d \in Nat /\ d <= MaxTravel /\ MaxTravel \in Nat
      /\ req \in Requests /\ now \in Nat /\ until' \in Nat
  BY <1>1, ClientAssumption DEF Handled, Waited, Typed
<1>3. /\ req' \in Requests /\ req'.pc = "handled" /\ req'.attempt = req.attempt
      /\ req'.answer = answer
  BY <1>2 DEF Handled, Requests, Answers
<1>4. Typed'
  BY <1>1, <1>2, <1>3 DEF Handled, Typed
<1>5. Prompt'
  BY <1>1, <1>2, <1>3 DEF Prompt
<1>6. BreakerInv'
  BY <1>3 DEF Handled, BreakerInv
<1>7. HeardOfLink'
  BY <1>2, <1>3 DEF HeardOfLink
<1>8. InTime'
  <2>1. stage = "fetch" => until' <= Latest + Spent(req.attempt) + 2 * MaxTravel
    <3>1. req.attempt \in 0..MaxRetries /\ Spent(req.attempt) \in Nat
      BY <1>2, SpentAdds DEF Requests
    <3>2. Latest \in Nat
      BY LoopAssumption DEF Typed, Latest
    <3>3. stage = "fetch" => until <= Latest + Spent(req.attempt) + MaxTravel
      BY <1>2 DEF InTime
    <3>. QED
      BY <1>1, <1>2, <3>1, <3>2, <3>3
  <2>. QED
    BY <1>3, <2>1 DEF InTime, Latest
<1>. QED
  BY <1>4, <1>5, <1>6, <1>7, <1>8

LEMMA HandleCreateKeeps ==
  ASSUME LoopInv, HandleCreate
  PROVE  LoopInv'
BY HandledKeeps DEF HandleCreate

LEMMA HandleFetchKeeps ==
  ASSUME LoopInv, HandleFetch
  PROVE  LoopInv'
BY HandledKeeps DEF HandleFetch, serverVars

\* The answer leaves _request.
LEMMA OutcomeKeeps ==
  ASSUME LoopInv, NEW answer \in Answers, Outcome(answer), Waited,
         stage \in {"create", "fetch"},
         answer = "paid" => req.answer = "paid",
         answer = "created" => req.answer = "created" /\ req.pc = "handled",
         UNCHANGED <<now, until, loopVars, serverVars>>,
         failures' \in Nat, streak' \in Nat, lastFailed' \in Nat,
         openedAt' \in Nat \cup {Never}, BreakerInv',
         stage = "fetch" => until <= Latest + RequestTime
  PROVE  LoopInv'
<1>. USE DEF LoopInv, loopVars, serverVars
<1>1. /\ req \in Requests /\ now = until
  BY DEF Typed, Waited
<1>2. req' \in Requests /\ req'.pc = "done" /\ req'.answer = answer
  BY <1>1 DEF Outcome, Requests
<1>3. Typed' /\ Prompt'
  BY <1>1, <1>2 DEF Typed, Prompt
<1>4. HeardOfLink'
  BY <1>1, <1>2 DEF HeardOfLink
<1>5. InTime'
  BY <1>2 DEF InTime, Latest
<1>. QED
  BY <1>3, <1>4, <1>5

\* Within a request, no attempt is later than all of it may take.
LEMMA WithinRequest ==
  ASSUME LoopInv, stage = "fetch"
  PROVE  until <= Latest + RequestTime
<1>. USE DEF LoopInv
<1>1. req.attempt \in 0..MaxRetries
  BY DEF Typed, Requests
<1>2. /\ Spent(req.attempt) \in Nat /\ Spent(req.attempt) + 2 * MaxTravel <= RequestTime
      /\ RequestTime \in Nat /\ MaxTravel \in Nat
  BY <1>1, SpentAdds, ClientAssumption
<1>3. Latest \in Nat /\ until \in Nat
  BY LoopAssumption DEF Typed, Latest
<1>4. req.pc \in {"none", "sent", "handled", "pause", "done"}
  BY DEF Typed, Requests
<1>. HIDE DEF LoopInv
<1>5. /\ req.pc = "none" => until <= Latest
      /\ req.pc = "sent" => until <= Latest + Spent(req.attempt) + MaxTravel
      /\ req.pc = "handled" => until <= Latest + Spent(req.attempt) + 2 * MaxTravel
      /\ req.pc = "pause" => until <= Latest + Spent(req.attempt)
      /\ req.pc = "done" => until <= Latest + RequestTime
  BY DEF LoopInv, InTime
<1>. QED
  BY <1>2, <1>3, <1>4, <1>5

\* An attempt is sent, the first or a later one.
LEMMA SentKeeps ==
  ASSUME LoopInv, Waited, req.pc \in {"none", "pause"}, stage \in {"create", "fetch"},
         req' = [req EXCEPT !.pc = "sent"], WaitFor(0..MaxTravel),
         UNCHANGED <<now, loopVars, serverVars, failures, streak, lastFailed>>,
         openedAt' \in Nat \cup {Never}
  PROVE  LoopInv'
<1>. USE DEF LoopInv, loopVars, serverVars
<1>1. PICK d \in 0..MaxTravel : until' = now + d
  BY DEF WaitFor
<1>2. /\ now = until /\ d \in Nat /\ d <= MaxTravel /\ MaxTravel \in Nat
      /\ req \in Requests /\ now \in Nat /\ until' \in Nat
  BY <1>1, ClientAssumption DEF Waited, Typed
<1>3. /\ req' \in Requests /\ req'.pc = "sent" /\ req'.attempt = req.attempt
      /\ req'.answer = req.answer
  BY <1>2 DEF Requests
<1>4. Typed'
  BY <1>1, <1>2, <1>3 DEF Typed
<1>5. Prompt' /\ BreakerInv' /\ HeardOfLink'
  BY <1>1, <1>2, <1>3 DEF Prompt, BreakerInv, HeardOfLink
<1>6. stage = "fetch" => until' <= Latest + Spent(req.attempt) + MaxTravel
  <2>1. req.attempt \in 0..MaxRetries /\ Spent(req.attempt) \in Nat
    BY <1>2, SpentAdds DEF Requests
  <2>2. Latest \in Nat
    BY LoopAssumption DEF Typed, Latest
  <2>3. stage = "fetch" => until <= Latest + Spent(req.attempt)
    BY <2>1, <2>2, <1>2 DEF InTime
  <2>. QED
    BY <1>1, <1>2, <2>1, <2>2, <2>3
<1>7. InTime'
  BY <1>3, <1>6 DEF InTime, Latest
<1>. QED
  BY <1>4, <1>5, <1>7

\* A failed attempt is tried again after a pause, or is the request's failure.
LEMMA TryAgainKeeps ==
  ASSUME LoopInv, TryAgain, Waited, stage \in {"create", "fetch"},
         req.pc \in {"sent", "handled"},
         UNCHANGED <<now, loopVars, serverVars>>
  PROVE  LoopInv'
<1>. USE DEF LoopInv, loopVars, serverVars
<1>1. CASE req.attempt < MaxRetries
  <2>1. /\ now = until /\ req \in Requests /\ now \in Nat /\ req.attempt \in 0..MaxRetries
        /\ MaxRetries \in Nat /\ MaxTravel \in Nat /\ req.attempt \in Nat
    BY ClientAssumption DEF Waited, Typed, Requests
  <2>2. PICK d \in Backoff(req.attempt + 1) : until' = now + d
    BY <1>1 DEF TryAgain, WaitFor
  <2>3. (req.attempt + 1) - 1 = req.attempt
    BY <2>1
  <2>4. d \in {2 ^ req.attempt, 2 ^ req.attempt + 1} /\ 2 ^ req.attempt \in Nat
    BY <2>1, <2>2, <2>3, SpentAdds DEF Backoff
  <2>5. d \in Nat /\ d <= 2 ^ req.attempt + 1
    BY <2>4
  <2>6. /\ req' = [pc |-> "pause", attempt |-> req.attempt + 1, answer |-> "none"]
        /\ UNCHANGED <<failures, openedAt, streak, lastFailed>>
    BY <1>1 DEF TryAgain
  <2>7. req' \in Requests
    BY <1>1, <2>1, <2>6 DEF Requests, Answers
  <2>8. Typed' /\ Prompt' /\ BreakerInv' /\ HeardOfLink'
    <3>1. until' \in Nat /\ now <= until'
      BY <2>1, <2>2, <2>5
    <3>2. Typed'
      BY <2>6, <2>7, <3>1 DEF Typed
    <3>3. Prompt'
      BY <2>6 DEF Prompt
    <3>4. BreakerInv' /\ HeardOfLink'
      BY <2>6 DEF BreakerInv, HeardOfLink
    <3>. QED
      BY <3>2, <3>3, <3>4
  <2>9. stage = "fetch" => until' <= Latest + Spent(req.attempt + 1)
    <3>1. Latest \in Nat
      BY LoopAssumption DEF Typed, Latest
    <3>2. /\ Spent(req.attempt + 1) = Spent(req.attempt) + 2 * MaxTravel + 2 ^ req.attempt + 1
          /\ Spent(req.attempt) \in Nat
      BY <2>1, SpentAdds
    <3>3. stage = "fetch" => until <= Latest + Spent(req.attempt) + 2 * MaxTravel
      BY <2>1, <3>1, <3>2 DEF InTime
    <3>. QED
      BY <2>1, <2>2, <2>4, <2>5, <3>1, <3>2, <3>3
  <2>10. InTime'
    BY <2>6, <2>9 DEF InTime, Latest
  <2>. QED
    BY <2>8, <2>10
<1>2. CASE ~(req.attempt < MaxRetries)
  <2>1. Outcome("failed") /\ RecordFailure /\ until' = until
    BY <1>2 DEF TryAgain
  <2>2. req'.pc = "done"
    BY <2>1 DEF Outcome, Typed, Requests
  <2>3. /\ failures' \in Nat /\ streak' \in Nat /\ lastFailed' \in Nat
        /\ openedAt' \in Nat \cup {Never} /\ BreakerInv'
    BY <2>1, <2>2 DEF RecordFailure, Typed, BreakerInv
  <2>. QED
    BY <2>1, <2>3, OutcomeKeeps, WithinRequest DEF Answers
<1>. QED
  BY <1>1, <1>2

LEMMA AdmitKeeps ==
  ASSUME LoopInv, Admit, stage \in {"create", "fetch"},
         UNCHANGED <<now, loopVars, serverVars>>
  PROVE  LoopInv'
<1>1. CASE openedAt # Never /\ now - openedAt < Cooldown
  <2>1. Outcome("open") /\ UNCHANGED <<openedAt, until, failures, streak, lastFailed>>
        /\ Waited /\ req.pc = "none"
    BY <1>1 DEF Admit
  <2>2. BreakerInv'
    BY <2>1 DEF LoopInv, BreakerInv
  <2>3. /\ failures' \in Nat /\ streak' \in Nat /\ lastFailed' \in Nat
        /\ openedAt' \in Nat \cup {Never}
    BY <2>1 DEF LoopInv, Typed
  <2>. QED
    BY <2>1, <2>2, <2>3, OutcomeKeeps, WithinRequest DEF Answers
<1>2. CASE ~(openedAt # Never /\ now - openedAt < Cooldown)
  BY <1>2, SentKeeps DEF Admit
<1>. QED
  BY <1>1, <1>2

LEMMA ResumeKeeps ==
  ASSUME LoopInv, Resume, UNCHANGED <<now, loopVars, serverVars>>
  PROVE  LoopInv'
<1>1. stage \in {"create", "fetch"} /\ openedAt' \in Nat \cup {Never}
  BY DEF Resume, LoopInv, Typed, Prompt
<1>. QED
  BY <1>1, SentKeeps DEF Resume

LEMMA TransportErrorKeeps ==
  ASSUME LoopInv, TransportError, UNCHANGED <<now, loopVars, serverVars>>
  PROVE  LoopInv'
<1>1. stage \in {"create", "fetch"}
  BY DEF TransportError, LoopInv, Typed, Prompt
<1>. QED
  BY <1>1, TryAgainKeeps DEF TransportError

LEMMA ArriveKeeps ==
  ASSUME LoopInv, Arrive, UNCHANGED <<now, loopVars, serverVars>>
  PROVE  LoopInv'
<1>1. stage \in {"create", "fetch"} /\ Waited /\ req.pc = "handled" /\ req \in Requests
  BY DEF Arrive, LoopInv, Typed, Prompt
<1>2. CASE TryAgain
  BY <1>1, <1>2, TryAgainKeeps
<1>3. CASE Outcome("refused") /\ RecordFailure /\ UNCHANGED until
  <2>1. req'.pc = "done"
    BY <1>1, <1>3 DEF Outcome, Requests
  <2>2. /\ failures' \in Nat /\ streak' \in Nat /\ lastFailed' \in Nat
        /\ openedAt' \in Nat \cup {Never} /\ BreakerInv'
    BY <1>3, <2>1 DEF RecordFailure, LoopInv, Typed, BreakerInv
  <2>. QED
    BY <1>1, <1>3, <2>2, OutcomeKeeps, WithinRequest DEF Answers
<1>4. CASE Outcome(req.answer) /\ RecordSuccess /\ UNCHANGED until
  <2>1. /\ failures' \in Nat /\ streak' \in Nat /\ lastFailed' \in Nat
        /\ openedAt' \in Nat \cup {Never} /\ BreakerInv'
    BY <1>4, ClientAssumption DEF RecordSuccess, LoopInv, Typed, BreakerInv
  <2>2. req.answer \in Answers
    BY <1>1 DEF Requests
  <2>. QED
    BY <1>1, <1>4, <2>1, <2>2, OutcomeKeeps, WithinRequest
<1>. QED
  BY <1>2, <1>3, <1>4 DEF Arrive

(***************************************************************************)
(* The loop.                                                               *)
(***************************************************************************)
LEMMA LoopFacts ==
  ASSUME LoopInv
  PROVE  /\ req \in Requests /\ now \in Nat /\ until \in Nat /\ deadline \in Nat
         /\ NoRequest \in Requests /\ PollInterval \in Nat /\ Timeout \in Nat
         /\ MaxTravel \in Nat
BY ClientAssumption, LoopAssumption DEF LoopInv, Typed, NoRequest, Requests, Answers

\* After every way the loop can leave an answer, no request is in hand.
LEMMA SettledKeeps ==
  ASSUME LoopInv, req.pc = "done", req' = NoRequest,
         UNCHANGED <<now, failures, openedAt, streak, lastFailed, paidAt>>,
         stage' \in {"idle", "fetch", "sleep"}, deadline' \in Nat,
         until' \in Nat, now <= until',
         stage' = "fetch" => until' = now,
         stage' # "idle" => until' <= deadline' + PollInterval,
         HeardOfLink'
  PROVE  LoopInv'
<1>1. Typed'
  BY LoopFacts DEF LoopInv, Typed
<1>2. Prompt'
  BY DEF Prompt, NoRequest
<1>3. BreakerInv'
  BY DEF LoopInv, BreakerInv, NoRequest
<1>4. InTime'
  BY DEF InTime, Latest, NoRequest
<1>. QED
  BY <1>1, <1>2, <1>3, <1>4 DEF LoopInv

LEMMA RaisesKeeps ==
  ASSUME LoopInv, Raises
  PROVE  LoopInv'
<1>1. HeardOfLink'
  BY DEF Raises, Settled, serverVars, NoRequest, LoopInv, HeardOfLink
<1>. QED
  BY <1>1, LoopFacts, SettledKeeps DEF Raises, Settled, serverVars, LoopInv, Typed

LEMMA LinkIssuedKeeps ==
  ASSUME LoopInv, LinkIssued
  PROVE  LoopInv'
<1>1. HeardOfLink'
  BY DEF LinkIssued, Settled, serverVars, NoRequest, HeardOfLink
<1>2. now = until /\ deadline' = now + Timeout /\ until' = until /\ stage' = "fetch"
  BY DEF LinkIssued, Settled, LoopInv, Prompt
<1>3. until' <= deadline' + PollInterval /\ deadline' \in Nat
  BY <1>2, LoopFacts
<1>. QED
  BY <1>1, <1>2, <1>3, LoopFacts, SettledKeeps DEF LinkIssued, Settled, serverVars

LEMMA SeenPaidKeeps ==
  ASSUME LoopInv, SeenPaid
  PROVE  LoopInv'
<1>1. HeardOfLink'
  BY DEF SeenPaid, Settled, Close, serverVars, NoRequest, LoopInv, HeardOfLink
<1>. QED
  BY <1>1, LoopFacts, SettledKeeps DEF SeenPaid, Settled, Close, serverVars, LoopInv, Typed

LEMMA SeenUnpaidKeeps ==
  ASSUME LoopInv, SeenUnpaid
  PROVE  LoopInv'
<1>1. /\ now = until /\ stage = "fetch" /\ req.pc = "done" /\ req.answer = "created"
      /\ paidAt = Never \/ paidAt >= until - MaxTravel
      /\ case # "recovered" /\ case # "abandoned"
  BY DEF SeenUnpaid, LoopInv, Prompt, HeardOfLink
<1>2. CASE now >= deadline
  <2>1. paidAt = Never \/ paidAt >= deadline - MaxTravel
    BY <1>1, <1>2, LoopFacts DEF LoopInv, Typed
  <2>2. HeardOfLink'
    BY <1>2, <2>1 DEF SeenUnpaid, Close, serverVars, NoRequest, HeardOfLink
  <2>. QED
    BY <1>1, <1>2, <2>2, LoopFacts, SettledKeeps
    DEF SeenUnpaid, Close, serverVars, LoopInv, Typed
<1>3. CASE ~(now >= deadline)
  <2>1. /\ stage' = "sleep" /\ until' = now + PollInterval /\ deadline' = deadline
        /\ case' = case
    BY <1>3 DEF SeenUnpaid
  <2>2. HeardOfLink'
    BY <1>1, <2>1 DEF SeenUnpaid, serverVars, NoRequest, HeardOfLink
  <2>3. until' <= deadline' + PollInterval /\ until' \in Nat /\ now <= until'
    BY <1>3, <2>1, LoopFacts
  <2>. QED
    BY <1>1, <2>1, <2>2, <2>3, LoopFacts, SettledKeeps DEF SeenUnpaid, serverVars
<1>. QED
  BY <1>2, <1>3

LEMMA WakeKeeps ==
  ASSUME LoopInv, Wake
  PROVE  LoopInv'
BY DEF Wake, Waited, clientVars, serverVars, LoopInv, Typed, Prompt, BreakerInv, HeardOfLink,
       InTime, Latest

LEMMA LoopInvStep == LoopInv /\ [Next]_vars => LoopInv'
<1>. SUFFICES ASSUME LoopInv, [Next]_vars PROVE LoopInv'
  OBVIOUS
<1>1. CASE Client
  BY <1>1, AdmitKeeps, ResumeKeeps, TransportErrorKeeps, ArriveKeeps DEF Client, ClientStep
<1>2. CASE UNCHANGED vars
  BY <1>2
  DEF vars, clientVars, loopVars, serverVars, LoopInv, Typed, Prompt, BreakerInv,
      HeardOfLink, InTime, Latest
<1>. QED
  BY <1>1, <1>2, TickKeeps, PayKeeps, RunKeeps, HandleCreateKeeps, HandleFetchKeeps,
     RaisesKeeps, LinkIssuedKeeps, SeenPaidKeeps, SeenUnpaidKeeps, WakeKeeps
  DEF Next, Loop, Rest

(***************************************************************************)
(* What the loop promises.                                                 *)
(***************************************************************************)
\* However slow the requests and whenever the customer pays: recovered only if
\* the link was paid, abandoned only if it was not paid before the deadline less
\* the time the last answer took to come.
THEOREM VerdictAlwaysFits == Spec => []VerdictFits
<1>1. LoopInv => VerdictFits
  BY DEF LoopInv, HeardOfLink, VerdictFits
<1>. QED
  BY <1>1, LoopInit, LoopInvStep, PTL DEF Spec

\* Whatever is slow, lost or refused, for any retries, timeout and interval: a
\* run is over one sleep and one whole request after its deadline.
THEOREM AlwaysEndsInTime == Spec => []EndsInTime
<1>1. LoopInv => EndsInTime
  <2>. SUFFICES ASSUME LoopInv, stage \in {"fetch", "sleep"}
                PROVE  now <= deadline + PollInterval + RequestTime
    BY DEF EndsInTime
  <2>1. RequestTime \in Nat
    BY SpentAdds, ClientAssumption
  <2>2. until <= Latest + RequestTime
    <3>1. CASE stage = "fetch"
      BY <3>1, WithinRequest
    <3>2. CASE stage = "sleep"
      BY <2>1, <3>2, LoopFacts DEF LoopInv, InTime, Latest
    <3>. QED
      BY <3>1, <3>2
  <2>. QED
    BY <2>1, <2>2, LoopFacts DEF Latest, LoopInv, Typed
<1>. QED
  BY <1>1, LoopInit, LoopInvStep, PTL DEF Spec

\* Over any number of runs and requests: once Threshold of them have failed in a
\* row, nothing is sent within the cooldown of the last failure, the probe that
\* failed included.
THEOREM ServerIsLeftAlone == Spec => ServerLeftAlone
<1>1. LoopInv /\ [Next]_vars
        => [req.pc = "none" /\ req'.pc = "sent" /\ streak >= Threshold
              => now - lastFailed >= Cooldown]_<<clientVars, now>>
  <2>. SUFFICES ASSUME LoopInv, Next, req.pc = "none", req'.pc = "sent", streak >= Threshold
                PROVE  now - lastFailed >= Cooldown
    BY DEF vars
  <2>1. Admit
    BY DEF Next, Tick, Pay, Run, Loop, HandleCreate, HandleFetch, Handled, Client, ClientStep,
           Resume, TransportError, Arrive, Raises, LinkIssued, SeenPaid, SeenUnpaid, Wake,
           Rest, Settled, vars, clientVars
  <2>2. openedAt = lastFailed /\ openedAt # Never
    BY ClientAssumption DEF LoopInv, BreakerInv, Typed
  <2>3. ~(now - openedAt < Cooldown)
    BY <2>1, <2>2, LoopFacts DEF Admit, Outcome, LoopInv, Typed, Requests
  <2>. QED
    BY <2>2, <2>3, ClientAssumption DEF LoopInv, Typed
<1>. QED
  BY <1>1, LoopInit, LoopInvStep, PTL DEF Spec, ServerLeftAlone
=============================================================================
