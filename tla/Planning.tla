------------------------------- MODULE Planning -------------------------------
(***************************************************************************)
(* The pure decisions between detection and the first action: the          *)
(* recoverability score (detection/scorer.py), the expected-value ranking  *)
(* (policy/ev.py) and the validation of the model's diagnosis              *)
(* (diagnosis/diagnostician.py).  A probability is a whole percentage, and *)
(* an expected value times 100 an integer.  The code multiplies floats,    *)
(* which matters only for a product that falls on half a rupee: the two    *)
(* constants name those that come out on one side of it.  A case is a      *)
(* record with its type, code and amount in rupees.                        *)
(***************************************************************************)
EXTENDS Domain

CONSTANTS
  PursueFloor,      \* pursue_floor, in percent
  HalvesAbove,      \* pairs <<p, amount>> whose float product is above the half
  HalvesBelow       \* ... and those whose float product is below it

ASSUME PursueFloorAssumption == PursueFloor \in 0..100

HardCodes == {"CARD_BLOCKED", "ACCOUNT_CLOSED", "FRAUD_SUSPECTED"}

SoftPrior ==
  [INSUFFICIENT_FUNDS |-> [p |-> 68, playbook |-> "dunning"],
   ISSUER_UNAVAILABLE |-> [p |-> 85, playbook |-> "smart_retry"],
   GATEWAY_TIMEOUT    |-> [p |-> 82, playbook |-> "smart_retry"],
   CARD_EXPIRED       |-> [p |-> 50, playbook |-> "update_method"]]

CaseTypePlaybook ==
  [overdue_invoice    |-> [p |-> 55, playbook |-> "receivables"],
   checkout_abandoned |-> [p |-> 25, playbook |-> "checkout_recovery"]]

Prior(case) ==
  CASE case.code \in HardCodes -> [p |-> 0, playbook |-> "none"]
    [] case.code \notin HardCodes /\ case.type \in DOMAIN CaseTypePlaybook ->
         CaseTypePlaybook[case.type]
    [] case.code \notin HardCodes /\ case.type \notin DOMAIN CaseTypePlaybook
         /\ case.code \in DOMAIN SoftPrior -> SoftPrior[case.code]
    [] OTHER -> [p |-> 30, playbook |-> "manual_review"]

\* Mutated form of Pursued: the floor alone decides, hard codes included.
PursuedAnyCode(case) == case.code \in HardCodes \/ Prior(case).p >= PursueFloor

Pursued(case) == case.code \notin HardCodes /\ Prior(case).p >= PursueFloor

ContactCost == 12
RetryCost == 4
AnnoyanceCost == 8

\* Mutated form of PlaybookShape: the table lags behind the playbooks.
PlaybookShapeStale ==
  [dunning           |-> [contacts |-> 2, retries |-> 1],
   smart_retry       |-> [contacts |-> 0, retries |-> 2],
   update_method     |-> [contacts |-> 3, retries |-> 0],
   receivables       |-> [contacts |-> 2, retries |-> 0],
   checkout_recovery |-> [contacts |-> 2, retries |-> 0]]

\* playbook -> how many contacts and how many retries it holds.
PlaybookShape ==
  [dunning           |-> [contacts |-> 2, retries |-> 1],
   smart_retry       |-> [contacts |-> 1, retries |-> 2],
   update_method     |-> [contacts |-> 3, retries |-> 0],
   receivables       |-> [contacts |-> 3, retries |-> 0],
   checkout_recovery |-> [contacts |-> 2, retries |-> 0]]

PlaybookCost(playbook) ==
  PlaybookShape[playbook].contacts * (ContactCost + AnnoyanceCost)
    + PlaybookShape[playbook].retries * RetryCost

\* Python's round of n / 100: to the nearest integer, an exact half to the
\* even one.
RoundPercent(n, halfUp, halfDown) ==
  LET floor == n \div 100
      rest == n % 100
      up == rest > 50 \/ (rest = 50 /\ (halfUp \/ (~halfDown /\ floor % 2 = 1)))
  IN IF up THEN floor + 1 ELSE floor

ExpectedValue(p, amount, playbook) ==
  RoundPercent(p * amount - 100 * PlaybookCost(playbook),
               <<p, amount>> \in HalvesAbove, <<p, amount>> \in HalvesBelow)

Candidate(p, playbook) == [p |-> p, playbook |-> playbook]

\* The declared priors per error code and per case type, in dictionary order.
CodeCandidates ==
  [INSUFFICIENT_FUNDS |-> <<Candidate(68, "dunning"), Candidate(35, "smart_retry"),
                            Candidate(30, "update_method")>>,
   ISSUER_UNAVAILABLE |-> <<Candidate(85, "smart_retry"), Candidate(55, "dunning")>>,
   GATEWAY_TIMEOUT    |-> <<Candidate(82, "smart_retry"), Candidate(50, "dunning")>>,
   CARD_EXPIRED       |-> <<Candidate(50, "update_method"), Candidate(25, "dunning")>>]

CaseTypeCandidates ==
  [overdue_invoice    |-> <<Candidate(55, "receivables")>>,
   checkout_abandoned |-> <<Candidate(25, "checkout_recovery")>>]

Candidates(case) ==
  CASE case.type \in DOMAIN CaseTypeCandidates -> CaseTypeCandidates[case.type]
    [] case.type \notin DOMAIN CaseTypeCandidates
         /\ case.code \in DOMAIN CodeCandidates -> CodeCandidates[case.code]
    [] OTHER -> <<>>

CandidateEV(case, i) ==
  ExpectedValue(Candidates(case)[i].p, case.amount, Candidates(case)[i].playbook)

\* max(evs, key=evs.get): the first of the candidates with the highest EV.
IsBest(case, i) ==
  \A j \in DOMAIN Candidates(case) :
     \/ CandidateEV(case, j) < CandidateEV(case, i)
     \/ CandidateEV(case, j) = CandidateEV(case, i) /\ j >= i

\* The candidate rank_interventions marks as chosen, as a set of at most one.
Chosen(case) ==
  {i \in DOMAIN Candidates(case) : IsBest(case, i) /\ CandidateEV(case, i) > 0}

KnownPlaybooks == PlaybookNames \cup {"manual_review"}

ConfidenceFloor == 60

\* A parsed answer of the model; out of range and unknown values included.
\* wellFormed is false when the call fails, the JSON does not parse, a field
\* is missing, the failure class is unknown or a narrative field is blank.
ValidAnswer(answer) ==
  /\ answer.wellFormed
  /\ answer.playbook \in KnownPlaybooks
  /\ answer.odds \in 0..100
  /\ answer.confidence \in 0..100

\* Diagnostician.diagnose: anything but a valid, confident answer degrades to
\* the rule engine's prior.
Diagnosis(case, answer) ==
  IF ValidAnswer(answer) /\ answer.confidence >= ConfidenceFloor
  THEN [p |-> answer.odds, playbook |-> answer.playbook]
  ELSE Prior(case)

\* The plan run_case works with when no diagnostician is wired.
RulePlan(case) ==
  [p |-> Prior(case).p,
   playbook |-> IF Chosen(case) = {} THEN Prior(case).playbook
                ELSE Candidates(case)[CHOOSE i \in Chosen(case) : TRUE].playbook]

\* The EV gate of run_case: only a playbook with steps is priced.
LosesMoney(case, plan) ==
  plan.playbook \in PlaybookNames
    /\ ExpectedValue(plan.p, case.amount, plan.playbook) <= 0
=============================================================================
