---------------------------- MODULE LedgerQuestions ----------------------------
(***************************************************************************)
(* audit/ask.py over the audit chain that the service keeps writing to:    *)
(* `python -m revrecover.audit ask` (audit/__main__.py) is a process of    *)
(* its own with its own connection, so that it reads what is committed.    *)
(* The answer of the model comes later, when the file has gone on.         *)
(***************************************************************************)
EXTENDS AuditChain

CONSTANT CaseIds

\* A content names its case; what else it says is left open.
ASSUME ContentsAssumption == \A content \in Contents : content.case \in CaseIds

VARIABLES
  question,       \* the case asked about and the seqs of its records, or none
  answer          \* the last answer given: its case and the seqs it cites

qvars == <<vars, question, answer>>

NoQuestion == [case |-> None, known |-> {}]

SeqsOf(table, case) ==
  {table[i].seq : i \in {j \in DOMAIN table : table[j].content.case = case}}

QuestionsInit ==
  /\ Init
  /\ question = NoQuestion
  /\ answer = [case |-> None, cited |-> {}]

RecordsForCase(case) == SeqsOf(disk, case)

\* LedgerAnalyst.ask looks the case up; of a case without records it knows
\* nothing, and says so without asking the model.
Ask(case) ==
  /\ question = NoQuestion /\ RecordsForCase(case) # {}
  /\ question' = [case |-> case, known |-> RecordsForCase(case)]
  /\ UNCHANGED <<vars, answer>>

\* Mutated form of Valid: what the model cites is not looked up.
ValidUnchecked(cited, known) == TRUE

Valid(cited, known) == cited \subseteq known

\* The model's answer, or the timeline of all the records instead: when there
\* is no model, it fails, or it cites what it was not shown.
Answer(fails, cited) ==
  /\ question # NoQuestion
  /\ answer' = [case |-> question.case,
                cited |-> IF ~fails /\ Valid(cited, question.known) THEN cited
                          ELSE question.known]
  /\ question' = NoQuestion
  /\ UNCHANGED vars

QuestionsNext ==
  \/ Next /\ UNCHANGED <<question, answer>>
  \/ \E case \in CaseIds : Ask(case)
  \/ Answer(TRUE, {}) \/ \E cited \in SUBSET (0..MaxRecords) : Answer(FALSE, cited)

QuestionsSpec == QuestionsInit /\ [][QuestionsNext]_qvars

FairQuestionsSpec == QuestionsSpec /\ \A t \in Threads : WF_qvars(Proceed(t) /\ UNCHANGED <<question, answer>>)

-----------------------------------------------------------------------------
\* "Must cite record sequence numbers that actually exist": every seq an answer
\* has cited names a record of that case in the file, and goes on to do so
\* whatever is rolled back, appended or restarted while the model thinks and
\* after it has answered.
CitationsHold == answer.cited \subseteq SeqsOf(disk, answer.case)
=============================================================================
