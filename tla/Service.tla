-------------------------------- MODULE Service --------------------------------
(***************************************************************************)
(* gateway/pipeline.py, RecoveryService: the recovery flow as the handler  *)
(* of the event bus.  One worker drains the bus, statement by statement,   *)
(* as /admin/process calls it; while it handles an entry, the case of that *)
(* entry takes the steps of run_case, and an exception leaves both.  The   *)
(* gateway takes cases in at any moment.  A new process finds the audit    *)
(* trail of the old one and nothing else: bus, event ledger, Customer-360, *)
(* budget and results live in memory.                                      *)
(***************************************************************************)
EXTENDS RecoveryFlow

CONSTANT MaxRestarts    \* bound on restarts

VARIABLES
  stream,         \* the case of each entry of the stream
  published, cursor, pending, pc, seen, index, handled, acked,    \* EventBus
  batch,          \* results of the process_pending under way, as entries
  results,        \* RecoveryService.results, as entries
  restarts

Worker == "worker"

Bus == INSTANCE EventBus
  WITH Consumers <- {Worker}, MaxEntries <- Cardinality(Cases),
       MaxFailures <- MaxCrashes, failures <- crashes

busVars == <<published, cursor, pending, pc, seen, index, handled, acked>>
svars == <<vars, stream, busVars, batch, results, restarts>>

\* What process_pending hands to run_case, and what the payload keeps of a
\* case: no cell, no chooser, no diagnostician, no executor.
OverTheBus(i) ==
  /\ i.cell = None /\ i.channel = None /\ i.preferred = None
  /\ ~i.llm /\ ~i.executor /\ ~i.dryRun

\* The event ledger lets a case id pass once and a single worker handles an
\* entry at a time: every case id has one Case object.
ServiceInit ==
  /\ Init /\ Bus!Init
  /\ \A c \in Cases : OverTheBus(info[c]) /\ info[c].id = c
  /\ stream = <<>> /\ batch = <<>> /\ results = <<>>
  /\ restarts = 0

OnStream(c) == \E i \in DOMAIN stream : stream[i] = c

\* The intake of the gateway: the event ledger lets a case pass once.
TakeIn(c) ==
  /\ ~OnStream(c)
  /\ Bus!Publish
  /\ stream' = Append(stream, c)
  /\ UNCHANGED <<vars, batch, results, restarts>>

Fetch ==
  /\ Bus!Call(Worker) \/ Bus!Claiming(Worker) \/ Bus!Claimed(Worker) \/ Bus!Look(Worker)
     \/ Bus!Take(Worker) \/ Bus!GetEntry(Worker) \/ Bus!Ack(Worker)
  /\ UNCHANGED <<vars, stream, batch, results, restarts>>

Entry == index[Worker]
InHand(c) == pc[Worker] = "handling" /\ stream[Entry + 1] = c

\* The case in hand goes on in run_case.
Work(c) ==
  /\ InHand(c)
  /\ Start(c) \/ Handle(c)
  /\ UNCHANGED <<stream, busVars, batch, results, restarts>>

RunReturns(c) ==
  /\ InHand(c) /\ run[c].pc = "done"
  /\ Bus!HandlerReturns(Worker)
  /\ batch' = Append(batch, Entry)
  /\ UNCHANGED <<vars, stream, results, restarts>>

\* The exception takes the results of the cases before it along.
RunRaises(c) ==
  /\ InHand(c)
  /\ Crash(c) /\ Bus!HandlerRaises(Worker)
  /\ batch' = <<>>
  /\ UNCHANGED <<stream, results, restarts>>

\* Mutated form of Report: the results of the call are kept for the next one.
ReportKeeping ==
  /\ Bus!Return(Worker)
  /\ results' = results \o batch
  /\ UNCHANGED <<vars, stream, batch, restarts>>

\* The bus has run empty: process_pending returns what it has done.
Report ==
  /\ Bus!Return(Worker)
  /\ results' = results \o batch
  /\ batch' = <<>>
  /\ UNCHANGED <<vars, stream, restarts>>

Restart ==
  /\ restarts < MaxRestarts
  /\ restarts' = restarts + 1
  /\ run' = [c \in Cases |-> Fresh(info[c])]
  /\ contacts' = [u \in Customers |-> <<>>] /\ optOuts' = {}
  /\ affinity' = [u \in Customers |-> None] /\ budget' = <<>>
  /\ published' = 0 /\ cursor' = 0 /\ pending' = <<>>
  /\ pc' = [k \in {Worker} |-> "idle"]
  /\ seen' = [k \in {Worker} |-> 0] /\ index' = [k \in {Worker} |-> 0]
  /\ handled' = <<>> /\ acked' = <<>>
  /\ stream' = <<>> /\ batch' = <<>> /\ results' = <<>>
  /\ UNCHANGED <<info, trail, declined, acted, marked, crashes>>

Process ==
  Fetch \/ Report \/ \E c \in Cases : Work(c) \/ RunReturns(c) \/ RunRaises(c)

ServiceNext == (\E c \in Cases : TakeIn(c)) \/ Process \/ Restart

ServiceSpec == ServiceInit /\ [][ServiceNext]_svars

\* The operator keeps calling /admin/process; no event has to arrive.
FairServiceSpec == ServiceSpec /\ WF_svars(Process)

-----------------------------------------------------------------------------
\* The actions carried out on one day, of all the cases and of all the processes,
\* are within daily_action_budget for each process there has been: a redelivery
\* does not exceed it, and a restart brings the budget back once, no more.
BudgetPerProcess == \A d \in DOMAIN acted : acted[d] <= (restarts + 1) * DailyBudget

\* An entry is acknowledged only when its case is closed and the audit trail
\* ends with the OUTCOME that says how, whatever was raised and redelivered
\* before and although an earlier process may have closed the case already.
AckedIsClosed ==
  \A i \in DOMAIN acked :
    LET c == stream[acked[i] + 1]
    IN /\ run[c].pc = "done" /\ trail[c] # <<>>
       /\ trail[c][Len(trail[c])] = Record("OUTCOME", 0, run[c].state)

\* However often run_case raises: no case is skipped, doubled or overtaken on
\* its way over the bus, and handlers return in the order of the intake.
StreamInOrder == Bus!NothingSkipped /\ Bus!HandledInOrderOnce

\* The cases that the dashboard and its recovered total show are closed ones,
\* each once, and all of them if no handler has raised: an exception loses the
\* results of the call, never doubles them.
ShownOnce ==
  /\ \A i \in DOMAIN results :
       /\ \E j \in DOMAIN acked : acked[j] = results[i]
       /\ \A j \in 1..(i - 1) : results[j] < results[i]
  /\ crashes = 0 /\ pc[Worker] = "idle" => Len(results) = Len(acked)

\* A stored opt-out holds for every case and every redelivery for as long as
\* the process lives.  Only a restart forgets it.
OptOutOutlivesCases ==
  [][restarts' = restarts => \A u \in optOuts : contacts'[u] = contacts[u]]_svars

\* A case that was taken in is in the end closed and acknowledged, unless a
\* restart empties the bus: no exception makes it stick or drop.
TakenInIsClosed ==
  \A c \in Cases :
    OnStream(c) ~> \/ ~OnStream(c)
                   \/ run[c].pc = "done" /\ \E i \in DOMAIN acked : stream[acked[i] + 1] = c
=============================================================================
