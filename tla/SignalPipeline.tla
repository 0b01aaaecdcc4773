--------------------------- MODULE SignalPipeline ---------------------------
(***************************************************************************)
(* The path of a swap signal through arb-cli/src/main.rs: the feed task    *)
(* (ForgeFeed), the select! loop that also serves price quotes, the        *)
(* analyzer (arb-detect/src/swap_analyzer.rs), the task spawned for an     *)
(* actionable signal, which joins an observation and a triggered scan, and *)
(* the rows these write to Postgres.                                       *)
(*                                                                         *)
(* What a scan finds and what a quote leads to are nondeterministic here:  *)
(* LocalScanner and SpreadDetector model them.                             *)
(***************************************************************************)
EXTENDS ForgeFeed, Bags

CONSTANTS
  Jupiter,        \* the platform whose swaps are already routed
  MinSignalSol,   \* --min-signal-sol, in the unit of the amounts
  QuoteCap,       \* capacity of the quote channel (5000)
  MaxDbFailures   \* bound on the failed inserts of a behaviour

ASSUME PipelineAssumption ==
  /\ Jupiter \in Platforms
  /\ MinSignalSol \in Nat /\ QuoteCap \in Nat \ {0} /\ MaxDbFailures \in Nat

VARIABLES
  loop,         \* where the main loop is suspended
  current,      \* the signal the loop is storing, if any
  quotes,       \* number of quotes in the quote channel
  quoteSenders, \* are there poller or monitor tasks holding a sender?
  quotesAlive,  \* quotes_alive
  triggered,    \* triggered_count
  scan,         \* per signal: step of its scan future
  obs,          \* per signal: step of its observation future
  verdict,      \* per signal: what its scan returned
  rows,         \* the bag of the rows in the database
  lostRows      \* the bag of inserts that failed; the errors are logged or dropped

loopVars == <<loop, current, quotes, quoteSenders, quotesAlive, triggered>>
taskVars == <<scan, obs, verdict>>
dbVars == <<rows, lostRows>>
allVars == <<vars, loopVars, taskVars, dbVars>>

Verdicts == {"profitable", "unprofitable", "failed"}
(* A row of signal id.  Of a signal row, value is the pair of its columns  *)
(* triggered and profitable: "ignored" is (false, None), "failed" (true,   *)
(* None), the other verdicts (true, Some).  Of a simulation and an         *)
(* execution it is the sign of the profit they hold.                       *)
Row == [table : {"signal", "simulation", "execution", "observation"},
        id : Ids, value : Verdicts \union {"ignored", "observed"}]
RowOf(table, n, value) == [table |-> table, id |-> n, value |-> value]

(* The rows the inserts of queries.rs build.                               *)
SignalRow(n) == RowOf("signal", n, verdict[n])
IgnoredRow(n) == RowOf("signal", n, "ignored")
SimulationRow(n) == RowOf("simulation", n, verdict[n])
ExecutionRow(n) == RowOf("execution", n, verdict[n])
ObservationRow(n) == RowOf("observation", n, "observed")

(* An insert succeeds or fails: connection lost, pool of 5 exhausted...    *)
(* Nothing in the tables keeps a second row of a signal out.               *)
Insert(row) ==
  \/ rows' = rows (+) SetToBag({row}) /\ UNCHANGED lostRows
  \/ /\ Cardinality(BagToSet(lostRows)) < MaxDbFailures
     /\ lostRows' = lostRows (+) SetToBag({row})
     /\ UNCHANGED rows

(* SwapAnalyzer::analyze returns a ScanRequest.                            *)
Actionable(sig) == sig.sol >= MinSignalSol /\ sig.platform # Jupiter

-----------------------------------------------------------------------------
PipelineInit ==
  /\ Init
  /\ loop = "select"
  /\ current = <<>>
  /\ quotes = 0
  /\ quoteSenders \in BOOLEAN
  /\ quotesAlive = TRUE
  /\ triggered = 0
  /\ scan = [n \in Ids |-> "none"]
  /\ obs = [n \in Ids |-> "none"]
  /\ verdict = [n \in Ids |-> "none"]
  /\ rows = EmptyBag
  /\ lostRows = EmptyBag

(* Faulty variant: the trigger counter is shown but never incremented.     *)
NoCount == UNCHANGED triggered
CountTrigger == triggered' = triggered + 1

(* The signal arm of select!, when the signal is actionable: the task is   *)
(* spawned before the loop selects again.                                  *)
Spawn ==
  LET sig == Head(chan)
  IN  /\ loop = "select"
      /\ Receive
      /\ Actionable(sig)
      /\ CountTrigger
      /\ scan' = [scan EXCEPT ![sig.id] = "scanning"]
      /\ obs' = [obs EXCEPT ![sig.id] = "observing"]
      /\ UNCHANGED <<feedVars, loop, current, quotes, quoteSenders, quotesAlive,
                     verdict, dbVars>>

(* Faulty variant: a signal that is not actionable is dropped unrecorded.  *)
IgnoreUnstored ==
  /\ loop = "select"
  /\ Receive
  /\ ~Actionable(Head(chan))
  /\ UNCHANGED <<feedVars, loopVars, taskVars, dbVars>>

(* ... and when it is not: the loop itself awaits the insert.              *)
Ignore ==
  /\ loop = "select"
  /\ Receive
  /\ ~Actionable(Head(chan))
  /\ loop' = "storing"
  /\ current' = <<Head(chan)>>
  /\ UNCHANGED <<feedVars, quotes, quoteSenders, quotesAlive, triggered, taskVars, dbVars>>

(* Faulty variant: the loop puts the signal back instead of storing it.    *)
Requeue ==
  /\ loop = "storing"
  /\ chan' = Append(chan, current[1])
  /\ loop' = "select"
  /\ current' = <<>>
  /\ UNCHANGED <<feedVars, taken, quotes, quoteSenders, quotesAlive, triggered,
                 taskVars, dbVars>>

StoreIgnored ==
  /\ loop = "storing"
  /\ Insert(IgnoredRow(current[1].id))
  /\ loop' = "select"
  /\ current' = <<>>
  /\ UNCHANGED <<vars, quotes, quoteSenders, quotesAlive, triggered, taskVars>>

(* The quote arm: snapshot insert, detection, opportunity insert.          *)
TakeQuote ==
  /\ loop = "select"
  /\ quotesAlive
  /\ quotes > 0
  /\ quotes' = quotes - 1
  /\ loop' = "snapshot"
  /\ UNCHANGED <<vars, current, quoteSenders, quotesAlive, triggered, taskVars, dbVars>>

Detect ==
  /\ loop = "snapshot"
  /\ loop' \in {"select", "opportunity"}
  /\ UNCHANGED <<vars, current, quotes, quoteSenders, quotesAlive, triggered,
                 taskVars, dbVars>>

StoreOpportunity ==
  /\ loop = "opportunity"
  /\ loop' = "select"
  /\ UNCHANGED <<vars, current, quotes, quoteSenders, quotesAlive, triggered,
                 taskVars, dbVars>>

(* quote_rx.recv() returns None: the arm is disabled for good.             *)
QuotesClosed ==
  /\ loop = "select"
  /\ quotesAlive
  /\ quotes = 0
  /\ ~quoteSenders
  /\ quotesAlive' = FALSE
  /\ UNCHANGED <<vars, loop, current, quotes, quoteSenders, triggered, taskVars, dbVars>>

SendQuote ==
  /\ quoteSenders
  /\ quotes < QuoteCap
  /\ quotes' = quotes + 1
  /\ UNCHANGED <<vars, loop, current, quoteSenders, quotesAlive, triggered,
                 taskVars, dbVars>>

-----------------------------------------------------------------------------
(* The scan future: scan_triggered, then three inserts in this order, or   *)
(* one if the scan failed.  Their errors are dropped (.ok()).              *)
ScanReturns(n) ==
  /\ scan[n] = "scanning"
  /\ \E v \in Verdicts : verdict' = [verdict EXCEPT ![n] = v]
  /\ scan' = [scan EXCEPT ![n] = "signal"]
  /\ UNCHANGED <<vars, loopVars, obs, dbVars>>

(* Faulty variant: a failed insert is tried again.                         *)
RetryFailed(n) ==
  CASE lostRows' # lostRows   -> "signal"
    [] verdict[n] = "failed"  -> "done"
    [] OTHER                  -> "simulation"
AfterSignal(n) == IF verdict[n] = "failed" THEN "done" ELSE "simulation"

StoreSignal(n) ==
  /\ scan[n] = "signal"
  /\ Insert(SignalRow(n))
  /\ scan' = [scan EXCEPT ![n] = AfterSignal(n)]
  /\ UNCHANGED <<vars, loopVars, obs, verdict>>

StoreSimulation(n) ==
  /\ scan[n] = "simulation"
  /\ Insert(SimulationRow(n))
  /\ scan' = [scan EXCEPT ![n] = "execution"]
  /\ UNCHANGED <<vars, loopVars, obs, verdict>>

StoreExecution(n) ==
  /\ scan[n] = "execution"
  /\ Insert(ExecutionRow(n))
  /\ scan' = [scan EXCEPT ![n] = "done"]
  /\ UNCHANGED <<vars, loopVars, obs, verdict>>

(* The observation future, joined with the scan.                           *)
ObserveReturns(n) ==
  /\ obs[n] = "observing"
  /\ \E step \in {"storing", "done"} : obs' = [obs EXCEPT ![n] = step]
  /\ UNCHANGED <<vars, loopVars, scan, verdict, dbVars>>

StoreObservation(n) ==
  /\ obs[n] = "storing"
  /\ Insert(ObservationRow(n))
  /\ obs' = [obs EXCEPT ![n] = "done"]
  /\ UNCHANGED <<vars, loopVars, scan, verdict>>

ScanStep(n) ==
  ScanReturns(n) \/ StoreSignal(n) \/ StoreSimulation(n) \/ StoreExecution(n)
ObsStep(n) == ObserveReturns(n) \/ StoreObservation(n)

PipelineNext ==
  \/ FeedStep /\ UNCHANGED <<taken, loopVars, taskVars, dbVars>>
  \/ Spawn
  \/ Ignore
  \/ StoreIgnored
  \/ TakeQuote
  \/ Detect
  \/ StoreOpportunity
  \/ QuotesClosed
  \/ SendQuote
  \/ \E n \in Ids : ScanStep(n) \/ ObsStep(n)

(* select! polls its ready arms in random order, so an arm that is ready   *)
(* infinitely often is taken: strong fairness of the signal arm.  Inserts  *)
(* return (Ok or Err) and ready tasks are scheduled.  Nothing is assumed   *)
(* of the scan's and the observation's HTTP and RPC calls, which have no   *)
(* timeout, nor of the quote senders.                                      *)
PipelineFairness ==
  /\ SF_allVars(Spawn \/ Ignore)
  /\ WF_allVars(StoreIgnored \/ Detect \/ StoreOpportunity)
  /\ WF_allVars(SendSignal /\ UNCHANGED <<taken, loopVars, taskVars, dbVars>>)
  /\ \A n \in Ids :
       WF_allVars(StoreSignal(n) \/ StoreSimulation(n) \/ StoreExecution(n))

PipelineSpec == PipelineInit /\ [][PipelineNext]_allVars /\ PipelineFairness

-----------------------------------------------------------------------------
PipelineTypeOK ==
  /\ TypeOK
  /\ loop \in {"select", "storing", "snapshot", "opportunity"}
  /\ current \in Seq(Signal) /\ Len(current) <= 1
  /\ quotes \in 0..QuoteCap
  /\ quoteSenders \in BOOLEAN /\ quotesAlive \in BOOLEAN
  /\ triggered \in Nat
  /\ scan \in [Ids -> {"none", "scanning", "signal", "simulation", "execution", "done"}]
  /\ obs \in [Ids -> {"none", "observing", "storing", "done"}]
  /\ verdict \in [Ids -> Verdicts \union {"none"}]
  /\ IsABag(rows) /\ BagToSet(rows) \subseteq Row
  /\ IsABag(lostRows) /\ BagToSet(lostRows) \subseteq Row

Attempted == BagToSet(rows) \union BagToSet(lostRows)
Copies(row, bag) == IF row \in BagToSet(bag) THEN bag[row] ELSE 0
Attempts(row) == Copies(row, rows) + Copies(row, lostRows)

(* The tables never contradict each other about a signal, at any instant a *)
(* crash could freeze (main.rs:832, 884, 903, 928, 933, 944): per table    *)
(* one row per signal, its insert tried once and not again when it failed; *)
(* a simulation follows the row of the same signal with the same verdict,  *)
(* an execution follows both; an ignored or failed signal has neither; and *)
(* a scan that is done has tried every insert its verdict calls for.       *)
OneInsert ==
  \A r, q \in Attempted :
    r.table = q.table /\ r.id = q.id => r = q /\ Attempts(r) = 1
ExecutionFollows ==
  \A r \in Attempted :
    /\ r.table \in {"simulation", "execution"} =>
         /\ r.value \in {"profitable", "unprofitable"}
         /\ RowOf("signal", r.id, r.value) \in Attempted
    /\ r.table = "execution" => RowOf("simulation", r.id, r.value) \in Attempted
ScanLeavesRows ==
  \A n \in Ids : scan[n] = "done" =>
    /\ SignalRow(n) \in Attempted
    /\ verdict[n] # "failed" => {SimulationRow(n), ExecutionRow(n)} \subseteq Attempted
RowsConsistent == OneInsert /\ ExecutionFollows /\ ScanLeavesRows

(* The counters the loop reports account for every signal: a received one  *)
(* was either triggered or is ignored, and no task runs for an ignored one *)
(* (main.rs:750-751, 790, 942-949).                                        *)
Triggered == {n \in Ids : scan[n] # "none"}
Ignored == {r.id : r \in {q \in Attempted : q.value = "ignored"}}
           \union {current[i].id : i \in DOMAIN current}
CountersAgree ==
  /\ Triggered \intersect Ignored = {}
  /\ triggered = Cardinality(Triggered)
  /\ taken = triggered + Cardinality(Ignored)

(* The loop uses the feed's channel as the feed's own specification says:  *)
(* whatever holds of the feed holds inside the pipeline.                   *)
FeedBehaviour == Init /\ [][Next]_vars

(* Every accepted signal is settled: again and again there is a moment at  *)
(* which, of each, the rows are inserted or an insert of it failed, however*)
(* many quotes compete for the loop, unless its scan still waits for an    *)
(* RPC answer (main.rs:737-944).                                           *)
Settled(n) ==
  \/ scan[n] = "done"
  \/ IgnoredRow(n) \in Attempted
EverySignalSettles ==
  []<>(\A n \in 1..accepted : Settled(n) \/ scan[n] = "scanning")
=============================================================================
