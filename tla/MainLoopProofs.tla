---------------------------- MODULE MainLoopProofs ----------------------------
(***************************************************************************)
(* Machine-checked proofs about the main loop behind the feed.             *)
(*                                                                         *)
(* SignalPipeline: its type invariant, that it implements the feed's own   *)
(* specification, that the rows of a signal never contradict each other    *)
(* and that the counters account for every signal, for every number of     *)
(* signals, every channel capacity and every number of failed inserts.     *)
(*                                                                         *)
(* VolumeTracker: what the tracker holds in its deques and flags is what   *)
(* happened in the window, so that its verdicts are exact, and what the    *)
(* feed lets through bounds what it can hear, for every value of the       *)
(* windows, bounds and delays.                                             *)
(***************************************************************************)
EXTENDS SignalPipeline, VolumeTracker, ForgeFeedProofs, FiniteSetTheorems,
        WellFoundedInduction

(* The steps of the pipeline that are not steps of the feed.               *)
LoopStep ==
  StoreIgnored \/ TakeQuote \/ Detect \/ StoreOpportunity \/ QuotesClosed \/ SendQuote
TaskStep == \E n \in Ids : ScanStep(n) \/ ObsStep(n)

(* The loop between two receives, and the spawned tasks, leave the feed be. *)
LEMMA LoopLeavesFeed == LoopStep \/ TaskStep => UNCHANGED vars
BY DEF LoopStep, TaskStep, StoreIgnored, TakeQuote, Detect, StoreOpportunity,
       QuotesClosed, SendQuote, ScanStep, ObsStep, ScanReturns, StoreSignal,
       StoreSimulation, StoreExecution, ObserveReturns, StoreObservation

(* The steps of the pipeline, grouped by the part that takes them.         *)
LEMMA StepCases ==
  PipelineNext <=> \/ FeedStep /\ UNCHANGED <<taken, loopVars, taskVars, dbVars>>
                   \/ Spawn
                   \/ Ignore
                   \/ LoopStep
                   \/ TaskStep
BY DEF PipelineNext, LoopStep, TaskStep

(* Every step of the pipeline is a step of the feed's specification or     *)
(* leaves its variables alone.                                             *)
LEMMA PipelineStepsFeed == [PipelineNext]_allVars => [Next]_vars
<1> SUFFICES ASSUME [PipelineNext]_allVars
             PROVE  [Next]_vars
  OBVIOUS
<1>1. CASE FeedStep /\ UNCHANGED <<taken, loopVars, taskVars, dbVars>>
  BY <1>1 DEF Next
<1>2. CASE Spawn
  BY <1>2 DEF Spawn, Next
<1>3. CASE Ignore
  BY <1>3 DEF Ignore, Next
<1>4. CASE LoopStep \/ TaskStep
  BY <1>4, LoopLeavesFeed
<1>5. CASE UNCHANGED allVars
  BY <1>5 DEF allVars
<1> QED
  BY <1>1, <1>2, <1>3, <1>4, <1>5, StepCases

(* The main loop uses the channel as the feed's specification says.        *)
THEOREM PipelineImplementsFeed == PipelineSpec => FeedBehaviour
<1>1. PipelineInit => Init
  BY DEF PipelineInit
<1> QED
  BY <1>1, PipelineStepsFeed, PTL DEF PipelineSpec, FeedBehaviour

(* What is proved of the feed therefore holds inside the pipeline.         *)
THEOREM PipelineInOrder == PipelineSpec => [](TypeOK /\ InOrder)
<1>1. Init => TypeOK /\ InOrder
  BY InitTypeOK DEF Init, FeedInit, InOrder
<1>2. TypeOK /\ InOrder /\ [Next]_vars => (TypeOK /\ InOrder)'
  BY NextTypeOK, NextInOrder
<1> QED
  BY <1>1, <1>2, PipelineImplementsFeed, PTL DEF FeedBehaviour

(* The debounce of the feed holds in the running program.                  *)
THEOREM PipelineDebounce == PipelineSpec => DebounceSpacing
<1>1. Init => DebounceInv
  BY DEF Init, FeedInit, DebounceInv, Remembered
<1>2. PipelineSpec => []DebounceInv
  BY <1>1, NextDebounceInv, PipelineInOrder, PipelineImplementsFeed, PTL DEF FeedBehaviour
<1> QED
  BY <1>2, SpacingStep, PipelineInOrder, PipelineImplementsFeed, PTL
  DEF FeedBehaviour, DebounceSpacing

-----------------------------------------------------------------------------
(* The inductive invariant behind the row properties: how far its task has *)
(* come determines exactly which rows of a signal were attempted, and a    *)
(* signal not yet received has none.                                       *)
RowsOf(n) == {r \in Attempted : r.id = n /\ r.table # "observation"}
Kept(n) == verdict[n] \in {"profitable", "unprofitable"}
Unprocessed(n) == scan[n] = "none" /\ RowsOf(n) = {}

StageInv(n) ==
  /\ scan[n] = "none" => RowsOf(n) \subseteq {IgnoredRow(n)}
  /\ scan[n] \in {"scanning", "signal"} => RowsOf(n) = {}
  /\ scan[n] = "signal" => verdict[n] \in Verdicts
  /\ scan[n] = "simulation" => Kept(n) /\ RowsOf(n) = {SignalRow(n)}
  /\ scan[n] = "execution" => Kept(n) /\ RowsOf(n) = {SignalRow(n), SimulationRow(n)}
  /\ scan[n] = "done" =>
       \/ verdict[n] = "failed" /\ RowsOf(n) = {SignalRow(n)}
       \/ Kept(n) /\ RowsOf(n) = {SignalRow(n), SimulationRow(n), ExecutionRow(n)}
ObservationInv ==
  \A r \in Attempted : r.table = "observation" => r.value = "observed"
LoopInv ==
  /\ loop = "storing" <=> current # <<>>
  /\ current # <<>> => /\ current[1].id \in Ids
                       /\ current[1].id <= taken
                       /\ Unprocessed(current[1].id)
RowsInv ==
  /\ \A n \in Ids : n > taken => Unprocessed(n)
  /\ \A n \in Ids : StageInv(n)
  /\ ObservationInv
  /\ LoopInv

(* Each insert is tried once: what is still to be tried has not been.      *)
CountInv ==
  /\ \A r \in Attempted : Attempts(r) = 1
  /\ \A n \in Ids : obs[n] # "done" => ObservationRow(n) \notin Attempted
  /\ \A n \in Ids : n > taken => obs[n] = "none"

(* The types of the two bags of rows.                                      *)
RowTypes ==
  /\ IsABag(rows) /\ BagToSet(rows) \subseteq Row
  /\ IsABag(lostRows) /\ BagToSet(lostRows) \subseteq Row

(* The signal the loop receives is the one after those it has taken.       *)
LEMMA HeadIsNext ==
  ASSUME TypeOK, InOrder, chan # <<>>
  PROVE  Head(chan) \in Signal /\ Head(chan).id = taken + 1 /\ taken + 1 \in Ids
<1>1. chan \in Seq(Signal) /\ taken \in Nat
  BY DEF TypeOK
<1>2. Head(chan) \in Signal /\ Head(chan) = chan[1]
  BY <1>1, HeadTailProperties
<1>3. 1 \in 1..Len(chan)
  <2>1. Len(chan) \in Nat \ {0}
    BY <1>1, EmptySeq
  <2>2. \A n \in Nat \ {0} : 1 \in 1..n
    OBVIOUS
  <2> QED
    BY <2>1, <2>2
<1>4. chan[1].id = taken + 1
  BY <1>1, <1>3 DEF InOrder
<1>5. Head(chan).id \in Ids
  BY <1>2 DEF Signal
<1> QED
  BY <1>2, <1>4, <1>5

(* Adding to a bag adds one copy of the element and touches no other.      *)
LEMMA BagGrows ==
  ASSUME NEW B, IsABag(B), NEW x
  PROVE  /\ IsABag(B (+) SetToBag({x})) /\ BagToSet(B (+) SetToBag({x})) = BagToSet(B) \union {x}
         /\ Copies(x, B (+) SetToBag({x})) = Copies(x, B) + 1
         /\ \A y : y # x => Copies(y, B (+) SetToBag({x})) = Copies(y, B)
         /\ \A y : Copies(y, B) \in Nat /\ (Copies(y, B) > 0 <=> y \in BagToSet(B))
BY DEF IsABag, (+), SetToBag, BagToSet, Copies

(* An insert attempts its row once more and no other, whether or not it    *)
(* succeeds.                                                               *)
LEMMA InsertAttempts ==
  ASSUME RowTypes, NEW row \in Row, Insert(row)
  PROVE  /\ RowTypes' /\ Attempted' = Attempted \union {row}
         /\ row \notin Attempted => Attempts(row)' = 1
         /\ \A q : q # row => Attempts(q)' = Attempts(q)
<1>1. CASE rows' = rows (+) SetToBag({row}) /\ UNCHANGED lostRows
  <2>1. /\ IsABag(rows') /\ BagToSet(rows') = BagToSet(rows) \union {row}
        /\ Copies(row, rows') = Copies(row, rows) + 1
        /\ \A q : q # row => Copies(q, rows') = Copies(q, rows)
    BY <1>1, BagGrows DEF RowTypes
  <2>2. RowTypes' /\ Attempted' = Attempted \union {row}
    BY <1>1, <2>1 DEF RowTypes, Attempted
  <2>3. \A q : Attempts(q)' = Copies(q, rows') + Copies(q, lostRows')
    BY DEF Attempts, Copies
  <2>4. \A q : q # row => Attempts(q)' = Attempts(q)
    BY <1>1, <2>1, <2>3 DEF Attempts
  <2>5. row \notin Attempted => Attempts(row)' = 1
    BY <1>1, <2>1, <2>3 DEF Attempted, Copies
  <2> QED
    BY <2>2, <2>4, <2>5
<1>2. CASE lostRows' = lostRows (+) SetToBag({row}) /\ UNCHANGED rows
  <2>1. /\ IsABag(lostRows') /\ BagToSet(lostRows') = BagToSet(lostRows) \union {row}
        /\ Copies(row, lostRows') = Copies(row, lostRows) + 1
        /\ \A q : q # row => Copies(q, lostRows') = Copies(q, lostRows)
    BY <1>2, BagGrows DEF RowTypes
  <2>2. RowTypes' /\ Attempted' = Attempted \union {row}
    BY <1>2, <2>1 DEF RowTypes, Attempted
  <2>3. \A q : Attempts(q)' = Copies(q, rows') + Copies(q, lostRows')
    BY DEF Attempts, Copies
  <2>4. \A q : q # row => Attempts(q)' = Attempts(q)
    BY <1>2, <2>1, <2>3 DEF Attempts
  <2>5. row \notin Attempted => Attempts(row)' = 1
    BY <1>2, <2>1, <2>3 DEF Attempted, Copies
  <2> QED
    BY <2>2, <2>4, <2>5
<1> QED
  BY <1>1, <1>2 DEF Insert

(* A step that inserts nothing and touches no task keeps the invariant.    *)
LEMMA QuietStep ==
  ASSUME RowsInv, UNCHANGED <<taken, current, scan, verdict, rows, lostRows>>,
         loop' = loop \/ (loop # "storing" /\ loop' # "storing")
  PROVE  RowsInv'
BY DEF RowsInv, StageInv, ObservationInv, LoopInv, Unprocessed, RowsOf, Kept, Attempted,
       SignalRow, SimulationRow, ExecutionRow, IgnoredRow

(* An insert of the scan future of signal n.                               *)
LEMMA ScanInsert ==
  ASSUME PipelineTypeOK, RowsInv, NEW n \in Ids, NEW row,
         row.id = n, row.table # "observation", scan[n] # "none",
         Attempted' = Attempted \union {row},
         scan' = [scan EXCEPT ![n] = scan'[n]], scan'[n] # "none",
         UNCHANGED <<taken, current, loop, verdict>>,
         StageInv(n)'
  PROVE  RowsInv'
<1>1. \A m \in Ids \ {n} : scan'[m] = scan[m] /\ RowsOf(m)' = RowsOf(m)
  BY DEF RowsOf, PipelineTypeOK
<1>2. ~(n > taken)
  BY DEF RowsInv, Unprocessed
<1>3. \A m \in Ids : m > taken' => Unprocessed(m)'
  BY <1>1, <1>2 DEF RowsInv, Unprocessed
<1>4. \A m \in Ids : StageInv(m)'
  BY <1>1 DEF RowsInv, StageInv, Kept, SignalRow, SimulationRow, ExecutionRow, IgnoredRow
<1>5. ObservationInv'
  BY DEF RowsInv, ObservationInv
<1>6. LoopInv'
  <2>1. CASE current = <<>>
    BY <2>1 DEF RowsInv, LoopInv
  <2>2. CASE current # <<>>
    <3>1. current[1].id \in Ids \ {n}
      BY <2>2 DEF RowsInv, LoopInv, Unprocessed
    <3> QED
      BY <1>1, <2>2, <3>1 DEF RowsInv, LoopInv, Unprocessed
  <2> QED
    BY <2>1, <2>2
<1> QED
  BY <1>3, <1>4, <1>5, <1>6 DEF RowsInv

-----------------------------------------------------------------------------
(* The initial state is well typed and satisfies the invariant.            *)
LEMMA InitPipeline == PipelineInit => PipelineTypeOK /\ RowsInv /\ CountInv
<1> SUFFICES ASSUME PipelineInit
             PROVE  PipelineTypeOK /\ RowsInv /\ CountInv
  OBVIOUS
<1>1. TypeOK
  BY InitTypeOK DEF PipelineInit
<1>2. PipelineTypeOK
  <2>1. IsABag(EmptyBag) /\ BagToSet(EmptyBag) = {}
    BY DEF IsABag, EmptyBag, SetToBag, BagToSet
  <2> QED
    BY <1>1, <2>1, PipelineAssumption DEF PipelineInit, PipelineTypeOK
<1>3. Attempted = {}
  BY DEF PipelineInit, Attempted, EmptyBag, SetToBag, BagToSet
<1>4. RowsInv
  BY <1>3 DEF PipelineInit, RowsInv, StageInv, ObservationInv, LoopInv, Unprocessed, RowsOf
<1>5. CountInv
  BY <1>3 DEF PipelineInit, CountInv
<1> QED
  BY <1>2, <1>4, <1>5

(* The variables of the feed keep their types in every pipeline step.      *)
LEMMA FeedPart ==
  ASSUME PipelineTypeOK, [PipelineNext]_allVars
  PROVE  TypeOK'
BY PipelineStepsFeed, NextTypeOK DEF PipelineTypeOK

(* Spawning the task of an actionable signal keeps types and invariant.    *)
LEMMA SpawnStep ==
  ASSUME PipelineTypeOK, RowsInv, InOrder, Spawn
  PROVE  PipelineTypeOK' /\ RowsInv'
<1>1. PICK n \in Ids : n = Head(chan).id /\ n = taken + 1 /\ taken \in Nat /\ taken' = n
  BY HeadIsNext DEF Spawn, Receive, PipelineTypeOK, TypeOK
<1>2. /\ loop = "select" /\ triggered' = triggered + 1
      /\ scan' = [scan EXCEPT ![n] = "scanning"]
      /\ obs' = [obs EXCEPT ![n] = "observing"]
      /\ UNCHANGED <<loop, current, quotes, quoteSenders, quotesAlive, verdict, rows, lostRows>>
  BY <1>1 DEF Spawn, CountTrigger, dbVars
<1>3. TypeOK'
  BY FeedPart, StepCases
<1>4. PipelineTypeOK'
  BY <1>1, <1>2, <1>3 DEF PipelineTypeOK
<1>5. Unprocessed(n)
  BY <1>1 DEF RowsInv
<1>6. \A m \in Ids \ {n} : scan'[m] = scan[m]
  BY <1>2 DEF PipelineTypeOK
<1>7. \A m \in Ids : RowsOf(m)' = RowsOf(m)
  BY <1>2 DEF RowsOf, Attempted
<1>8. \A m \in Ids : m > taken' => Unprocessed(m)'
  <2> SUFFICES ASSUME NEW m \in Ids, m > taken'
               PROVE  Unprocessed(m)'
    OBVIOUS
  <2>1. m > taken /\ m # n
    BY <1>1 DEF Ids
  <2> QED
    BY <2>1, <1>6, <1>7 DEF RowsInv, Unprocessed
<1>9. \A m \in Ids : StageInv(m)'
  <2>1. scan'[n] = "scanning" /\ RowsOf(n)' = {}
    BY <1>1, <1>2, <1>5, <1>7 DEF Unprocessed, PipelineTypeOK
  <2>2. StageInv(n)'
    BY <2>1 DEF StageInv
  <2>3. ASSUME NEW m \in Ids \ {n}
        PROVE  StageInv(m)'
    <3>1. StageInv(m) /\ scan'[m] = scan[m] /\ RowsOf(m)' = RowsOf(m) /\ verdict' = verdict
      BY <1>2, <1>6, <1>7 DEF RowsInv
    <3> QED
      BY <3>1 DEF StageInv, Kept, SignalRow, SimulationRow, ExecutionRow, IgnoredRow
  <2> QED
    BY <2>2, <2>3
<1>10. ObservationInv' /\ LoopInv'
  BY <1>2 DEF RowsInv, ObservationInv, LoopInv, Attempted
<1> QED
  BY <1>4, <1>8, <1>9, <1>10 DEF RowsInv

(* Receiving a signal that is not actionable keeps types and invariant.    *)
LEMMA IgnoreStep ==
  ASSUME PipelineTypeOK, RowsInv, InOrder, Ignore
  PROVE  PipelineTypeOK' /\ RowsInv'
<1> DEFINE sig == Head(chan)
<1>1. /\ sig \in Signal /\ sig.id \in Ids /\ sig.id = taken + 1
      /\ taken \in Nat /\ taken' = taken + 1
  BY HeadIsNext DEF Ignore, Receive, PipelineTypeOK, TypeOK
<1>2. /\ loop' = "storing" /\ current' = <<sig>>
      /\ UNCHANGED <<quotes, quoteSenders, quotesAlive, triggered, scan, obs, verdict,
                     rows, lostRows>>
  BY DEF Ignore, taskVars, dbVars
<1>3. TypeOK'
  BY FeedPart, StepCases
<1> HIDE DEF sig
<1>4. PipelineTypeOK'
  BY <1>1, <1>2, <1>3 DEF PipelineTypeOK
<1>5. Unprocessed(sig.id)
  BY <1>1 DEF RowsInv
<1>6. \A m \in Ids : Unprocessed(m)' <=> Unprocessed(m)
  BY <1>2 DEF Unprocessed, RowsOf, Attempted
<1>7. \A m \in Ids : m > taken' => Unprocessed(m)'
  <2> SUFFICES ASSUME NEW m \in Ids, m > taken'
               PROVE  Unprocessed(m)'
    OBVIOUS
  <2>1. m > taken
    BY <1>1 DEF Ids
  <2> QED
    BY <2>1, <1>6 DEF RowsInv
<1>8. \A m \in Ids : StageInv(m)'
  BY <1>2 DEF RowsInv, StageInv, Kept, SignalRow, SimulationRow, ExecutionRow, IgnoredRow,
              RowsOf, Attempted
<1>9. ObservationInv'
  BY <1>2 DEF RowsInv, ObservationInv, Attempted
<1>10. LoopInv'
  BY <1>1, <1>2, <1>5, <1>6 DEF LoopInv
<1> QED
  BY <1>4, <1>7, <1>8, <1>9, <1>10 DEF RowsInv

(* So does everything else the main loop and the quote senders do.         *)
LEMMA LoopSteps ==
  ASSUME PipelineTypeOK, RowsInv, LoopStep
  PROVE  PipelineTypeOK' /\ RowsInv'
<1>0. TypeOK'
  BY FeedPart, StepCases
<1>1. CASE StoreIgnored
  <2>1. PICK n \in Ids : n = current[1].id /\ n <= taken /\ Unprocessed(n)
    BY <1>1 DEF StoreIgnored, RowsInv, LoopInv
  <2> DEFINE row == IgnoredRow(n)
  <2>2. /\ Insert(row) /\ loop' = "select" /\ current' = <<>>
        /\ UNCHANGED <<vars, quotes, quoteSenders, quotesAlive, triggered, scan, obs, verdict>>
    BY <1>1, <2>1 DEF StoreIgnored, taskVars, IgnoredRow
  <2>3. row \in Row /\ row.id = n /\ row.table # "observation"
    BY <2>1 DEF IgnoredRow, RowOf, Row
  <2>4. Attempted' = Attempted \union {row} /\ RowTypes'
    BY <2>2, <2>3, InsertAttempts DEF RowTypes, PipelineTypeOK
  <2>6. PipelineTypeOK'
    BY <1>0, <2>2, <2>4 DEF PipelineTypeOK, RowTypes
  <2>7. taken' = taken
    BY <2>2 DEF vars
  <2> HIDE DEF row
  <2>8. \A m \in Ids : m > taken' => Unprocessed(m)'
    <3> SUFFICES ASSUME NEW m \in Ids, m > taken
                 PROVE  Unprocessed(m)'
      BY <2>7
    <3>1. m # n
      BY <2>1 DEF PipelineTypeOK, TypeOK, Ids
    <3>2. RowsOf(m)' = RowsOf(m)
      BY <2>3, <2>4, <3>1 DEF RowsOf
    <3> QED
      BY <2>2, <3>2 DEF RowsInv, Unprocessed
  <2>9. ASSUME NEW m \in Ids
        PROVE  StageInv(m)'
    <3>1. CASE m = n
      <4>1. scan'[n] = "none" /\ RowsOf(n)' = {row}
        BY <2>1, <2>2, <2>3, <2>4 DEF RowsOf, Unprocessed
      <4> QED
        BY <3>1, <4>1 DEF StageInv, row, IgnoredRow
    <3>2. CASE m # n
      <4>1. RowsOf(m)' = RowsOf(m)
        BY <2>3, <2>4, <3>2 DEF RowsOf
      <4> QED
        BY <2>2, <4>1
        DEF RowsInv, StageInv, Kept, SignalRow, SimulationRow, ExecutionRow, IgnoredRow
    <3> QED
      BY <3>1, <3>2
  <2>10. ObservationInv' /\ LoopInv'
    BY <2>2, <2>3, <2>4 DEF RowsInv, ObservationInv, LoopInv
  <2> QED
    BY <2>6, <2>8, <2>9, <2>10 DEF RowsInv
<1>2. CASE TakeQuote \/ Detect \/ StoreOpportunity \/ QuotesClosed \/ SendQuote
  <2>1. PipelineTypeOK'
    <3> USE <1>0, PipelineAssumption DEF PipelineTypeOK, taskVars, dbVars
    <3>1. CASE TakeQuote
      BY <3>1 DEF TakeQuote
    <3>2. CASE Detect
      BY <3>2 DEF Detect
    <3>3. CASE StoreOpportunity
      BY <3>3 DEF StoreOpportunity
    <3>4. CASE QuotesClosed
      BY <3>4 DEF QuotesClosed
    <3>5. CASE SendQuote
      BY <3>5 DEF SendQuote
    <3> QED
      BY <1>2, <3>1, <3>2, <3>3, <3>4, <3>5
  <2>2. /\ UNCHANGED <<taken, current, scan, verdict, rows, lostRows>>
        /\ loop' = loop \/ (loop # "storing" /\ loop' # "storing")
    BY <1>2 DEF TakeQuote, Detect, StoreOpportunity, QuotesClosed, SendQuote, vars,
                taskVars, dbVars
  <2> QED
    BY <2>1, <2>2, QuietStep
<1> QED
  BY <1>1, <1>2 DEF LoopStep

(* One of the three inserts of signal n, with stage the next one.          *)
LEMMA StoreStep ==
  ASSUME PipelineTypeOK, RowsInv, TaskStep, NEW n \in Ids, NEW row \in Row,
         NEW stage \in {"simulation", "execution", "done"},
         row.id = n, row.table # "observation", scan[n] # "none",
         Insert(row), scan' = [scan EXCEPT ![n] = stage],
         UNCHANGED <<vars, loopVars, obs, verdict>>,
         scan'[n] = stage /\ RowsOf(n)' = RowsOf(n) \union {row} => StageInv(n)'
  PROVE  PipelineTypeOK' /\ RowsInv'
<1>1. TypeOK'
  BY FeedPart, StepCases
<1>2. Attempted' = Attempted \union {row} /\ RowTypes'
  BY InsertAttempts DEF RowTypes, PipelineTypeOK
<1>3. PipelineTypeOK'
  BY <1>1, <1>2 DEF PipelineTypeOK, RowTypes, loopVars
<1>4. Attempted' = Attempted \union {row}
  BY <1>2
<1>5. RowsOf(n)' = RowsOf(n) \union {row}
  BY <1>4 DEF RowsOf
<1>6. scan'[n] = stage
  BY DEF PipelineTypeOK
<1>7. StageInv(n)'
  BY <1>5, <1>6
<1>8. UNCHANGED <<taken, current, loop, verdict>>
  BY DEF vars, loopVars
<1>9. RowsInv'
  BY <1>4, <1>6, <1>7, <1>8, ScanInsert
<1> QED
  BY <1>3, <1>9

(* So does every step of the scan and of the observation of a signal.      *)
LEMMA TaskSteps ==
  ASSUME PipelineTypeOK, RowsInv, TaskStep
  PROVE  PipelineTypeOK' /\ RowsInv'
<1>0. TypeOK'
  BY FeedPart, StepCases
<1>1. PICK n \in Ids : ScanStep(n) \/ ObsStep(n)
  BY DEF TaskStep
<1>2. StageInv(n)
  BY DEF RowsInv
<1>3. CASE ScanReturns(n)
  <2>1. PICK v \in Verdicts : verdict' = [verdict EXCEPT ![n] = v]
    BY <1>3 DEF ScanReturns
  <2>2. /\ scan[n] = "scanning" /\ scan' = [scan EXCEPT ![n] = "signal"]
        /\ UNCHANGED <<taken, loop, current, quotes, quoteSenders, quotesAlive, triggered,
                       obs, rows, lostRows>>
    BY <1>3 DEF ScanReturns, vars, loopVars, dbVars
  <2>3. PipelineTypeOK'
    BY <1>0, <2>1, <2>2 DEF PipelineTypeOK
  <2>4. \A m \in Ids : RowsOf(m)' = RowsOf(m)
    BY <2>2 DEF RowsOf, Attempted
  <2>5. StageInv(n)'
    <3>1. scan'[n] = "signal" /\ verdict'[n] \in Verdicts /\ RowsOf(n)' = {}
      BY <1>2, <2>1, <2>2, <2>4 DEF StageInv, PipelineTypeOK
    <3> QED
      BY <3>1 DEF StageInv
  <2>6. ASSUME NEW m \in Ids \ {n}
        PROVE  StageInv(m)' /\ (Unprocessed(m) => Unprocessed(m)')
    <3>1. scan'[m] = scan[m] /\ verdict'[m] = verdict[m] /\ RowsOf(m)' = RowsOf(m)
      BY <2>1, <2>2, <2>4 DEF PipelineTypeOK
    <3>2. StageInv(m)
      BY DEF RowsInv
    <3> QED
      BY <3>1, <3>2
      DEF StageInv, Kept, SignalRow, SimulationRow, ExecutionRow, Unprocessed
  <2>7. ~Unprocessed(n)
    BY <2>2 DEF Unprocessed
  <2>8. ObservationInv' /\ LoopInv' /\ \A m \in Ids : m > taken' => Unprocessed(m)'
    BY <2>2, <2>6, <2>7 DEF RowsInv, ObservationInv, LoopInv, Attempted
  <2> QED
    BY <2>3, <2>5, <2>6, <2>8 DEF RowsInv
<1>4. CASE StoreSignal(n)
  <2>1. PICK w \in Verdicts : w = verdict[n]
    BY <1>2, <1>4 DEF StoreSignal, StageInv
  <2>2. PICK stage \in {"simulation", "done"} :
          stage = AfterSignal(n) /\ (stage = "done" <=> w = "failed")
    BY <2>1 DEF AfterSignal
  <2> DEFINE row == RowOf("signal", n, w)
  <2>3. /\ Insert(row) /\ scan' = [scan EXCEPT ![n] = stage] /\ scan[n] = "signal"
        /\ UNCHANGED <<vars, loopVars, obs, verdict>>
    BY <1>4, <2>1, <2>2 DEF StoreSignal, SignalRow
  <2>4. row \in Row /\ row.id = n /\ row.table # "observation"
    BY DEF RowOf, Row
  <2>5. RowsOf(n) = {}
    BY <1>2, <2>3 DEF StageInv
  <2>6. ASSUME scan'[n] = stage, RowsOf(n)' = RowsOf(n) \union {row}
        PROVE  StageInv(n)'
    <3>1. RowsOf(n)' = {SignalRow(n)'}
      BY <2>1, <2>3, <2>5, <2>6 DEF SignalRow
    <3>2. \/ stage = "done" /\ verdict'[n] = "failed"
          \/ stage = "simulation" /\ Kept(n)'
      BY <2>1, <2>2, <2>3 DEF Verdicts, Kept
    <3> QED
      BY <2>6, <3>1, <3>2 DEF StageInv
  <2> HIDE DEF row
  <2> QED
    BY <2>3, <2>4, <2>6, StoreStep
<1>5. CASE StoreSimulation(n)
  <2>1. PICK w \in {"profitable", "unprofitable"} : w = verdict[n]
    BY <1>2, <1>5 DEF StoreSimulation, StageInv, Kept
  <2> DEFINE row == RowOf("simulation", n, w)
  <2>2. /\ Insert(row) /\ scan' = [scan EXCEPT ![n] = "execution"]
        /\ scan[n] = "simulation" /\ UNCHANGED <<vars, loopVars, obs, verdict>>
    BY <1>5, <2>1 DEF StoreSimulation, SimulationRow
  <2>3. row \in Row /\ row.id = n /\ row.table # "observation"
    BY DEF RowOf, Row, Verdicts
  <2>4. RowsOf(n) = {SignalRow(n)}
    BY <1>2, <2>2 DEF StageInv
  <2>5. ASSUME scan'[n] = "execution", RowsOf(n)' = RowsOf(n) \union {row}
        PROVE  StageInv(n)'
    <3>1. RowsOf(n)' = {SignalRow(n)', SimulationRow(n)'} /\ Kept(n)'
      BY <2>1, <2>2, <2>4, <2>5 DEF SignalRow, SimulationRow, Kept
    <3> QED
      BY <2>5, <3>1 DEF StageInv
  <2> HIDE DEF row
  <2> QED
    BY <2>2, <2>3, <2>5, StoreStep
<1>6. CASE StoreExecution(n)
  <2>1. PICK w \in {"profitable", "unprofitable"} : w = verdict[n]
    BY <1>2, <1>6 DEF StoreExecution, StageInv, Kept
  <2> DEFINE row == RowOf("execution", n, w)
  <2>2. /\ Insert(row) /\ scan' = [scan EXCEPT ![n] = "done"]
        /\ scan[n] = "execution" /\ UNCHANGED <<vars, loopVars, obs, verdict>>
    BY <1>6, <2>1 DEF StoreExecution, ExecutionRow
  <2>3. row \in Row /\ row.id = n /\ row.table # "observation"
    BY DEF RowOf, Row, Verdicts
  <2>4. RowsOf(n) = {SignalRow(n), SimulationRow(n)}
    BY <1>2, <2>2 DEF StageInv
  <2>5. ASSUME scan'[n] = "done", RowsOf(n)' = RowsOf(n) \union {row}
        PROVE  StageInv(n)'
    <3>1. RowsOf(n)' = {SignalRow(n)', SimulationRow(n)', ExecutionRow(n)'} /\ Kept(n)'
      BY <2>1, <2>2, <2>4, <2>5 DEF SignalRow, SimulationRow, ExecutionRow, Kept
    <3> QED
      BY <2>5, <3>1 DEF StageInv
  <2> HIDE DEF row
  <2> QED
    BY <2>2, <2>3, <2>5, StoreStep
<1>7. CASE ObserveReturns(n)
  <2>1. UNCHANGED <<vars, loopVars, scan, verdict, dbVars>>
    BY <1>7 DEF ObserveReturns
  <2>2. PipelineTypeOK'
    BY <1>0, <1>7, <2>1 DEF ObserveReturns, PipelineTypeOK, loopVars, dbVars
  <2> QED
    BY <2>1, <2>2, QuietStep DEF vars, loopVars, dbVars
<1>8. CASE StoreObservation(n)
  <2> DEFINE row == RowOf("observation", n, "observed")
  <2>1. /\ Insert(row) /\ obs' = [obs EXCEPT ![n] = "done"]
        /\ UNCHANGED <<vars, loopVars, scan, verdict>>
    BY <1>8 DEF StoreObservation, ObservationRow
  <2>2. row \in Row /\ row.table = "observation" /\ row.value = "observed"
    BY DEF RowOf, Row
  <2> HIDE DEF row
  <2>3. Attempted' = Attempted \union {row} /\ RowTypes'
    BY <2>1, <2>2, InsertAttempts DEF RowTypes, PipelineTypeOK
  <2>5. PipelineTypeOK'
    BY <1>0, <2>1, <2>3 DEF PipelineTypeOK, RowTypes, loopVars
  <2>6. \A m \in Ids : RowsOf(m)' = RowsOf(m)
    BY <2>2, <2>3 DEF RowsOf
  <2>7. UNCHANGED <<taken, loop, current, scan, verdict>>
    BY <2>1 DEF vars, loopVars
  <2>8. ASSUME NEW m \in Ids
        PROVE  StageInv(m)' /\ (Unprocessed(m)' <=> Unprocessed(m))
    <3>1. StageInv(m) /\ RowsOf(m)' = RowsOf(m)
      BY <2>6 DEF RowsInv
    <3> QED
      BY <2>7, <3>1
      DEF StageInv, Kept, SignalRow, SimulationRow, ExecutionRow, IgnoredRow, Unprocessed
  <2>9. ObservationInv'
    BY <2>2, <2>3 DEF RowsInv, ObservationInv
  <2>10. LoopInv' /\ \A m \in Ids : m > taken' => Unprocessed(m)'
    BY <2>7, <2>8 DEF RowsInv, LoopInv
  <2> QED
    BY <2>5, <2>8, <2>9, <2>10 DEF RowsInv
<1> QED
  BY <1>1, <1>3, <1>4, <1>5, <1>6, <1>7, <1>8 DEF ScanStep, ObsStep

(* Every step of the pipeline keeps types and invariant.                   *)
LEMMA NextPipeline ==
  PipelineTypeOK /\ InOrder /\ RowsInv /\ [PipelineNext]_allVars
    => (PipelineTypeOK /\ RowsInv)'
<1> SUFFICES ASSUME PipelineTypeOK, InOrder, RowsInv, [PipelineNext]_allVars
             PROVE  (PipelineTypeOK /\ RowsInv)'
  OBVIOUS
<1>1. CASE \/ FeedStep /\ UNCHANGED <<taken, loopVars, taskVars, dbVars>>
           \/ UNCHANGED allVars
  <2>1. UNCHANGED <<taken, loopVars, taskVars, dbVars>>
    BY <1>1 DEF allVars, vars
  <2>2. PipelineTypeOK'
    BY <2>1, FeedPart DEF PipelineTypeOK, loopVars, taskVars, dbVars
  <2> QED
    BY <2>1, <2>2, QuietStep DEF loopVars, taskVars, dbVars
<1> QED
  BY <1>1, SpawnStep, IgnoreStep, LoopSteps, TaskSteps, StepCases

(* A step inserts nothing, or one row that was not attempted before; if it *)
(* is an observation, the one of the future that has just run.             *)
LEMMA NewRows ==
  ASSUME PipelineTypeOK, RowsInv, CountInv, PipelineNext
  PROVE  \/ UNCHANGED <<rows, lostRows>>
         \/ \E row \in Row : /\ Insert(row) /\ row \notin Attempted
                             /\ row.table = "observation" => obs'[row.id] = "done"
<1>1. CASE StoreIgnored
  <2>1. PICK n \in Ids : n = current[1].id /\ Unprocessed(n)
    BY <1>1 DEF StoreIgnored, RowsInv, LoopInv
  <2>2. IgnoredRow(n) \in Row /\ Insert(IgnoredRow(n)) /\ IgnoredRow(n).table = "signal"
    BY <1>1, <2>1 DEF StoreIgnored, IgnoredRow, RowOf, Row
  <2>3. IgnoredRow(n) \notin Attempted
    BY <2>1 DEF Unprocessed, RowsOf, IgnoredRow, RowOf
  <2> QED
    BY <2>2, <2>3
<1>2. ASSUME NEW n \in Ids, StoreSignal(n) \/ StoreSimulation(n) \/ StoreExecution(n)
      PROVE  \E row \in Row : /\ Insert(row) /\ row \notin Attempted
                              /\ row.table # "observation"
  <2>1. StageInv(n)
    BY DEF RowsInv
  <2>2. CASE StoreSignal(n)
    <3>1. Insert(SignalRow(n)) /\ RowsOf(n) = {} /\ verdict[n] \in Verdicts
      BY <2>1, <2>2 DEF StoreSignal, StageInv
    <3>2. SignalRow(n) \in Row /\ SignalRow(n).table = "signal" /\ SignalRow(n) \notin Attempted
      BY <3>1 DEF SignalRow, RowOf, Row, RowsOf
    <3> QED
      BY <3>1, <3>2
  <2>3. CASE StoreSimulation(n)
    <3>1. Insert(SimulationRow(n)) /\ RowsOf(n) = {SignalRow(n)} /\ verdict[n] \in Verdicts
      BY <2>1, <2>3 DEF StoreSimulation, StageInv, Kept, Verdicts
    <3>2. SimulationRow(n) \in Row /\ SimulationRow(n).table = "simulation"
      BY <3>1 DEF SimulationRow, RowOf, Row
    <3>3. SimulationRow(n) \notin Attempted
      BY <3>1 DEF SimulationRow, SignalRow, RowOf, RowsOf
    <3> QED
      BY <3>1, <3>2, <3>3
  <2>4. CASE StoreExecution(n)
    <3>1. /\ Insert(ExecutionRow(n)) /\ RowsOf(n) = {SignalRow(n), SimulationRow(n)}
          /\ verdict[n] \in Verdicts
      BY <2>1, <2>4 DEF StoreExecution, StageInv, Kept, Verdicts
    <3>2. ExecutionRow(n) \in Row /\ ExecutionRow(n).table = "execution"
      BY <3>1 DEF ExecutionRow, RowOf, Row
    <3>3. ExecutionRow(n) \notin Attempted
      BY <3>1 DEF ExecutionRow, SimulationRow, SignalRow, RowOf, RowsOf
    <3> QED
      BY <3>1, <3>2, <3>3
  <2> QED
    BY <1>2, <2>2, <2>3, <2>4
<1>3. ASSUME NEW n \in Ids, StoreObservation(n)
      PROVE  \E row \in Row : /\ Insert(row) /\ row \notin Attempted
                              /\ row.table = "observation" => obs'[row.id] = "done"
  <2> DEFINE row == ObservationRow(n)
  <2>1. row \in Row /\ row.id = n /\ row.table = "observation"
    BY DEF ObservationRow, RowOf, Row
  <2>2. Insert(row) /\ row \notin Attempted /\ obs'[n] = "done"
    BY <1>3 DEF StoreObservation, CountInv, PipelineTypeOK
  <2> QED
    BY <2>1, <2>2
<1>4. CASE \/ Spawn \/ Ignore \/ TakeQuote \/ Detect \/ StoreOpportunity \/ QuotesClosed
           \/ SendQuote \/ (FeedStep /\ UNCHANGED <<taken, loopVars, taskVars, dbVars>>)
           \/ \E n \in Ids : ScanReturns(n) \/ ObserveReturns(n)
  BY <1>4 DEF Spawn, Ignore, TakeQuote, Detect, StoreOpportunity, QuotesClosed, SendQuote,
              ScanReturns, ObserveReturns, dbVars
<1> QED
  BY <1>1, <1>2, <1>3, <1>4 DEF PipelineNext, ScanStep, ObsStep

(* How a step moves the observations.                                      *)
LEMMA ObsMoves ==
  ASSUME PipelineTypeOK, RowsInv, InOrder, CountInv, PipelineNext, NEW n \in Ids
  PROVE  /\ obs'[n] # "done" => obs[n] # "done"
         /\ n > taken' => n > taken /\ obs'[n] = obs[n]
<1>0. taken \in Nat
  BY DEF PipelineTypeOK, TypeOK
<1>1. CASE Spawn
  <2>1. PICK k \in Ids : k = Head(chan).id /\ k = taken + 1 /\ taken' = k
    BY <1>1, HeadIsNext DEF Spawn, Receive, PipelineTypeOK
  <2>2. obs' = [obs EXCEPT ![k] = "observing"] /\ obs[k] = "none"
    BY <1>0, <1>1, <2>1 DEF Spawn, CountInv
  <2> QED
    BY <1>0, <2>1, <2>2 DEF PipelineTypeOK, Ids
<1>2. CASE Ignore
  <2>1. taken' = taken + 1 /\ obs' = obs
    BY <1>2 DEF Ignore, Receive, taskVars
  <2> QED
    BY <1>0, <2>1 DEF Ids
<1>3. ASSUME NEW k \in Ids, ObsStep(k)
      PROVE  /\ obs'[n] # "done" => obs[n] # "done"
             /\ n > taken' => n > taken /\ obs'[n] = obs[n]
  <2>1. /\ taken' = taken /\ obs[k] \in {"observing", "storing"}
        /\ \E step \in {"storing", "done"} : obs' = [obs EXCEPT ![k] = step]
    BY <1>3 DEF ObsStep, ObserveReturns, StoreObservation, vars
  <2>2. ~(k > taken)
    BY <2>1 DEF CountInv
  <2> QED
    BY <2>1, <2>2 DEF PipelineTypeOK
<1>4. CASE ~Spawn /\ ~Ignore /\ ~(\E k \in Ids : ObsStep(k))
  <2>1. UNCHANGED <<taken, obs>>
    BY <1>4 DEF PipelineNext, StoreIgnored, TakeQuote, Detect, StoreOpportunity, QuotesClosed,
                SendQuote, ScanStep, ScanReturns, StoreSignal, StoreSimulation, StoreExecution,
                vars, taskVars
  <2> QED
    BY <2>1
<1> QED
  BY <1>1, <1>2, <1>3, <1>4

(* Every step tries an insert that was not tried before.                   *)
LEMMA NextCount ==
  PipelineTypeOK /\ InOrder /\ RowsInv /\ CountInv /\ [PipelineNext]_allVars => CountInv'
<1> SUFFICES ASSUME PipelineTypeOK, InOrder, RowsInv, CountInv, [PipelineNext]_allVars
             PROVE  CountInv'
  OBVIOUS
<1>1. CASE UNCHANGED allVars
  BY <1>1 DEF allVars, vars, taskVars, dbVars, CountInv, Attempted, Attempts, ObservationRow
<1>2. CASE PipelineNext
  <2>1. \A n \in Ids : n > taken' => obs'[n] = "none"
    BY <1>2, ObsMoves DEF CountInv
  <2>2. CASE UNCHANGED <<rows, lostRows>>
    <3>1. Attempted' = Attempted /\ \A r : Attempts(r)' = Attempts(r)
      BY <2>2 DEF Attempted, Attempts
    <3>2. \A n \in Ids : obs'[n] # "done" => ObservationRow(n) \notin Attempted'
      BY <1>2, <3>1, ObsMoves DEF CountInv
    <3>3. \A r \in Attempted' : Attempts(r)' = 1
      BY <3>1 DEF CountInv
    <3> QED
      BY <2>1, <3>2, <3>3 DEF CountInv, ObservationRow
  <2>3. ASSUME NEW row \in Row, Insert(row), row \notin Attempted,
               row.table = "observation" => obs'[row.id] = "done"
        PROVE  CountInv'
    <3>1. /\ Attempted' = Attempted \union {row} /\ Attempts(row)' = 1
          /\ \A q : q # row => Attempts(q)' = Attempts(q)
      BY <2>3, InsertAttempts DEF RowTypes, PipelineTypeOK
    <3>2. ASSUME NEW n \in Ids, obs'[n] # "done"
          PROVE  ObservationRow(n) \notin Attempted'
      <4>1. ObservationRow(n) \notin Attempted
        BY <1>2, <3>2, ObsMoves DEF CountInv
      <4>2. ObservationRow(n) # row
        BY <2>3, <3>2 DEF ObservationRow, RowOf
      <4> QED
        BY <3>1, <4>1, <4>2
    <3>3. \A r \in Attempted' : Attempts(r)' = 1
      BY <2>3, <3>1 DEF CountInv
    <3> QED
      BY <2>1, <3>2, <3>3 DEF CountInv, ObservationRow
  <2> QED
    BY <1>2, <2>2, <2>3, NewRows
<1> QED
  BY <1>1, <1>2

(* The variables of the pipeline keep their types.                         *)
THEOREM PipelineTypeCorrect == PipelineSpec => []PipelineTypeOK
BY InitPipeline, NextPipeline, PipelineInOrder, PTL DEF PipelineSpec

(* The stage of a scan tells exactly which rows of its signal have been    *)
(* attempted, each once: the inductive invariant behind RowsConsistent.    *)
THEOREM RowsInvariant == PipelineSpec => [](PipelineTypeOK /\ RowsInv /\ CountInv)
BY InitPipeline, NextPipeline, NextCount, PipelineInOrder, PTL DEF PipelineSpec

(* The invariant rules out double and contradicting rows.                  *)
LEMMA InvImpliesRowsConsistent ==
  PipelineTypeOK /\ RowsInv /\ CountInv => RowsConsistent
<1> SUFFICES ASSUME PipelineTypeOK, RowsInv, CountInv
             PROVE  RowsConsistent
  OBVIOUS
<1>1. ASSUME NEW r \in Attempted
      PROVE  /\ r = RowOf(r.table, r.id, r.value) /\ r.id \in Ids
             /\ r.table # "observation" => r \in RowsOf(r.id) /\ StageInv(r.id)
             /\ r.table = "observation" => r.value = "observed"
  <2>1. r \in Row
    BY DEF Attempted, PipelineTypeOK
  <2> QED
    BY <2>1 DEF Row, RowOf, RowsOf, RowsInv, ObservationInv
<1>2. OneInsert
  <2> SUFFICES ASSUME NEW r \in Attempted, NEW q \in Attempted,
                      r.table = q.table, r.id = q.id
               PROVE  r.value = q.value
    BY <1>1 DEF OneInsert, CountInv
  <2>1. CASE r.table = "observation"
    BY <1>1, <2>1
  <2>2. CASE r.table # "observation"
    <3> DEFINE n == r.id
    <3>1. StageInv(n) /\ r \in RowsOf(n) /\ q \in RowsOf(n) /\ n \in Ids
      BY <1>1, <2>2
    <3>2. CASE scan[n] = "none"
      BY <3>1, <3>2 DEF StageInv, IgnoredRow, RowOf
    <3>3. CASE scan[n] # "none"
      <4>1. RowsOf(n) \subseteq {SignalRow(n), SimulationRow(n), ExecutionRow(n)}
        BY <3>1, <3>3 DEF StageInv, PipelineTypeOK
      <4>2. \A row \in RowsOf(n) : row.value = verdict[n]
        BY <4>1 DEF SignalRow, SimulationRow, ExecutionRow, RowOf
      <4> QED
        BY <3>1, <4>2
    <3> QED
      BY <3>2, <3>3
  <2> QED
    BY <2>1, <2>2
<1>3. ExecutionFollows
  <2> SUFFICES ASSUME NEW r \in Attempted, r.table \in {"simulation", "execution"}
               PROVE  /\ r.value \in {"profitable", "unprofitable"}
                      /\ RowOf("signal", r.id, r.value) \in Attempted
                      /\ r.table = "execution" =>
                           RowOf("simulation", r.id, r.value) \in Attempted
    BY DEF ExecutionFollows
  <2> DEFINE n == r.id
  <2>1. n \in Ids /\ r \in RowsOf(n) /\ StageInv(n)
    BY <1>1
  <2>2. scan[n] \in {"execution", "done"} /\ Kept(n) /\ r.value = verdict[n]
    BY <2>1 DEF StageInv, SignalRow, SimulationRow, ExecutionRow, IgnoredRow, RowOf,
                PipelineTypeOK
  <2>3. SignalRow(n) \in RowsOf(n) /\ SimulationRow(n) \in RowsOf(n)
    BY <2>1, <2>2 DEF StageInv, Kept
  <2> QED
    BY <2>2, <2>3 DEF Kept, SignalRow, SimulationRow, RowsOf
<1>4. ScanLeavesRows
  <2> SUFFICES ASSUME NEW n \in Ids, scan[n] = "done"
               PROVE  /\ SignalRow(n) \in RowsOf(n)
                      /\ verdict[n] # "failed" =>
                           {SimulationRow(n), ExecutionRow(n)} \subseteq RowsOf(n)
    BY DEF ScanLeavesRows, RowsOf
  <2>1. StageInv(n)
    BY DEF RowsInv
  <2> QED
    BY <2>1 DEF StageInv
<1> QED
  BY <1>2, <1>3, <1>4 DEF RowsConsistent

(* No two tables ever contradict each other about a signal, at any instant *)
(* a crash could freeze; no insert is tried twice, and a scan that is done *)
(* has tried all of its own.                                               *)
THEOREM RowsAreConsistent == PipelineSpec => []RowsConsistent
BY RowsInvariant, InvImpliesRowsConsistent, PTL

-----------------------------------------------------------------------------
(* The counters.  Every signal taken is on one side of the ledger, and the *)
(* trigger counter is the number of signals whose task was spawned.        *)
LedgerInv ==
  /\ \A n \in Ids : n <= taken => n \in Triggered \union Ignored
  /\ triggered = Cardinality(Triggered)

(* The triggered signals are finitely many.                                *)
LEMMA TriggeredFinite == IsFiniteSet(Triggered) /\ Cardinality(Triggered) \in Nat
<1>1. IsFiniteSet(Ids)
  BY FeedAssumption, FS_Interval DEF Ids
<1>2. IsFiniteSet(Triggered)
  BY <1>1, FS_Subset DEF Triggered
<1> QED
  BY <1>2, FS_CardinalityType

(* What the invariant of the rows says about the ledger.                   *)
LEMMA IgnoredRows ==
  ASSUME PipelineTypeOK, RowsInv, NEW n \in Ignored
  PROVE  n \in Ids /\ n <= taken /\ scan[n] = "none"
<1>1. CASE n \in {current[i].id : i \in DOMAIN current}
  <2>1. PICK i \in DOMAIN current : n = current[i].id
    BY <1>1
  <2>2. i = 1 /\ current # <<>>
    BY <2>1 DEF PipelineTypeOK
  <2> QED
    BY <2>1, <2>2 DEF RowsInv, LoopInv, Unprocessed
<1>2. CASE n \in {r.id : r \in {q \in Attempted : q.value = "ignored"}}
  <2>1. PICK r \in Attempted : r.value = "ignored" /\ n = r.id
    BY <1>2
  <2>2. r \in Row /\ n \in Ids
    BY <2>1 DEF Attempted, PipelineTypeOK, Row
  <2>3. r \in RowsOf(n)
    BY <2>1 DEF RowsOf, RowsInv, ObservationInv
  <2>4. ~(n > taken)
    BY <2>2, <2>3 DEF RowsInv, Unprocessed
  <2>5. n <= taken
    BY <2>2, <2>4 DEF PipelineTypeOK, TypeOK, Ids
  <2>6. scan[n] = "none"
    <3>1. StageInv(n) /\ scan[n] \in {"none", "scanning", "signal", "simulation", "execution", "done"}
      BY <2>2 DEF RowsInv, PipelineTypeOK
    <3>2. r.value # verdict[n]
      BY <2>1, <2>2 DEF PipelineTypeOK, Verdicts
    <3> QED
      BY <2>3, <3>1, <3>2 DEF StageInv, SignalRow, SimulationRow, ExecutionRow, RowOf
  <2> QED
    BY <2>2, <2>5, <2>6
<1> QED
  BY <1>1, <1>2 DEF Ignored

(* With the rows they give the counters.                                   *)
LEMMA LedgerImpliesCounters ==
  PipelineTypeOK /\ RowsInv /\ InOrder /\ LedgerInv => CountersAgree
<1> SUFFICES ASSUME PipelineTypeOK, RowsInv, InOrder, LedgerInv PROVE CountersAgree
  OBVIOUS
<1>1. Triggered \intersect Ignored = {}
  BY IgnoredRows DEF Triggered
<1>2. taken \in Nat /\ taken <= MaxSignals
  BY FeedAssumption DEF PipelineTypeOK, TypeOK, InOrder
<1>3. Triggered \union Ignored = 1..taken
  <2>1. ASSUME NEW n \in 1..taken PROVE n \in Triggered \union Ignored
    <3>1. n \in Ids /\ n <= taken
      BY <1>2, FeedAssumption DEF Ids
    <3> QED
      BY <3>1 DEF LedgerInv
  <2>2. ASSUME NEW n \in Triggered PROVE n \in 1..taken
    <3>1. n \in Ids /\ ~(n > taken)
      BY DEF Triggered, RowsInv, Unprocessed
    <3> QED
      BY <1>2, <3>1 DEF Ids
  <2>3. ASSUME NEW n \in Ignored PROVE n \in 1..taken
    BY <1>2, IgnoredRows DEF Ids
  <2> QED
    BY <2>1, <2>2, <2>3
<1>4. IsFiniteSet(1..taken) /\ Cardinality(1..taken) = taken
  BY <1>2, FS_Interval
<1>5. IsFiniteSet(Ignored) /\ IsFiniteSet(Triggered)
  <2>1. Ignored \subseteq 1..taken
    BY <1>3
  <2> QED
    BY <1>4, <2>1, FS_Subset, TriggeredFinite
<1>6. Cardinality(Triggered \union Ignored) = Cardinality(Triggered) + Cardinality(Ignored)
  <2>1. Cardinality(Triggered \intersect Ignored) = 0
    BY <1>1, FS_EmptySet
  <2>2. Cardinality(Triggered) \in Nat /\ Cardinality(Ignored) \in Nat
    BY <1>5, FS_CardinalityType
  <2>3. Cardinality(Triggered \union Ignored)
          = Cardinality(Triggered) + Cardinality(Ignored) - Cardinality(Triggered \intersect Ignored)
    BY <1>5, FS_Union
  <2> QED
    BY <2>1, <2>2, <2>3
<1> QED
  BY <1>1, <1>3, <1>4, <1>6 DEF LedgerInv, CountersAgree

(* A step that takes no signal and starts no task keeps the ledger, if it  *)
(* takes no signal off the list of the ignored.                            *)
LEMMA LedgerKept ==
  ASSUME LedgerInv, UNCHANGED <<taken, triggered>>, Triggered' = Triggered,
         Ignored \subseteq Ignored'
  PROVE  LedgerInv'
BY DEF LedgerInv

(* Rows are only added, so an ignored signal stays one.                    *)
LEMMA MoreAttempts ==
  ASSUME UNCHANGED current, Attempted \subseteq Attempted'
  PROVE  Ignored \subseteq Ignored'
BY DEF Ignored

(* Every step keeps the account.                                           *)
LEMMA NextLedger ==
  ASSUME PipelineTypeOK, RowsInv, CountInv, InOrder, LedgerInv, [PipelineNext]_allVars
  PROVE  LedgerInv'
<1>0. Attempted \subseteq Attempted'
  <2>1. ASSUME UNCHANGED <<rows, lostRows>> PROVE Attempted' = Attempted
    BY <2>1 DEF Attempted
  <2>2. ASSUME NEW row \in Row, Insert(row) PROVE Attempted' = Attempted \union {row}
    BY <2>2, InsertAttempts DEF RowTypes, PipelineTypeOK
  <2>3. CASE UNCHANGED allVars
    BY <2>1, <2>3 DEF allVars, dbVars
  <2>4. CASE PipelineNext
    BY <2>1, <2>2, <2>4, NewRows
  <2> QED
    BY <2>3, <2>4
<1>1. CASE Spawn
  <2>1. PICK n \in Ids : n = Head(chan).id /\ n = taken + 1 /\ taken \in Nat /\ taken' = n
    BY <1>1, HeadIsNext DEF Spawn, Receive, PipelineTypeOK, TypeOK
  <2>2. /\ triggered' = triggered + 1 /\ scan' = [scan EXCEPT ![n] = "scanning"]
        /\ UNCHANGED current
    BY <1>1, <2>1 DEF Spawn, CountTrigger
  <2>3. n \notin Triggered
    BY <2>1 DEF Triggered, RowsInv, Unprocessed
  <2>4. Triggered' = Triggered \union {n}
    BY <2>1, <2>2 DEF Triggered, PipelineTypeOK
  <2>5. Cardinality(Triggered') = Cardinality(Triggered) + 1
    BY <2>3, <2>4, FS_AddElement, TriggeredFinite
  <2>6. ASSUME NEW m \in Ids, m <= taken' PROVE m \in Triggered' \union Ignored'
    <3>1. m <= taken \/ m = n
      BY <2>1, <2>6 DEF Ids
    <3> QED
      BY <1>0, <2>2, <2>4, <3>1, MoreAttempts DEF LedgerInv
  <2> QED
    BY <2>2, <2>5, <2>6 DEF LedgerInv
<1>2. CASE Ignore
  <2> DEFINE sig == Head(chan)
  <2>1. /\ sig \in Signal /\ sig.id = taken + 1 /\ taken \in Nat /\ taken' = taken + 1
        /\ loop = "select" /\ current' = <<sig>>
        /\ UNCHANGED <<triggered, scan>>
    BY <1>2, HeadIsNext DEF Ignore, Receive, taskVars, PipelineTypeOK, TypeOK
  <2> HIDE DEF sig
  <2>2. current = <<>>
    BY <2>1 DEF RowsInv, LoopInv
  <2>3. Ignored \subseteq Ignored'
    BY <1>0, <2>2 DEF Ignored
  <2>4. sig.id \in Ignored'
    <3>1. 1 \in DOMAIN current' /\ current'[1] = sig
      BY <2>1
    <3> QED
      BY <3>1 DEF Ignored
  <2>5. Triggered' = Triggered
    BY <2>1 DEF Triggered
  <2>6. ASSUME NEW m \in Ids, m <= taken' PROVE m \in Triggered' \union Ignored'
    <3>1. m <= taken \/ m = sig.id
      BY <2>1, <2>6 DEF Ids
    <3> QED
      BY <2>3, <2>4, <2>5, <3>1 DEF LedgerInv
  <2> QED
    BY <2>1, <2>5, <2>6 DEF LedgerInv
<1>3. CASE StoreIgnored
  <2>1. Insert(IgnoredRow(current[1].id)) /\ UNCHANGED <<taken, triggered, scan>>
    BY <1>3 DEF StoreIgnored, vars, taskVars
  <2>2. IgnoredRow(current[1].id) \in Row
    BY <1>3 DEF StoreIgnored, RowsInv, LoopInv, IgnoredRow, RowOf, Row
  <2>3. current[1].id \in Ignored'
    <3>1. IgnoredRow(current[1].id) \in Attempted'
      BY <2>1, <2>2, InsertAttempts DEF RowTypes, PipelineTypeOK
    <3> QED
      BY <3>1 DEF Ignored, IgnoredRow, RowOf
  <2>4. \A i \in DOMAIN current : i = 1
    BY DEF PipelineTypeOK
  <2>5. Ignored \subseteq Ignored'
    BY <1>0, <2>3, <2>4 DEF Ignored
  <2> QED
    BY <2>1, <2>5, LedgerKept DEF Triggered
<1>4. CASE \/ TakeQuote \/ Detect \/ StoreOpportunity \/ QuotesClosed \/ SendQuote
           \/ FeedStep /\ UNCHANGED <<taken, loopVars, taskVars, dbVars>>
           \/ \E n \in Ids : ObsStep(n)
           \/ UNCHANGED allVars
  <2>1. UNCHANGED <<taken, triggered, scan, current>>
    BY <1>4 DEF TakeQuote, Detect, StoreOpportunity, QuotesClosed, SendQuote, ObsStep,
                ObserveReturns, StoreObservation, allVars, vars, taskVars, loopVars
  <2> QED
    BY <1>0, <2>1, LedgerKept, MoreAttempts DEF Triggered
<1>5. ASSUME NEW n \in Ids, ScanStep(n) PROVE LedgerInv'
  <2>1. /\ UNCHANGED <<taken, triggered, current>> /\ scan[n] # "none"
        /\ \E stage \in {"signal", "simulation", "execution", "done"} :
             scan' = [scan EXCEPT ![n] = stage]
    BY <1>5 DEF ScanStep, ScanReturns, StoreSignal, StoreSimulation, StoreExecution, AfterSignal,
                vars, loopVars
  <2>2. Triggered' = Triggered
    BY <2>1 DEF Triggered, PipelineTypeOK
  <2> QED
    BY <1>0, <2>1, <2>2, LedgerKept, MoreAttempts
<1> QED
  BY <1>1, <1>2, <1>3, <1>4, <1>5, StepCases DEF LoopStep, TaskStep

(* The counters the loop reports account for every signal it has taken:    *)
(* each is triggered or ignored, and none is both.                         *)
THEOREM CountersAccount == PipelineSpec => []CountersAgree
<1>1. PipelineInit => LedgerInv
  <2> SUFFICES ASSUME PipelineInit PROVE LedgerInv
    OBVIOUS
  <2>1. taken = 0 /\ triggered = 0 /\ \A n \in Ids : scan[n] = "none"
    BY DEF PipelineInit, Init
  <2>2. Triggered = {}
    BY <2>1 DEF Triggered
  <2>3. \A n \in Ids : ~(n <= taken)
    BY <2>1 DEF Ids
  <2> QED
    BY <2>1, <2>2, <2>3, FS_EmptySet DEF LedgerInv
<1> QED
  BY <1>1, NextLedger, LedgerImpliesCounters, RowsInvariant, PipelineInOrder, PTL DEF PipelineSpec

-----------------------------------------------------------------------------
(* Recording a signal is receiving it; nothing else touches the feed.      *)
LEMMA TrackerStepsFeed == [TrackerNext]_feedTrackerVars => [Next]_vars
BY DEF TrackerNext, feedTrackerVars, FeedOnly, Second, Record, Next, FeedStep

(* The main loop with its tracker uses the feed as its specification says: *)
(* the order of the signals and the debounce hold in front of the tracker. *)
THEOREM TrackerKeepsFeed == TrackerSpec => [](TypeOK /\ InOrder) /\ DebounceSpacing
<1>1. TrackerInit => TypeOK /\ InOrder /\ DebounceInv
  BY InitTypeOK DEF TrackerInit, Init, FeedInit, InOrder, DebounceInv, Remembered
<1>2. TypeOK /\ InOrder /\ DebounceInv /\ [Next]_vars
        => (TypeOK /\ InOrder /\ DebounceInv)'
  BY NextTypeOK, NextInOrder, NextDebounceInv
<1> QED
  BY <1>1, <1>2, SpacingStep, TrackerStepsFeed, PTL DEF TrackerSpec, DebounceSpacing

(* With the tracker as its receiver too, the suspended send and the channel*)
(* are one bounded queue: the safety part of what the run checks.          *)
THEOREM TrackerKeepsPath == TrackerSpec => Path!Safety
<1>1. TrackerInit => Path!Init
  BY DEF TrackerInit, Init, FeedInit, Path!Init
<1>2. TypeOK /\ [TrackerNext]_feedTrackerVars => [Path!Next]_(Path!vars)
  BY TrackerStepsFeed, NextPath
<1> QED
  BY <1>1, <1>2, TrackerKeepsFeed, PTL DEF TrackerSpec, Path!Safety

-----------------------------------------------------------------------------
(* The flags.  As long as the last flag of a token is younger than HotFor  *)
(* its entry is there and has its age: the clean-up drops no younger one.  *)
FlagTypes ==
  /\ hot \in [Tokens -> Absent..HotFor]
  /\ sinceFlag \in [Tokens -> 0..HotFor]
FlagInv ==
  /\ FlagTypes
  /\ \A t \in Tokens : sinceFlag[t] = HotFor \/ hot[t] = sinceFlag[t]

(* A flag is raised only HotFor seconds after the one before.              *)
FlagSpacing ==
  [][\A t \in Tokens : hot'[t] = 0 /\ hot[t] # 0 => sinceFlag[t] = HotFor]_feedTrackerVars

(* The token of a received signal.                                         *)
LEMMA RecordedToken ==
  ASSUME TypeOK, Record
  PROVE  Head(chan).token \in Tokens
<1>1. chan \in Seq(Signal) /\ chan # <<>>
  BY DEF TypeOK, Record, Receive
<1>2. Head(chan) \in Signal
  BY <1>1
<1> QED
  BY <1>2 DEF Signal

(* One recorded signal stamps a flag that was not hot, or none.            *)
LEMMA RecordFlags ==
  ASSUME TypeOK, FlagInv, Record
  PROVE  LET t == Head(chan).token
         IN  \/ UNCHANGED sinceFlag /\ (hot' = hot \/ hot' = CleanFlags(hot))
             \/ /\ ~IsHot(t)
                /\ sinceFlag' = [sinceFlag EXCEPT ![t] = 0]
                /\ \/ hot' = [hot EXCEPT ![t] = 0]
                   \/ hot' = CleanFlags([hot EXCEPT ![t] = 0])
<1> DEFINE t    == Head(chan).token
           ages == Prune(Append(swaps[t], 0))
<1>1. t \in Tokens
  BY RecordedToken
<1>2. CASE Flagged(t, ages)
  <2>1. /\ ~IsHot(t)
        /\ sinceFlag' = [sinceFlag EXCEPT ![t] = 0]
        /\ \/ hot' = [hot EXCEPT ![t] = 0]
           \/ hot' = CleanFlags([hot EXCEPT ![t] = 0])
    BY <1>2 DEF Record, Flagged
  <2> QED
    BY <2>1
<1>3. CASE ~Flagged(t, ages)
  <2>1. /\ sinceFlag' = [sinceFlag EXCEPT ![t] = @]
        /\ hot' = hot \/ hot' = CleanFlags(hot)
    BY <1>3 DEF Record
  <2>2. sinceFlag' = sinceFlag
    BY <2>1 DEF FlagInv, FlagTypes
  <2> QED
    BY <2>1, <2>2
<1> QED
  BY <1>2, <1>3

(* The clean-up keeps the types and every flag that is still hot.          *)
LEMMA CleanFlagsKeeps ==
  ASSUME NEW flags \in [Tokens -> Absent..HotFor]
  PROVE  /\ CleanFlags(flags) \in [Tokens -> Absent..HotFor]
         /\ \A t \in Tokens : /\ flags[t] < HotFor => CleanFlags(flags)[t] = flags[t]
                              /\ CleanFlags(flags)[t] \in {flags[t], Absent}
BY TrackerAssumption DEF CleanFlags, Absent

(* So does raising a flag, for the flags of the other tokens.              *)
LEMMA StampKeeps ==
  ASSUME NEW flags \in [Tokens -> Absent..HotFor], NEW t \in Tokens
  PROVE  /\ [flags EXCEPT ![t] = 0] \in [Tokens -> Absent..HotFor]
         /\ \A u \in Tokens : [flags EXCEPT ![t] = 0][u] = IF u = t THEN 0 ELSE flags[u]
<1>1. 0 \in Absent..HotFor
  BY TrackerAssumption DEF Absent
<1> QED
  BY <1>1

(* Every step keeps the flags as old as they are.                          *)
LEMMA NextFlagInv ==
  TypeOK /\ FlagInv /\ [TrackerNext]_feedTrackerVars => FlagInv'
<1> SUFFICES ASSUME TypeOK, FlagInv, [TrackerNext]_feedTrackerVars
             PROVE  FlagInv'
  OBVIOUS
<1> USE TrackerAssumption
<1>1. CASE FeedOnly \/ UNCHANGED feedTrackerVars
  BY <1>1 DEF FeedOnly, feedTrackerVars, trackerVars, FlagInv, FlagTypes
<1>2. CASE Second
  <2>1. /\ hot' = [t \in Tokens |-> Older(hot[t], HotFor)]
        /\ sinceFlag' = [t \in Tokens |-> Older(sinceFlag[t], HotFor)]
    BY <1>2 DEF Second
  <2>2. FlagTypes'
    BY <2>1 DEF FlagInv, FlagTypes, Older, Absent
  <2>3. ASSUME NEW t \in Tokens
        PROVE  sinceFlag'[t] = HotFor \/ hot'[t] = sinceFlag'[t]
    BY <2>1 DEF FlagInv, FlagTypes, Older, Absent
  <2> QED
    BY <2>2, <2>3 DEF FlagInv
<1>3. CASE Record
  <2> DEFINE t == Head(chan).token
  <2>1. t \in Tokens
    BY <1>3, RecordedToken
  <2>2. CASE UNCHANGED sinceFlag /\ (hot' = hot \/ hot' = CleanFlags(hot))
    <3>1. FlagTypes'
      BY <2>2, CleanFlagsKeeps DEF FlagInv, FlagTypes
    <3>2. ASSUME NEW u \in Tokens
          PROVE  sinceFlag'[u] = HotFor \/ hot'[u] = sinceFlag'[u]
      BY <2>2, CleanFlagsKeeps DEF FlagInv, FlagTypes, Absent
    <3> QED
      BY <3>1, <3>2 DEF FlagInv
  <2>3. ASSUME sinceFlag' = [sinceFlag EXCEPT ![t] = 0],
               \/ hot' = [hot EXCEPT ![t] = 0]
               \/ hot' = CleanFlags([hot EXCEPT ![t] = 0])
        PROVE  FlagInv'
    <3> DEFINE stamped == [hot EXCEPT ![t] = 0]
    <3>1. hot \in [Tokens -> Absent..HotFor] /\ sinceFlag \in [Tokens -> 0..HotFor]
      BY DEF FlagInv, FlagTypes
    <3>2. stamped \in [Tokens -> Absent..HotFor]
      BY <2>1, <3>1, StampKeeps
    <3>3. FlagTypes'
      <4>1. sinceFlag' \in [Tokens -> 0..HotFor]
        <5>1. 0 \in 0..HotFor
          OBVIOUS
        <5>2. sinceFlag' = [sinceFlag EXCEPT ![t] = 0]
          BY <2>3
        <5> HIDE DEF t
        <5> QED
          BY <3>1, <5>1, <5>2, Zenon
      <4> HIDE DEF stamped
      <4>2. hot' = stamped \/ hot' = CleanFlags(stamped)
        BY <2>3 DEF stamped
      <4>3. hot' \in [Tokens -> Absent..HotFor]
        BY <3>2, <4>2, CleanFlagsKeeps
      <4> QED
        BY <4>1, <4>3 DEF FlagTypes
    <3>4. ASSUME NEW u \in Tokens
          PROVE  sinceFlag[u]' = HotFor \/ stamped[u] = sinceFlag'[u]
      BY <2>1, <2>3, <3>1, <3>4, StampKeeps DEF FlagInv
    <3>5. ASSUME NEW u \in Tokens
          PROVE  sinceFlag'[u] = HotFor \/ hot'[u] = sinceFlag'[u]
      <4>1. sinceFlag'[u] \in 0..HotFor
        BY <3>3 DEF FlagTypes
      <4> HIDE DEF stamped
      <4>2. CASE hot' = stamped
        BY <3>4, <4>2
      <4>3. CASE hot' = CleanFlags(stamped)
        BY <3>2, <3>4, <4>1, <4>3, CleanFlagsKeeps
      <4> QED
        BY <2>3, <4>2, <4>3 DEF stamped
    <3> QED
      BY <3>3, <3>5 DEF FlagInv
  <2> QED
    BY <1>3, <2>2, <2>3, RecordFlags
<1> QED
  BY <1>1, <1>2, <1>3 DEF TrackerNext

(* A flag is raised by a recorded signal of a token that is not hot.       *)
LEMMA SpacingOfFlags ==
  TypeOK /\ FlagInv /\ [TrackerNext]_feedTrackerVars
    => [\A t \in Tokens : hot'[t] = 0 /\ hot[t] # 0 => sinceFlag[t] = HotFor]_feedTrackerVars
<1> SUFFICES ASSUME TypeOK, FlagInv, TrackerNext,
                    NEW t \in Tokens, hot'[t] = 0, hot[t] # 0
             PROVE  sinceFlag[t] = HotFor
  BY DEF feedTrackerVars
<1> USE TrackerAssumption
<1>1. CASE FeedOnly
  BY <1>1 DEF FeedOnly, trackerVars
<1>2. CASE Second
  BY <1>2 DEF Second, Older, FlagInv, FlagTypes, Absent
<1>3. CASE Record
  <2> DEFINE u == Head(chan).token
  <2>1. u \in Tokens
    BY <1>3, RecordedToken
  <2>2. CASE hot' = hot \/ hot' = CleanFlags(hot)
    BY <2>2, CleanFlagsKeeps DEF FlagInv, FlagTypes, Absent
  <2>3. CASE /\ ~IsHot(u)
             /\ \/ hot' = [hot EXCEPT ![u] = 0]
                \/ hot' = CleanFlags([hot EXCEPT ![u] = 0])
    <3> DEFINE stamped == [hot EXCEPT ![u] = 0]
    <3>1. stamped \in [Tokens -> Absent..HotFor]
      BY <2>1, StampKeeps DEF FlagInv, FlagTypes
    <3>2. hot'[t] \in {stamped[t], Absent}
      BY <2>3, <3>1, CleanFlagsKeeps
    <3>3. t = u
      BY <2>1, <3>2 DEF FlagInv, FlagTypes, Absent
    <3> QED
      BY <2>3, <3>3 DEF IsHot, FlagInv, FlagTypes, Absent
  <2> QED
    BY <1>3, <2>2, <2>3, RecordFlags
<1> QED
  BY <1>1, <1>2, <1>3 DEF TrackerNext

(* A token is flagged at most once in HotFor seconds, wherever clean-ups   *)
(* fall: the part of AlertsExact about repeated alerts, for all constants  *)
(* (volume_tracker.rs:68-77, 101-104).                                     *)
THEOREM FlagsAreSpaced == TrackerSpec => FlagSpacing
<1>1. TrackerInit => FlagInv
  BY TrackerAssumption DEF TrackerInit, FlagInv, FlagTypes, Absent
<1> QED
  BY <1>1, NextFlagInv, SpacingOfFlags, TrackerKeepsFeed, PTL
  DEF TrackerSpec, FlagSpacing
-----------------------------------------------------------------------------
(* The deques.  Facts about dropping the front of a sequence.              *)
LEMMA DropFacts ==
  ASSUME NEW S, NEW s \in Seq(S), NEW n \in 0..Len(s)
  PROVE  /\ Drop(s, n) \in Seq(S) /\ Len(Drop(s, n)) = Len(s) - n /\ Len(s) \in Nat
         /\ \A i \in 1..(Len(s) - n) : Drop(s, n)[i] = s[i + n]
         /\ n = 0 => Drop(s, n) = s
<1>1. Len(s) \in Nat /\ n \in Nat /\ n <= Len(s)
  OBVIOUS
<1>2. /\ SubSeq(s, n + 1, Len(s)) \in Seq(S)
      /\ Len(SubSeq(s, n + 1, Len(s))) = Len(s) - n
      /\ \A i \in 1..(Len(s) - n) : SubSeq(s, n + 1, Len(s))[i] = s[i + n]
  BY <1>1
<1>3. n = 0 => SubSeq(s, n + 1, Len(s)) = s
  <2> SUFFICES ASSUME n = 0 PROVE SubSeq(s, n + 1, Len(s)) = s
    OBVIOUS
  <2> QED
    BY <1>1, <1>2, SeqEqual
<1> QED
  BY <1>1, <1>2, <1>3 DEF Drop

(* Dropping the front and appending commute.                               *)
LEMMA DropAppend ==
  ASSUME NEW S, NEW s \in Seq(S), NEW n \in 0..Len(s), NEW x \in S
  PROVE  Drop(Append(s, x), n) = Append(Drop(s, n), x)
<1> DEFINE longer == Append(s, x)
           rest == Drop(s, n)
<1>1. /\ longer \in Seq(S) /\ Len(longer) = Len(s) + 1
      /\ \A i \in 1..Len(s) : longer[i] = s[i]
      /\ longer[Len(s) + 1] = x /\ Len(s) \in Nat /\ n \in Nat /\ n <= Len(s)
  OBVIOUS
<1>2. /\ rest \in Seq(S) /\ Len(rest) = Len(s) - n
      /\ \A i \in 1..(Len(s) - n) : rest[i] = s[i + n]
  BY DropFacts
<1> HIDE DEF longer, rest
<1>3. /\ Drop(longer, n) \in Seq(S) /\ Len(Drop(longer, n)) = Len(s) + 1 - n
      /\ \A i \in 1..(Len(s) + 1 - n) : Drop(longer, n)[i] = longer[i + n]
  <2>1. n \in 0..Len(longer)
    BY <1>1
  <2>2. /\ Drop(longer, n) \in Seq(S) /\ Len(Drop(longer, n)) = Len(longer) - n
        /\ \A i \in 1..(Len(longer) - n) : Drop(longer, n)[i] = longer[i + n]
    BY <1>1, <2>1, DropFacts
  <2> QED
    BY <1>1, <2>2
<1>4. /\ Append(rest, x) \in Seq(S) /\ Len(Append(rest, x)) = Len(s) + 1 - n
      /\ \A i \in 1..(Len(s) - n) : Append(rest, x)[i] = rest[i]
      /\ Append(rest, x)[Len(s) - n + 1] = x
  BY <1>1, <1>2
<1>5. ASSUME NEW i \in 1..(Len(s) + 1 - n) PROVE Drop(longer, n)[i] = Append(rest, x)[i]
  <2>1. CASE i = Len(s) - n + 1
    <3>1. i + n = Len(s) + 1
      BY <1>1, <2>1
    <3>2. Drop(longer, n)[i] = x
      BY <1>1, <1>3, <3>1
    <3> QED
      BY <1>4, <2>1, <3>2
  <2>2. CASE i # Len(s) - n + 1
    <3>1. i \in 1..(Len(s) - n) /\ i + n \in 1..Len(s)
      BY <1>1, <2>2
    <3>2. Drop(longer, n)[i] = s[i + n]
      BY <1>1, <1>3, <3>1
    <3>3. Append(rest, x)[i] = s[i + n]
      BY <1>2, <1>4, <3>1
    <3> QED
      BY <3>2, <3>3
  <2> QED
    BY <2>1, <2>2
<1> QED
  BY <1>3, <1>4, <1>5, SeqEqual DEF longer, rest

(* Dropping twice is dropping the sum.                                     *)
LEMMA DropDrop ==
  ASSUME NEW S, NEW s \in Seq(S), NEW n \in 0..Len(s), NEW m \in 0..(Len(s) - n)
  PROVE  Drop(Drop(s, n), m) = Drop(s, n + m)
<1> DEFINE rest == Drop(s, n)
<1>1. /\ rest \in Seq(S) /\ Len(rest) = Len(s) - n /\ Len(s) \in Nat
      /\ \A i \in 1..(Len(s) - n) : rest[i] = s[i + n]
  BY DropFacts
<1> HIDE DEF rest
<1>2. n \in Nat /\ m \in Nat /\ n + m \in 0..Len(s) /\ m \in 0..Len(rest)
  BY <1>1
<1>3. /\ Drop(rest, m) \in Seq(S) /\ Len(Drop(rest, m)) = Len(s) - n - m
      /\ \A i \in 1..(Len(s) - n - m) : Drop(rest, m)[i] = rest[i + m]
  BY <1>1, <1>2, DropFacts
<1>4. /\ Drop(s, n + m) \in Seq(S) /\ Len(Drop(s, n + m)) = Len(s) - (n + m)
      /\ \A i \in 1..(Len(s) - (n + m)) : Drop(s, n + m)[i] = s[i + (n + m)]
  BY <1>2, DropFacts
<1>5. Len(s) - n - m = Len(s) - (n + m)
  BY <1>1, <1>2
<1>6. ASSUME NEW i \in 1..(Len(s) - n - m) PROVE Drop(rest, m)[i] = Drop(s, n + m)[i]
  <2>1. i + m \in 1..(Len(s) - n) /\ (i + m) + n = i + (n + m)
    BY <1>1, <1>2
  <2> QED
    BY <1>1, <1>3, <1>4, <1>5, <2>1
<1> QED
  BY <1>3, <1>4, <1>5, <1>6, SeqEqual DEF rest

(* A set of positions that starts at the first and has no gap.             *)
LEMMA Least ==
  ASSUME NEW T, T \subseteq Nat, T # {}
  PROVE  \E x \in T : \A y \in T : x <= y
<1> DEFINE R == {p \in Nat \X Nat : p[1] < p[2]}
<1>1. IsWellFoundedOn(R, Nat)
  BY NatLessThanWellFounded DEF OpToRel
<1>2. \E x \in T : \A y \in T : ~(<<y, x>> \in R)
  <2> HIDE DEF R
  <2> QED
    BY <1>1, WFMin
<1>3. PICK x \in T : \A y \in T : ~(<<y, x>> \in R)
  BY <1>2
<1>4. ASSUME NEW y \in T PROVE x <= y
  <2>1. ~(<<y, x>> \in R) /\ x \in Nat /\ y \in Nat
    BY <1>3
  <2>2. y < x => <<y, x>> \in R
    BY <2>1
  <2> QED
    BY <2>1, <2>2
<1> QED
  BY <1>4

(* A set of positions that contains every one before its members is an     *)
(* interval.                                                               *)
LEMMA NoGap ==
  ASSUME NEW L \in Nat, NEW T, T \subseteq 1..L, \A x \in T : \A y \in 1..x : y \in T
  PROVE  \E k \in 0..L : T = 1..k
<1> DEFINE Out == {y \in 1..(L + 1) : y \notin T}
<1>1. L + 1 \in Out /\ Out \subseteq Nat
  OBVIOUS
<1>2. PICK m \in Out : \A y \in Out : m <= y
  BY <1>1, Least
<1>3. m \in 1..(L + 1) /\ m \notin T
  BY <1>2
<1>4. ASSUME NEW x \in T PROVE x \in 1..(m - 1)
  <2>1. x \in Nat /\ x >= 1
    OBVIOUS
  <2>2. ~(m <= x)
    BY <1>3, <2>1
  <2> QED
    BY <1>3, <2>1, <2>2
<1>5. ASSUME NEW x \in 1..(m - 1) PROVE x \in T
  <2>1. x \in 1..(L + 1) /\ ~(m <= x)
    BY <1>3
  <2> QED
    BY <1>2, <2>1
<1>6. T = 1..(m - 1)
  <2> HIDE DEF Out
  <2> QED
    BY <1>4, <1>5, Zenon
<1>7. m - 1 \in 0..L
  BY <1>3
<1> QED
  BY <1>6, <1>7

(* In a deque ordered by age, what is over the window is its front, and    *)
(* popping while the front is over it removes exactly that.                *)
Ages == 0..(Window + 1)
Sorted(ages) == \A i, j \in DOMAIN ages : i <= j => ages[i] >= ages[j]
FrontOf(ages, n) ==
  /\ \A i \in 1..n : ages[i] > Window
  /\ \A i \in (n + 1)..Len(ages) : ages[i] <= Window

(* What is over the window is a front of an ordered deque.                 *)
LEMMA FrontExists ==
  ASSUME NEW ages \in Seq(Ages), Sorted(ages)
  PROVE  \E n \in 0..Len(ages) : FrontOf(ages, n)
<1> DEFINE Over == {i \in DOMAIN ages : ages[i] > Window}
<1>1. Len(ages) \in Nat /\ DOMAIN ages = 1..Len(ages) /\ \A i \in 1..Len(ages) : ages[i] \in Nat
  BY TrackerAssumption DEF Ages
<1>2. Over \subseteq 1..Len(ages)
  BY <1>1
<1>3. ASSUME NEW x \in Over, NEW y \in 1..x PROVE y \in Over
  <2>1. x \in 1..Len(ages) /\ y \in 1..Len(ages) /\ y <= x /\ ages[x] > Window
    BY <1>1
  <2>2. ages[y] >= ages[x]
    BY <1>1, <2>1 DEF Sorted
  <2> QED
    BY <1>1, <2>1, <2>2, TrackerAssumption
<1>4. PICK n \in 0..Len(ages) : Over = 1..n
  BY <1>1, <1>2, <1>3, NoGap
<1>5. ASSUME NEW i \in (n + 1)..Len(ages) PROVE ages[i] <= Window
  <2>1. i \in 1..Len(ages) /\ i \notin 1..n
    BY <1>1
  <2> QED
    BY <1>1, <1>4, <2>1, TrackerAssumption
<1> QED
  BY <1>4, <1>5 DEF FrontOf

(* Pruning drops that front.                                               *)
LEMMA FrontIsOver ==
  ASSUME NEW ages \in Seq(Ages), NEW n \in 0..Len(ages), FrontOf(ages, n)
  PROVE  /\ Prune(ages) = Drop(ages, n) /\ StillHeard(ages) = Drop(ages, n)
         /\ Drop(ages, n) \in Seq(0..Window)
<1>1. /\ Len(ages) \in Nat /\ DOMAIN ages = 1..Len(ages) /\ \A i \in 1..Len(ages) : ages[i] \in Nat
      /\ n \in Nat /\ n <= Len(ages) /\ Window \in Nat
  BY TrackerAssumption DEF Ages
<1>2. IsFiniteSet(1..n) /\ Cardinality(1..n) = n
  BY <1>1, FS_Interval
<1>3. {i \in DOMAIN ages : ages[i] > Window} = 1..n
  <2>1. ASSUME NEW i \in 1..Len(ages) PROVE ages[i] > Window <=> i \in 1..n
    <3>1. i \in 1..n \/ i \in (n + 1)..Len(ages)
      BY <1>1
    <3> QED
      BY <1>1, <3>1 DEF FrontOf
  <2> QED
    BY <1>1, <2>1
<1>4. {k \in DOMAIN ages : \A i \in 1..k : ages[i] > Window} = 1..n
  <2>1. ASSUME NEW k \in 1..Len(ages) PROVE (\A i \in 1..k : ages[i] > Window) <=> k \in 1..n
    <3>1. CASE k \in 1..n
      BY <1>1, <3>1 DEF FrontOf
    <3>2. CASE k \in (n + 1)..Len(ages)
      <4>1. k \in 1..k /\ ~(ages[k] > Window)
        BY <1>1, <3>2 DEF FrontOf
      <4> QED
        BY <1>1, <3>2, <4>1
    <3> QED
      BY <1>1, <3>1, <3>2
  <2> QED
    BY <1>1, <2>1
<1>5. FrontOver(ages, Window) = n /\ Cardinality({i \in DOMAIN ages : ages[i] > Window}) = n
  BY <1>2, <1>3, <1>4 DEF FrontOver
<1>6. Drop(ages, n) \in Seq(0..Window)
  <2> DEFINE rest == Drop(ages, n)
  <2>1. /\ rest \in Seq(Ages) /\ Len(rest) = Len(ages) - n
        /\ \A i \in 1..(Len(ages) - n) : rest[i] = ages[i + n]
    BY DropFacts
  <2> HIDE DEF rest
  <2>2. ASSUME NEW i \in 1..Len(rest) PROVE rest[i] \in 0..Window
    <3>1. i + n \in (n + 1)..Len(ages) /\ i + n \in 1..Len(ages) /\ rest[i] = ages[i + n]
      BY <1>1, <2>1
    <3> QED
      BY <1>1, <3>1 DEF FrontOf
  <2>3. rest \in [1..Len(rest) -> 0..Window]
    BY <2>1, <2>2
  <2>4. Len(rest) \in Nat
    BY <2>1
  <2>5. rest \in Seq(0..Window)
    BY <2>3, <2>4, SeqDef, Zenon
  <2> QED
    BY <2>5 DEF rest
<1> QED
  BY <1>5, <1>6 DEF Prune, StillHeard

(* A rest of an ordered deque is ordered.                                  *)
LEMMA SortedDrop ==
  ASSUME NEW ages \in Seq(Ages), Sorted(ages), NEW n \in 0..Len(ages)
  PROVE  Sorted(Drop(ages, n))
<1> DEFINE rest == Drop(ages, n)
<1>1. /\ rest \in Seq(Ages) /\ Len(rest) = Len(ages) - n /\ Len(ages) \in Nat
      /\ \A i \in 1..(Len(ages) - n) : rest[i] = ages[i + n]
  BY DropFacts
<1> HIDE DEF rest
<1>2. ASSUME NEW i \in DOMAIN rest, NEW j \in DOMAIN rest, i <= j PROVE rest[i] >= rest[j]
  <2>1. i \in 1..(Len(ages) - n) /\ j \in 1..(Len(ages) - n)
    BY <1>1
  <2>2. i + n \in DOMAIN ages /\ j + n \in DOMAIN ages /\ i + n <= j + n
    BY <1>1, <1>2, <2>1
  <2>3. ages[i + n] >= ages[j + n]
    BY <2>2 DEF Sorted
  <2> QED
    BY <1>1, <2>1, <2>3
<1> QED
  BY <1>2 DEF Sorted, rest

(* A young swap at the end: appending and pruning commute.                 *)
LEMMA PruneAppend ==
  ASSUME NEW ages \in Seq(Ages), Sorted(ages)
  PROVE  /\ Prune(Append(ages, 0)) = Append(StillHeard(ages), 0)
         /\ Append(StillHeard(ages), 0) \in Seq(0..Window)
         /\ Sorted(Append(StillHeard(ages), 0)) /\ Sorted(Append(ages, 0))
<1> DEFINE longer == Append(ages, 0)
<1>1. 0 \in Ages /\ 0 \in 0..Window /\ Window \in Nat
  BY TrackerAssumption DEF Ages
<1>2. /\ longer \in Seq(Ages) /\ Len(longer) = Len(ages) + 1 /\ Len(ages) \in Nat
      /\ longer[Len(ages) + 1] = 0 /\ \A i \in 1..Len(ages) : longer[i] = ages[i]
  BY <1>1
<1>3. PICK n \in 0..Len(ages) : FrontOf(ages, n)
  BY FrontExists
<1>4. StillHeard(ages) = Drop(ages, n) /\ Drop(ages, n) \in Seq(0..Window)
  BY <1>3, FrontIsOver
<1>5. Drop(longer, n) = Append(Drop(ages, n), 0)
  BY <1>1, DropAppend
<1> HIDE DEF longer
<1>6. FrontOf(longer, n)
  <2>1. ASSUME NEW i \in 1..n PROVE longer[i] > Window
    BY <1>2, <1>3 DEF FrontOf
  <2>2. ASSUME NEW i \in (n + 1)..Len(longer) PROVE longer[i] <= Window
    <3>1. CASE i = Len(ages) + 1
      BY <1>1, <1>2, <3>1
    <3>2. CASE i # Len(ages) + 1
      <4>1. i \in (n + 1)..Len(ages) /\ i \in 1..Len(ages)
        BY <1>2, <3>2
      <4> QED
        BY <1>2, <1>3, <4>1 DEF FrontOf
    <3> QED
      BY <3>1, <3>2
  <2> QED
    BY <2>1, <2>2 DEF FrontOf
<1>7. n \in 0..Len(longer)
  BY <1>2
<1>8. Prune(longer) = Drop(longer, n)
  BY <1>2, <1>6, <1>7, FrontIsOver
<1>9. Sorted(longer)
  <2>1. \A i \in 1..Len(ages) : ages[i] \in Nat
    BY TrackerAssumption DEF Ages
  <2>2. ASSUME NEW i \in DOMAIN longer, NEW j \in DOMAIN longer, i <= j PROVE longer[i] >= longer[j]
    <3>1. i \in 1..(Len(ages) + 1) /\ j \in 1..(Len(ages) + 1)
      BY <1>2
    <3>2. CASE j = Len(ages) + 1
      BY <1>2, <2>1, <3>1, <3>2
    <3>3. CASE j # Len(ages) + 1
      <4>1. i \in DOMAIN ages /\ j \in DOMAIN ages
        BY <1>2, <2>2, <3>1, <3>3
      <4> QED
        BY <1>2, <2>2, <4>1 DEF Sorted
    <3> QED
      BY <3>2, <3>3
  <2> QED
    BY <2>2 DEF Sorted
<1>10. Sorted(Drop(longer, n))
  BY <1>2, <1>7, <1>9, SortedDrop
<1>11. Append(Drop(ages, n), 0) \in Seq(0..Window)
  BY <1>1, <1>4
<1> QED
  BY <1>4, <1>5, <1>8, <1>9, <1>10, <1>11 DEF longer

(* Nothing is pruned of a deque of the window.                             *)
LEMMA PruneYoung ==
  ASSUME NEW ages \in Seq(0..Window)
  PROVE  ages \in Seq(Ages) /\ Prune(ages) = ages /\ StillHeard(ages) = ages
<1>1. ages \in Seq(Ages)
  <2>1. 0..Window \subseteq Ages
    BY TrackerAssumption DEF Ages
  <2> QED
    BY <2>1, SeqMonotonic
<1>2. FrontOf(ages, 0) /\ 0 \in 0..Len(ages)
  BY TrackerAssumption DEF FrontOf
<1>3. Drop(ages, 0) = ages
  BY <1>1, <1>2, DropFacts
<1> QED
  BY <1>1, <1>2, <1>3, FrontIsOver

(* A second makes every swap older and keeps their order.                  *)
LEMMA OlderFacts ==
  ASSUME NEW ages \in Seq(Ages)
  PROVE  /\ OlderAll(ages) \in Seq(Ages) /\ Len(OlderAll(ages)) = Len(ages)
         /\ \A i \in 1..Len(ages) :
              OlderAll(ages)[i] = IF ages[i] > Window THEN ages[i] ELSE ages[i] + 1
<1>1. /\ Len(ages) \in Nat /\ DOMAIN ages = 1..Len(ages) /\ \A i \in 1..Len(ages) : ages[i] \in Ages
      /\ Window \in Nat
  BY TrackerAssumption
<1>2. ASSUME NEW i \in 1..Len(ages)
      PROVE  /\ OlderAll(ages)[i] = IF ages[i] > Window THEN ages[i] ELSE ages[i] + 1
             /\ OlderAll(ages)[i] \in Ages
  <2>1. OlderAll(ages)[i] = Older(ages[i], Window + 1)
    BY <1>1 DEF OlderAll
  <2>2. ages[i] \in 0..(Window + 1)
    BY <1>1 DEF Ages
  <2>3. Older(ages[i], Window + 1) = IF ages[i] > Window THEN ages[i] ELSE ages[i] + 1
    BY <1>1, <2>2 DEF Older, Absent
  <2> QED
    BY <1>1, <2>1, <2>2, <2>3 DEF Ages
<1>3. DOMAIN OlderAll(ages) = 1..Len(ages)
  BY <1>1 DEF OlderAll
<1>4. OlderAll(ages) = [i \in 1..Len(ages) |-> OlderAll(ages)[i]]
  BY <1>1 DEF OlderAll
<1> DEFINE older == OlderAll(ages)
<1> HIDE DEF older
<1>5. older \in [1..Len(ages) -> Ages]
  BY <1>2, <1>4 DEF older
<1>6. older \in Seq(Ages)
  BY <1>1, <1>5, SeqDef, Zenon
<1>7. Len(older) = Len(ages)
  BY <1>1, <1>3, <1>6, LenProperties DEF older
<1> QED
  BY <1>2, <1>6, <1>7 DEF older

(* Ageing keeps the order.                                                 *)
LEMMA OlderSorted ==
  ASSUME NEW ages \in Seq(Ages), Sorted(ages)
  PROVE  Sorted(OlderAll(ages))
<1>1. /\ Len(ages) \in Nat /\ DOMAIN ages = 1..Len(ages) /\ \A i \in 1..Len(ages) : ages[i] \in Nat
      /\ Window \in Nat
  BY TrackerAssumption DEF Ages
<1>2. DOMAIN OlderAll(ages) = 1..Len(ages)
  BY <1>1, OlderFacts
<1>3. ASSUME NEW i \in 1..Len(ages), NEW j \in 1..Len(ages), i <= j
      PROVE  OlderAll(ages)[i] >= OlderAll(ages)[j]
  <2>1. ages[i] >= ages[j]
    BY <1>1, <1>3 DEF Sorted
  <2> QED
    BY <1>1, <2>1, OlderFacts
<1> QED
  BY <1>2, <1>3 DEF Sorted

(* Ageing and dropping commute.                                            *)
LEMMA OlderDrop ==
  ASSUME NEW ages \in Seq(Ages), NEW n \in 0..Len(ages)
  PROVE  OlderAll(Drop(ages, n)) = Drop(OlderAll(ages), n)
<1> DEFINE rest == Drop(ages, n)
           older == OlderAll(ages)
<1>1. /\ rest \in Seq(Ages) /\ Len(rest) = Len(ages) - n /\ Len(ages) \in Nat
      /\ \A i \in 1..(Len(ages) - n) : rest[i] = ages[i + n]
  BY DropFacts
<1>2. /\ older \in Seq(Ages) /\ Len(older) = Len(ages)
      /\ \A i \in 1..Len(ages) : older[i] = IF ages[i] > Window THEN ages[i] ELSE ages[i] + 1
  BY OlderFacts
<1> HIDE DEF rest, older
<1>3. /\ OlderAll(rest) \in Seq(Ages) /\ Len(OlderAll(rest)) = Len(ages) - n
      /\ \A i \in 1..(Len(ages) - n) :
           OlderAll(rest)[i] = IF rest[i] > Window THEN rest[i] ELSE rest[i] + 1
  BY <1>1, OlderFacts
<1>4. /\ Drop(older, n) \in Seq(Ages) /\ Len(Drop(older, n)) = Len(ages) - n
      /\ \A i \in 1..(Len(ages) - n) : Drop(older, n)[i] = older[i + n]
  BY <1>2, DropFacts
<1>5. ASSUME NEW i \in 1..(Len(ages) - n) PROVE OlderAll(rest)[i] = Drop(older, n)[i]
  <2>1. i + n \in 1..Len(ages)
    BY <1>1
  <2> QED
    BY <1>1, <1>2, <1>3, <1>4, <2>1
<1> QED
  BY <1>3, <1>4, <1>5, SeqEqual DEF rest, older

(* What is heard can be kept up to date without the deque.                 *)
LEMMA HeardOlder ==
  ASSUME NEW ages \in Seq(Ages), Sorted(ages)
  PROVE  StillHeard(OlderAll(StillHeard(ages))) = StillHeard(OlderAll(ages))
<1> DEFINE older == OlderAll(ages)
<1>1. /\ Len(ages) \in Nat /\ \A i \in 1..Len(ages) : ages[i] \in Nat
      /\ Window \in Nat
  BY TrackerAssumption DEF Ages
<1>2. /\ older \in Seq(Ages) /\ Len(older) = Len(ages) /\ Sorted(older)
      /\ \A i \in 1..Len(ages) : older[i] = IF ages[i] > Window THEN ages[i] ELSE ages[i] + 1
  BY OlderFacts, OlderSorted
<1>3. PICK n \in 0..Len(ages) : FrontOf(ages, n)
  BY FrontExists
<1>4. StillHeard(ages) = Drop(ages, n)
  BY <1>3, FrontIsOver
<1>5. OlderAll(Drop(ages, n)) = Drop(older, n)
  BY OlderDrop
<1> HIDE DEF older
<1>6. PICK m \in 0..Len(ages) : FrontOf(older, m)
  BY <1>2, FrontExists
<1>7. n <= m
  <2> SUFFICES ASSUME m < n PROVE FALSE
    BY <1>1
  <2>1. m + 1 \in 1..n /\ m + 1 \in (m + 1)..Len(ages) /\ m + 1 \in 1..Len(ages)
    BY <1>1
  <2>2. ages[m + 1] > Window /\ older[m + 1] <= Window
    BY <1>2, <1>3, <1>6, <2>1 DEF FrontOf
  <2> QED
    BY <1>1, <1>2, <2>1, <2>2
<1> DEFINE rest == Drop(older, n)
<1>8. /\ rest \in Seq(Ages) /\ Len(rest) = Len(ages) - n
      /\ \A i \in 1..(Len(ages) - n) : rest[i] = older[i + n]
  BY <1>2, DropFacts
<1>9. m - n \in 0..(Len(ages) - n) /\ n \in 0..Len(older) /\ n + (m - n) = m
  BY <1>1, <1>2, <1>7
<1>10. Drop(rest, m - n) = Drop(older, m)
  BY <1>2, <1>9, DropDrop
<1> HIDE DEF rest
<1>11. FrontOf(rest, m - n)
  <2>1. ASSUME NEW i \in 1..(m - n) PROVE rest[i] > Window
    <3>1. i \in 1..(Len(ages) - n) /\ i + n \in 1..m
      BY <1>1, <1>9
    <3> QED
      BY <1>6, <1>8, <3>1 DEF FrontOf
  <2>2. ASSUME NEW i \in (m - n + 1)..Len(rest) PROVE rest[i] <= Window
    <3>1. i \in 1..(Len(ages) - n) /\ i + n \in (m + 1)..Len(older)
      BY <1>1, <1>2, <1>8, <1>9
    <3> QED
      BY <1>6, <1>8, <3>1 DEF FrontOf
  <2> QED
    BY <2>1, <2>2 DEF FrontOf
<1>12. StillHeard(rest) = Drop(rest, m - n)
  BY <1>8, <1>9, <1>11, FrontIsOver
<1>13. StillHeard(older) = Drop(older, m)
  BY <1>2, <1>6, FrontIsOver
<1> QED
  BY <1>4, <1>5, <1>10, <1>12, <1>13 DEF older, rest

(* Pruned, a deque holds ages of the window, in order.                     *)
LEMMA HeardType ==
  ASSUME NEW ages \in Seq(Ages), Sorted(ages)
  PROVE  /\ StillHeard(ages) \in Seq(0..Window) /\ Sorted(StillHeard(ages))
         /\ Prune(ages) = StillHeard(ages)
<1>1. PICK n \in 0..Len(ages) : FrontOf(ages, n)
  BY FrontExists
<1> QED
  BY <1>1, FrontIsOver, SortedDrop
(* The deques are ordered, and what they hold of the window is exactly     *)
(* what was recorded in it.                                                *)
DequeInv ==
  /\ swaps \in [Tokens -> Seq(Ages)] /\ heard \in [Tokens -> Seq(0..Window)]
  /\ \A t \in Tokens : Sorted(swaps[t]) /\ heard[t] = StillHeard(swaps[t])

(* The deques are empty at first.                                          *)
LEMMA InitDequeInv == TrackerInit => DequeInv
<1> SUFFICES ASSUME TrackerInit PROVE DequeInv
  OBVIOUS
<1>1. /\ <<>> \in Seq(0..Window) /\ <<>> \in Seq(Ages) /\ Sorted(<<>>)
  BY DEF Sorted
<1>2. StillHeard(<<>>) = <<>>
  BY <1>1, PruneYoung
<1>3. /\ swaps = [t \in Tokens |-> <<>>] /\ heard = [t \in Tokens |-> <<>>]
  BY DEF TrackerInit
<1>4. swaps \in [Tokens -> Seq(Ages)] /\ heard \in [Tokens -> Seq(0..Window)]
  BY <1>1, <1>3
<1>5. ASSUME NEW t \in Tokens PROVE Sorted(swaps[t]) /\ heard[t] = StillHeard(swaps[t])
  BY <1>1, <1>2, <1>3
<1> QED
  BY <1>4, <1>5 DEF DequeInv

(* A recorded signal is appended to the history and to the pruned deque.   *)
LEMMA RecordDeques ==
  ASSUME TypeOK, DequeInv, Record, NEW t, t = Head(chan).token
  PROVE  /\ t \in Tokens
         /\ heard' = [heard EXCEPT ![t] = Append(heard[t], 0)]
         /\ heard'[t] = Append(heard[t], 0)
         /\ heard'[t] \in Seq(0..Window) /\ Sorted(heard'[t])
         /\ Prune(Append(swaps[t], 0)) = heard'[t]
         /\ \/ swaps' = [swaps EXCEPT ![t] = heard'[t]]
            \/ swaps' = CleanSwaps([swaps EXCEPT ![t] = heard'[t]])
<1>1. t \in Tokens
  BY RecordedToken
<1>2. swaps[t] \in Seq(Ages) /\ Sorted(swaps[t]) /\ heard[t] = StillHeard(swaps[t])
  BY <1>1 DEF DequeInv
<1>3. /\ Prune(Append(swaps[t], 0)) = Append(heard[t], 0)
      /\ Append(heard[t], 0) \in Seq(0..Window) /\ Sorted(Append(heard[t], 0))
  BY <1>2, PruneAppend
<1>4. heard' = [heard EXCEPT ![t] = Append(heard[t], 0)]
  BY DEF Record
<1>5. heard'[t] = Append(heard[t], 0)
  BY <1>1, <1>4 DEF DequeInv
<1>6. \/ swaps' = [swaps EXCEPT ![t] = Prune(Append(swaps[t], 0))]
      \/ swaps' = CleanSwaps([swaps EXCEPT ![t] = Prune(Append(swaps[t], 0))])
  BY DEF Record
<1> QED
  BY <1>1, <1>3, <1>4, <1>5, <1>6

(* Every step keeps deques and history together.                           *)
LEMMA NextDequeInv ==
  ASSUME TypeOK, DequeInv, [TrackerNext]_feedTrackerVars
  PROVE  DequeInv'
<1>1. CASE FeedOnly \/ UNCHANGED feedTrackerVars
  <2>1. UNCHANGED <<swaps, heard>>
    BY <1>1 DEF FeedOnly, feedTrackerVars, trackerVars
  <2> QED
    BY <2>1 DEF DequeInv
<1>2. CASE Second
  <2>1. /\ swaps' = [t \in Tokens |-> OlderAll(swaps[t])]
        /\ heard' = [t \in Tokens |-> StillHeard(OlderAll(heard[t]))]
    BY <1>2 DEF Second
  <2>2. ASSUME NEW t \in Tokens
        PROVE  /\ OlderAll(swaps[t]) \in Seq(Ages) /\ Sorted(OlderAll(swaps[t]))
               /\ StillHeard(OlderAll(heard[t])) = StillHeard(OlderAll(swaps[t]))
               /\ StillHeard(OlderAll(heard[t])) \in Seq(0..Window)
    <3>1. swaps[t] \in Seq(Ages) /\ Sorted(swaps[t]) /\ heard[t] = StillHeard(swaps[t])
      BY DEF DequeInv
    <3>2. OlderAll(swaps[t]) \in Seq(Ages) /\ Sorted(OlderAll(swaps[t]))
      BY <3>1, OlderFacts, OlderSorted
    <3>3. StillHeard(OlderAll(heard[t])) = StillHeard(OlderAll(swaps[t]))
      BY <3>1, HeardOlder
    <3> QED
      BY <3>2, <3>3, HeardType
  <2>3. swaps' \in [Tokens -> Seq(Ages)] /\ heard' \in [Tokens -> Seq(0..Window)]
    BY <2>1, <2>2
  <2>4. ASSUME NEW t \in Tokens PROVE Sorted(swaps'[t]) /\ heard'[t] = StillHeard(swaps'[t])
    <3>1. swaps'[t] = OlderAll(swaps[t]) /\ heard'[t] = StillHeard(OlderAll(heard[t]))
      BY <2>1
    <3> QED
      BY <2>2, <3>1
  <2> QED
    BY <2>3, <2>4 DEF DequeInv
<1>3. CASE Record
  <2> DEFINE t == Head(chan).token
             all == [swaps EXCEPT ![t] = heard'[t]]
  <2>1. /\ t \in Tokens
        /\ heard' = [heard EXCEPT ![t] = heard'[t]]
        /\ heard'[t] \in Seq(0..Window) /\ Sorted(heard'[t])
        /\ swaps' = all \/ swaps' = CleanSwaps(all)
    BY <1>3, RecordDeques
  <2> HIDE DEF t
  <2>2. heard'[t] \in Seq(Ages) /\ StillHeard(heard'[t]) = heard'[t]
    BY <2>1, PruneYoung
  <2>3. all \in [Tokens -> Seq(Ages)] /\ heard' \in [Tokens -> Seq(0..Window)]
    BY <2>1, <2>2 DEF DequeInv
  <2>4. ASSUME NEW u \in Tokens
        PROVE  all[u] \in Seq(Ages) /\ Sorted(all[u]) /\ heard'[u] = StillHeard(all[u])
    <3>1. CASE u = t
      BY <2>1, <2>2, <2>3, <3>1 DEF DequeInv
    <3>2. CASE u # t
      BY <2>1, <3>2 DEF DequeInv
    <3> QED
      BY <3>1, <3>2
  <2> HIDE DEF all
  <2>5. CASE swaps' = all
    BY <2>3, <2>4, <2>5 DEF DequeInv
  <2>6. CASE swaps' = CleanSwaps(all)
    <3>1. ASSUME NEW u \in Tokens
          PROVE  /\ swaps'[u] = Prune(all[u])
                 /\ swaps'[u] \in Seq(Ages) /\ Sorted(swaps'[u])
                 /\ heard'[u] = StillHeard(swaps'[u])
      <4>1. swaps'[u] = Prune(all[u])
        BY <2>6 DEF CleanSwaps
      <4>2. Prune(all[u]) = StillHeard(all[u]) /\ StillHeard(all[u]) \in Seq(0..Window)
            /\ Sorted(StillHeard(all[u]))
        BY <2>4, HeardType
      <4>3. StillHeard(all[u]) \in Seq(Ages) /\ StillHeard(StillHeard(all[u])) = StillHeard(all[u])
        BY <4>2, PruneYoung
      <4> QED
        BY <2>4, <4>1, <4>2, <4>3
    <3>2. swaps' = [u \in Tokens |-> Prune(all[u])]
      BY <2>6 DEF CleanSwaps
    <3>3. swaps' \in [Tokens -> Seq(Ages)]
      BY <3>1, <3>2
    <3> QED
      BY <2>3, <3>1, <3>3 DEF DequeInv
  <2> QED
    BY <2>1, <2>5, <2>6
<1> QED
  BY <1>1, <1>2, <1>3 DEF TrackerNext

(* Together with the flags: the variables of the tracker keep their types, *)
(* ages beyond the window never enter the history.                         *)
THEOREM TrackerTypeCorrect == TrackerSpec => []TrackerTypeOK
<1>1. TypeOK /\ DequeInv /\ FlagInv => TrackerTypeOK
  BY DEF DequeInv, FlagInv, FlagTypes, TrackerTypeOK, Ages
<1>2. TrackerInit => FlagInv
  BY TrackerAssumption DEF TrackerInit, FlagInv, FlagTypes, Absent
<1> QED
  BY <1>1, <1>2, InitDequeInv, NextDequeInv, NextFlagInv, TrackerKeepsFeed, PTL DEF TrackerSpec
-----------------------------------------------------------------------------
(* The alerts.  A flag that is not kept by the history is not hot any more.*)
ExpiredInv == \A t \in Tokens : sinceFlag[t] = HotFor => hot[t] \in {Absent, HotFor}

(* A token is hot exactly when its last flag is recent.                    *)
LEMMA HotIsRecent ==
  ASSUME FlagInv, ExpiredInv, NEW t \in Tokens
  PROVE  IsHot(t) <=> sinceFlag[t] < HotFor
<1>1. /\ hot[t] \in Absent..HotFor /\ sinceFlag[t] \in 0..HotFor /\ HotFor \in Nat \ {0}
      /\ sinceFlag[t] = HotFor \/ hot[t] = sinceFlag[t]
      /\ sinceFlag[t] = HotFor => hot[t] \in {Absent, HotFor}
  BY TrackerAssumption DEF FlagInv, FlagTypes, ExpiredInv
<1> QED
  BY <1>1 DEF IsHot, Absent

(* Every step keeps old entries expired.                                   *)
LEMMA NextExpiredInv ==
  ASSUME TypeOK, FlagInv, ExpiredInv, [TrackerNext]_feedTrackerVars
  PROVE  ExpiredInv'
<1>1. CASE FeedOnly \/ UNCHANGED feedTrackerVars
  BY <1>1 DEF FeedOnly, feedTrackerVars, trackerVars, ExpiredInv
<1>2. CASE Second
  <2>1. ASSUME NEW t \in Tokens, sinceFlag'[t] = HotFor PROVE hot'[t] \in {Absent, HotFor}
    <3>1. sinceFlag'[t] = Older(sinceFlag[t], HotFor) /\ hot'[t] = Older(hot[t], HotFor)
      BY <1>2 DEF Second
    <3>2. /\ hot[t] \in Absent..HotFor /\ sinceFlag[t] \in 0..HotFor /\ HotFor \in Nat \ {0}
          /\ sinceFlag[t] = HotFor \/ hot[t] = sinceFlag[t]
          /\ sinceFlag[t] = HotFor => hot[t] \in {Absent, HotFor}
      BY TrackerAssumption DEF FlagInv, FlagTypes, ExpiredInv
    <3> QED
      BY <2>1, <3>1, <3>2 DEF Older, Absent
  <2> QED
    BY <2>1 DEF ExpiredInv
<1>3. CASE Record
  <2> DEFINE t == Head(chan).token
             stamped == [hot EXCEPT ![t] = 0]
  <2>1. t \in Tokens
    BY <1>3, RecordedToken
  <2>2. CASE UNCHANGED sinceFlag /\ (hot' = hot \/ hot' = CleanFlags(hot))
    <3>1. ASSUME NEW u \in Tokens PROVE hot'[u] \in {hot[u], Absent}
      BY <2>2, CleanFlagsKeeps DEF FlagInv, FlagTypes
    <3> QED
      BY <2>2, <3>1 DEF ExpiredInv
  <2>3. CASE /\ sinceFlag' = [sinceFlag EXCEPT ![t] = 0]
             /\ hot' = stamped \/ hot' = CleanFlags(stamped)
    <3>1. /\ stamped \in [Tokens -> Absent..HotFor]
          /\ \A u \in Tokens : stamped[u] = IF u = t THEN 0 ELSE hot[u]
      BY <2>1, StampKeeps DEF FlagInv, FlagTypes
    <3>2. ASSUME NEW u \in Tokens, sinceFlag'[u] = HotFor PROVE hot'[u] \in {Absent, HotFor}
      <4>1. u # t /\ sinceFlag[u] = HotFor
        BY <2>1, <2>3, <3>2, TrackerAssumption DEF FlagInv, FlagTypes
      <4>2. hot[u] \in {Absent, HotFor} /\ stamped[u] = hot[u]
        BY <3>1, <4>1 DEF ExpiredInv
      <4> HIDE DEF stamped
      <4>3. hot'[u] \in {stamped[u], Absent}
        BY <2>3, <3>1, CleanFlagsKeeps DEF stamped
      <4> QED
        BY <4>2, <4>3
    <3> QED
      BY <3>2 DEF ExpiredInv
  <2> QED
    BY <1>3, <2>2, <2>3, RecordFlags
<1> QED
  BY <1>1, <1>2, <1>3 DEF TrackerNext

(* What a recorded signal does to the flag of its token.                   *)
LEMMA RecordVerdict ==
  ASSUME TypeOK, DequeInv, FlagInv, Record, NEW t, t = Head(chan).token
  PROVE  /\ t \in Tokens
         /\ Flagged(t, heard'[t]) => hot'[t] = 0 /\ sinceFlag' = [sinceFlag EXCEPT ![t] = 0]
         /\ ~Flagged(t, heard'[t]) => hot'[t] \in {hot[t], Absent} /\ sinceFlag' = sinceFlag
<1>1. t \in Tokens /\ Prune(Append(swaps[t], 0)) = heard'[t]
  BY RecordDeques
<1> DEFINE ages == heard'[t]
           stamped == [hot EXCEPT ![t] = 0]
           flags == IF Flagged(t, ages) THEN stamped ELSE hot
<1>2. /\ hot' = CleanFlags(flags) \/ hot' = flags
      /\ sinceFlag' = [sinceFlag EXCEPT ![t] = IF Flagged(t, ages) THEN 0 ELSE sinceFlag[t]]
  BY <1>1 DEF Record
<1>3. /\ hot \in [Tokens -> Absent..HotFor] /\ stamped \in [Tokens -> Absent..HotFor]
      /\ stamped[t] = 0
  BY <1>1, StampKeeps DEF FlagInv, FlagTypes
<1>4. sinceFlag \in [Tokens -> 0..HotFor]
  BY DEF FlagInv, FlagTypes
<1> HIDE DEF ages, stamped
<1>5. CASE Flagged(t, ages)
  <2>1. hot' = CleanFlags(stamped) \/ hot' = stamped
    BY <1>2, <1>5
  <2>2. hot'[t] = 0
    BY <1>1, <1>3, <2>1, CleanFlagsKeeps, TrackerAssumption
  <2> QED
    BY <1>1, <1>2, <1>5, <2>2 DEF ages
<1>6. CASE ~Flagged(t, ages)
  <2>1. hot' = CleanFlags(hot) \/ hot' = hot
    BY <1>2, <1>6
  <2>2. hot'[t] \in {hot[t], Absent}
    BY <1>1, <1>3, <2>1, CleanFlagsKeeps
  <2>3. sinceFlag' = sinceFlag
    BY <1>1, <1>2, <1>4, <1>6
  <2> QED
    BY <1>1, <1>6, <2>2, <2>3 DEF ages
<1> QED
  BY <1>5, <1>6 DEF ages

(* So the verdict is what history and last flag deserve.                   *)
LEMMA VerdictIsExact ==
  ASSUME TypeOK, DequeInv, FlagInv, ExpiredInv, TrackerNext, taken' # taken
  PROVE  LET t == Head(chan).token
         IN  (hot'[t] = 0 /\ hot[t] # 0) <=> Deserves(t)
<1> DEFINE t == Head(chan).token
<1>1. Record
  BY DEF TrackerNext, FeedOnly, Second
<1>2. /\ t \in Tokens
      /\ Flagged(t, heard'[t]) => hot'[t] = 0
      /\ ~Flagged(t, heard'[t]) => hot'[t] \in {hot[t], Absent}
  BY <1>1, RecordVerdict
<1> HIDE DEF t
<1>3. /\ hot[t] \in Absent..HotFor /\ sinceFlag[t] \in 0..HotFor /\ HotFor \in Nat \ {0}
      /\ IsHot(t) <=> sinceFlag[t] < HotFor
  BY <1>2, HotIsRecent, TrackerAssumption DEF FlagInv, FlagTypes
<1>4. ~IsHot(t) <=> sinceFlag[t] >= HotFor
  BY <1>3
<1>5. Flagged(t, heard'[t]) <=> Deserves(t)
  BY <1>4 DEF Flagged, Spike, Duration, Deserves
<1>6. ~IsHot(t) => hot[t] # 0
  BY <1>3 DEF IsHot, Absent
<1>7. Flagged(t, heard'[t]) => ~IsHot(t)
  BY DEF Flagged
<1>8. (hot'[t] = 0 /\ hot[t] # 0) <=> Deserves(t)
  BY <1>2, <1>5, <1>6, <1>7 DEF Absent
<1> QED
  BY <1>8 DEF t

(* The swap just taken flags its token exactly when the swaps recorded in  *)
(* the window deserve it and the token has not been flagged for HotFor     *)
(* seconds, wherever lazy pruning and clean-ups fall.                      *)
THEOREM AlertsAreExact == TrackerSpec => AlertsExact
<1>1. TrackerInit => FlagInv /\ ExpiredInv
  BY TrackerAssumption DEF TrackerInit, FlagInv, FlagTypes, ExpiredInv, Absent
<1>2. TypeOK /\ DequeInv /\ FlagInv /\ ExpiredInv /\ [TrackerNext]_feedTrackerVars
        => [taken' # taken =>
              LET t == Head(chan).token
              IN  (hot'[t] = 0 /\ hot[t] # 0) <=> Deserves(t)]_feedTrackerVars
  BY VerdictIsExact
<1> QED
  BY <1>1, <1>2, InitDequeInv, NextDequeInv, NextFlagInv, NextExpiredInv, TrackerKeepsFeed, PTL
  DEF TrackerSpec, AlertsExact

(* The recent swaps are no more than all.                                  *)
LEMMA RecentFacts ==
  ASSUME NEW ages \in Seq(0..Window)
  PROVE  Recent(ages) \in Nat /\ Recent(ages) <= Len(ages)
<1>1. Len(ages) \in Nat /\ DOMAIN ages = 1..Len(ages)
  OBVIOUS
<1> DEFINE Young == {i \in DOMAIN ages : ages[i] < SpikeWindow}
<1>2. IsFiniteSet(1..Len(ages)) /\ Cardinality(1..Len(ages)) = Len(ages)
  BY <1>1, FS_Interval
<1>3. Young \in SUBSET (1..Len(ages))
  BY <1>1
<1>4. IsFiniteSet(Young) /\ Cardinality(Young) <= Len(ages)
  BY <1>2, <1>3, FS_Subset
<1>5. Cardinality(Young) \in Nat
  BY <1>4, FS_CardinalityType
<1> QED
  BY <1>4, <1>5 DEF Recent

(* Products of natural numbers are monotone.                               *)
LEMMA ProductsGrow ==
  ASSUME NEW a \in Nat, NEW b \in Nat, NEW c \in Nat, NEW d \in Nat, a <= b, c <= d
  PROVE  a * c <= b * d
<1>1. PICK x \in Nat : b = a + x
  <2>1. b - a \in Nat /\ b = a + (b - a)
    OBVIOUS
  <2> QED
    BY <2>1
<1>2. PICK y \in Nat : d = c + y
  <2>1. d - c \in Nat /\ d = c + (d - c)
    OBVIOUS
  <2> QED
    BY <2>1
<1>3. b * d = a * c + a * y + x * c + x * y
  BY <1>1, <1>2
<1>4. a * y \in Nat /\ x * c \in Nat /\ x * y \in Nat /\ a * c \in Nat
  OBVIOUS
<1> QED
  BY <1>3, <1>4

(* The time since the oldest swap kept is within the window, so a spike    *)
(* over that time is one over the window.                                  *)
LEMMA SpikeOverWindow ==
  ASSUME NEW ages \in Seq(0..Window), Len(ages) >= MinHistory, Spike(ages)
  PROVE  DocumentedSpike(ages)
<1>1. /\ Len(ages) \in Nat \ {0} /\ MinHistory \in Nat \ {0} /\ Window \in Nat \ {0}
      /\ Multiplier \in Nat \ {0} /\ SpikeWindow \in Nat \ {0}
  BY TrackerAssumption
<1>2. ages[1] \in 0..Window
  <2>1. 1 \in 1..Len(ages)
    BY <1>1
  <2> QED
    BY <2>1, ElementOfSeq
<1> DEFINE r == Recent(ages)
           span == Duration(ages)
           average == Multiplier * Len(ages) * SpikeWindow
<1>3. r \in Nat
  BY RecentFacts
<1>4. span \in Nat /\ span <= Window
  BY <1>1, <1>2 DEF Duration
<1>5. average \in Nat
  <2>1. Multiplier * Len(ages) \in Nat
    BY <1>1
  <2> QED
    BY <1>1, <2>1
<1>6. r * span > average
  BY DEF Spike
<1>7. r * Window > average
  <2> HIDE DEF r, span, average
  <2>1. r * span <= r * Window
    BY <1>1, <1>3, <1>4, ProductsGrow
  <2>2. r * span \in Nat /\ r * Window \in Nat
    BY <1>1, <1>3, <1>4
  <2> QED
    BY <1>5, <1>6, <2>1, <2>2
<1> QED
  BY <1>7 DEF DocumentedSpike

(* So is what flags a token.                                               *)
LEMMA FlaggedSpikes ==
  ASSUME TypeOK, DequeInv, FlagInv, TrackerNext,
         NEW t \in Tokens, sinceFlag'[t] = 0, sinceFlag[t] # 0
  PROVE  DocumentedSpike(heard'[t])
<1>1. sinceFlag[t] \in 0..HotFor /\ HotFor \in Nat \ {0} /\ sinceFlag \in [Tokens -> 0..HotFor]
  BY TrackerAssumption DEF FlagInv, FlagTypes
<1>2. CASE FeedOnly
  BY <1>2 DEF FeedOnly, trackerVars
<1>3. CASE Second
  <2>1. sinceFlag'[t] = Older(sinceFlag[t], HotFor)
    BY <1>3 DEF Second
  <2> QED
    BY <1>1, <2>1 DEF Older, Absent
<1>4. CASE Record
  <2> DEFINE u == Head(chan).token
  <2>1. /\ u \in Tokens /\ heard'[u] \in Seq(0..Window)
        /\ Flagged(u, heard'[u]) => sinceFlag' = [sinceFlag EXCEPT ![u] = 0]
        /\ ~Flagged(u, heard'[u]) => sinceFlag' = sinceFlag
    BY <1>4, RecordDeques, RecordVerdict
  <2> HIDE DEF u
  <2>2. Flagged(u, heard'[u]) /\ u = t
    BY <1>1, <2>1
  <2>3. Len(heard'[t]) >= MinHistory /\ Spike(heard'[t])
    BY <2>2 DEF Flagged
  <2> QED
    BY <2>1, <2>2, <2>3, SpikeOverWindow
<1> QED
  BY <1>2, <1>3, <1>4 DEF TrackerNext

(* Every flag is a spike by the documented measure: the shorter average    *)
(* the code takes raises no alert of its own (volume_tracker.rs:37-79).    *)
THEOREM FlagsAreReal == TrackerSpec => FlagsAreSpikes
<1>1. TrackerInit => FlagInv
  BY TrackerAssumption DEF TrackerInit, FlagInv, FlagTypes, Absent
<1>2. TypeOK /\ DequeInv /\ FlagInv /\ [TrackerNext]_feedTrackerVars
        => [\A t \in Tokens : sinceFlag'[t] = 0 /\ sinceFlag[t] # 0 =>
              DocumentedSpike(heard'[t])]_feedTrackerVars
  BY FlaggedSpikes
<1> QED
  BY <1>1, <1>2, InitDequeInv, NextDequeInv, NextFlagInv, TrackerKeepsFeed, PTL
  DEF TrackerSpec, FlagsAreSpikes
-----------------------------------------------------------------------------
(* The burst.  Counting the elements of a sequence in a set.               *)
CountIn(s, V) == Cardinality({i \in DOMAIN s : s[i] \in V})

(* A count is a natural number, at most the length.                        *)
LEMMA CountType ==
  ASSUME NEW S, NEW s \in Seq(S), NEW V
  PROVE  /\ IsFiniteSet({i \in DOMAIN s : s[i] \in V})
         /\ CountIn(s, V) \in Nat /\ CountIn(s, V) <= Len(s)
<1> DEFINE Found == {i \in DOMAIN s : s[i] \in V}
<1>1. Len(s) \in Nat /\ DOMAIN s = 1..Len(s)
  OBVIOUS
<1>2. IsFiniteSet(1..Len(s)) /\ Cardinality(1..Len(s)) = Len(s)
  BY <1>1, FS_Interval
<1>3. Found \in SUBSET (1..Len(s))
  BY <1>1
<1>4. IsFiniteSet(Found) /\ Cardinality(Found) <= Len(s)
  BY <1>2, <1>3, FS_Subset
<1>5. Cardinality(Found) \in Nat
  BY <1>4, FS_CardinalityType
<1> QED
  BY <1>4, <1>5 DEF CountIn

(* An element appended is counted if it is in the set.                     *)
LEMMA CountAppend ==
  ASSUME NEW S, NEW s \in Seq(S), NEW x \in S, NEW V
  PROVE  CountIn(Append(s, x), V) = CountIn(s, V) + (IF x \in V THEN 1 ELSE 0)
<1> DEFINE longer == Append(s, x)
           Old == {i \in DOMAIN s : s[i] \in V}
           New == {i \in DOMAIN longer : longer[i] \in V}
<1>1. /\ Len(s) \in Nat /\ DOMAIN longer = 1..(Len(s) + 1) /\ DOMAIN s = 1..Len(s)
      /\ longer[Len(s) + 1] = x /\ \A i \in 1..Len(s) : longer[i] = s[i]
  OBVIOUS
<1>2. IsFiniteSet(Old) /\ CountIn(s, V) = Cardinality(Old) /\ Cardinality(Old) \in Nat
  BY CountType DEF CountIn
<1>3. New = IF x \in V THEN Old \union {Len(s) + 1} ELSE Old
  <2> HIDE DEF longer
  <2>1. \A i : i \in 1..(Len(s) + 1) <=> (i \in 1..Len(s) \/ i = Len(s) + 1)
    BY <1>1
  <2> QED
    BY <1>1, <2>1
<1>4. Len(s) + 1 \notin Old
  BY <1>1
<1>5. CountIn(longer, V) = Cardinality(New)
  BY DEF CountIn
<1> HIDE DEF Old, New, longer
<1>6. Cardinality(Old \union {Len(s) + 1}) = Cardinality(Old) + 1
  BY <1>2, <1>4, FS_AddElement
<1> QED
  BY <1>2, <1>3, <1>5, <1>6 DEF longer

(* Positions of a rest are positions of the whole, shifted.                *)
LEMMA CountShifted ==
  ASSUME NEW S, NEW s \in Seq(S), NEW r \in Seq(S), NEW n \in Nat, Len(s) = Len(r) + n,
         \A i \in 1..Len(r) : r[i] = s[i + n], NEW V,
         NEW T, {i \in DOMAIN s : s[i] \in V /\ i > n} \subseteq T, IsFiniteSet(T)
  PROVE  CountIn(r, V) <= Cardinality(T)
<1> DEFINE Small == {i \in DOMAIN r : r[i] \in V}
           shift == [i \in Small |-> i + n]
<1>1. Len(s) \in Nat /\ DOMAIN s = 1..Len(s) /\ Len(r) \in Nat /\ DOMAIN r = 1..Len(r)
  OBVIOUS
<1>2. ASSUME NEW i \in Small PROVE i + n \in T /\ i \in Nat
  <2>1. i \in 1..Len(r) /\ r[i] \in V
    BY <1>1
  <2>2. i + n \in 1..Len(s) /\ i + n > n /\ s[i + n] \in V
    BY <1>1, <2>1
  <2> QED
    BY <1>1, <2>1, <2>2
<1>3. shift \in [Small -> T] /\ \A i \in Small : shift[i] = i + n
  BY <1>2
<1>4. \A i, j \in Small : shift[i] = shift[j] => i = j
  BY <1>2, <1>3
<1> HIDE DEF Small, shift
<1>5. shift \in Injection(Small, T)
  BY <1>3, <1>4 DEF Injection, IsInjective
<1>6. Cardinality(Small) <= Cardinality(T)
  BY <1>5, FS_Injection
<1> QED
  BY <1>6 DEF CountIn, Small

(* Dropping the front counts no more.                                      *)
LEMMA CountDrop ==
  ASSUME NEW S, NEW s \in Seq(S), NEW n \in 0..Len(s), NEW V
  PROVE  CountIn(Drop(s, n), V) <= CountIn(s, V)
<1> DEFINE rest == Drop(s, n)
           Found == {i \in DOMAIN s : s[i] \in V}
<1>1. /\ rest \in Seq(S) /\ Len(rest) = Len(s) - n /\ Len(s) \in Nat /\ n \in Nat
      /\ \A i \in 1..(Len(s) - n) : rest[i] = s[i + n]
  BY DropFacts
<1>2. IsFiniteSet(Found) /\ CountIn(s, V) = Cardinality(Found)
  BY CountType DEF CountIn
<1>3. {i \in DOMAIN s : s[i] \in V /\ i > n} \subseteq Found
  OBVIOUS
<1> HIDE DEF rest, Found
<1>4. Len(s) = Len(rest) + n /\ \A i \in 1..Len(rest) : rest[i] = s[i + n]
  BY <1>1
<1>5. CountIn(rest, V) <= Cardinality(Found)
  BY <1>1, <1>2, <1>3, <1>4, CountShifted
<1> QED
  BY <1>2, <1>5 DEF rest

(* Taking the head off counts one less if it is in the set.                *)
LEMMA CountTail ==
  ASSUME NEW S, NEW s \in Seq(S), s # <<>>, NEW V
  PROVE  CountIn(Tail(s), V) + (IF Head(s) \in V THEN 1 ELSE 0) <= CountIn(s, V)
<1> DEFINE rest == Tail(s)
           Found == {i \in DOMAIN s : s[i] \in V}
           Later == Found \ {1}
<1>1. /\ rest \in Seq(S) /\ Len(s) = Len(rest) + 1 /\ Len(s) \in Nat /\ Len(rest) \in Nat
      /\ DOMAIN s = 1..Len(s) /\ Head(s) = s[1]
      /\ \A i \in 1..Len(rest) : rest[i] = s[i + 1]
  OBVIOUS
<1>2. IsFiniteSet(Found) /\ CountIn(s, V) = Cardinality(Found) /\ Cardinality(Found) \in Nat
  BY CountType DEF CountIn
<1>3. /\ IsFiniteSet(Later)
      /\ Cardinality(Later) = IF 1 \in Found THEN Cardinality(Found) - 1 ELSE Cardinality(Found)
  BY <1>2, FS_RemoveElement
<1>4. {i \in DOMAIN s : s[i] \in V /\ i > 1} \subseteq Later
  BY <1>1
<1>5. Head(s) \in V => 1 \in Found
  BY <1>1
<1> HIDE DEF rest, Found, Later
<1>6. CountIn(rest, V) <= Cardinality(Later)
  BY <1>1, <1>3, <1>4, CountShifted
<1>7. CountIn(rest, V) \in Nat
  BY <1>1, CountType
<1> QED
  BY <1>2, <1>3, <1>5, <1>6, <1>7 DEF rest

(* A swap younger than a was younger than a - 1 a second ago.              *)
Under(a) == 0..(a - 1)
LEMMA CountOlder ==
  ASSUME NEW ages \in Seq(Ages), NEW a \in 1..SpikeWindow
  PROVE  CountIn(OlderAll(ages), Under(a)) <= CountIn(ages, Under(a - 1))
<1> DEFINE older == OlderAll(ages)
           New == {i \in DOMAIN older : older[i] \in Under(a)}
           Old == {i \in DOMAIN ages : ages[i] \in Under(a - 1)}
<1>1. /\ older \in Seq(Ages) /\ Len(older) = Len(ages) /\ Len(ages) \in Nat
      /\ \A i \in 1..Len(ages) : older[i] = IF ages[i] > Window THEN ages[i] ELSE ages[i] + 1
      /\ DOMAIN ages = 1..Len(ages) /\ \A i \in 1..Len(ages) : ages[i] \in Nat
      /\ Window \in Nat /\ a \in Nat \ {0} /\ a <= Window
  BY OlderFacts, TrackerAssumption DEF Ages
<1> HIDE DEF older
<1>2. DOMAIN older = 1..Len(ages)
  BY <1>1
<1>3. ASSUME NEW i \in New PROVE i \in Old
  <2>1. i \in 1..Len(ages) /\ older[i] \in 0..(a - 1)
    BY <1>2 DEF Under
  <2>2. ages[i] \in 0..(a - 1 - 1)
    BY <1>1, <2>1
  <2> QED
    BY <1>1, <2>1, <2>2 DEF Under
<1>4. IsFiniteSet(Old) /\ New \in SUBSET Old
  BY <1>3, CountType
<1>5. Cardinality(New) <= Cardinality(Old)
  BY <1>4, FS_Subset
<1> QED
  BY <1>5 DEF CountIn, older
-----------------------------------------------------------------------------
(* Signals of a token that the debounce lets through in a seconds, when    *)
(* the last one before now was s seconds ago.                              *)
MaxAccepted(a, s) == IF s >= a THEN 0 ELSE (a - 1 - s) \div Debounce + 1

(* A whole number whose product with Debounce is at most a is its floor    *)
(* or less.                                                                *)
LEMMA DebounceFloor ==
  ASSUME NEW a \in Nat
  PROVE  /\ a \div Debounce \in Nat
         /\ Debounce * (a \div Debounce) <= a
         /\ \A n \in Int : Debounce * n <= a => n <= a \div Debounce
<1>1. ASSUME NEW b \in Nat \ {0}
      PROVE  /\ a \div b \in Nat /\ b * (a \div b) <= a
             /\ \A n \in Int : b * n <= a => n <= a \div b
  <2>1. a \div b \in Nat /\ b * (a \div b) <= a /\ a < b * (a \div b) + b
    OBVIOUS
  <2>2. ASSUME NEW n \in Int, b * n <= a PROVE n <= a \div b
    <3>1. SUFFICES ASSUME a \div b + 1 <= n PROVE FALSE
      BY <2>1
    <3>2. b * (a \div b + 1) <= b * n
      BY <2>1, <3>1
    <3>3. b * (a \div b + 1) = b * (a \div b) + b
      BY <2>1
    <3> QED
      BY <2>1, <2>2, <3>2, <3>3
  <2> QED
    BY <2>1, <2>2
<1> QED
  BY <1>1, FeedAssumption

(* Bounds of that number, what a new signal adds to it and a second        *)
(* leaves of it.                                                           *)
LEMMA MaxAcceptedFacts ==
  ASSUME NEW a \in Nat \ {0}, NEW s \in 0..Debounce
  PROVE  /\ MaxAccepted(a, s) \in Nat
         /\ MaxAccepted(a, s) <= (a - 1) \div Debounce + 1
         /\ MaxAccepted(a, Debounce) + 1 <= MaxAccepted(a, 0)
         /\ MaxAccepted(a - 1, s) <= MaxAccepted(a, Older(s, Debounce))
<1>1. Debounce \in Nat \ {0} /\ s \in Nat /\ s <= Debounce
  BY FeedAssumption
<1>2. (a - 1) \in Nat /\ (a - 1) \div Debounce \in Nat
  BY DebounceFloor
<1>3. /\ MaxAccepted(a, s) \in Nat
      /\ MaxAccepted(a, s) <= (a - 1) \div Debounce + 1
  <2>1. CASE s >= a
    BY <1>1, <1>2, <2>1 DEF MaxAccepted
  <2>2. CASE ~(s >= a)
    <3> DEFINE n == (a - 1 - s) \div Debounce
    <3>1. a - 1 - s \in Nat /\ a - 1 - s <= a - 1
      BY <1>1, <2>2
    <3>2. n \in Nat /\ Debounce * n <= a - 1 - s
      BY <3>1, DebounceFloor
    <3>3. MaxAccepted(a, s) = n + 1
      BY <2>2 DEF MaxAccepted
    <3> HIDE DEF n
    <3>4. Debounce * n \in Nat /\ Debounce * n <= a - 1
      BY <1>1, <3>1, <3>2
    <3>5. n <= (a - 1) \div Debounce
      BY <1>2, <3>2, <3>4, DebounceFloor
    <3> QED
      BY <1>2, <3>2, <3>3, <3>5
  <2> QED
    BY <2>1, <2>2
<1>4. MaxAccepted(a, Debounce) + 1 <= MaxAccepted(a, 0)
  <2>1. MaxAccepted(a, 0) = (a - 1) \div Debounce + 1
    BY DEF MaxAccepted
  <2>2. CASE Debounce >= a
    <3>1. MaxAccepted(a, Debounce) = 0
      BY <2>2 DEF MaxAccepted
    <3> QED
      BY <1>2, <2>1, <3>1
  <2>3. CASE ~(Debounce >= a)
    <3> DEFINE n == (a - 1 - Debounce) \div Debounce
    <3>1. a - 1 - Debounce \in Nat
      BY <1>1, <2>3
    <3>2. n \in Nat /\ Debounce * n <= a - 1 - Debounce
      BY <3>1, DebounceFloor
    <3>3. MaxAccepted(a, Debounce) = n + 1
      BY <2>3 DEF MaxAccepted
    <3> HIDE DEF n
    <3>4. Debounce * (n + 1) = Debounce * n + Debounce /\ Debounce * n \in Nat
      BY <1>1, <3>2
    <3>5. Debounce * (n + 1) <= a - 1
      BY <1>1, <3>2, <3>4
    <3>6. n + 1 <= (a - 1) \div Debounce
      BY <1>2, <3>2, <3>5, DebounceFloor
    <3> QED
      BY <1>2, <2>1, <3>2, <3>3, <3>6
  <2> QED
    BY <2>2, <2>3
<1>5. MaxAccepted(a - 1, s) <= MaxAccepted(a, Older(s, Debounce))
  <2>1. CASE s < Debounce
    <3>1. Older(s, Debounce) = s + 1
      BY <1>1, <2>1 DEF Older, Absent
    <3>2. a - 1 - (s + 1) = a - 1 - 1 - s /\ (s >= a - 1 <=> s + 1 >= a)
      BY <1>1
    <3>3. MaxAccepted(a - 1, s) = MaxAccepted(a, s + 1)
      BY <3>2 DEF MaxAccepted
    <3>4. MaxAccepted(a, s + 1) \in Nat
      <4>1. CASE s + 1 >= a
        BY <4>1 DEF MaxAccepted
      <4>2. CASE ~(s + 1 >= a)
        <5>1. a - 1 - (s + 1) \in Nat
          BY <1>1, <4>2
        <5>2. (a - 1 - (s + 1)) \div Debounce \in Nat
          BY <5>1, DebounceFloor
        <5> QED
          BY <4>2, <5>2 DEF MaxAccepted
      <4> QED
        BY <4>1, <4>2
    <3> QED
      BY <3>1, <3>3, <3>4
  <2>2. CASE s = Debounce
    <3>1. Older(s, Debounce) = s
      BY <1>1, <2>2 DEF Older
    <3>2. CASE s >= a - 1
      <4>1. MaxAccepted(a - 1, s) = 0
        BY <3>2 DEF MaxAccepted
      <4> QED
        BY <1>3, <3>1, <4>1
    <3>3. CASE ~(s >= a - 1)
      <4> DEFINE n == (a - 1 - 1 - s) \div Debounce
      <4>1. a - 1 - 1 - s \in Nat /\ a - 1 - s \in Nat /\ a - 1 - 1 - s <= a - 1 - s
        BY <1>1, <3>3
      <4>2. n \in Nat /\ Debounce * n <= a - 1 - 1 - s
        BY <4>1, DebounceFloor
      <4>3. MaxAccepted(a - 1, s) = n + 1 /\ MaxAccepted(a, s) = (a - 1 - s) \div Debounce + 1
        BY <1>1, <3>3 DEF MaxAccepted
      <4> HIDE DEF n
      <4>4. Debounce * n \in Nat /\ Debounce * n <= a - 1 - s
        BY <1>1, <4>1, <4>2
      <4>5. n <= (a - 1 - s) \div Debounce /\ (a - 1 - s) \div Debounce \in Nat
        BY <4>1, <4>2, <4>4, DebounceFloor
      <4> QED
        BY <3>1, <4>2, <4>3, <4>5
    <3> QED
      BY <3>2, <3>3
  <2> QED
    BY <1>1, <2>1, <2>2
<1> QED
  BY <1>3, <1>4, <1>5
-----------------------------------------------------------------------------
(* The signals of a token between its debounce and the tracker.            *)
Of(t) == {sig \in Signal : sig.token = t}
OnPath(t) == CountIn(chan, Of(t)) + CountIn(outbox, Of(t))

(* Of the swaps a token has had in any span up to SpikeWindow, those that  *)
(* were not on the path when it began were let through in it.              *)
BurstInv ==
  \A t \in Tokens, a \in 1..SpikeWindow :
    CountIn(swaps[t], Under(a)) + OnPath(t) <= ChannelCap + 1 + MaxAccepted(a, sinceSignal[t])

(* Counts in sequences of no and of one element.                           *)
LEMMA CountSmall ==
  ASSUME NEW S, NEW x \in S, NEW V
  PROVE  CountIn(<<>>, V) = 0 /\ CountIn(<<x>>, V) = IF x \in V THEN 1 ELSE 0
<1>1. <<>> \in Seq(S) /\ Len(<<>>) = 0 /\ Append(<<>>, x) = <<x>>
  OBVIOUS
<1>2. CountIn(<<>>, V) \in Nat /\ CountIn(<<>>, V) <= 0
  BY <1>1, CountType
<1>3. CountIn(<<>>, V) = 0
  BY <1>2
<1>4. CountIn(Append(<<>>, x), V) = CountIn(<<>>, V) + IF x \in V THEN 1 ELSE 0
  BY <1>1, CountAppend
<1> QED
  BY <1>1, <1>3, <1>4

(* The path holds one signal more than the channel.                        *)
LEMMA PathFacts ==
  ASSUME TypeOK, NEW t \in Tokens
  PROVE  /\ CountIn(chan, Of(t)) \in Nat /\ CountIn(outbox, Of(t)) \in Nat
         /\ OnPath(t) \in Nat /\ OnPath(t) <= ChannelCap + 1
<1>1. /\ chan \in Seq(Signal) /\ Len(chan) <= ChannelCap /\ Len(chan) \in Nat
      /\ outbox \in Seq(Signal) /\ Len(outbox) <= 1 /\ Len(outbox) \in Nat
  BY DEF TypeOK
<1>2. /\ CountIn(chan, Of(t)) \in Nat /\ CountIn(chan, Of(t)) <= Len(chan)
      /\ CountIn(outbox, Of(t)) \in Nat /\ CountIn(outbox, Of(t)) <= Len(outbox)
  BY <1>1, CountType
<1> QED
  BY <1>1, <1>2, FeedAssumption DEF OnPath

(* Counting the swaps under an age.                                        *)
LEMMA UnderFacts ==
  ASSUME NEW ages \in Seq(Ages)
  PROVE  /\ \A a : CountIn(ages, Under(a)) \in Nat
         /\ CountIn(ages, Under(0)) = 0
         /\ Recent(ages) = CountIn(ages, Under(SpikeWindow))
<1>1. ASSUME NEW a PROVE CountIn(ages, Under(a)) \in Nat
  BY CountType
<1>2. /\ DOMAIN ages = 1..Len(ages) /\ Len(ages) \in Nat
      /\ \A i \in 1..Len(ages) : ages[i] \in Nat /\ SpikeWindow \in Nat
  BY TrackerAssumption DEF Ages
<1>3. {i \in DOMAIN ages : ages[i] \in Under(0)} = {}
  BY <1>2 DEF Under
<1>4. CountIn(ages, Under(0)) = 0
  BY <1>3, FS_EmptySet DEF CountIn
<1>5. \A i \in DOMAIN ages : ages[i] \in Under(SpikeWindow) <=> ages[i] < SpikeWindow
  BY <1>2, TrackerAssumption DEF Under
<1>6. {i \in DOMAIN ages : ages[i] \in Under(SpikeWindow)} = {i \in DOMAIN ages : ages[i] < SpikeWindow}
  BY <1>5
<1>7. Recent(ages) = CountIn(ages, Under(SpikeWindow))
  BY <1>6 DEF Recent, CountIn
<1> QED
  BY <1>1, <1>4, <1>7

(* Pruning only takes away.                                                *)
LEMMA PruneCounts ==
  ASSUME NEW ages \in Seq(Ages), Sorted(ages), NEW a
  PROVE  CountIn(Prune(ages), Under(a)) <= CountIn(ages, Under(a))
<1>1. PICK n \in 0..Len(ages) : FrontOf(ages, n)
  BY FrontExists
<1>2. Prune(ages) = Drop(ages, n)
  BY <1>1, FrontIsOver
<1> QED
  BY <1>2, CountDrop

(* A second older.                                                         *)
LEMMA BurstSecond ==
  ASSUME TypeOK, DequeInv, BurstInv, Second
  PROVE  BurstInv'
<1> SUFFICES ASSUME NEW t \in Tokens, NEW a \in 1..SpikeWindow
             PROVE  CountIn(swaps'[t], Under(a)) + OnPath(t)'
                      <= ChannelCap + 1 + MaxAccepted(a, sinceSignal'[t])
  BY DEF BurstInv
<1>1. swaps[t] \in Seq(Ages) /\ swaps'[t] = OlderAll(swaps[t])
  BY DEF DequeInv, Second
<1>2. CountIn(swaps'[t], Under(a)) <= CountIn(swaps[t], Under(a - 1))
  BY <1>1, CountOlder
<1>3. UNCHANGED <<chan, outbox>> /\ sinceSignal'[t] = Older(sinceSignal[t], Debounce)
  BY DEF Second, Tick
<1>4. OnPath(t)' = OnPath(t) /\ OnPath(t) \in Nat /\ OnPath(t) <= ChannelCap + 1
  BY <1>3, PathFacts DEF OnPath
<1>5. /\ a \in Nat \ {0} /\ SpikeWindow \in Nat /\ sinceSignal[t] \in 0..Debounce
      /\ ChannelCap \in Nat
  BY TrackerAssumption, FeedAssumption DEF TypeOK
<1>6. /\ MaxAccepted(a - 1, sinceSignal[t]) <= MaxAccepted(a, sinceSignal'[t])
      /\ sinceSignal'[t] \in 0..Debounce
  BY <1>3, <1>5, MaxAcceptedFacts, FeedAssumption DEF Older
<1>7. MaxAccepted(a, sinceSignal'[t]) \in Nat
  BY <1>5, <1>6, MaxAcceptedFacts
<1>8. /\ CountIn(swaps[t], Under(a - 1)) \in Nat /\ CountIn(swaps'[t], Under(a)) \in Nat
      /\ a = 1 => CountIn(swaps[t], Under(a - 1)) = 0
  <2>1. a = 1 => a - 1 = 0
    OBVIOUS
  <2>2. OlderAll(swaps[t]) \in Seq(Ages)
    BY <1>1, OlderFacts
  <2> QED
    BY <1>1, <2>1, <2>2, UnderFacts
<1>9. CASE a = 1
  BY <1>2, <1>4, <1>5, <1>7, <1>8, <1>9
<1>10. CASE a # 1
  <2>1. a - 1 \in 1..SpikeWindow /\ a - 1 \in Nat \ {0}
    BY <1>5, <1>10
  <2>2. CountIn(swaps[t], Under(a - 1)) + OnPath(t)
          <= ChannelCap + 1 + MaxAccepted(a - 1, sinceSignal[t])
    BY <2>1 DEF BurstInv
  <2>3. MaxAccepted(a - 1, sinceSignal[t]) \in Nat
    BY <1>5, <2>1, MaxAcceptedFacts
  <2> QED
    BY <1>2, <1>4, <1>5, <1>6, <1>7, <1>8, <2>2, <2>3
<1> QED
  BY <1>9, <1>10

(* A swap read by the session: the only step that puts a signal on the     *)
(* path, Debounce seconds after the one before.                            *)
LEMMA BurstRead ==
  ASSUME TypeOK, DequeInv, DebounceInv, BurstInv, UNCHANGED swaps,
         NEW s \in Swaps, ReadSwap(s)
  PROVE  BurstInv'
<1>1. CASE ~Passes(s)
  BY <1>1 DEF ReadSwap, Skip, BurstInv, OnPath
<1>2. CASE Passes(s)
  <2> DEFINE u == TokenOf(s)
             sig == SignalOf(s, accepted + 1)
  <2>1. accepted + 1 \in Ids
    <3>1. accepted < MaxSignals /\ accepted \in 0..MaxSignals
      BY <1>2 DEF ReadSwap, TypeOK
    <3> QED
      BY <3>1, FeedAssumption DEF Ids
  <2>2. u \in Tokens /\ sig \in Signal /\ sig.token = u
    BY <1>2, <2>1, SignalType DEF Passes, SignalOf
  <2>3. /\ outbox = <<>> /\ outbox' = <<sig>> /\ UNCHANGED chan
        /\ sinceSignal' = [sinceSignal EXCEPT ![u] = 0]
    BY <1>2 DEF ReadSwap
  <2>4. sinceSignal[u] = Debounce
    <3>1. ~Muted(u) /\ Remembered(u)
      BY <1>2, <2>2 DEF ReadSwap, Passes, DebounceInv
    <3> QED
      BY <2>2, <3>1, FeedAssumption DEF Muted, Remembered, TypeOK, Absent
  <2> HIDE DEF u, sig
  <2>5. ASSUME NEW t \in Tokens, NEW a \in 1..SpikeWindow
        PROVE  CountIn(swaps'[t], Under(a)) + OnPath(t)'
                 <= ChannelCap + 1 + MaxAccepted(a, sinceSignal'[t])
    <3>1. CountIn(outbox, Of(t)) = 0 /\ CountIn(outbox', Of(t)) = IF t = u THEN 1 ELSE 0
      BY <2>2, <2>3, CountSmall DEF Of
    <3>2. CountIn(chan, Of(t)) \in Nat /\ CountIn(chan', Of(t)) = CountIn(chan, Of(t))
      BY <2>3, PathFacts
    <3>3. OnPath(t)' = OnPath(t) + (IF t = u THEN 1 ELSE 0) /\ OnPath(t) \in Nat
      BY <3>1, <3>2 DEF OnPath
    <3>4. CountIn(swaps[t], Under(a)) + OnPath(t)
            <= ChannelCap + 1 + MaxAccepted(a, sinceSignal[t])
      BY DEF BurstInv
    <3>5. CountIn(swaps[t], Under(a)) \in Nat
      BY UnderFacts DEF DequeInv
    <3>6. a \in Nat \ {0} /\ ChannelCap \in Nat /\ Debounce \in Nat /\ sinceSignal[t] \in 0..Debounce
      BY TrackerAssumption, FeedAssumption DEF TypeOK
    <3>7. CASE t # u
      <4>1. sinceSignal'[t] = sinceSignal[t]
        BY <2>3, <3>7 DEF TypeOK
      <4> QED
        BY <3>2, <3>3, <3>4, <3>7, <4>1
    <3>8. CASE t = u
      <4>1. sinceSignal'[t] = 0
        BY <2>3, <3>8 DEF TypeOK
      <4>2. /\ MaxAccepted(a, Debounce) \in Nat /\ MaxAccepted(a, 0) \in Nat
            /\ MaxAccepted(a, Debounce) + 1 <= MaxAccepted(a, 0)
        BY <3>6, MaxAcceptedFacts
      <4> QED
        BY <2>4, <3>3, <3>4, <3>5, <3>6, <3>8, <4>1, <4>2
    <3> QED
      BY <3>7, <3>8
  <2> QED
    BY <2>5 DEF BurstInv
<1> QED
  BY <1>1, <1>2
(* send() completes: the signal stays on the path.                         *)
LEMMA BurstSend ==
  ASSUME TypeOK, BurstInv, UNCHANGED swaps, SendSignal
  PROVE  BurstInv'
<1> DEFINE sig == Head(outbox)
<1>1. sig \in Signal /\ Len(outbox) = 1 /\ outbox \in Seq(Signal) /\ sig = outbox[1]
  BY OutboxSignal DEF SendSignal, TypeOK
<1>2. /\ outbox' = <<>> /\ chan' = Append(chan, sig) /\ UNCHANGED sinceSignal
      /\ chan \in Seq(Signal)
  BY DEF SendSignal, TypeOK
<1> HIDE DEF sig
<1>3. outbox = <<sig>>
  BY <1>1
<1>4. ASSUME NEW t \in Tokens PROVE OnPath(t)' = OnPath(t)
  <2>1. CountIn(outbox', Of(t)) = 0 /\ CountIn(outbox, Of(t)) = IF sig \in Of(t) THEN 1 ELSE 0
    BY <1>1, <1>2, <1>3, CountSmall
  <2>2. CountIn(chan', Of(t)) = CountIn(chan, Of(t)) + IF sig \in Of(t) THEN 1 ELSE 0
    BY <1>1, <1>2, CountAppend
  <2>3. CountIn(chan, Of(t)) \in Nat
    BY PathFacts
  <2> QED
    BY <2>1, <2>2, <2>3 DEF OnPath
<1> QED
  BY <1>2, <1>4 DEF BurstInv

(* The loop records a signal: it leaves the path and enters the deque of   *)
(* its token, which pruning and the clean-up only shorten.                 *)
LEMMA BurstRecord ==
  ASSUME TypeOK, DequeInv, BurstInv, Record
  PROVE  BurstInv'
<1> DEFINE u == Head(chan).token
           longer == Append(swaps[u], 0)
           all == [swaps EXCEPT ![u] = Prune(longer)]
<1>1. u \in Tokens /\ Head(chan) \in Signal /\ chan \in Seq(Signal) /\ chan # <<>>
  <2>1. chan \in Seq(Signal) /\ chan # <<>>
    BY DEF TypeOK, Record, Receive
  <2> QED
    BY <2>1, RecordedToken
<1>2. /\ chan' = Tail(chan) /\ UNCHANGED <<outbox, sinceSignal>>
      /\ swaps' = all \/ swaps' = CleanSwaps(all)
  BY DEF Record, Receive, feedVars
<1>3. ASSUME NEW t \in Tokens
      PROVE  /\ CountIn(chan', Of(t)) + (IF t = u THEN 1 ELSE 0) <= CountIn(chan, Of(t))
             /\ CountIn(chan', Of(t)) \in Nat /\ CountIn(chan, Of(t)) \in Nat
  <2>1. Head(chan) \in Of(t) <=> t = u
    BY <1>1 DEF Of
  <2>2. Tail(chan) \in Seq(Signal)
    BY <1>1
  <2> HIDE DEF u
  <2>3. /\ CountIn(chan, Of(t)) \in Nat /\ CountIn(Tail(chan), Of(t)) \in Nat
        /\ CountIn(Tail(chan), Of(t)) + (IF Head(chan) \in Of(t) THEN 1 ELSE 0)
             <= CountIn(chan, Of(t))
    BY <1>1, <2>2, CountType, CountTail
  <2> QED
    BY <1>2, <2>1, <2>3
<1> HIDE DEF u
<1>4. swaps[u] \in Seq(Ages) /\ Sorted(swaps[u]) /\ 0 \in Ages
  BY <1>1, TrackerAssumption DEF DequeInv, Ages
<1>5. longer \in Seq(Ages) /\ Sorted(longer) /\ Prune(longer) \in Seq(Ages) /\ Sorted(Prune(longer))
  <2>1. longer \in Seq(Ages)
    BY <1>4
  <2>3. Sorted(longer)
    BY <1>4, PruneAppend
  <2> HIDE DEF longer
  <2>4. Prune(longer) = StillHeard(longer) /\ StillHeard(longer) \in Seq(0..Window)
        /\ Sorted(StillHeard(longer))
    BY <2>1, <2>3, HeardType
  <2>5. Prune(longer) \in Seq(Ages)
    BY <2>4, PruneYoung
  <2> QED
    BY <2>1, <2>3, <2>4, <2>5
<1>6. ASSUME NEW t \in Tokens
      PROVE  all[t] = IF t = u THEN Prune(longer) ELSE swaps[t]
  BY <1>1 DEF DequeInv
<1>7. ASSUME NEW t \in Tokens, NEW a \in 1..SpikeWindow
      PROVE  /\ all[t] \in Seq(Ages) /\ Sorted(all[t])
             /\ CountIn(all[t], Under(a))
                  <= CountIn(swaps[t], Under(a)) + (IF t = u THEN 1 ELSE 0)
  <2>1. CASE t = u
    <3>1. CountIn(longer, Under(a)) = CountIn(swaps[u], Under(a)) + IF 0 \in Under(a) THEN 1 ELSE 0
      BY <1>4, CountAppend
    <3>2. CountIn(Prune(longer), Under(a)) <= CountIn(longer, Under(a))
      BY <1>5, PruneCounts
    <3>3. CountIn(Prune(longer), Under(a)) \in Nat /\ CountIn(swaps[u], Under(a)) \in Nat
      BY <1>4, <1>5, UnderFacts
    <3>4. all[t] = Prune(longer)
      BY <1>6, <2>1
    <3> HIDE DEF all, longer
    <3> QED
      BY <1>5, <2>1, <3>1, <3>2, <3>3, <3>4
  <2>2. CASE t # u
    <3>1. all[t] = swaps[t] /\ swaps[t] \in Seq(Ages) /\ Sorted(swaps[t])
      BY <1>6, <2>2 DEF DequeInv
    <3>2. CountIn(swaps[t], Under(a)) \in Nat
      BY <3>1, UnderFacts
    <3> HIDE DEF all
    <3> QED
      BY <2>2, <3>1, <3>2
  <2> QED
    BY <2>1, <2>2
<1> HIDE DEF all, longer
<1>8. ASSUME NEW t \in Tokens, NEW a \in 1..SpikeWindow
      PROVE  /\ CountIn(swaps'[t], Under(a))
                  <= CountIn(swaps[t], Under(a)) + (IF t = u THEN 1 ELSE 0)
             /\ CountIn(swaps'[t], Under(a)) \in Nat /\ CountIn(swaps[t], Under(a)) \in Nat
  <2>1. swaps'[t] = all[t] \/ swaps'[t] = Prune(all[t])
    BY <1>2 DEF CleanSwaps
  <2>2. CountIn(Prune(all[t]), Under(a)) <= CountIn(all[t], Under(a))
    BY <1>7, PruneCounts
  <2>3. Prune(all[t]) \in Seq(Ages)
    BY <1>7, HeardType, PruneYoung
  <2>4. /\ CountIn(Prune(all[t]), Under(a)) \in Nat /\ CountIn(all[t], Under(a)) \in Nat
        /\ CountIn(swaps[t], Under(a)) \in Nat
    BY <1>7, <2>3, UnderFacts DEF DequeInv
  <2> QED
    BY <1>7, <2>1, <2>2, <2>4
<1>9. ASSUME NEW t \in Tokens, NEW a \in 1..SpikeWindow
      PROVE  CountIn(swaps'[t], Under(a)) + OnPath(t)'
               <= ChannelCap + 1 + MaxAccepted(a, sinceSignal'[t])
  <2>1. CountIn(outbox', Of(t)) = CountIn(outbox, Of(t)) /\ CountIn(outbox, Of(t)) \in Nat
    BY <1>2, PathFacts
  <2>2. CountIn(swaps'[t], Under(a)) + OnPath(t)' <= CountIn(swaps[t], Under(a)) + OnPath(t)
    BY <1>3, <1>8, <2>1 DEF OnPath
  <2>3. CountIn(swaps[t], Under(a)) + OnPath(t) <= ChannelCap + 1 + MaxAccepted(a, sinceSignal[t])
    BY DEF BurstInv
  <2>4. /\ MaxAccepted(a, sinceSignal[t]) \in Nat /\ ChannelCap \in Nat
        /\ sinceSignal'[t] = sinceSignal[t]
    <3>1. a \in Nat \ {0} /\ sinceSignal[t] \in 0..Debounce /\ ChannelCap \in Nat
      BY TrackerAssumption, FeedAssumption DEF TypeOK
    <3> QED
      BY <1>2, <3>1, MaxAcceptedFacts
  <2>5. OnPath(t) \in Nat /\ OnPath(t)' \in Nat
    BY <1>3, <2>1, PathFacts DEF OnPath
  <2> QED
    BY <1>8, <2>2, <2>3, <2>4, <2>5
<1> QED
  BY <1>9 DEF BurstInv

(* Every step keeps the bound for every span.                              *)
LEMMA NextBurstInv ==
  ASSUME TypeOK, DequeInv, DebounceInv, BurstInv, [TrackerNext]_feedTrackerVars
  PROVE  BurstInv'
<1>1. ASSUME UNCHANGED <<swaps, sinceSignal, chan, outbox>>
      PROVE  BurstInv'
  BY <1>1 DEF BurstInv, OnPath
<1>2. CASE UNCHANGED feedTrackerVars
  BY <1>1, <1>2 DEF feedTrackerVars, trackerVars, vars
<1>3. CASE FeedOnly
  <2>1. UNCHANGED swaps
    BY <1>3 DEF FeedOnly, trackerVars
  <2>2. CASE ConnectOk \/ SessionEnds \/ Restart
    BY <1>1, <2>1, <2>2 DEF ConnectOk, SessionEnds, Restart
  <2>3. CASE \E s \in Swaps : ReadSwap(s)
    BY <2>1, <2>3, BurstRead
  <2>4. CASE SendSignal
    BY <2>1, <2>4, BurstSend
  <2> QED
    BY <1>3, <2>2, <2>3, <2>4 DEF FeedOnly
<1> QED
  BY <1>2, <1>3, BurstSecond, BurstRecord DEF TrackerNext

(* At first nothing has been heard.                                        *)
LEMMA InitBurstInv == TrackerInit => BurstInv
<1> SUFFICES ASSUME TrackerInit, NEW t \in Tokens, NEW a \in 1..SpikeWindow
             PROVE  CountIn(swaps[t], Under(a)) + OnPath(t)
                      <= ChannelCap + 1 + MaxAccepted(a, sinceSignal[t])
  BY DEF BurstInv
<1>1. swaps[t] = <<>> /\ chan = <<>> /\ outbox = <<>> /\ sinceSignal[t] = Debounce
  BY DEF TrackerInit, Init, FeedInit
<1>2. \A V : CountIn(<<>>, V) = 0
  BY CountSmall
<1>3. a \in Nat \ {0} /\ ChannelCap \in Nat /\ Debounce \in 0..Debounce
  BY TrackerAssumption, FeedAssumption
<1>4. MaxAccepted(a, Debounce) \in Nat
  BY <1>3, MaxAcceptedFacts
<1> QED
  BY <1>1, <1>2, <1>3, <1>4 DEF OnPath

(* The longest span is the spike window.                                   *)
LEMMA BurstInvBounds ==
  ASSUME TypeOK, DequeInv, BurstInv
  PROVE  BurstBounded
<1> SUFFICES ASSUME NEW t \in Tokens
             PROVE  Recent(swaps[t]) <= (SpikeWindow - 1) \div Debounce + 1 + ChannelCap + 1
  BY DEF BurstBounded
<1>1. /\ SpikeWindow \in 1..SpikeWindow /\ SpikeWindow \in Nat \ {0} /\ ChannelCap \in Nat
      /\ sinceSignal[t] \in 0..Debounce
  BY TrackerAssumption, FeedAssumption DEF TypeOK
<1>2. CountIn(swaps[t], Under(SpikeWindow)) + OnPath(t)
        <= ChannelCap + 1 + MaxAccepted(SpikeWindow, sinceSignal[t])
  BY <1>1 DEF BurstInv
<1>3. /\ Recent(swaps[t]) = CountIn(swaps[t], Under(SpikeWindow))
      /\ CountIn(swaps[t], Under(SpikeWindow)) \in Nat /\ OnPath(t) \in Nat
  BY UnderFacts, PathFacts DEF DequeInv
<1>4. /\ MaxAccepted(SpikeWindow, sinceSignal[t]) \in Nat
      /\ MaxAccepted(SpikeWindow, sinceSignal[t]) <= (SpikeWindow - 1) \div Debounce + 1
      /\ (SpikeWindow - 1) \div Debounce \in Nat
  BY <1>1, MaxAcceptedFacts, DebounceFloor
<1> QED
  BY <1>1, <1>2, <1>3, <1>4

(* However long the loop was busy and however fast a token trades, the     *)
(* tracker counts no more recent swaps of it than the debounce lets        *)
(* through in a spike window and the path can have held back.              *)
THEOREM BurstIsBounded == TrackerSpec => []BurstBounded
<1>1. TrackerInit => DebounceInv
  BY DEF TrackerInit, Init, FeedInit, DebounceInv, Remembered
<1>2. TypeOK /\ DebounceInv /\ [TrackerNext]_feedTrackerVars => DebounceInv'
  BY TrackerStepsFeed, NextDebounceInv
<1> QED
  BY <1>1, <1>2, InitBurstInv, NextBurstInv, BurstInvBounds, InitDequeInv, NextDequeInv,
     TrackerKeepsFeed, PTL DEF TrackerSpec
=============================================================================
