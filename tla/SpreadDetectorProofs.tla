------------------------ MODULE SpreadDetectorProofs ------------------------
(***************************************************************************)
(* Machine-checked proofs about SpreadDetector, for any venues, fees,      *)
(* thresholds and prices: an opportunity can be traded on the quotes it    *)
(* was made of, suppression never hides a drift, and as long as no spread  *)
(* is infinite two opportunities in a row differ by the threshold.         *)
(***************************************************************************)
EXTENDS SpreadDetector, TLAPS

Quote == [price : Prices, age : Ages]

(* At most one entry: the empty sequence, or one element.                  *)
LEMMA AtMostOne ==
  ASSUME NEW S, NEW s \in Seq(S), Len(s) <= 1
  PROVE  /\ DOMAIN s \subseteq {1}
         /\ s # <<>> => Len(s) = 1 /\ s[1] \in S /\ DOMAIN s = {1}
OBVIOUS

(* The only element of a sequence of one.                                  *)
LEMMA OneEntry ==
  ASSUME NEW S, NEW e \in S
  PROVE  <<e>> \in Seq(S) /\ Len(<<e>>) = 1 /\ <<e>> # <<>> /\ <<e>>[1] = e
OBVIOUS

(* A graph that shows at most one quote of each venue.                    *)
GraphOK(g) == g \in [Venues -> Seq(Quote)] /\ \A v \in Venues : Len(g[v]) <= 1

(* What a venue shows, if anything, is one quote.                          *)
LEMMA GraphQuote ==
  ASSUME NEW g, GraphOK(g), NEW v \in Venues, g[v] # <<>>
  PROVE  /\ g[v][1] \in Quote /\ DOMAIN g[v] = {1}
         /\ g[v][1].price \in Nat /\ g[v][1].age \in Nat
<1>1. g[v] \in Seq(Quote) /\ Len(g[v]) <= 1
  BY DEF GraphOK
<1>2. g[v][1] \in Quote /\ DOMAIN g[v] = {1}
  BY <1>1, AtMostOne
<1>3. \A q \in Quote : q.price \in Prices /\ q.age \in Ages
  BY DEF Quote
<1>4. Prices \subseteq Nat /\ Ages \subseteq Nat
  BY DetectorAssumption DEF Ages
<1> QED
  BY <1>2, <1>3, <1>4

(* The fee of a DEX.                                                       *)
LEMMA FeeNat ==
  ASSUME NEW v \in Venues
  PROVE  FeeBps[v.dex] \in Nat
BY DetectorAssumption DEF Dexes

(* Rounding down: a quotient that reaches c was of c times the divisor.    *)
LEMMA FloorReaches ==
  ASSUME NEW a \in Int, NEW b \in Nat \ {0}, NEW c \in Int, c <= a \div b
  PROVE  c * b <= a
<1>1. a \div b \in Int /\ b * (a \div b) <= a
  OBVIOUS
<1>2. c * b <= (a \div b) * b
  BY <1>1
<1> QED
  BY <1>1, <1>2

-----------------------------------------------------------------------------
(* The cheapest and the priciest fresh venue are different venues, and no  *)
(* fresh venue is outside their prices.                                    *)
LEMMA ExtremesBound ==
  ASSUME NEW g, GraphOK(g), NEW e \in Extremes(g)
  PROVE  /\ e[1] \in Venues /\ e[2] \in Venues /\ e[1] # e[2]
         /\ Fresh(g[e[1]]) /\ Fresh(g[e[2]])
         /\ \A v \in Venues : Fresh(g[v]) =>
              g[v][1].price \in g[e[1]][1].price..g[e[2]][1].price
<1> DEFINE fresh == {v \in Venues : Fresh(g[v])}
           price(v) == g[v][1].price
           cheapest == {v \in fresh : \A u \in fresh : price(v) <= price(u)}
           priciest == {v \in fresh : \A u \in fresh : price(v) >= price(u)}
<1>1. e \in cheapest \X priciest /\ cheapest # priciest
  BY DEF Extremes
<1>2. e[1] \in cheapest /\ e[2] \in priciest
  BY <1>1
<1>3. \A v \in fresh : price(v) \in Nat
  BY GraphQuote DEF Fresh
<1> HIDE DEF price
<1>4. e[1] # e[2]
  <2>1. SUFFICES ASSUME e[1] = e[2] PROVE cheapest = priciest
    BY <1>1
  <2>2. ASSUME NEW u \in fresh PROVE price(u) = price(e[1])
    <3>1. price(e[1]) <= price(u) /\ price(u) <= price(e[1])
      BY <1>2, <1>3, <2>1
    <3> QED
      BY <1>2, <1>3, <3>1
  <2> QED
    BY <1>3, <2>2
<1>5. ASSUME NEW v \in fresh PROVE price(v) \in price(e[1])..price(e[2])
  <2>1. price(e[1]) <= price(v) /\ price(v) <= price(e[2])
    BY <1>2, <1>3
  <2> QED
    BY <1>2, <1>3, <2>1
<1> QED
  BY <1>2, <1>4, <1>5 DEF price

(* A spread the detector looks at: its venues and its net value.           *)
LEMMA WideSpread ==
  ASSUME NEW g, GraphOK(g), NEW s \in WideSpreads(g)
  PROVE  /\ s \in Spread
         /\ s.buy \in Venues /\ s.sell \in Venues /\ s.net \in Int
         /\ s.net >= MinSpread
         /\ s.net = NetSpread(g, s.buy, s.sell)
         /\ s.buy # s.sell
         /\ Fresh(g[s.buy]) /\ Fresh(g[s.sell])
         /\ \A v \in Venues : Fresh(g[v]) =>
              g[v][1].price \in g[s.buy][1].price..g[s.sell][1].price
<1>1. PICK e \in Extremes(g) :
        s = [buy |-> e[1], sell |-> e[2], net |-> NetSpread(g, e[1], e[2])]
  BY DEF WideSpreads
<1>2. s.buy = e[1] /\ s.sell = e[2] /\ s.net = NetSpread(g, e[1], e[2])
  BY <1>1
<1>3. /\ e[1] \in Venues /\ e[2] \in Venues /\ e[1] # e[2]
      /\ Fresh(g[e[1]]) /\ Fresh(g[e[2]])
      /\ \A v \in Venues : Fresh(g[v]) =>
           g[v][1].price \in g[e[1]][1].price..g[e[2]][1].price
  BY ExtremesBound
<1>4. NetSpread(g, e[1], e[2]) \in Int
  <2> DEFINE b == g[e[1]][1].price
             t == g[e[2]][1].price
  <2>1. b \in Nat /\ t \in Nat /\ FeeBps[e[1].dex] \in Nat /\ FeeBps[e[2].dex] \in Nat
    BY <1>3, GraphQuote, FeeNat DEF Fresh
  <2>2. CASE b = 0
    BY <2>2 DEF NetSpread, Infinite
  <2>3. CASE b # 0
    <3>1. NetSpread(g, e[1], e[2])
            = ((t - b) * 10000) \div b - FeeBps[e[1].dex] - FeeBps[e[2].dex]
      BY <2>3 DEF NetSpread
    <3> HIDE DEF b, t
    <3>2. ((t - b) * 10000) \div b \in Int
      BY <2>1, <2>3
    <3> QED
      BY <2>1, <3>1, <3>2
  <2> QED
    BY <2>2, <2>3
<1>5. s \in Spread
  BY <1>1, <1>3, <1>4 DEF Spread
<1>6. s.net >= MinSpread
  BY DEF WideSpreads
<1> QED
  BY <1>2, <1>3, <1>4, <1>5, <1>6

(* The price difference of a spread at least as wide as MinSpread pays     *)
(* both fees and MinSpread.                                                *)
LEMMA SpreadPays ==
  ASSUME NEW g, GraphOK(g), NEW s \in WideSpreads(g)
  PROVE  (g[s.sell][1].price - g[s.buy][1].price) * 10000
           >= (MinSpread + FeeBps[s.buy.dex] + FeeBps[s.sell.dex]) * g[s.buy][1].price
<1> DEFINE b == g[s.buy][1].price
           t == g[s.sell][1].price
           fees == FeeBps[s.buy.dex] + FeeBps[s.sell.dex]
<1>1. s.buy \in Venues /\ s.sell \in Venues /\ s.net \in Int /\ s.net >= MinSpread
  BY WideSpread
<1>2. Fresh(g[s.buy]) /\ Fresh(g[s.sell])
  BY WideSpread
<1>3. b \in Nat /\ t \in Nat /\ fees \in Nat /\ MinSpread \in Nat
  BY <1>1, <1>2, GraphQuote, FeeNat, DetectorAssumption DEF Fresh
<1>4. MinSpread + FeeBps[s.buy.dex] + FeeBps[s.sell.dex] = MinSpread + fees
  BY <1>1, <1>3, FeeNat
<1>5. CASE b = 0
  <2>1. (MinSpread + fees) * b = 0 /\ (t - b) * 10000 >= 0
    BY <1>3, <1>5
  <2> QED
    BY <1>4, <2>1
<1>6. CASE b # 0
  <2>1. s.net = ((t - b) * 10000) \div b - FeeBps[s.buy.dex] - FeeBps[s.sell.dex]
    <3>1. s.net = NetSpread(g, s.buy, s.sell)
      BY WideSpread
    <3> QED
      BY <1>6, <3>1 DEF NetSpread
  <2> HIDE DEF b, t
  <2>2. ((t - b) * 10000) \div b \in Int /\ (t - b) * 10000 \in Int
    BY <1>3, <1>6
  <2>3. MinSpread + fees <= ((t - b) * 10000) \div b
    BY <1>1, <1>3, <2>1, <2>2, FeeNat
  <2>4. (MinSpread + fees) * b <= (t - b) * 10000
    BY <1>3, <1>6, <2>2, <2>3, FloorReaches
  <2>5. (MinSpread + fees) * b \in Int
    BY <1>3
  <2> QED
    BY <1>4, <2>2, <2>4, <2>5 DEF b, t
<1> QED
  BY <1>5, <1>6
-----------------------------------------------------------------------------
(* Type correctness (detector.rs:52-56, graph.rs:20-31).                   *)
LEMMA InitTypeOK == Init => TypeOK
<1> SUFFICES ASSUME Init PROVE TypeOK
  OBVIOUS
<1>1. GraphOK(graph)
  BY DEF Init, GraphOK
<1>2. <<>> \in Seq(Spread) /\ Len(<<>>) <= 1
  OBVIOUS
<1> QED
  BY <1>1, <1>2, Zenon DEF Init, TypeOK, Quote, GraphOK

(* Every step writes well-formed quotes into the graph.                    *)
LEMMA GraphTypes ==
  ASSUME TypeOK, Next
  PROVE  GraphOK(graph')
<1>1. GraphOK(graph)
  BY DEF TypeOK, Quote, GraphOK
<1>2. ASSUME NEW v \in Venues, NEW price \in Prices, NEW age \in Ages, Process(v, price, age)
      PROVE  GraphOK(graph')
  <2>1. [price |-> price, age |-> age] \in Quote
    BY DEF Quote
  <2>2. graph' = [graph EXCEPT ![v] = <<[price |-> price, age |-> age]>>]
    BY <1>2 DEF Process, Updated
  <2> QED
    BY <1>1, <2>1, <2>2, OneEntry DEF GraphOK
<1>3. ASSUME Tick
      PROVE  GraphOK(graph')
  <2> SUFFICES ASSUME NEW v \in Venues
               PROVE  graph'[v] \in Seq(Quote) /\ Len(graph'[v]) <= 1
    BY <1>3 DEF Tick, GraphOK
  <2>1. graph'[v] = [i \in DOMAIN graph[v] |-> [graph[v][i] EXCEPT !.age = Older(@)]]
    BY <1>3 DEF Tick
  <2>2. CASE graph[v] = <<>>
    BY <2>1, <2>2
  <2>3. CASE graph[v] # <<>>
    <3>1. DOMAIN graph[v] = 1..1 /\ graph[v][1] \in Quote
      BY <1>1, <2>3, GraphQuote
    <3>2. [graph[v][1] EXCEPT !.age = Older(@)] \in Quote
      BY <3>1, DetectorAssumption DEF Quote, Older, Ages
    <3>3. graph'[v] = [i \in 1..1 |-> [graph[v][1] EXCEPT !.age = Older(@)]]
      BY <2>1, <3>1
    <3> QED
      BY <3>2, <3>3
  <2> QED
    BY <2>2, <2>3
<1> QED
  BY <1>2, <1>3 DEF Next

(* Every step keeps the types.                                             *)
LEMMA NextTypeOK == TypeOK /\ [Next]_vars => TypeOK'
<1> SUFFICES ASSUME TypeOK, [Next]_vars PROVE TypeOK'
  OBVIOUS
<1>1. CASE UNCHANGED vars
  BY <1>1 DEF vars, TypeOK
<1>2. CASE Next
  <2>1. GraphOK(graph')
    BY <1>2, GraphTypes
  <2>2. ASSUME NEW s \in WideSpreads(graph') PROVE <<s>> \in Seq(Spread) /\ Len(<<s>>) <= 1
    <3>1. s \in Spread
      BY <2>1, WideSpread
    <3> QED
      BY <3>1, OneEntry
  <2>3. /\ seen' \in Seq(Spread) /\ Len(seen') <= 1 /\ emitted' \in BOOLEAN
        /\ last' \in Seq(Spread) /\ Len(last') <= 1
        /\ reported' \in Seq(Spread) /\ Len(reported') <= 1
    <3>1. ASSUME NEW s \in WideSpreads(graph'), Emit(s)
          PROVE  /\ seen' \in Seq(Spread) /\ Len(seen') <= 1 /\ emitted' \in BOOLEAN
                 /\ last' \in Seq(Spread) /\ Len(last') <= 1
                 /\ reported' \in Seq(Spread) /\ Len(reported') <= 1
      BY <2>2, <3>1 DEF Emit, Replace, KeepReference, TypeOK
    <3>2. CASE seen' = <<>> /\ emitted' = FALSE /\ UNCHANGED <<last, reported>>
      <4>1. <<>> \in Seq(Spread) /\ Len(<<>>) <= 1
        OBVIOUS
      <4> QED
        BY <3>2, <4>1 DEF TypeOK
    <3> QED
      BY <1>2, <3>1, <3>2 DEF Next, Process, Tick
  <2> QED
    BY <2>1, <2>3 DEF TypeOK, GraphOK, Quote
<1> QED
  BY <1>1, <1>2

(* The detector's graph, reference and history keep their types.           *)
THEOREM TypeCorrect == Spec => []TypeOK
BY InitTypeOK, NextTypeOK, PTL DEF Spec

-----------------------------------------------------------------------------
(* An opportunity could be traded on the quotes at hand: every step that   *)
(* emits one leaves a graph with its two venues, fresh, cheapest and       *)
(* priciest, and a difference that pays the fees and the minimum spread.   *)
LEMMA EmittedHolds == TypeOK /\ [Next]_vars /\ OpportunityHolds => OpportunityHolds'
<1> SUFFICES ASSUME TypeOK, [Next]_vars, OpportunityHolds, emitted'
             PROVE  OpportunityHolds'
  BY DEF OpportunityHolds
<1>1. CASE UNCHANGED vars
  BY <1>1 DEF vars, OpportunityHolds
<1>2. CASE Next
  <2>1. GraphOK(graph')
    BY <1>2, GraphTypes
  <2>2. PICK s \in WideSpreads(graph') : Emit(s)
    BY <1>2 DEF Next, Process, Tick
  <2>3. reported' = <<s>>
    BY <2>2 DEF Emit
  <2>4. /\ s.buy \in Venues /\ s.sell \in Venues /\ s.buy # s.sell
        /\ Fresh(graph'[s.buy]) /\ Fresh(graph'[s.sell])
        /\ \A v \in Venues : Fresh(graph'[v]) =>
             graph'[v][1].price \in graph'[s.buy][1].price..graph'[s.sell][1].price
    BY <2>1, WideSpread
  <2>5. (graph'[s.sell][1].price - graph'[s.buy][1].price) * 10000
          >= (MinSpread + FeeBps[s.buy.dex] + FeeBps[s.sell.dex]) * graph'[s.buy][1].price
    BY <2>1, SpreadPays
  <2>6. reported'[1] = s
    BY <2>3
  <2> HIDE DEF WideSpreads
  <2> QED
    BY <2>4, <2>5, <2>6 DEF OpportunityHolds, Fresh
<1> QED
  BY <1>1, <1>2

(* OpportunityHolds is an invariant.                                       *)
THEOREM OpportunitiesHold == Spec => []OpportunityHolds
<1>1. Init => OpportunityHolds
  BY DEF Init, OpportunityHolds
<1> QED
  BY <1>1, InitTypeOK, NextTypeOK, EmittedHolds, PTL DEF Spec

-----------------------------------------------------------------------------
(* The reference of the deduplication is the last opportunity reported,    *)
(* and what the last quote revealed is that one or close to it.  Neither   *)
(* half is inductive alone: a suppressed spread is compared with last.     *)
DriftInv == TypeOK /\ last = reported /\ DriftIsReported

(* Every step keeps the reference equal to the last report.                *)
LEMMA NextDriftInv == DriftInv /\ [Next]_vars => DriftInv'
<1> SUFFICES ASSUME DriftInv, [Next]_vars PROVE DriftInv'
  OBVIOUS
<1>1. TypeOK'
  BY NextTypeOK DEF DriftInv
<1>2. CASE UNCHANGED vars
  BY <1>1, <1>2 DEF vars, DriftInv, DriftIsReported
<1>3. ASSUME NEW s \in WideSpreads(graph'), Emit(s) PROVE DriftInv'
  <2>1. seen' = <<s>> /\ seen'[1] = s
    BY <1>3 DEF Emit
  <2>2. CASE Duplicate(s)
    BY <1>1, <1>3, <2>1, <2>2
       DEF DriftInv, DriftIsReported, Emit, KeepReference, Duplicate, CloseSpread
  <2>3. CASE ~Duplicate(s)
    <3>1. last' = <<s>> /\ reported' = <<s>> /\ reported'[1] = s
      BY <1>3, <2>3 DEF Emit, Replace
    <3> QED
      BY <1>1, <2>1, <3>1 DEF DriftInv, DriftIsReported, SameDexes
  <2> QED
    BY <2>2, <2>3
<1>4. CASE seen' = <<>> /\ UNCHANGED <<last, reported>>
  BY <1>1, <1>4 DEF DriftInv, DriftIsReported
<1> QED
  BY <1>2, <1>3, <1>4 DEF Next, Process, Tick

(* However slowly a spread drifts, what the detector sees is at most the   *)
(* threshold away from what it last reported between the same DEXes        *)
(* (detector.rs:113-128).                                                  *)
THEOREM DriftReported == Spec => []DriftIsReported
<1>1. Init => DriftInv
  BY InitTypeOK DEF Init, DriftInv, DriftIsReported
<1>2. DriftInv => DriftIsReported
  BY DEF DriftInv
<1> QED
  BY <1>1, <1>2, NextDriftInv, PTL DEF Spec

-----------------------------------------------------------------------------
(* No spread between two prices is infinite, or as large as the value that *)
(* stands for it.                                                          *)
FiniteSpreads == \A p, q \in Prices : p > 0 /\ (q - p) * 10000 < Infinite * p

(* Positive prices close enough have a finite spread.                      *)
LEMMA NetIsFinite ==
  ASSUME FiniteSpreads, NEW g, GraphOK(g), NEW s \in WideSpreads(g)
  PROVE  s.net # Infinite
<1> DEFINE b == g[s.buy][1].price
           t == g[s.sell][1].price
           q == ((t - b) * 10000) \div b
<1>1. s.buy \in Venues /\ s.sell \in Venues
  BY WideSpread
<1>2. Fresh(g[s.buy]) /\ Fresh(g[s.sell])
  BY WideSpread
<1>3. b \in Prices /\ t \in Prices /\ b \in Nat /\ t \in Nat
  BY <1>1, <1>2, GraphQuote DEF Fresh, Quote
<1>4. b # 0 /\ (t - b) * 10000 < Infinite * b
  BY <1>3 DEF FiniteSpreads
<1>5. s.net = q - FeeBps[s.buy.dex] - FeeBps[s.sell.dex]
  <2>1. s.net = NetSpread(g, s.buy, s.sell)
    BY WideSpread
  <2> QED
    BY <1>4, <2>1 DEF NetSpread
<1> HIDE DEF b, t
<1>6. (t - b) * 10000 \in Int /\ q \in Int
  BY <1>3, <1>4
<1>7. q < Infinite
  <2>1. SUFFICES ASSUME Infinite <= q PROVE FALSE
    BY <1>6 DEF Infinite
  <2>2. Infinite * b <= (t - b) * 10000
    BY <1>3, <1>4, <1>6, <2>1, FloorReaches DEF Infinite
  <2> QED
    BY <1>3, <1>4, <1>6, <2>2 DEF Infinite
<1> HIDE DEF q
<1> QED
  BY <1>1, <1>5, <1>6, <1>7, FeeNat DEF Infinite

(* "Only emit a new opportunity if the spread changed by this many bps"    *)
(* (detector.rs:32) holds of every two opportunities in a row as long as   *)
(* no spread is infinite.  The hypothesis is needed: with a pool priced    *)
(* zero the infinite spread is emitted again with every quote.             *)
THEOREM NoDuplicatesIfFinite ==
  ASSUME FiniteSpreads
  PROVE  Spec => NoDuplicates
<1>1. DriftInv /\ [Next]_vars
        => [emitted' /\ reported # <<>> /\ SameDexes(reported'[1], reported[1])
              => Distance(reported'[1].net, reported[1].net) >= DedupBps]_vars
  <2> SUFFICES ASSUME DriftInv, Next, emitted', reported # <<>>,
                      SameDexes(reported'[1], reported[1])
               PROVE  Distance(reported'[1].net, reported[1].net) >= DedupBps
    OBVIOUS
  <2>1. PICK s \in WideSpreads(graph') : Emit(s)
    BY DEF Next, Process, Tick
  <2>2. ~Duplicate(s) /\ reported' = <<s>> /\ reported'[1] = s
    BY <2>1 DEF Emit
  <2>3. GraphOK(graph')
    BY GraphTypes DEF DriftInv
  <2>4. s.net # Infinite /\ s \in Spread
    BY <2>3, NetIsFinite, WideSpread
  <2>5. ~(Distance(s.net, reported[1].net) < DedupBps)
    BY <2>2, <2>4 DEF DriftInv, Duplicate, CloseSpread
  <2>6. reported[1] \in Spread
    BY AtMostOne DEF DriftInv, TypeOK
  <2>7. Distance(s.net, reported[1].net) \in Int /\ DedupBps \in Int
    BY <2>4, <2>6, DetectorAssumption DEF Spread, Distance
  <2> QED
    BY <2>2, <2>5, <2>7
<1>2. Init => DriftInv
  BY InitTypeOK DEF Init, DriftInv, DriftIsReported
<1> QED
  BY <1>1, <1>2, NextDriftInv, PTL DEF Spec, NoDuplicates
=============================================================================
