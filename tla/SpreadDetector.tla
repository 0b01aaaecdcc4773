--------------------------- MODULE SpreadDetector ---------------------------
(***************************************************************************)
(* The cross-venue spread detector (arb-detect/src/detector.rs) over the   *)
(* price graph (arb-detect/src/graph.rs), for one trading pair; pairs do   *)
(* not share state.  A venue is a pool on a DEX.  Spreads are in whole     *)
(* basis points; a venue priced zero makes the spread infinite, as the f64 *)
(* division does, and a pool is priced zero while SOL/USD is not known.    *)
(***************************************************************************)
EXTENDS Integers, Sequences

CONSTANTS
  Venues,     \* [dex, pool]
  Prices,     \* prices of the quotes, in a unit of the pair
  FeeBps,     \* Dex::fee_bps, per DEX
  MinSpread,  \* min_spread_bps
  DedupBps,   \* dedup_threshold_bps (5)
  MaxAge      \* max_age_secs: an older quote is stale

Dexes == {v.dex : v \in Venues}

ASSUME DetectorAssumption ==
  /\ Prices \subseteq Nat
  /\ FeeBps \in [Dexes -> Nat]
  /\ MinSpread \in Nat /\ DedupBps \in Nat /\ MaxAge \in Nat

VARIABLES
  graph,    \* per venue: its last quote [price, age], if any
  last,     \* last_spreads of the pair
  seen,     \* the spread the last quote revealed, if it is wide enough
  emitted,  \* did that quote emit an opportunity?
  reported  \* the last opportunity emitted (history)

vars == <<graph, last, seen, emitted, reported>>

Infinite == 1000000000
Ages == 0..(MaxAge + 1)
Spread == [buy : Venues, sell : Venues, net : Int]

(* Faulty variant: a quote of any age counts.                              *)
AnyAge(quote) == quote # <<>>
Fresh(quote) == quote # <<>> /\ quote[1].age <= MaxAge

-----------------------------------------------------------------------------
(* PriceGraph::update: the latest quote of a venue replaces the one before.*)
Updated(v, price, age) == [graph EXCEPT ![v] = <<[price |-> price, age |-> age]>>]

(* The cheapest and the priciest fresh venue of graph g; among equals,     *)
(* whichever the HashMap yields first.  When all are equal, or there is    *)
(* only one, both are the same venue and nothing is compared.              *)
Extremes(g) ==
  LET fresh == {v \in Venues : Fresh(g[v])}
      price(v) == g[v][1].price
      cheapest == {v \in fresh : \A u \in fresh : price(v) <= price(u)}
      priciest == {v \in fresh : \A u \in fresh : price(v) >= price(u)}
  IN  IF cheapest = priciest THEN {} ELSE cheapest \X priciest

NetSpread(g, buy, sell) ==
  LET b == g[buy][1].price
      s == g[sell][1].price
  IN  IF b = 0 THEN Infinite
      ELSE ((s - b) * 10000) \div b - FeeBps[buy.dex] - FeeBps[sell.dex]

WideSpreads(g) ==
  {s \in {[buy |-> e[1], sell |-> e[2], net |-> NetSpread(g, e[1], e[2])] :
            e \in Extremes(g)} : s.net >= MinSpread}

Distance(m, n) == IF m > n THEN m - n ELSE n - m

(* inf - inf is NaN, which is not below the threshold.                     *)
(* Faulty variant: only the very same spread is a duplicate.               *)
SameSpread(m, n) == m = n /\ m # Infinite
CloseSpread(m, n) == Distance(m, n) < DedupBps /\ m # Infinite
SameDexes(s, t) == s.buy.dex = t.buy.dex /\ s.sell.dex = t.sell.dex
Duplicate(s) == last # <<>> /\ SameDexes(s, last[1]) /\ CloseSpread(s.net, last[1].net)

(* Faulty variants: spreads pile up; a suppressed one moves the reference. *)
PileUp(s) == last' = Append(last, s)
Replace(s) == last' = <<s>>
MoveReference(s) == last' = <<s>>
KeepReference(s) == UNCHANGED last

-----------------------------------------------------------------------------
Init ==
  /\ graph = [v \in Venues |-> <<>>]
  /\ last = <<>>
  /\ seen = <<>>
  /\ emitted = FALSE
  /\ reported = <<>>

Emit(s) ==
  /\ seen' = <<s>>
  /\ IF Duplicate(s)
     THEN KeepReference(s) /\ emitted' = FALSE /\ UNCHANGED reported
     ELSE Replace(s) /\ emitted' = TRUE /\ reported' = <<s>>

(* A quote that waited age seconds in the channel is processed.            *)
Process(v, price, age) ==
  /\ graph' = Updated(v, price, age)
  /\ \/ \E s \in WideSpreads(graph') : Emit(s)
     \/ /\ WideSpreads(graph') = {}
        /\ seen' = <<>>
        /\ emitted' = FALSE
        /\ UNCHANGED <<last, reported>>

(* A second passes.                                                        *)
Older(age) == IF age > MaxAge THEN age ELSE age + 1
Tick ==
  /\ graph' = [v \in Venues |->
                 [i \in DOMAIN graph[v] |-> [graph[v][i] EXCEPT !.age = Older(@)]]]
  /\ seen' = <<>>
  /\ emitted' = FALSE
  /\ UNCHANGED <<last, reported>>

Next ==
  \/ \E v \in Venues, price \in Prices, age \in Ages : Process(v, price, age)
  \/ Tick

Spec == Init /\ [][Next]_vars

-----------------------------------------------------------------------------
TypeOK ==
  /\ graph \in [Venues -> Seq([price : Prices, age : Ages])]
  /\ \A v \in Venues : Len(graph[v]) <= 1
  /\ last \in Seq(Spread) /\ Len(last) <= 1
  /\ seen \in Seq(Spread) /\ Len(seen) <= 1
  /\ emitted \in BOOLEAN
  /\ reported \in Seq(Spread) /\ Len(reported) <= 1

(* An opportunity could be traded on the quotes at hand: two different     *)
(* venues, neither quote older than max_age_secs, no fresh venue cheaper   *)
(* or pricier, and the price difference pays both fees and the minimum     *)
(* spread (detector.rs:75-108, graph.rs:40-50).                            *)
OpportunityHolds ==
  emitted =>
    LET b == graph[reported[1].buy]
        s == graph[reported[1].sell]
        cost == MinSpread + FeeBps[reported[1].buy.dex] + FeeBps[reported[1].sell.dex]
    IN  /\ reported[1].buy # reported[1].sell
        /\ b[1].age <= MaxAge /\ s[1].age <= MaxAge
        /\ (s[1].price - b[1].price) * 10000 >= cost * b[1].price
        /\ \A v \in Venues : graph[v] # <<>> /\ graph[v][1].age <= MaxAge =>
             graph[v][1].price \in b[1].price..s[1].price

(* Suppressing duplicates never hides a spread: however slowly it drifts,  *)
(* what the detector sees is at most the threshold away from what it last  *)
(* reported between the same DEXes (detector.rs:113-128).                  *)
DriftIsReported ==
  seen # <<>> =>
    /\ reported # <<>>
    /\ SameDexes(seen[1], reported[1])
    /\ seen[1].net = reported[1].net \/ Distance(seen[1].net, reported[1].net) < DedupBps

(* "Only emit a new opportunity if the spread changed by this many bps"    *)
(* (detector.rs:32): whatever lies between two opportunities in a row, on  *)
(* the same DEXes they are DedupBps apart.                                 *)
NoDuplicates ==
  [][emitted' /\ reported # <<>> /\ SameDexes(reported'[1], reported[1])
       => Distance(reported'[1].net, reported[1].net) >= DedupBps]_vars
=============================================================================
