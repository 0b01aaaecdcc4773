---------------------------- MODULE LocalScanner ----------------------------
(***************************************************************************)
(* One scan of arb-sim/src/local_scanner.rs over the pools of a token, in  *)
(* a market that moves between its RPC calls: scan_triggered (all buys     *)
(* quoted from one batch, first profitable route returned) and scan_token  *)
(* (every quote fetched on its own, best route returned).  Both evaluate   *)
(* buy and sell pools of different DEXes in the order of the pool list.    *)
(*                                                                         *)
(* A pool holds two mints on chain, the first and the second of its        *)
(* account: coin and pc, base and quote, mint 0 and 1, mint a and b, the   *)
(* token of a curve and SOL.  It is priced first/second and is depth times *)
(* as deep: these are the reserves of a constant-product pool and the      *)
(* virtual reserves of a concentrated one, whose quotes know the price     *)
(* only.  The list is what get_or_discover_pools returned (PoolRegistry    *)
(* models that), with any pair of mints a pool of the token may have.      *)
(***************************************************************************)
EXTENDS AmmEconomics, Sequences, FiniteSets

CONSTANTS
  PoolDexes,   \* the DEX of each pool of the list, one pool per DEX
  Mints,       \* per pool of the list, its mints on chain and quote_mint
  Trade,       \* trade_lamports
  Markets,     \* per DEX, the states of its pool: [first, second, depth, complete]
  MaxMoves     \* bound on the trades of others during the scan

ASSUME ScannerAssumption ==
  /\ PoolDexes \in Seq({"Raydium", "PumpSwap", "PumpFun", "Orca", "RaydiumClmm"})
  /\ \A p, q \in DOMAIN PoolDexes : PoolDexes[p] = PoolDexes[q] => p = q
  /\ Mints \in [DOMAIN PoolDexes -> [first : STRING, second : STRING, quote : STRING]]
  /\ Trade \in Nat \ {0} /\ MaxMoves \in Nat
  /\ \A p \in DOMAIN PoolDexes :
       Markets[PoolDexes[p]] \subseteq
         [first : Nat \ {0}, second : Nat \ {0}, depth : Nat, complete : BOOLEAN]

VARIABLES
  market,     \* on-chain state of each pool
  moves,      \* trades of others so far
  kind,       \* "triggered" or "periodic"
  step,       \* "buying", "selling" or "returned"
  next,       \* "buying": the next pool to quote; "selling": the next route
  buys,       \* buy_quotes: tokens received per pool quoted with success
  best,       \* best_result, as a sequence of at most one route
  answer,     \* what the scan returned; empty for an error or while it runs
  evaluated,  \* routes the scan priced (history)
  seen        \* market states since the scan began (history)

vars == <<market, moves, kind, step, next, buys, best, answer, evaluated, seen>>

Pools == DOMAIN PoolDexes
StatesOf(p) == Markets[PoolDexes[p]]
States ==
  {m \in [Pools -> UNION {StatesOf(p) : p \in Pools}] : \A p \in Pools : m[p] \in StatesOf(p)}
WSOL == "SOL"
TokenMint == "token"
Concentrated(p) == PoolDexes[p] \in {"Orca", "RaydiumClmm"}
NoQuote == 0
(* The (buy pool, sell pool) pairs in the order the loops visit them.      *)
Routes == [k \in 1..(Len(PoolDexes) * Len(PoolDexes)) |->
             [buy  |-> ((k - 1) \div Len(PoolDexes)) + 1,
              sell |-> ((k - 1) % Len(PoolDexes)) + 1]]
Result == [buy : Pools, sell : Pools, tokens : Nat, out : Nat, net : Int]

(* Faulty variant: the token comes first in every pool.                    *)
TokenFirst(p, input) == input # WSOL

(* Which side an input goes to: a curve tells SOL from the rest, a         *)
(* concentrated pool looks for its first mint, and the vaults of the       *)
(* others are taken as token and SOL unless the input is quote_mint.       *)
TakesFirst(p, input) ==
  CASE PoolDexes[p] = "PumpFun" -> input # WSOL
    [] Concentrated(p)          -> input = Mints[p].first
    [] OTHER                    -> input \notin {Mints[p].quote, WSOL}

PriceIn(p, m, input) == IF TakesFirst(p, input) THEN m.first ELSE m.second
PriceOut(p, m, input) == IF TakesFirst(p, input) THEN m.second ELSE m.first
Pays(p, in, out, input, amount) ==
  CASE PoolDexes[p] # "PumpFun" -> PoolSwapOutput(in, out, amount)
    [] input = WSOL             -> PumpFunBuyOutput(in, out, amount)
    [] OTHER                    -> PumpFunSellOutput(out, in, amount)

(* quote_swap: 0 where it fails.                                           *)
Quote(p, m, input, amount) ==
  LET in == PriceIn(p, m, input)
      out == PriceOut(p, m, input)
  IN  CASE PoolDexes[p] = "PumpFun" /\ m.complete -> NoQuote
        [] Concentrated(p) -> ConcentratedQuote(in, out, m.depth, amount)
        [] OTHER           -> Pays(p, m.depth * in, m.depth * out, input, amount)
BuyQuote(p, m) == Quote(p, m, WSOL, Trade)
SellQuote(p, m, tokens) == Quote(p, m, TokenMint, tokens)

(* The venue that buys back is another DEX, hence another pool.            *)
CrossVenue(r) == PoolDexes[r.buy] # PoolDexes[r.sell]
SaneOutput(out) == out > 0 /\ out <= 5 * Trade

(* The unprofitable route with the largest net profit is kept.             *)
Better(r, kept) == kept = <<>> \/ r.net > kept[1].net

-----------------------------------------------------------------------------
Init ==
  /\ market \in States
  /\ moves = 0
  /\ kind \in {"triggered", "periodic"}
  /\ step = IF Len(PoolDexes) < 2 THEN "returned" ELSE "buying"
  /\ next = 1
  /\ buys = [p \in Pools |-> NoQuote]
  /\ best = <<>>
  /\ answer = <<>>
  /\ evaluated = {}
  /\ seen = {market}

(* Somebody trades on a pool, or a curve completes, while the scan awaits. *)
Move(p) ==
  /\ step # "returned"
  /\ moves < MaxMoves
  /\ \E m \in StatesOf(p) \ {market[p]} :
       /\ market[p].complete => m.complete
       /\ market' = [market EXCEPT ![p] = m]
  /\ moves' = moves + 1
  /\ seen' = seen \union {market'}
  /\ UNCHANGED <<kind, step, next, buys, best, answer, evaluated>>

(* scan_triggered: quote_all_pools prices every buy from one batch of      *)
(* accounts.  A pool whose accounts are missing or do not decode has no    *)
(* quote; no pool has one if the RPC call fails.                           *)
QuoteAllBuys ==
  /\ kind = "triggered"
  /\ step = "buying"
  /\ \E found \in SUBSET Pools :
       buys' = [p \in Pools |-> IF p \in found THEN BuyQuote(p, market[p]) ELSE NoQuote]
  /\ step' = "selling"
  /\ next' = 1
  /\ UNCHANGED <<market, moves, kind, best, answer, evaluated, seen>>

(* scan_token: one quote_swap per pool, each with its own fetch.           *)
QuoteOneBuy ==
  /\ kind = "periodic"
  /\ step = "buying"
  /\ \E quote \in {BuyQuote(next, market[next]), NoQuote} :
       buys' = [buys EXCEPT ![next] = quote]
  /\ IF next = Len(PoolDexes)
     THEN step' = "selling" /\ next' = 1
     ELSE next' = next + 1 /\ UNCHANGED step
  /\ UNCHANGED <<market, moves, kind, best, answer, evaluated, seen>>

(* The next route: skipped, or its sell quoted against the pool as it is   *)
(* now.  A failed fetch, a zero or an insane output skips the route.       *)
Skipped(r) == ~CrossVenue(r) \/ buys[r.buy] = NoQuote
Priced(r, out) ==
  [buy |-> r.buy, sell |-> r.sell, tokens |-> buys[r.buy], out |-> out,
   net |-> NetProfit(Trade, out)]

(* Faulty variant: the sell is quoted for the SOL amount, not the tokens.  *)
SellOfTrade(r) == SellQuote(r.sell, market[r.sell], Trade)
SellNow(r) == SellQuote(r.sell, market[r.sell], buys[r.buy])

(* Faulty variants: keep the last route, every route, only profitable ones.*)
KeepLast(r) == best' = <<r>>
KeepAll(r) == best' = Append(best, r)
KeepProfitable(r) == best' = IF r.net > 0 /\ Better(r, best) THEN <<r>> ELSE best
Keep(r) == best' = IF Better(r, best) THEN <<r>> ELSE best

(* scan_triggered returns at the first profitable route.                   *)
Consider(r) ==
  /\ evaluated' = evaluated \union {r}
  /\ IF kind = "triggered" /\ r.net > 0
     THEN answer' = <<r>> /\ step' = "returned" /\ UNCHANGED <<next, best>>
     ELSE Keep(r) /\ next' = next + 1 /\ UNCHANGED <<answer, step>>

SkipRoute ==
  /\ next' = next + 1
  /\ UNCHANGED <<step, best, answer, evaluated>>

EvaluateRoute ==
  /\ step = "selling"
  /\ next <= Len(Routes)
  /\ LET r   == Routes[next]
         out == SellNow(r)
     IN  \/ ~Skipped(r) /\ SaneOutput(out) /\ Consider(Priced(r, out))
         \/ SkipRoute
  /\ UNCHANGED <<market, moves, kind, buys, seen>>

(* best_result, or "No valid cross-venue routes".                          *)
Return ==
  /\ step = "selling"
  /\ next = Len(Routes) + 1
  /\ answer' = best
  /\ step' = "returned"
  /\ UNCHANGED <<market, moves, kind, next, buys, best, evaluated, seen>>

Next ==
  \/ \E p \in Pools : Move(p)
  \/ QuoteAllBuys
  \/ QuoteOneBuy
  \/ EvaluateRoute
  \/ Return

Spec == Init /\ [][Next]_vars

-----------------------------------------------------------------------------
TypeOK ==
  /\ market \in States
  /\ moves \in 0..MaxMoves
  /\ kind \in {"triggered", "periodic"}
  /\ step \in {"buying", "selling", "returned"}
  /\ next \in 1..(Len(Routes) + 1)
  /\ buys \in [Pools -> Nat]
  /\ best \in Seq(Result) /\ Len(best) <= 1
  /\ answer \in Seq(Result) /\ Len(answer) <= 1
  /\ evaluated \subseteq Result
  /\ seen \subseteq States

(* What a scan reports is the best of what it has priced, a triggered scan *)
(* that stops at its first profit included: everything before that was at  *)
(* a loss (local_scanner.rs:213-235, 346-352).                             *)
ReportsBest ==
  answer # <<>> =>
    /\ answer[1] \in evaluated
    /\ \A r \in evaluated : r.net <= answer[1].net

(* An error answer means that no route was priced at all, not that none    *)
(* was profitable (local_scanner.rs:240, 356).                             *)
ErrorOnlyWithoutRoutes == step = "returned" /\ answer = <<>> => evaluated = {}

(* The round trip in one market state.                                     *)
RoundTrip(m, r) == SellQuote(r.sell, m[r.sell], BuyQuote(r.buy, m[r.buy]))

(* What a pool pays for an input, going by the mints it holds, and the     *)
(* round trip as the two pools would execute it.                           *)
Side(p, m, mint) == m.depth * (IF mint = Mints[p].first THEN m.first ELSE m.second)
Paid(p, m, input, output, amount) ==
  LET in == Side(p, m, input)
      out == Side(p, m, output)
  IN  CASE {input, output} # {Mints[p].first, Mints[p].second} -> 0
        [] Concentrated(p) -> ConcentratedOutput(in, out, amount)
        [] OTHER           -> Pays(p, in, out, input, amount)
PaidTokens(m, r) == Paid(r.buy, m[r.buy], WSOL, TokenMint, Trade)
PaidRoundTrip(m, r) == Paid(r.sell, m[r.sell], TokenMint, WSOL, PaidTokens(m, r))

(* The pool trades the token for SOL, with its vaults in the order that    *)
(* the quoter takes for granted (amm_quoter.rs:149-157, 248-252).          *)
AsQuoted(p) ==
  IF Concentrated(p)
  THEN {Mints[p].first, Mints[p].second} = {WSOL, TokenMint}
  ELSE Mints[p].first = TokenMint /\ Mints[p].second = WSOL /\ Mints[p].quote # TokenMint

(* Its legs are small for the concentrated pools they go through.          *)
SmallLegs(m, r) ==
  /\ Concentrated(r.buy) => SmallFor(Side(r.buy, m[r.buy], WSOL), Trade)
  /\ Concentrated(r.sell) => SmallFor(Side(r.sell, m[r.sell], TokenMint), PaidTokens(m, r))

(* A profit is covered by an output if it remains once the penalty, the    *)
(* trade, the fees and the tip are taken off, to a lamport of rounding.    *)
CoveredBy(net, out) ==
  LET gross == (out * (10000 - PenaltyBps)) \div 10000 + 1 - Trade
  IN  /\ net + FixedCosts + MinTip <= gross
      /\ 100 * (net + FixedCosts) <= (100 - TipPercent) * gross + 100

(* In a market that holds still a reported round trip is what the quotes   *)
(* of two pools on different DEXes give, and a reported profit is covered  *)
(* by what the pools would pay, provided that they trade the token for SOL *)
(* in the quoter's order and that no leg exceeds a 999th of a concentrated *)
(* pool.  A larger one is quoted more than the pool pays, since the quote  *)
(* does not depend on its size (cost_model.rs:41-90;                       *)
(* pool_decoder.rs:191-234; amm_quoter.rs:435-639).                        *)
QuietProfitIsReal ==
  answer # <<>> /\ Cardinality(seen) = 1 =>
    /\ PoolDexes[answer[1].buy] # PoolDexes[answer[1].sell]
    /\ answer[1].out = RoundTrip(market, answer[1])
    /\ /\ answer[1].net > 0 /\ SmallLegs(market, answer[1])
       /\ AsQuoted(answer[1].buy) /\ AsQuoted(answer[1].sell)
       => CoveredBy(answer[1].net, PaidRoundTrip(market, answer[1]))

(* "quotes the round-trip using on-chain reserves fetched in a single      *)
(* getMultipleAccounts call" (README.md:23): a profit a triggered scan     *)
(* reports exists in some market state that held during the scan.          *)
ProfitInOneSnapshot ==
  kind = "triggered" /\ answer # <<>> /\ answer[1].net > 0 =>
    \E m \in seen : NetProfit(Trade, RoundTrip(m, answer[1])) > 0
=============================================================================
