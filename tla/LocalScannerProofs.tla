------------------------- MODULE LocalScannerProofs -------------------------
(***************************************************************************)
(* Machine-checked facts about the arithmetic of AmmEconomics, for amounts *)
(* and reserves of any size: what a quoted swap leaves of a pool, when the *)
(* linear quote of a concentrated pool can be trusted, and what a positive *)
(* net profit means.  From them and an invariant of LocalScanner: a scan   *)
(* reports the best of what it priced, for any list of pools and any       *)
(* market, and in a market that holds still its profit is real.            *)
(***************************************************************************)
EXTENDS LocalScanner, TLAPS, FiniteSetTheorems

(* Rounding down.                                                          *)
LEMMA Floor ==
  ASSUME NEW a \in Int, NEW b \in Nat \ {0}
  PROVE  a \div b \in Int /\ b * (a \div b) <= a /\ a < b * (a \div b) + b
OBVIOUS

(* The quotient of two natural numbers is one.                            *)
LEMMA FloorNat ==
  ASSUME NEW a \in Nat, NEW b \in Nat \ {0}
  PROVE  a \div b \in Nat
OBVIOUS

(* A whole number whose product with b is at most a is at most a \div b.   *)
LEMMA AtMostFloor ==
  ASSUME NEW a \in Int, NEW b \in Nat \ {0}, NEW n \in Int, n * b <= a
  PROVE  n <= a \div b
<1>1. SUFFICES ASSUME a \div b + 1 <= n
               PROVE  FALSE
  BY Floor
<1>2. (a \div b + 1) * b <= n * b
  BY <1>1, Floor
<1>3. (a \div b + 1) * b = b * (a \div b) + b
  BY Floor
<1> QED
  BY <1>2, <1>3, Floor

(* So is their product.                                                    *)
LEMMA ProductNat ==
  ASSUME NEW a \in Nat, NEW b \in Nat
  PROVE  a * b \in Nat
OBVIOUS

(* A product grows with its factors, and shrinks with them.                *)
LEMMA ProductMonotone ==
  ASSUME NEW a \in Int, NEW c \in Int, NEW b \in Nat, a <= c
  PROVE  a * b <= c * b
OBVIOUS

(* A common positive factor may be cancelled.                              *)
LEMMA CancelFactor ==
  ASSUME NEW a \in Int, NEW c \in Int, NEW b \in Nat \ {0}, a * b <= c * b
  PROVE  a <= c
OBVIOUS

-----------------------------------------------------------------------------
(* A quote of a constant-product pool is below the reserve it is paid      *)
(* from, and the product of the reserves never shrinks: neither the fee    *)
(* nor the rounding is ever in favour of the trader, for any fee           *)
(* (pool_decoder.rs:385-397).                                              *)
THEOREM ProductNeverShrinks ==
  ASSUME NEW x \in Nat \ {0}, NEW y \in Nat \ {0}, NEW a \in Nat, NEW fee \in Nat, fee <= 10000
  PROVE  LET out == ConstantProductSwap(x, y, a, fee)
         IN  out \in 0..(y - 1) /\ (x + a) * (y - out) >= x * y
<1> DEFINE out  == ConstantProductSwap(x, y, a, fee)
           paid == a * (10000 - fee)
           all  == x * 10000 + paid
<1>1. CASE a = 0
  <2>1. out = 0
    BY <1>1 DEF ConstantProductSwap
  <2> QED
    BY <1>1, <2>1
<1>2. CASE a # 0
  <2>1. out = (paid * y) \div all
    BY <1>2 DEF ConstantProductSwap
  <2>2. paid \in Nat /\ paid <= a * 10000
    <3>1. 10000 - fee \in Nat /\ 10000 - fee <= 10000
      OBVIOUS
    <3>2. (10000 - fee) * a <= 10000 * a
      BY <3>1, ProductMonotone
    <3>3. a * (10000 - fee) = (10000 - fee) * a /\ a * 10000 = 10000 * a
      OBVIOUS
    <3> QED
      BY <3>1, <3>2, <3>3, ProductNat
  <2> HIDE DEF paid
  <2>3. all \in Nat \ {0} /\ paid * y \in Nat
    BY <2>2, ProductNat
  <2>4. out \in Nat /\ all * out <= paid * y
    <3> HIDE DEF all
    <3> QED
      BY <2>1, <2>3, Floor, FloorNat
  <2> HIDE DEF out
  <2>5. all * out = x * out * 10000 + paid * out
    BY <2>2, <2>4
  <2>6. x * out * 10000 <= paid * (y - out)
    BY <2>2, <2>4, <2>5
  <2>7. out < y
    <3>1. SUFFICES ASSUME y <= out PROVE FALSE
      BY <2>4
    <3>2. paid * y <= paid * out
      <4>1. y * paid <= out * paid
        BY <2>2, <2>4, <3>1, ProductMonotone
      <4> QED
        BY <2>2, <2>4, <4>1
    <3>3. x * out * 10000 <= 0
      BY <2>2, <2>4, <2>5, <3>2
    <3>4. x * out >= 1
      BY <2>4, <3>1
    <3> QED
      BY <2>4, <3>3, <3>4, ProductNat
  <2>8. x * out <= a * (y - out)
    <3>1. y - out \in Nat
      BY <2>4, <2>7
    <3>2. paid * (y - out) <= a * 10000 * (y - out)
      BY <2>2, <3>1, ProductMonotone
    <3>3. a * 10000 * (y - out) = a * (y - out) * 10000
      BY <3>1
    <3>4. x * out * 10000 <= a * (y - out) * 10000
      BY <2>2, <2>4, <2>6, <3>1, <3>2, <3>3
    <3> QED
      BY <2>4, <3>1, <3>4, CancelFactor
  <2>9. (x + a) * (y - out) = x * y - x * out + a * (y - out)
    BY <2>4
  <2>10. (x + a) * (y - out) >= x * y
    BY <2>4, <2>8, <2>9
  <2> QED
    BY <2>4, <2>7, <2>10 DEF out
<1> QED
  BY <1>1, <1>2

(* A concentrated pool of liquidity depth at the price pOut per pIn is, in *)
(* its range, a constant-product pool with the reserves depth * pIn and    *)
(* depth * pOut.  An input that is small for it is never quoted more than  *)
(* the pool pays, so the flat thousandth the code takes off covers the     *)
(* slippage of such an input, and of no larger one by itself               *)
(* (pool_decoder.rs:200-234).                                              *)
THEOREM SmallQuoteIsSafe ==
  ASSUME NEW pIn \in Nat \ {0}, NEW pOut \in Nat, NEW depth \in Nat \ {0},
         NEW a \in Nat, SmallFor(depth * pIn, a)
  PROVE  ConcentratedQuote(pIn, pOut, depth, a)
           <= ConcentratedOutput(depth * pIn, depth * pOut, a)
<1> USE CostAssumption
<1> DEFINE x == a * Kept
           r == depth * pIn * KeptOf
           q == ConcentratedQuote(pIn, pOut, depth, a)
<1>1. x \in Nat
  BY ProductNat
<1>2. r \in Nat \ {0}
  <2>1. depth * pIn \in Nat \ {0}
    OBVIOUS
  <2> QED
    BY <2>1
<1>3. x * (depth * pOut) \in Nat /\ r + x \in Nat \ {0}
  BY <1>1, <1>2, ProductNat
<1>4. ConcentratedOutput(depth * pIn, depth * pOut, a) = (x * (depth * pOut)) \div (r + x)
  BY DEF ConcentratedOutput
<1>5. CASE pOut = 0 \/ a = 0
  <2>1. q = 0
    BY <1>5 DEF ConcentratedQuote
  <2> QED
    BY <1>3, <1>4, <2>1, FloorNat
<1>6. CASE pOut # 0 /\ a # 0
  <2> DEFINE den == KeptOf * 1000 * pIn
             num == x * 999 * pOut
  <2>1. q = num \div den
    BY <1>6 DEF ConcentratedQuote
  <2>2. num \in Nat /\ den \in Nat \ {0}
    <3>1. x * 999 \in Nat
      BY <1>1
    <3>2. KeptOf * 1000 \in Nat \ {0}
      OBVIOUS
    <3> QED
      BY <3>1, <3>2, ProductNat
  <2>3. q \in Nat /\ den * q <= num
    <3> HIDE DEF num, den
    <3> QED
      BY <2>1, <2>2, Floor, FloorNat
  <2> HIDE DEF q
  <2>4. 999 * x <= r
    BY DEF SmallFor
  <2>5. 999 * (r + x) <= 1000 * r
    BY <1>1, <1>2, <2>4
  <2>6. q * (r + x) * 999 <= q * r * 1000
    <3>1. 999 * (r + x) * q <= 1000 * r * q
      BY <1>1, <1>2, <2>3, <2>5, ProductMonotone
    <3> HIDE DEF r, x
    <3> QED
      BY <1>1, <1>2, <2>3, <3>1
  <2>7. q * r * 1000 = den * q * depth
    BY <2>3
  <2>8. den * q * depth <= num * depth
    <3>1. den * q \in Nat
      BY <2>2, <2>3, ProductNat
    <3> HIDE DEF den, num
    <3> QED
      BY <2>2, <2>3, <3>1, ProductMonotone
  <2>9. num * depth = x * (depth * pOut) * 999
    <3> HIDE DEF x
    <3> QED
      BY <1>1
  <2>10. q * (r + x) * 999 <= x * (depth * pOut) * 999
    <3> HIDE DEF x, r, num, den
    <3>1. /\ q * (r + x) * 999 \in Int /\ q * r * 1000 \in Int
          /\ num * depth \in Int /\ x * (depth * pOut) * 999 \in Int
      BY <1>1, <1>2, <2>2, <2>3
    <3> QED
      BY <2>6, <2>7, <2>8, <2>9, <3>1
  <2>11. q * (r + x) <= x * (depth * pOut)
    <3>1. q * (r + x) \in Nat
      BY <1>3, <2>3, ProductNat
    <3> QED
      BY <1>3, <2>10, <3>1, CancelFactor
  <2>12. q <= (x * (depth * pOut)) \div (r + x)
    <3> HIDE DEF x, r
    <3> QED
      BY <1>3, <2>3, <2>11, AtMostFloor
  <2> QED
    BY <1>4, <2>12 DEF q
<1> QED
  BY <1>5, <1>6

-----------------------------------------------------------------------------
(* The execution penalty is a part of the output.                         *)
LEMMA SlippageBounds ==
  ASSUME NEW raw \in Nat
  PROVE  SlippageLamports(raw) \in Nat /\ SlippageLamports(raw) <= raw
<1> DEFINE part == raw * PenaltyBps
<1>1. part \in Nat /\ part <= raw * 10000
  <2>1. PenaltyBps \in Nat /\ PenaltyBps <= 10000
    BY CostAssumption
  <2>2. PenaltyBps * raw <= 10000 * raw
    BY <2>1, ProductMonotone
  <2> QED
    BY <2>1, <2>2, ProductNat
<1>2. SlippageLamports(raw) = part \div 10000
  BY DEF SlippageLamports
<1> HIDE DEF part
<1> QED
  BY <1>1, <1>2

(* What is left of an output after the execution penalty grows with it.    *)
LEMMA AfterSlippageMonotone ==
  ASSUME NEW raw \in Nat, NEW more \in Nat, raw <= more
  PROVE  raw - SlippageLamports(raw) <= more - SlippageLamports(more)
<1> DEFINE a == raw * PenaltyBps
           b == more * PenaltyBps
           d == more - raw
<1>1. PenaltyBps \in Nat /\ PenaltyBps <= 10000
  BY CostAssumption
<1>2. a \in Nat /\ b \in Nat /\ d \in Nat
  BY <1>1, ProductNat
<1>3. b <= a + d * 10000
  <2>1. b = a + d * PenaltyBps
    BY <1>1
  <2>2. PenaltyBps * d <= 10000 * d
    <3> HIDE DEF d
    <3> QED
      BY <1>1, <1>2, ProductMonotone
  <2> HIDE DEF d, a, b
  <2> QED
    BY <1>1, <1>2, <2>1, <2>2
<1>4. SlippageLamports(raw) = a \div 10000 /\ SlippageLamports(more) = b \div 10000
  BY DEF SlippageLamports
<1>5. more = raw + d
  OBVIOUS
<1> HIDE DEF a, b, d
<1>6. b \div 10000 <= a \div 10000 + d
  BY <1>2, <1>3
<1>7. a \div 10000 \in Nat /\ b \div 10000 \in Nat
  BY <1>2
<1> QED
  BY <1>2, <1>4, <1>5, <1>6, <1>7

(* The tip is the minimum or a part of a positive gross profit.            *)
LEMMA TipBounds ==
  ASSUME NEW gross \in Int
  PROVE  /\ JitoTip(gross) \in Nat /\ JitoTip(gross) >= MinTip
         /\ JitoTip(gross) = MinTip \/ (gross > 0 /\ JitoTip(gross) <= gross)
<1> USE CostAssumption
<1>1. CASE gross <= 0
  BY <1>1 DEF JitoTip
<1>2. CASE gross > 0
  <2>1. gross * TipPercent \in Nat /\ gross * TipPercent <= gross * 100
    <3>1. TipPercent * gross <= 100 * gross
      BY <1>2, ProductMonotone
    <3> QED
      BY <1>2, <3>1, ProductNat
  <2>2. (gross * TipPercent) \div 100 \in Nat
        /\ (gross * TipPercent) \div 100 <= gross
    <3> DEFINE share == gross * TipPercent
    <3>1. share \in Nat /\ share <= gross * 100
      BY <2>1
    <3> HIDE DEF share
    <3>2. share \div 100 \in Nat /\ share \div 100 <= gross
      BY <3>1
    <3> QED
      BY <3>2 DEF share
  <2> QED
    BY <1>2, <2>2 DEF JitoTip
<1> QED
  BY <1>1, <1>2

(* What the tip leaves of a gross profit grows with it, across the change  *)
(* from the minimum tip to a share of the profit.                          *)
LEMMA AfterTipMonotone ==
  ASSUME NEW g \in Int, NEW h \in Int, g <= h
  PROVE  g - JitoTip(g) <= h - JitoTip(h)
<1> USE CostAssumption
<1>1. CASE g <= 0
  <2>1. JitoTip(g) = MinTip
    BY <1>1 DEF JitoTip
  <2> QED
    BY <1>1, <2>1, TipBounds
<1>2. CASE g > 0
  <2> DEFINE s == g * TipPercent
             t == h * TipPercent
             d == h - g
  <2>1. s \in Nat /\ t \in Nat /\ d \in Nat
    BY <1>2, ProductNat
  <2>2. t <= s + d * 100 /\ s <= t
    <3>1. t = s + d * TipPercent
      OBVIOUS
    <3>2. TipPercent * d <= 100 * d
      BY <2>1, ProductMonotone
    <3>3. d * TipPercent \in Nat
      BY <2>1, ProductNat
    <3> QED
      BY <2>1, <3>1, <3>2, <3>3
  <2>3. /\ JitoTip(g) = IF s \div 100 > MinTip THEN s \div 100 ELSE MinTip
        /\ JitoTip(h) = IF t \div 100 > MinTip THEN t \div 100 ELSE MinTip
    BY <1>2 DEF JitoTip
  <2> HIDE DEF s, t
  <2>4. t \div 100 <= s \div 100 + d /\ s \div 100 \in Nat /\ t \div 100 \in Nat
    BY <2>1, <2>2
  <2> QED
    BY <2>1, <2>3, <2>4
<1> QED
  BY <1>1, <1>2

(* The order of two outputs for one input is the order of their net        *)
(* profits: the route of the largest output is a route of the largest      *)
(* profit, whatever tip and penalty are configured (cost_model.rs:41-90).  *)
THEOREM MoreOutputNeverEarnsLess ==
  ASSUME NEW input \in Nat, NEW raw \in Nat, NEW more \in Nat, raw <= more
  PROVE  NetProfit(input, raw) <= NetProfit(input, more)
<1> DEFINE g == GrossProfit(input, raw)
           h == GrossProfit(input, more)
<1>1. g \in Int /\ h \in Int /\ g <= h
  BY SlippageBounds, AfterSlippageMonotone DEF GrossProfit
<1>2. /\ NetProfit(input, raw) = g - FixedCosts - JitoTip(g)
      /\ NetProfit(input, more) = h - FixedCosts - JitoTip(h)
  BY DEF NetProfit
<1> HIDE DEF g, h
<1> QED
  BY <1>1, <1>2, AfterTipMonotone, TipBounds, CostAssumption

(* A route is reported only if what comes back exceeds what goes in by     *)
(* more than the fees and the minimum tip together, after the execution    *)
(* penalty: no rounding and no switch of the tip's formula lets a loss     *)
(* pass as a profit (cost_model.rs:41-90).                                 *)
THEOREM ProfitCoversCosts ==
  ASSUME NEW input \in Nat, NEW raw \in Nat, NetProfit(input, raw) > 0
  PROVE  raw - SlippageLamports(raw) > input + FixedCosts + MinTip
<1>1. GrossProfit(input, raw) \in Int
  BY SlippageBounds DEF GrossProfit
<1> QED
  BY <1>1, SlippageBounds, TipBounds, CostAssumption DEF NetProfit, GrossProfit
-----------------------------------------------------------------------------
(* Every quote of a scan is a natural number and grows with the amount.    *)
LEMMA PercentMonotone ==
  ASSUME NEW a \in Nat, NEW b \in Nat, a <= b
  PROVE  LessOnePercent(a) \in Nat /\ LessOnePercent(a) <= LessOnePercent(b)
BY DEF LessOnePercent

(* A constant-product quote is a natural number.                           *)
LEMMA SwapNat ==
  ASSUME NEW x \in Nat, NEW y \in Nat, NEW a \in Nat, NEW fee \in Nat, fee <= 10000
  PROVE  ConstantProductSwap(x, y, a, fee) \in Nat
<1>1. CASE x = 0 \/ y = 0
  BY <1>1 DEF ConstantProductSwap
<1>2. CASE x # 0 /\ y # 0
  <2>1. ConstantProductSwap(x, y, a, fee) \in 0..(y - 1)
    BY <1>2, ProductNeverShrinks
  <2> QED
    BY <2>1
<1> QED
  BY <1>1, <1>2

(* It grows with the input.                                                *)
LEMMA SwapMonotone ==
  ASSUME NEW x \in Nat, NEW y \in Nat, NEW a \in Nat, NEW b \in Nat, a <= b,
         NEW fee \in Nat, fee <= 10000
  PROVE  ConstantProductSwap(x, y, a, fee) <= ConstantProductSwap(x, y, b, fee)
<1> DEFINE u == a * (10000 - fee)
           v == b * (10000 - fee)
           all == x * 10000
           n == ConstantProductSwap(x, y, a, fee)
<1>1. CASE x = 0 \/ y = 0 \/ a = 0
  <2>1. n = 0
    BY <1>1 DEF ConstantProductSwap
  <2> HIDE DEF n
  <2>2. ConstantProductSwap(x, y, b, fee) \in Nat
    BY SwapNat
  <2> QED
    BY <2>1, <2>2 DEF n
<1>2. CASE x # 0 /\ y # 0 /\ a # 0
  <2>1. n = (u * y) \div (all + u)
    BY <1>2 DEF ConstantProductSwap
  <2>2. ConstantProductSwap(x, y, b, fee) = (v * y) \div (all + v)
    BY <1>2 DEF ConstantProductSwap
  <2>3. u \in Nat /\ v \in Nat /\ u <= v /\ all \in Nat \ {0}
    <3> DEFINE rest == 10000 - fee
    <3>1. rest \in Nat
      OBVIOUS
    <3> HIDE DEF rest
    <3>2. a * rest \in Nat /\ b * rest \in Nat /\ a * rest <= b * rest
      BY <3>1, ProductNat, ProductMonotone
    <3> QED
      BY <1>2, <3>2 DEF rest
  <2>4. n \in 0..(y - 1)
    BY <1>2, ProductNeverShrinks
  <2> HIDE DEF u, v, all, n
  <2>5. n \in Nat /\ y - n \in Nat
    BY <2>4
  <2>6. u * y \in Nat /\ v * y \in Nat
    BY <2>3, ProductNat
  <2>7. (all + u) * n <= u * y
    <3>1. all + u \in Nat \ {0}
      BY <2>3
    <3> QED
      BY <2>1, <2>6, <3>1, Floor
  <2>8. all * n <= u * (y - n)
    BY <2>3, <2>5, <2>7
  <2>9. u * (y - n) <= v * (y - n)
    BY <2>3, <2>5, ProductMonotone
  <2>10. n * (all + v) <= v * y
    BY <2>3, <2>5, <2>8, <2>9
  <2>11. n <= (v * y) \div (all + v)
    <3>1. all + v \in Nat \ {0}
      BY <2>3
    <3> QED
      BY <2>5, <2>6, <2>10, <3>1, AtMostFloor
  <2> QED
    BY <2>2, <2>11 DEF n
<1> QED
  BY <1>1, <1>2

(* The linear quote of a concentrated pool grows with the input.           *)
LEMMA ConcentratedMonotone ==
  ASSUME NEW pIn \in Nat \ {0}, NEW pOut \in Nat, NEW depth \in Nat,
         NEW a \in Nat, NEW b \in Nat, a <= b
  PROVE  /\ ConcentratedQuote(pIn, pOut, depth, a) \in Nat
         /\ ConcentratedQuote(pIn, pOut, depth, a) <= ConcentratedQuote(pIn, pOut, depth, b)
<1> DEFINE den == KeptOf * 1000 * pIn
           c == Kept * 999 * pOut
           q == ConcentratedQuote(pIn, pOut, depth, a)
<1>1. c \in Nat /\ den \in Nat \ {0}
  <2>1. Kept * 999 \in Nat /\ KeptOf * 1000 \in Nat \ {0}
    BY CostAssumption
  <2> QED
    BY <2>1, ProductNat
<1>2. a * Kept * 999 * pOut = a * c /\ b * Kept * 999 * pOut = b * c
  BY CostAssumption
<1>3. /\ q = IF pOut = 0 \/ depth = 0 \/ a = 0 THEN 0 ELSE (a * c) \div den
      /\ ConcentratedQuote(pIn, pOut, depth, b)
           = IF pOut = 0 \/ depth = 0 \/ b = 0 THEN 0 ELSE (b * c) \div den
  BY <1>2 DEF ConcentratedQuote
<1> HIDE DEF den, c, q
<1>4. a * c \in Nat /\ b * c \in Nat /\ a * c <= b * c
  BY <1>1, ProductNat, ProductMonotone
<1>5. (a * c) \div den \in Nat /\ (b * c) \div den \in Nat
  BY <1>1, <1>4, FloorNat
<1>6. (a * c) \div den <= (b * c) \div den
  <2> DEFINE n == (a * c) \div den
  <2>1. den * n <= a * c /\ n \in Nat
    BY <1>1, <1>4, <1>5, Floor
  <2> HIDE DEF n
  <2>2. n * den <= b * c
    BY <1>1, <1>4, <2>1
  <2>3. n <= (b * c) \div den
    BY <1>1, <1>4, <2>1, <2>2, AtMostFloor
  <2> QED
    BY <2>3 DEF n
<1> QED
  BY <1>3, <1>5, <1>6 DEF q

(* The outputs of every kind of pool are natural numbers.                  *)
LEMMA OutputsNat ==
  ASSUME NEW x \in Nat, NEW y \in Nat, NEW a \in Nat
  PROVE  /\ PoolSwapOutput(x, y, a) \in Nat
         /\ PumpFunBuyOutput(x, y, a) \in Nat
         /\ PumpFunSellOutput(x, y, a) \in Nat
<1>1. PoolSwapOutput(x, y, a) \in Nat
  BY SwapNat DEF PoolSwapOutput
<1>2. LessOnePercent(a) \in Nat
  BY PercentMonotone
<1>3. PumpFunBuyOutput(x, y, a) \in Nat
  <2> DEFINE l == LessOnePercent(a)
  <2>1. l \in Nat
    BY <1>2
  <2> HIDE DEF l
  <2>2. ConstantProductSwap(x, y, l, 0) \in Nat
    BY <2>1, SwapNat
  <2> QED
    BY <2>2 DEF PumpFunBuyOutput, l
<1>4. ConstantProductSwap(y, x, a, 0) \in Nat
  BY SwapNat
<1>5. PumpFunSellOutput(x, y, a) \in Nat
  BY <1>4, PercentMonotone DEF PumpFunSellOutput
<1> QED
  BY <1>1, <1>3, <1>5

(* Selling more is never paid less.                                        *)
LEMMA OutputsMonotone ==
  ASSUME NEW x \in Nat, NEW y \in Nat, NEW a \in Nat, NEW b \in Nat, a <= b
  PROVE  /\ PoolSwapOutput(x, y, a) <= PoolSwapOutput(x, y, b)
         /\ PumpFunSellOutput(x, y, a) <= PumpFunSellOutput(x, y, b)
<1>1. PoolSwapOutput(x, y, a) <= PoolSwapOutput(x, y, b)
  BY SwapMonotone DEF PoolSwapOutput
<1>2. /\ ConstantProductSwap(y, x, a, 0) \in Nat /\ ConstantProductSwap(y, x, b, 0) \in Nat
      /\ ConstantProductSwap(y, x, a, 0) <= ConstantProductSwap(y, x, b, 0)
  BY SwapNat, SwapMonotone
<1>3. PumpFunSellOutput(x, y, a) <= PumpFunSellOutput(x, y, b)
  BY <1>2, PercentMonotone DEF PumpFunSellOutput
<1> QED
  BY <1>1, <1>3

-----------------------------------------------------------------------------
(* The price of a pool in one of its states, from either side.             *)
LEMMA StateFacts ==
  ASSUME NEW p \in Pools, NEW m \in StatesOf(p), NEW input
  PROVE  /\ m.first \in Nat \ {0} /\ m.second \in Nat \ {0} /\ m.depth \in Nat
         /\ PriceIn(p, m, input) \in Nat \ {0} /\ PriceOut(p, m, input) \in Nat \ {0}
         /\ m.depth * PriceIn(p, m, input) \in Nat /\ m.depth * PriceOut(p, m, input) \in Nat
<1>1. m \in [first : Nat \ {0}, second : Nat \ {0}, depth : Nat, complete : BOOLEAN]
  BY ScannerAssumption DEF Pools, StatesOf
<1>2. m.first \in Nat \ {0} /\ m.second \in Nat \ {0} /\ m.depth \in Nat
  BY <1>1
<1>3. PriceIn(p, m, input) \in Nat \ {0} /\ PriceOut(p, m, input) \in Nat \ {0}
  BY <1>2 DEF PriceIn, PriceOut
<1> QED
  BY <1>2, <1>3, ProductNat

(* What the vaults of a pool or a curve pay.                               *)
LEMMA PaysNat ==
  ASSUME NEW p, NEW in \in Nat, NEW out \in Nat, NEW input, NEW a \in Nat
  PROVE  Pays(p, in, out, input, a) \in Nat
<1>1. /\ PoolSwapOutput(in, out, a) \in Nat
      /\ PumpFunBuyOutput(in, out, a) \in Nat
      /\ PumpFunSellOutput(out, in, a) \in Nat
  BY OutputsNat
<1> QED
  BY <1>1 DEF Pays

(* They pay no less for more tokens.                                       *)
LEMMA PaysMonotone ==
  ASSUME NEW p, NEW in \in Nat, NEW out \in Nat, NEW a \in Nat, NEW b \in Nat, a <= b
  PROVE  Pays(p, in, out, TokenMint, a) <= Pays(p, in, out, TokenMint, b)
<1>1. /\ PoolSwapOutput(in, out, a) <= PoolSwapOutput(in, out, b)
      /\ PumpFunSellOutput(out, in, a) <= PumpFunSellOutput(out, in, b)
  BY OutputsMonotone
<1> QED
  BY <1>1 DEF Pays, TokenMint, WSOL

(* Quotes are natural numbers.                                             *)
LEMMA QuoteNat ==
  ASSUME NEW p \in Pools, NEW m \in StatesOf(p), NEW input, NEW a \in Nat
  PROVE  Quote(p, m, input, a) \in Nat
<1> DEFINE in == PriceIn(p, m, input)
           out == PriceOut(p, m, input)
<1>1. /\ in \in Nat \ {0} /\ out \in Nat /\ m.depth \in Nat
      /\ m.depth * in \in Nat /\ m.depth * out \in Nat
  BY StateFacts
<1>2. Quote(p, m, input, a) =
        IF PoolDexes[p] = "PumpFun" /\ m.complete THEN NoQuote
        ELSE IF Concentrated(p) THEN ConcentratedQuote(in, out, m.depth, a)
        ELSE Pays(p, m.depth * in, m.depth * out, input, a)
  BY DEF Quote, Concentrated
<1> HIDE DEF in, out
<1>3. ConcentratedQuote(in, out, m.depth, a) \in Nat
  <2>1. a <= a
    OBVIOUS
  <2> QED
    BY <1>1, <2>1, ConcentratedMonotone
<1>4. Pays(p, m.depth * in, m.depth * out, input, a) \in Nat
  BY <1>1, PaysNat
<1> QED
  BY <1>2, <1>3, <1>4 DEF NoQuote

(* So are those of a scan.                                                 *)
LEMMA QuotesNat ==
  ASSUME NEW p \in Pools, NEW m \in StatesOf(p), NEW a \in Nat
  PROVE  BuyQuote(p, m) \in Nat /\ SellQuote(p, m, a) \in Nat
<1>1. Trade \in Nat
  BY ScannerAssumption
<1> QED
  BY <1>1, QuoteNat DEF BuyQuote, SellQuote

(* More tokens are never quoted less.                                      *)
LEMMA SellMonotone ==
  ASSUME NEW p \in Pools, NEW m \in StatesOf(p), NEW a \in Nat, NEW b \in Nat, a <= b
  PROVE  SellQuote(p, m, a) <= SellQuote(p, m, b)
<1> DEFINE in == PriceIn(p, m, TokenMint)
           out == PriceOut(p, m, TokenMint)
<1>1. /\ in \in Nat \ {0} /\ out \in Nat /\ m.depth \in Nat
      /\ m.depth * in \in Nat /\ m.depth * out \in Nat
  BY StateFacts
<1>2. \A n \in {a, b} : SellQuote(p, m, n) =
        IF PoolDexes[p] = "PumpFun" /\ m.complete THEN NoQuote
        ELSE IF Concentrated(p) THEN ConcentratedQuote(in, out, m.depth, n)
        ELSE Pays(p, m.depth * in, m.depth * out, TokenMint, n)
  BY DEF SellQuote, Quote, Concentrated
<1> HIDE DEF in, out
<1>3. ConcentratedQuote(in, out, m.depth, a) <= ConcentratedQuote(in, out, m.depth, b)
  BY <1>1, ConcentratedMonotone
<1>4. Pays(p, m.depth * in, m.depth * out, TokenMint, a)
        <= Pays(p, m.depth * in, m.depth * out, TokenMint, b)
  BY <1>1, PaysMonotone
<1> QED
  BY <1>2, <1>3, <1>4 DEF NoQuote

(* A profit and a loss are whole numbers.                                  *)
LEMMA NetIsInt ==
  ASSUME NEW out \in Nat
  PROVE  NetProfit(Trade, out) \in Int
<1>1. GrossProfit(Trade, out) \in Int
  BY ScannerAssumption, SlippageBounds DEF GrossProfit
<1> QED
  BY <1>1, TipBounds, CostAssumption DEF NetProfit

(* The loops visit pairs of pools of the list only.                        *)
LEMMA RoutesOK ==
  /\ Len(PoolDexes) \in Nat /\ Pools = 1..Len(PoolDexes)
  /\ Len(Routes) \in Nat /\ Len(PoolDexes) <= Len(Routes)
  /\ \A k \in 1..Len(Routes) : Routes[k].buy \in Pools /\ Routes[k].sell \in Pools
<1> DEFINE n == Len(PoolDexes)
<1>1. n \in Nat /\ Pools = 1..n
  BY ScannerAssumption DEF Pools
<1> HIDE DEF n
<1>2. n * n \in Nat
  BY <1>1, ProductNat
<1>3. Routes = [k \in 1..(n * n) |-> [buy |-> ((k - 1) \div n) + 1, sell |-> ((k - 1) % n) + 1]]
  BY DEF Routes, n
<1>4. Len(Routes) = n * n
  <2> DEFINE last == n * n
  <2>1. last \in Nat /\ Routes = [k \in 1..last |-> Routes[k]]
    BY <1>2, <1>3
  <2> HIDE DEF last
  <2>2. Len(Routes) = last
    BY <2>1
  <2> QED
    BY <2>2 DEF last
<1>5. ASSUME NEW k \in 1..(n * n)
      PROVE  Routes[k].buy \in Pools /\ Routes[k].sell \in Pools
  <2>1. Routes[k].buy = ((k - 1) \div n) + 1 /\ Routes[k].sell = ((k - 1) % n) + 1
    BY <1>3
  <2>2. n \in Nat \ {0} /\ k - 1 \in Nat /\ k - 1 < n * n
    BY <1>1, <1>2
  <2>3. (k - 1) \div n \in Nat /\ n * ((k - 1) \div n) <= k - 1
    BY <2>2, Floor, FloorNat
  <2>4. (k - 1) \div n < n
    <3> DEFINE d == (k - 1) \div n
    <3>1. SUFFICES ASSUME n <= d PROVE FALSE
      BY <2>2, <2>3
    <3> HIDE DEF d
    <3>2. n * n <= d * n
      BY <2>2, <2>3, <3>1, ProductMonotone DEF d
    <3>3. n * d <= k - 1 /\ d \in Nat
      BY <2>3 DEF d
    <3> QED
      BY <1>2, <2>2, <3>2, <3>3
  <2>5. (k - 1) % n \in 0..(n - 1)
    BY <2>2
  <2> QED
    BY <1>1, <2>1, <2>2, <2>3, <2>4, <2>5
<1>6. n <= n * n
  <2>1. CASE n = 0
    BY <1>1, <1>2, <2>1
  <2>2. CASE n >= 1
    <3>1. 1 * n <= n * n
      BY <1>1, <2>2, ProductMonotone
    <3> QED
      BY <1>1, <1>2, <3>1
  <2> QED
    BY <1>1, <2>1, <2>2
<1> QED
  BY <1>1, <1>2, <1>4, <1>5, <1>6 DEF n
-----------------------------------------------------------------------------
(* Type correctness.  A scan that quotes its buys is at a pool of the list.*)
AtPool == step = "buying" => next \in Pools
TypeInv == TypeOK /\ AtPool

(* A scan starts well typed.                                               *)
LEMMA InitTypeInv == Init => TypeInv
<1> SUFFICES ASSUME Init PROVE TypeInv
  OBVIOUS
<1>1. buys \in [Pools -> Nat]
  BY DEF Init, NoQuote
<1>2. next \in 1..(Len(Routes) + 1) /\ moves \in 0..MaxMoves
  BY RoutesOK, ScannerAssumption DEF Init
<1>3. best \in Seq(Result) /\ Len(best) <= 1 /\ answer \in Seq(Result) /\ Len(answer) <= 1
  BY DEF Init
<1>4. AtPool
  BY RoutesOK DEF Init, AtPool
<1> QED
  BY <1>1, <1>2, <1>3, <1>4 DEF Init, TypeInv, TypeOK

(* The state of one pool changes; the others keep theirs.                  *)
LEMMA MoveTypeOK ==
  ASSUME TypeOK, NEW p \in Pools, Move(p)
  PROVE  TypeOK' /\ market' # market /\ seen' = seen \union {market'}
<1>1. PICK m \in StatesOf(p) \ {market[p]} : market' = [market EXCEPT ![p] = m]
  BY DEF Move
<1>2. market \in States /\ DOMAIN market = Pools
  BY DEF TypeOK, States
<1>3. market' \in States
  BY <1>1, <1>2 DEF States
<1>4. market'[p] # market[p]
  BY <1>1, <1>2
<1>5. moves' \in 0..MaxMoves
  BY ScannerAssumption DEF Move, TypeOK
<1> QED
  BY <1>3, <1>4, <1>5 DEF Move, TypeOK

(* What the scan evaluates next, if anything.                              *)
LEMMA PricedRoute ==
  ASSUME TypeOK, step = "selling", next <= Len(Routes),
         ~Skipped(Routes[next]), SaneOutput(SellNow(Routes[next]))
  PROVE  LET r == Priced(Routes[next], SellNow(Routes[next]))
         IN  /\ r \in Result
             /\ PoolDexes[r.buy] # PoolDexes[r.sell]
             /\ r.tokens = buys[r.buy] /\ r.tokens # NoQuote
             /\ r.out = SellQuote(r.sell, market[r.sell], r.tokens) /\ r.out > 0
             /\ r.net = NetProfit(Trade, r.out)
<1> DEFINE route == Routes[next]
           out == SellNow(route)
           r == Priced(route, out)
<1>1. route.buy \in Pools /\ route.sell \in Pools
  BY RoutesOK DEF TypeOK
<1> HIDE DEF route
<1>2. buys[route.buy] \in Nat /\ market[route.sell] \in StatesOf(route.sell)
  BY <1>1 DEF TypeOK, States
<1>3. out \in Nat
  BY <1>1, <1>2, QuotesNat DEF SellNow
<1>4. PoolDexes[route.buy] # PoolDexes[route.sell] /\ buys[route.buy] # NoQuote /\ out > 0
  BY DEF Skipped, CrossVenue, SaneOutput, route
<1>5. NetProfit(Trade, out) \in Int
  BY <1>3, NetIsInt
<1>6. r = [buy |-> route.buy, sell |-> route.sell, tokens |-> buys[route.buy], out |-> out,
           net |-> NetProfit(Trade, out)]
  BY DEF Priced
<1>7. out = SellQuote(route.sell, market[route.sell], buys[route.buy])
  BY DEF SellNow
<1> HIDE DEF out, r
<1>8. r \in Result
  BY <1>1, <1>2, <1>3, <1>5, <1>6 DEF Result
<1> QED
  BY <1>4, <1>6, <1>7, <1>8 DEF route, out, r

(* The outcome of a step that evaluates a route.                           *)
Considered(r) ==
  /\ evaluated' = evaluated \union {r}
  /\ \/ /\ kind = "triggered" /\ r.net > 0
        /\ answer' = <<r>> /\ step' = "returned" /\ UNCHANGED <<next, best>>
     \/ /\ ~(kind = "triggered" /\ r.net > 0)
        /\ best' = IF Better(r, best) THEN <<r>> ELSE best
        /\ next' = next + 1 /\ UNCHANGED <<answer, step>>
Fresh(r) ==
  /\ r \in Result /\ PoolDexes[r.buy] # PoolDexes[r.sell]
  /\ r.tokens = buys[r.buy] /\ r.tokens # NoQuote
  /\ r.out = SellQuote(r.sell, market[r.sell], r.tokens) /\ r.out > 0
  /\ r.net = NetProfit(Trade, r.out)

(* A route is skipped, or a new result is considered.                      *)
LEMMA EvaluateCases ==
  ASSUME TypeOK, EvaluateRoute
  PROVE  /\ step = "selling" /\ next <= Len(Routes)
         /\ UNCHANGED <<market, moves, kind, buys, seen>>
         /\ \/ SkipRoute
            \/ \E r \in Result : Fresh(r) /\ Considered(r)
<1>1. /\ step = "selling" /\ next <= Len(Routes)
      /\ UNCHANGED <<market, moves, kind, buys, seen>>
  BY DEF EvaluateRoute
<1> DEFINE route == Routes[next]
           out == SellNow(route)
<1>2. CASE ~Skipped(route) /\ SaneOutput(out) /\ Consider(Priced(route, out))
  <2> DEFINE r == Priced(route, out)
  <2>1. r \in Result /\ Fresh(r)
    BY <1>1, <1>2, PricedRoute DEF Fresh
  <2> HIDE DEF r
  <2>2. Considered(r)
    BY <1>2 DEF Consider, Keep, Considered, r
  <2> QED
    BY <1>1, <2>1, <2>2
<1> QED
  BY <1>1, <1>2 DEF EvaluateRoute

(* Considering a result keeps the types.                                   *)
LEMMA ConsideredTypeOK ==
  ASSUME TypeOK, step = "selling", next <= Len(Routes),
         UNCHANGED <<market, moves, kind, buys, seen>>,
         NEW r \in Result, Considered(r)
  PROVE  TypeOK'
<1>1. /\ <<r>> \in Seq(Result) /\ Len(<<r>>) = 1 /\ evaluated' \subseteq Result
      /\ Len(Routes) \in Nat
  BY RoutesOK DEF TypeOK, Considered
<1>2. CASE answer' = <<r>> /\ step' = "returned" /\ UNCHANGED <<next, best>>
  BY <1>1, <1>2 DEF TypeOK
<1>3. CASE /\ best' = IF Better(r, best) THEN <<r>> ELSE best
           /\ next' = next + 1 /\ UNCHANGED <<answer, step>>
  <2>1. next' \in 1..(Len(Routes) + 1)
    BY <1>1, <1>3 DEF TypeOK
  <2>2. best' \in Seq(Result) /\ Len(best') <= 1
    BY <1>1, <1>3 DEF TypeOK
  <2> QED
    BY <1>1, <1>3, <2>1, <2>2 DEF TypeOK
<1> QED
  BY <1>2, <1>3 DEF Considered

(* Every step keeps the types.                                             *)
LEMMA NextTypeInv == TypeInv /\ [Next]_vars => TypeInv'
<1> SUFFICES ASSUME TypeInv, [Next]_vars PROVE TypeInv'
  OBVIOUS
<1>0. /\ Len(PoolDexes) \in Nat /\ Pools = 1..Len(PoolDexes)
      /\ Len(Routes) \in Nat /\ Len(PoolDexes) <= Len(Routes)
      /\ TypeOK /\ AtPool
  BY RoutesOK DEF TypeInv
<1>1. ASSUME NEW p \in Pools, Move(p) PROVE TypeInv'
  BY <1>0, <1>1, MoveTypeOK DEF Move, TypeInv, AtPool
<1>2. CASE QuoteAllBuys
  <2>1. buys' \in [Pools -> Nat]
    <3>1. PICK found \in SUBSET Pools :
            buys' = [p \in Pools |-> IF p \in found THEN BuyQuote(p, market[p]) ELSE NoQuote]
      BY <1>2 DEF QuoteAllBuys
    <3>2. \A p \in Pools : BuyQuote(p, market[p]) \in Nat
      BY <1>0, QuotesNat DEF TypeOK, States
    <3> QED
      BY <3>1, <3>2 DEF NoQuote
  <2>2. next' \in 1..(Len(Routes) + 1)
    BY <1>0, <1>2 DEF QuoteAllBuys
  <2> QED
    BY <1>2, <2>1, <2>2 DEF QuoteAllBuys, TypeInv, TypeOK, AtPool
<1>3. CASE QuoteOneBuy
  <2>1. buys' \in [Pools -> Nat]
    <3>1. PICK quote \in {BuyQuote(next, market[next]), NoQuote} :
            buys' = [buys EXCEPT ![next] = quote]
      BY <1>3 DEF QuoteOneBuy
    <3>2. next \in Pools /\ market[next] \in StatesOf(next)
      BY <1>0, <1>3 DEF QuoteOneBuy, AtPool, TypeOK, States
    <3>3. quote \in Nat
      BY <3>1, <3>2, QuotesNat DEF NoQuote
    <3>4. buys \in [Pools -> Nat]
      BY <1>0 DEF TypeOK
    <3> QED
      BY <3>1, <3>2, <3>3, <3>4, Zenon
  <2>2. next' \in 1..(Len(Routes) + 1) /\ AtPool'
    <3>1. CASE next = Len(PoolDexes)
      BY <1>0, <1>3, <3>1 DEF QuoteOneBuy, AtPool
    <3>2. CASE next # Len(PoolDexes)
      <4>1. next \in 1..Len(PoolDexes) /\ next' = next + 1
        BY <1>0, <1>3, <3>2 DEF QuoteOneBuy, AtPool
      <4> QED
        BY <1>0, <3>2, <4>1 DEF AtPool
    <3> QED
      BY <3>1, <3>2
  <2> QED
    BY <1>0, <1>3, <2>1, <2>2 DEF QuoteOneBuy, TypeInv, TypeOK
<1>4. CASE EvaluateRoute
  <2>1. /\ step = "selling" /\ next <= Len(Routes)
        /\ UNCHANGED <<market, moves, kind, buys, seen>>
        /\ SkipRoute \/ \E r \in Result : Fresh(r) /\ Considered(r)
    BY <1>0, <1>4, EvaluateCases
  <2>2. CASE SkipRoute
    <3>1. next' \in 1..(Len(Routes) + 1)
      BY <1>0, <2>1, <2>2 DEF SkipRoute, TypeOK
    <3> QED
      BY <1>0, <2>1, <2>2, <3>1 DEF SkipRoute, TypeInv, TypeOK, AtPool
  <2>3. ASSUME NEW r \in Result, Considered(r) PROVE TypeInv'
    BY <1>0, <2>1, <2>3, ConsideredTypeOK DEF Considered, TypeInv, AtPool
  <2> QED
    BY <2>1, <2>2, <2>3
<1>5. CASE Return
  BY <1>0, <1>5 DEF Return, TypeInv, TypeOK, AtPool
<1>6. CASE UNCHANGED vars
  BY <1>0, <1>6 DEF vars, TypeInv, TypeOK, AtPool
<1> QED
  BY <1>1, <1>2, <1>3, <1>4, <1>5, <1>6 DEF Next

(* A scan keeps its types, whatever moves the market makes.                *)
THEOREM TypeCorrect == Spec => []TypeOK
<1>1. TypeInv => TypeOK
  BY DEF TypeInv
<1> QED
  BY <1>1, InitTypeInv, NextTypeInv, PTL DEF Spec

-----------------------------------------------------------------------------
(* What a scan reports.  While it runs, best_result is the best of what it *)
(* has priced, nothing if it has priced nothing, and a triggered scan has  *)
(* priced no profitable route; what it returns is best_result or the first *)
(* profitable route of a triggered scan.                                   *)
BestOf(best_, routes) ==
  /\ best_ = <<>> <=> routes = {}
  /\ best_ # <<>> => best_[1] \in routes /\ \A r \in routes : r.net <= best_[1].net
RunningOK ==
  step # "returned" =>
    /\ answer = <<>>
    /\ BestOf(best, evaluated)
    /\ kind = "triggered" => \A r \in evaluated : r.net <= 0
ReportInv == TypeInv /\ RunningOK /\ ReportsBest /\ ErrorOnlyWithoutRoutes

(* A scan starts with nothing priced.                                      *)
LEMMA InitReportInv == Init => ReportInv
<1> SUFFICES ASSUME Init PROVE ReportInv
  OBVIOUS
<1>1. TypeInv
  BY InitTypeInv
<1> QED
  BY <1>1 DEF Init, ReportInv, RunningOK, BestOf, ReportsBest, ErrorOnlyWithoutRoutes

(* Keep leaves the best of the routes priced so far.                       *)
LEMMA KeepsBest ==
  ASSUME NEW kept \in Seq(Result), NEW routes \in SUBSET Result, BestOf(kept, routes),
         NEW r \in Result
  PROVE  BestOf(IF Better(r, kept) THEN <<r>> ELSE kept, routes \union {r})
<1>1. r.net \in Int /\ \A q \in routes : q.net \in Int
  BY DEF Result
<1>2. CASE Better(r, kept)
  <2>1. \A q \in routes : q.net <= r.net
    <3>1. CASE kept = <<>>
      BY <3>1 DEF BestOf
    <3>2. CASE kept # <<>> /\ r.net > kept[1].net
      <4>1. kept[1] \in routes /\ \A q \in routes : q.net <= kept[1].net
        BY <3>2 DEF BestOf
      <4> QED
        BY <1>1, <3>2, <4>1
    <3> QED
      BY <1>2, <3>1, <3>2 DEF Better
  <2>2. <<r>> # <<>> /\ <<r>>[1] = r
    OBVIOUS
  <2> QED
    BY <1>1, <1>2, <2>1, <2>2 DEF BestOf
<1>3. CASE ~Better(r, kept)
  <2>1. kept # <<>> /\ ~(r.net > kept[1].net)
    BY <1>3 DEF Better
  <2>2. kept[1] \in routes
    BY <2>1 DEF BestOf
  <2>3. r.net <= kept[1].net
    BY <1>1, <2>1, <2>2
  <2> QED
    BY <1>3, <2>1, <2>3 DEF BestOf
<1> QED
  BY <1>2, <1>3

(* Every step keeps the best of what was priced.                           *)
LEMMA NextReportInv == ReportInv /\ [Next]_vars => ReportInv'
<1> SUFFICES ASSUME ReportInv, [Next]_vars PROVE ReportInv'
  OBVIOUS
<1>1. TypeInv /\ TypeInv' /\ TypeOK /\ evaluated \in SUBSET Result /\ best \in Seq(Result)
  BY NextTypeInv DEF ReportInv, TypeInv, TypeOK
<1>2. CASE UNCHANGED <<kind, answer, evaluated, best>>
           /\ (step' # "returned" => step # "returned")
           /\ (step' = "returned" => step = "returned")
  BY <1>1, <1>2 DEF ReportInv, RunningOK, BestOf, ReportsBest, ErrorOnlyWithoutRoutes
<1>3. CASE EvaluateRoute
  <2>1. /\ step = "selling" /\ UNCHANGED kind
        /\ SkipRoute \/ \E r \in Result : Fresh(r) /\ Considered(r)
    BY <1>1, <1>3, EvaluateCases
  <2>2. CASE SkipRoute
    BY <1>2, <2>1, <2>2 DEF SkipRoute
  <2>3. ASSUME NEW r \in Result, Considered(r)
        PROVE  ReportInv'
    <3>1. /\ answer = <<>> /\ BestOf(best, evaluated) /\ evaluated' = evaluated \union {r}
          /\ kind = "triggered" => \A q \in evaluated : q.net <= 0
      BY <2>1, <2>3 DEF ReportInv, RunningOK, Considered
    <3>2. r.net \in Int
      BY DEF Result
    <3>3. CASE /\ kind = "triggered" /\ r.net > 0
               /\ answer' = <<r>> /\ step' = "returned" /\ UNCHANGED <<next, best>>
      <4>1. answer'[1] = r /\ answer' # <<>>
        BY <3>3
      <4>2. RunningOK' /\ ErrorOnlyWithoutRoutes'
        BY <3>3, <4>1 DEF RunningOK, ErrorOnlyWithoutRoutes
      <4>3. ReportsBest'
        <5>1. \A q \in evaluated : q.net <= r.net
          <6> SUFFICES ASSUME NEW q \in evaluated PROVE q.net <= r.net
            OBVIOUS
          <6>1. q.net <= 0 /\ q.net \in Int
            BY <1>1, <3>1, <3>3 DEF Result
          <6> QED
            BY <3>2, <3>3, <6>1
        <5> QED
          BY <3>1, <3>2, <4>1, <5>1 DEF ReportsBest
      <4> QED
        BY <1>1, <4>2, <4>3 DEF ReportInv
    <3>4. CASE /\ ~(kind = "triggered" /\ r.net > 0)
               /\ best' = IF Better(r, best) THEN <<r>> ELSE best
               /\ next' = next + 1 /\ UNCHANGED <<answer, step>>
      <4>1. BestOf(best, evaluated)'
        BY <1>1, <3>1, <3>4, KeepsBest
      <4>2. RunningOK'
        BY <2>1, <3>1, <3>2, <3>4, <4>1 DEF RunningOK
      <4>3. ReportsBest' /\ ErrorOnlyWithoutRoutes'
        BY <2>1, <3>1, <3>4 DEF ReportsBest, ErrorOnlyWithoutRoutes
      <4> QED
        BY <1>1, <4>2, <4>3 DEF ReportInv
    <3> QED
      BY <2>3, <3>3, <3>4 DEF Considered
  <2> QED
    BY <2>1, <2>2, <2>3
<1>4. CASE Return
  <2>1. /\ step = "selling" /\ step' = "returned" /\ answer' = best
        /\ UNCHANGED <<kind, best, evaluated>>
    BY <1>4 DEF Return
  <2>2. /\ BestOf(best, evaluated)
        /\ kind = "triggered" => \A r \in evaluated : r.net <= 0
    BY <2>1 DEF ReportInv, RunningOK
  <2>3. \A r \in evaluated : r.net \in Int
    BY <1>1 DEF Result
  <2>4. RunningOK' /\ ErrorOnlyWithoutRoutes'
    BY <2>1, <2>2 DEF RunningOK, ErrorOnlyWithoutRoutes, BestOf
  <2>5. ReportsBest'
    <3> SUFFICES ASSUME best # <<>>
                 PROVE  /\ best[1] \in evaluated
                        /\ \A r \in evaluated : r.net <= best[1].net
      BY <2>1 DEF ReportsBest
    <3> QED
      BY <2>2 DEF BestOf
  <2> QED
    BY <1>1, <2>4, <2>5 DEF ReportInv
<1>5. CASE (\E p \in Pools : Move(p)) \/ QuoteAllBuys \/ QuoteOneBuy \/ UNCHANGED vars
  <2>1. /\ UNCHANGED <<kind, answer, evaluated, best>>
        /\ (step' # "returned" => step # "returned")
        /\ (step' = "returned" => step = "returned")
    BY <1>5 DEF Move, QuoteAllBuys, QuoteOneBuy, vars
  <2> QED
    BY <1>2, <2>1
<1> QED
  BY <1>3, <1>4, <1>5 DEF Next

(* Whatever the pools and their moves, a scan reports the best of what it  *)
(* has priced when it returns (local_scanner.rs:213-235, 346-352).         *)
THEOREM ReportsTheBest == Spec => []ReportsBest
<1>1. ReportInv => ReportsBest
  BY DEF ReportInv
<1> QED
  BY <1>1, InitReportInv, NextReportInv, PTL DEF Spec

(* An error means that no route was priced (local_scanner.rs:240, 356).    *)
THEOREM ErrorMeansNoRoute == Spec => []ErrorOnlyWithoutRoutes
<1>1. ReportInv => ErrorOnlyWithoutRoutes
  BY DEF ReportInv
<1> QED
  BY <1>1, InitReportInv, NextReportInv, PTL DEF Spec

-----------------------------------------------------------------------------
(* A market that holds still.  A route small for the concentrated pools it *)
(* goes through pays at least what it was quoted, leg by leg.              *)
LEMMA ConcentratedPays ==
  ASSUME NEW pIn \in Nat \ {0}, NEW pOut \in Nat, NEW depth \in Nat, NEW a \in Nat,
         ConcentratedQuote(pIn, pOut, depth, a) # 0, SmallFor(depth * pIn, a)
  PROVE  /\ ConcentratedOutput(depth * pIn, depth * pOut, a) \in Nat
         /\ ConcentratedQuote(pIn, pOut, depth, a)
              <= ConcentratedOutput(depth * pIn, depth * pOut, a)
<1> USE CostAssumption
<1>1. depth \in Nat \ {0}
  BY DEF ConcentratedQuote
<1>2. ConcentratedOutput(depth * pIn, depth * pOut, a) \in Nat
  <2> DEFINE x == a * Kept
             r == depth * pIn * KeptOf
  <2>1. x \in Nat
    BY ProductNat
  <2>2. r \in Nat \ {0}
    <3>1. depth * pIn \in Nat \ {0}
      BY <1>1
    <3> QED
      BY <3>1
  <2>3. depth * pOut \in Nat
    BY <1>1, ProductNat
  <2>4. x * (depth * pOut) \in Nat /\ r + x \in Nat \ {0}
    BY <2>1, <2>2, <2>3, ProductNat
  <2>5. ConcentratedOutput(depth * pIn, depth * pOut, a) = (x * (depth * pOut)) \div (r + x)
    BY DEF ConcentratedOutput
  <2> HIDE DEF x, r
  <2> QED
    BY <2>4, <2>5, FloorNat
<1> QED
  BY <1>1, <1>2, SmallQuoteIsSafe

(* In a pool that holds its mints in the quoter's order the input goes to  *)
(* the side of its mint.                                                   *)
LEMMA QuotedSides ==
  ASSUME NEW p \in Pools, NEW m, AsQuoted(p), NEW input \in {WSOL, TokenMint}
  PROVE  LET output == IF input = WSOL THEN TokenMint ELSE WSOL
         IN  /\ m.depth * PriceIn(p, m, input) = Side(p, m, input)
             /\ m.depth * PriceOut(p, m, input) = Side(p, m, output)
             /\ {input, output} = {Mints[p].first, Mints[p].second}
<1> DEFINE output == IF input = WSOL THEN TokenMint ELSE WSOL
<1> USE DEF WSOL, TokenMint
<1>1. {input, output} = {WSOL, TokenMint} /\ input # output
  OBVIOUS
<1>2. {Mints[p].first, Mints[p].second} = {WSOL, TokenMint}
  BY DEF AsQuoted
<1>3. TakesFirst(p, input) <=> input = Mints[p].first
  <2>1. CASE Concentrated(p)
    BY <2>1 DEF TakesFirst, Concentrated
  <2>2. CASE ~Concentrated(p)
    BY <2>2 DEF TakesFirst, AsQuoted
  <2> QED
    BY <2>1, <2>2
<1>4. input = Mints[p].first <=> output # Mints[p].first
  BY <1>1, <1>2
<1> QED
  BY <1>1, <1>2, <1>3, <1>4 DEF PriceIn, PriceOut, Side

(* A quote is no more than what such a pool pays, if the input is small.   *)
LEMMA QuotePays ==
  ASSUME NEW p \in Pools, NEW m \in StatesOf(p), AsQuoted(p),
         NEW input \in {WSOL, TokenMint}, NEW a \in Nat,
         Quote(p, m, input, a) # NoQuote,
         Concentrated(p) => SmallFor(Side(p, m, input), a)
  PROVE  LET paid == Paid(p, m, input, IF input = WSOL THEN TokenMint ELSE WSOL, a)
         IN  paid \in Nat /\ Quote(p, m, input, a) <= paid
<1> DEFINE output == IF input = WSOL THEN TokenMint ELSE WSOL
           in == PriceIn(p, m, input)
           out == PriceOut(p, m, input)
<1>1. /\ in \in Nat \ {0} /\ out \in Nat /\ m.depth \in Nat
      /\ m.depth * in = Side(p, m, input) /\ m.depth * out = Side(p, m, output)
      /\ {input, output} = {Mints[p].first, Mints[p].second}
  BY StateFacts, QuotedSides
<1>2. Quote(p, m, input, a) \in Nat
  BY QuoteNat
<1>3. Paid(p, m, input, output, a) =
        IF Concentrated(p) THEN ConcentratedOutput(m.depth * in, m.depth * out, a)
        ELSE Pays(p, m.depth * in, m.depth * out, input, a)
  BY <1>1 DEF Paid
<1>4. Quote(p, m, input, a) =
        IF Concentrated(p) THEN ConcentratedQuote(in, out, m.depth, a)
        ELSE Pays(p, m.depth * in, m.depth * out, input, a)
  BY DEF Quote, Concentrated
<1>5. CASE ~Concentrated(p)
  BY <1>2, <1>3, <1>4, <1>5
<1>6. CASE Concentrated(p)
  <2>1. ConcentratedQuote(in, out, m.depth, a) # 0 /\ SmallFor(m.depth * in, a)
    BY <1>1, <1>4, <1>6 DEF NoQuote
  <2> HIDE DEF in, out, output
  <2>2. /\ ConcentratedOutput(m.depth * in, m.depth * out, a) \in Nat
        /\ ConcentratedQuote(in, out, m.depth, a)
             <= ConcentratedOutput(m.depth * in, m.depth * out, a)
    BY <1>1, <2>1, ConcentratedPays
  <2> QED
    BY <1>3, <1>4, <1>6, <2>2 DEF output
<1> QED
  BY <1>5, <1>6

(* The tip is at least its share of a gross profit, rounded down.          *)
LEMMA TipShare ==
  ASSUME NEW gross \in Int, gross > 0
  PROVE  gross * TipPercent <= 100 * JitoTip(gross) + 99
<1> DEFINE part == gross * TipPercent
<1>1. part \in Nat /\ MinTip \in Nat
  BY ProductNat, CostAssumption
<1>2. JitoTip(gross) = IF part \div 100 > MinTip THEN part \div 100 ELSE MinTip
  BY DEF JitoTip
<1> HIDE DEF part
<1>3. part <= 100 * JitoTip(gross) + 99
  BY <1>1, <1>2
<1> QED
  BY <1>3 DEF part

(* What the penalty leaves of an output, to a lamport.                     *)
LEMMA PenaltyLeaves ==
  ASSUME NEW out \in Nat
  PROVE  /\ (out * (10000 - PenaltyBps)) \div 10000 \in Int
         /\ out - SlippageLamports(out) <= (out * (10000 - PenaltyBps)) \div 10000 + 1
<1> DEFINE off == out * PenaltyBps
           kept == out * (10000 - PenaltyBps)
<1>1. off \in Nat /\ kept \in Int /\ kept = out * 10000 - off
  BY CostAssumption, ProductNat
<1>2. SlippageLamports(out) = off \div 10000
  BY DEF SlippageLamports
<1> HIDE DEF off, kept
<1>3. kept \div 10000 \in Int /\ out - off \div 10000 <= kept \div 10000 + 1
  BY <1>1
<1> QED
  BY <1>2, <1>3 DEF kept

(* A profit on an output is covered by any output that is no smaller.      *)
THEOREM ProfitIsCovered ==
  ASSUME NEW out \in Nat, NEW paid \in Nat, out <= paid, NetProfit(Trade, out) > 0
  PROVE  CoveredBy(NetProfit(Trade, out), paid)
<1> DEFINE g == GrossProfit(Trade, out)
           gross == (paid * (10000 - PenaltyBps)) \div 10000 + 1 - Trade
           t == JitoTip(g)
           net == NetProfit(Trade, out)
<1> USE CostAssumption
<1>1. Trade \in Nat
  BY ScannerAssumption
<1>2. /\ out - SlippageLamports(out) \in Nat
      /\ out - SlippageLamports(out) <= paid - SlippageLamports(paid)
      /\ paid - SlippageLamports(paid) \in Nat
  BY SlippageBounds, AfterSlippageMonotone
<1>3. g \in Int /\ gross \in Int /\ g <= gross
  <2>1. g = out - SlippageLamports(out) - Trade
    BY DEF GrossProfit
  <2> QED
    BY <1>1, <1>2, <2>1, PenaltyLeaves
<1>4. t \in Nat /\ t >= MinTip
  BY <1>3, TipBounds
<1>5. net = g - FixedCosts - t
  BY DEF NetProfit
<1> HIDE DEF g, gross, t, net
<1>6. net + FixedCosts + MinTip <= gross
  BY <1>3, <1>4, <1>5
<1>7. g > 0
  BY <1>3, <1>4, <1>5 DEF net
<1>8. g * TipPercent <= 100 * t + 99
  BY <1>3, <1>7, TipShare DEF t
<1>9. 100 * (net + FixedCosts) <= (100 - TipPercent) * g + 100
  <2>1. (100 - TipPercent) * g = 100 * g - g * TipPercent
    BY <1>3
  <2>2. g * TipPercent \in Int
    BY <1>3
  <2> QED
    BY <1>3, <1>4, <1>5, <1>8, <2>1, <2>2
<1>10. (100 - TipPercent) * g <= (100 - TipPercent) * gross
  <2>1. g * (100 - TipPercent) <= gross * (100 - TipPercent)
    <3>1. 100 - TipPercent \in Nat
      OBVIOUS
    <3> QED
      BY <1>3, <3>1, ProductMonotone
  <2>2. /\ g * (100 - TipPercent) = (100 - TipPercent) * g
        /\ gross * (100 - TipPercent) = (100 - TipPercent) * gross
    BY <1>3
  <2> QED
    BY <2>1, <2>2
<1>11. 100 * (net + FixedCosts) <= (100 - TipPercent) * gross + 100
  <2>1. (100 - TipPercent) * g \in Int /\ (100 - TipPercent) * gross \in Int
    BY <1>3
  <2>2. net \in Int
    BY <1>3, <1>4, <1>5
  <2> QED
    BY <1>9, <1>10, <2>1, <2>2
<1> QED
  BY <1>6, <1>11 DEF CoveredBy, gross, net

(* A route as the quotes of one market state give it.                      *)
QuotedIn(m, r) ==
  /\ r \in Result /\ PoolDexes[r.buy] # PoolDexes[r.sell]
  /\ r.tokens = BuyQuote(r.buy, m[r.buy]) /\ r.tokens # NoQuote
  /\ r.out = SellQuote(r.sell, m[r.sell], r.tokens) /\ r.out > 0
  /\ r.net = NetProfit(Trade, r.out)

(* Hence a profit of small legs is covered by what the pools pay.          *)
LEMMA SmallRoutePays ==
  ASSUME NEW m \in States, NEW r, QuotedIn(m, r), SmallLegs(m, r), r.net > 0,
         AsQuoted(r.buy), AsQuoted(r.sell)
  PROVE  CoveredBy(r.net, PaidRoundTrip(m, r))
<1> DEFINE b == m[r.buy]
           s == m[r.sell]
           paid == PaidTokens(m, r)
           back == PaidRoundTrip(m, r)
<1>1. /\ r.buy \in Pools /\ r.sell \in Pools /\ b \in StatesOf(r.buy) /\ s \in StatesOf(r.sell)
      /\ r.tokens \in Nat /\ r.out \in Nat /\ Trade \in Nat
  BY ScannerAssumption DEF QuotedIn, Result, States
<1>2. /\ r.tokens = Quote(r.buy, b, WSOL, Trade) /\ r.tokens # NoQuote
      /\ r.out = SellQuote(r.sell, s, r.tokens) /\ r.out > 0
      /\ r.net = NetProfit(Trade, r.out)
      /\ Concentrated(r.buy) => SmallFor(Side(r.buy, b, WSOL), Trade)
      /\ Concentrated(r.sell) => SmallFor(Side(r.sell, s, TokenMint), paid)
      /\ paid = Paid(r.buy, b, WSOL, TokenMint, Trade)
      /\ back = Paid(r.sell, s, TokenMint, WSOL, paid)
  BY DEF QuotedIn, SmallLegs, PaidRoundTrip, PaidTokens, BuyQuote
<1> HIDE DEF b, s, paid, back
<1>3. WSOL \in {WSOL, TokenMint} /\ TokenMint \in {WSOL, TokenMint} /\ TokenMint # WSOL
  BY DEF WSOL, TokenMint
<1>4. paid \in Nat /\ r.tokens <= paid
  BY <1>1, <1>2, <1>3, QuotePays
<1>5. SellQuote(r.sell, s, paid) \in Nat /\ r.out <= SellQuote(r.sell, s, paid)
  BY <1>1, <1>2, <1>4, QuotesNat, SellMonotone
<1>6. back \in Nat /\ SellQuote(r.sell, s, paid) <= back
  <2>1. Quote(r.sell, s, TokenMint, paid) # NoQuote
    BY <1>1, <1>2, <1>5 DEF NoQuote, SellQuote
  <2> QED
    BY <1>1, <1>2, <1>3, <1>4, <2>1, QuotePays DEF SellQuote
<1>7. r.out <= back
  BY <1>1, <1>5, <1>6
<1> QED
  BY <1>1, <1>2, <1>6, <1>7, ProfitIsCovered DEF back

(* While only one market state has been seen, every quote the scan holds   *)
(* and every route it has priced is one of that state.                     *)
QuietQuotes ==
  /\ \A p \in Pools : buys[p] \in {NoQuote, BuyQuote(p, market[p])}
  /\ \A r \in evaluated : QuotedIn(market, r)
QuietInv ==
  /\ ReportInv
  /\ IsFiniteSet(seen) /\ market \in seen
  /\ seen = {market} => QuietQuotes

(* One market state has been seen.                                         *)
LEMMA InitQuietInv == Init => QuietInv
<1> SUFFICES ASSUME Init PROVE QuietInv
  OBVIOUS
<1>1. ReportInv /\ IsFiniteSet(seen) /\ market \in seen
  BY InitReportInv, FS_Singleton DEF Init
<1>2. QuietQuotes
  BY DEF Init, QuietQuotes
<1> QED
  BY <1>1, <1>2 DEF QuietInv

(* Until the market moves every new quote is one of that state.            *)
LEMMA NextQuietInv == QuietInv /\ [Next]_vars => QuietInv'
<1> SUFFICES ASSUME QuietInv, [Next]_vars PROVE QuietInv'
  OBVIOUS
<1>1. ReportInv' /\ TypeInv /\ TypeOK
  BY NextReportInv DEF QuietInv, ReportInv, TypeInv
<1>2. ASSUME NEW p \in Pools, Move(p) PROVE QuietInv'
  <2>1. market' # market /\ seen' = seen \union {market'}
    BY <1>1, <1>2, MoveTypeOK
  <2>2. IsFiniteSet(seen')
    BY <2>1, FS_AddElement DEF QuietInv
  <2>3. seen' # {market'}
    BY <2>1 DEF QuietInv
  <2> QED
    BY <1>1, <2>1, <2>2, <2>3 DEF QuietInv
<1>3. ASSUME UNCHANGED <<market, seen>>, seen = {market} /\ QuietQuotes => QuietQuotes'
      PROVE  QuietInv'
  BY <1>1, <1>3 DEF QuietInv
<1>4. CASE QuoteAllBuys
  <2>1. PICK found \in SUBSET Pools :
          buys' = [p \in Pools |-> IF p \in found THEN BuyQuote(p, market[p]) ELSE NoQuote]
    BY <1>4 DEF QuoteAllBuys
  <2>2. UNCHANGED <<market, seen, evaluated>>
    BY <1>4 DEF QuoteAllBuys
  <2>3. QuietQuotes => QuietQuotes'
    BY <2>1, <2>2 DEF QuietQuotes
  <2> QED
    BY <1>3, <2>2, <2>3
<1>5. CASE QuoteOneBuy
  <2>1. PICK quote \in {BuyQuote(next, market[next]), NoQuote} :
          buys' = [buys EXCEPT ![next] = quote]
    BY <1>5 DEF QuoteOneBuy
  <2>2. UNCHANGED <<market, seen, evaluated>>
    BY <1>5 DEF QuoteOneBuy
  <2>3. \A p \in Pools : buys'[p] = IF p = next THEN quote ELSE buys[p]
    BY <1>1, <2>1 DEF TypeOK
  <2>4. QuietQuotes => QuietQuotes'
    BY <2>1, <2>2, <2>3 DEF QuietQuotes
  <2> QED
    BY <1>3, <2>2, <2>4
<1>6. CASE EvaluateRoute
  <2>1. /\ UNCHANGED <<market, seen, buys>>
        /\ SkipRoute \/ \E r \in Result : Fresh(r) /\ Considered(r)
    BY <1>1, <1>6, EvaluateCases
  <2>2. CASE SkipRoute
    <3>1. QuietQuotes => QuietQuotes'
      BY <2>1, <2>2 DEF SkipRoute, QuietQuotes
    <3> QED
      BY <1>3, <2>1, <3>1
  <2>3. ASSUME NEW r \in Result, Fresh(r), Considered(r)
        PROVE  QuietInv'
    <3>1. evaluated' = evaluated \union {r}
      BY <2>3 DEF Considered
    <3>2. ASSUME QuietQuotes PROVE QuotedIn(market, r)
      <4>1. r.buy \in Pools
        BY DEF Result
      <4>2. buys[r.buy] = BuyQuote(r.buy, market[r.buy])
        BY <2>3, <3>2, <4>1 DEF Fresh, QuietQuotes
      <4> QED
        BY <2>3, <4>2 DEF Fresh, QuotedIn
    <3>3. QuietQuotes => QuietQuotes'
      BY <2>1, <3>1, <3>2 DEF QuietQuotes
    <3> QED
      BY <1>3, <2>1, <3>3
  <2> QED
    BY <2>1, <2>2, <2>3
<1>7. CASE Return \/ UNCHANGED vars
  <2>1. UNCHANGED <<market, seen, buys, evaluated>>
    BY <1>7 DEF Return, vars
  <2>2. QuietQuotes => QuietQuotes'
    BY <2>1 DEF QuietQuotes
  <2> QED
    BY <1>3, <2>1, <2>2
<1> QED
  BY <1>2, <1>4, <1>5, <1>6, <1>7 DEF Next

(* In a market that holds still a reported round trip is the quotes' and a *)
(* reported profit is covered by what the pools pay, for every list of     *)
(* pools in the quoter's order, legs that are small for their pools, *)
(* every size of trade and every reserve (cost_model.rs:41-90;             *)
(* pool_decoder.rs:191-234; amm_quoter.rs:435-639).                        *)
THEOREM QuietProfits == Spec => []QuietProfitIsReal
<1>1. QuietInv => QuietProfitIsReal
  <2> SUFFICES ASSUME QuietInv, answer # <<>>, Cardinality(seen) = 1
               PROVE  /\ PoolDexes[answer[1].buy] # PoolDexes[answer[1].sell]
                      /\ answer[1].out = RoundTrip(market, answer[1])
                      /\ /\ answer[1].net > 0 /\ SmallLegs(market, answer[1])
                         /\ AsQuoted(answer[1].buy) /\ AsQuoted(answer[1].sell)
                         => CoveredBy(answer[1].net, PaidRoundTrip(market, answer[1]))
    BY DEF QuietProfitIsReal
  <2>1. seen = {market}
    <3>1. PICK m : seen = {m}
      BY FS_Singleton DEF QuietInv
    <3> QED
      BY <3>1 DEF QuietInv
  <2>2. market \in States /\ answer[1] \in evaluated
    BY DEF QuietInv, ReportInv, TypeInv, TypeOK, ReportsBest
  <2>3. QuotedIn(market, answer[1])
    BY <2>1, <2>2 DEF QuietInv, QuietQuotes
  <2>4. /\ PoolDexes[answer[1].buy] # PoolDexes[answer[1].sell]
        /\ answer[1].out = RoundTrip(market, answer[1])
    BY <2>3 DEF QuotedIn, RoundTrip
  <2> QED
    BY <2>2, <2>3, <2>4, SmallRoutePays
<1> QED
  BY <1>1, InitQuietInv, NextQuietInv, PTL DEF Spec
=============================================================================
