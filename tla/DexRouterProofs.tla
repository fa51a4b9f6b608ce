---------------------------- MODULE DexRouterProofs ----------------------------
(***************************************************************************)
(* What an order costs, for every base price, whatever the markets show.   *)
(***************************************************************************)
EXTENDS DexRouter, TLAPS

(* The bounds of an effective price. *)
Floor(d) == Base * VarianceMin(d) * (1000 - Fee(d))
Ceiling == Base * VarianceMax * 998

(* A quote is there once its call was answered, and keeps to the bounds.     *)
QuotesAreAnswers ==
  \A n \in Attempts, d \in DEXes :
    /\ calls[n][d] = "answered" => /\ quotes[n][d] \in Nat
                                   /\ quotes[n][d] >= Floor(d)
                                   /\ quotes[n][d] < Ceiling
    /\ quotes[n][d] # None => calls[n][d] = "answered"

(* An attempt that was routed has all its quotes, and took the best.         *)
BestIsBest ==
  step \in {"routed", "swapped"} =>
    /\ best \in DEXes
    /\ \A d \in DEXes : /\ calls[attempt][d] = "answered"
                        /\ quotes[attempt][best] >= quotes[attempt][d]

(* A price is executed by the swap, within half of the slippage.             *)
ExecutedNearBest ==
  executed # None =>
    /\ step = "swapped"
    /\ executed >= quotes[attempt][best] * (2000 - slippage)
    /\ executed < quotes[attempt][best] * (2000 + slippage)

(* Nothing was asked for in an attempt that is still to come. *)
LaterIsIdle ==
  \A n \in Attempts, d \in DEXes : n > attempt => calls[n][d] = "idle"

RInv == TypeOK /\ QuotesAreAnswers /\ LaterIsIdle /\ BestIsBest /\ ExecutedNearBest

(* Products grow with their factors. *)
LEMMA ProductGrows ==
  ASSUME NEW a \in Nat, NEW b \in Nat, NEW c \in Nat, NEW d \in Nat, a <= b, c <= d
  PROVE  a * c <= b * d
<1>1. a * c <= b * c
  OBVIOUS
<1>2. b * c <= b * d
  OBVIOUS
<1> QED BY <1>1, <1>2

LEMMA ProductGrowsStrictly ==
  ASSUME NEW a \in Nat, NEW c \in Nat, NEW d \in Nat, 0 < a, c < d
  PROVE  a * c < a * d
  OBVIOUS

(* calculateBasePrice and DEX_CONFIG put every effective price between the   *)
(* floor of its DEX and the common ceiling.                                  *)
LEMMA EffectivePriceIsBounded ==
  ASSUME NEW d \in DEXes, NEW v \in Draws(d)
  PROVE  /\ EffectivePrice(d, v) \in Nat
         /\ EffectivePrice(d, v) >= Floor(d)
         /\ EffectivePrice(d, v) < Ceiling
<1>1. Base \in Nat /\ Base > 0 /\ v \in VarianceMin(d)..(VarianceMax - 1)
  BY RouterAssumption
<1>2. CASE d = "raydium"
  <2>1. EffectivePrice(d, v) = Base * (v * 997) /\ Floor(d) = Base * (980 * 997)
    BY <1>1, <1>2 DEF EffectivePrice, Floor, Fee, VarianceMin
  <2>2. v \in 980..1019
    BY <1>1, <1>2 DEF VarianceMin, VarianceMax
  <2>3. 980 * 997 <= v * 997 /\ v * 997 < 1020 * 998 /\ v * 997 \in Nat
    BY <2>2
  <2> QED BY <1>1, <2>1, <2>3, ProductGrows, ProductGrowsStrictly DEF Ceiling, VarianceMax
<1>3. CASE d = "meteora"
  <2>1. EffectivePrice(d, v) = Base * (v * 998) /\ Floor(d) = Base * (970 * 998)
    BY <1>1, <1>3 DEF EffectivePrice, Floor, Fee, VarianceMin
  <2>2. v \in 970..1019
    BY <1>1, <1>3 DEF VarianceMin, VarianceMax
  <2>3. 970 * 998 <= v * 998 /\ v * 998 < 1020 * 998 /\ v * 998 \in Nat
    BY <2>2
  <2> QED BY <1>1, <2>1, <2>3, ProductGrows, ProductGrowsStrictly DEF Ceiling, VarianceMax
<1> QED BY <1>2, <1>3 DEF DEXes

LEMMA RouterInit == Init => RInv
<1> SUFFICES ASSUME Init PROVE RInv
  OBVIOUS
<1>1. 1 \in Attempts /\ None \notin Nat \cup DEXes
  BY RouterAssumption DEF Attempts
<1>2. /\ \A n \in Attempts, d \in DEXes : calls[n][d] = IF n = 1 THEN "asked" ELSE "idle"
      /\ \A n \in Attempts, d \in DEXes : quotes[n][d] = None
  BY DEF Init, Asked
<1>3. TypeOK
  BY <1>1 DEF Init, TypeOK, Asked
<1>4. QuotesAreAnswers
  BY <1>2 DEF QuotesAreAnswers
<1>5. LaterIsIdle
  BY <1>2 DEF Init, LaterIsIdle, Attempts
<1>6. BestIsBest /\ ExecutedNearBest
  BY DEF Init, BestIsBest, ExecutedNearBest
<1> QED BY <1>3, <1>4, <1>5, <1>6 DEF RInv

(* An answer changes only what its own call brought. *)
LEMMA RouterGetQuote ==
  ASSUME RInv, NEW n \in Attempts, NEW d \in DEXes, GetQuote(n, d)
  PROVE  RInv'
<1> USE DEF RInv
<1>1. PICK v \in Draws(d) : quotes' = [quotes EXCEPT ![n][d] = EffectivePrice(d, v)]
  BY DEF GetQuote
<1>2. /\ EffectivePrice(d, v) \in Nat
      /\ EffectivePrice(d, v) >= Floor(d)
      /\ EffectivePrice(d, v) < Ceiling
  BY <1>1, EffectivePriceIsBounded
<1>3. TypeOK'
  BY <1>1, <1>2 DEF TypeOK, GetQuote
<1>4. \A m \in Attempts, e \in DEXes :
        /\ (m # n \/ e # d) => calls'[m][e] = calls[m][e] /\ quotes'[m][e] = quotes[m][e]
        /\ (m = n /\ e = d) => calls'[m][e] = "answered" /\ quotes'[m][e] = EffectivePrice(d, v)
  BY <1>1 DEF TypeOK, GetQuote
<1>5. QuotesAreAnswers'
  BY <1>2, <1>4 DEF QuotesAreAnswers, Floor, Ceiling
<1>6. LaterIsIdle'
  BY <1>4 DEF LaterIsIdle, GetQuote
<1>7. step \in {"routed", "swapped"} =>
        \A e \in DEXes : calls'[attempt][e] = calls[attempt][e] /\ quotes'[attempt][e] = quotes[attempt][e]
  BY <1>4 DEF BestIsBest, GetQuote, TypeOK
<1>8. BestIsBest'
  BY <1>7 DEF BestIsBest, GetQuote
<1>9. ExecutedNearBest'
  BY <1>7 DEF BestIsBest, ExecutedNearBest, GetQuote
<1> QED BY <1>3, <1>5, <1>6, <1>8, <1>9

(* A refusal fails the attempt only while that still waits for quotes. *)
LEMMA RouterRefuseQuote ==
  ASSUME RInv, NEW n \in Attempts, NEW d \in DEXes, RefuseQuote(n, d)
  PROVE  RInv'
<1> USE DEF RInv
<1>1. TypeOK'
  BY DEF TypeOK, RefuseQuote
<1>2. \A m \in Attempts, e \in DEXes :
        /\ (m # n \/ e # d) => calls'[m][e] = calls[m][e]
        /\ (m = n /\ e = d) => calls'[m][e] = "failed" /\ calls[m][e] = "asked"
  BY DEF TypeOK, RefuseQuote
<1>3. QuotesAreAnswers'
  BY <1>2 DEF QuotesAreAnswers, RefuseQuote, Floor, Ceiling
<1>4. LaterIsIdle'
  BY <1>2 DEF LaterIsIdle, RefuseQuote
<1>5. step \in {"routed", "swapped"} => n # attempt
  BY <1>2 DEF BestIsBest, TypeOK
<1>6. BestIsBest'
  BY <1>2, <1>5 DEF BestIsBest, RefuseQuote, TypeOK
<1>7. ExecutedNearBest'
  BY <1>5 DEF ExecutedNearBest, RefuseQuote
<1> QED BY <1>1, <1>3, <1>4, <1>6, <1>7

LEMMA RouterGetBestQuote ==
  ASSUME RInv, GetBestQuote
  PROVE  RInv'
<1> USE DEF RInv
<1>1. TypeOK'
  BY DEF TypeOK, GetBestQuote, DEXes
<1>2. QuotesAreAnswers' /\ LaterIsIdle'
  BY DEF QuotesAreAnswers, LaterIsIdle, GetBestQuote, Floor, Ceiling
<1>3. \A d \in DEXes : calls[attempt][d] = "answered" /\ quotes[attempt][d] \in Nat
  BY DEF GetBestQuote, QuotesAreAnswers, TypeOK
<1>4. BestIsBest'
  BY <1>3 DEF BestIsBest, GetBestQuote, DEXes
<1>5. ExecutedNearBest'
  BY DEF ExecutedNearBest, GetBestQuote
<1> QED BY <1>1, <1>2, <1>4, <1>5

(* The swap moves the price of the best quote by half of the slippage. *)
LEMMA RouterExecuteSwap ==
  ASSUME RInv, ExecuteSwap
  PROVE  RInv'
<1> USE DEF RInv
<1> DEFINE q == quotes[attempt][best]
<1>1. q \in Nat /\ 0 < q
  <2>1. best \in DEXes /\ calls[attempt][best] = "answered" /\ attempt \in Attempts
    BY DEF ExecuteSwap, BestIsBest, TypeOK
  <2>2. q \in Nat /\ q >= Floor(best)
    BY <2>1 DEF QuotesAreAnswers
  <2>3. Floor(best) > 0 /\ Floor(best) \in Nat
    <3>1. Base \in Nat /\ Base > 0
      BY RouterAssumption
    <3> QED BY <2>1, <3>1 DEF Floor, VarianceMin, Fee, DEXes
  <2> QED BY <2>2, <2>3
<1>2. slippage \in 1..100
  BY RouterAssumption DEF TypeOK
<1>3. PICK k \in -slippage..(slippage - 1) : executed' = q * (2000 + k)
  BY DEF ExecuteSwap
<1>4. /\ q * (2000 + k) \in Nat
      /\ q * (2000 - slippage) <= q * (2000 + k)
      /\ q * (2000 + k) < q * (2000 + slippage)
  <2>1. /\ 2000 - slippage \in Nat /\ 2000 + k \in Nat /\ 2000 + slippage \in Nat
        /\ 2000 - slippage <= 2000 + k
        /\ 2000 + k < 2000 + slippage
    BY <1>2, <1>3
  <2> HIDE DEF q
  <2> QED BY <1>1, <2>1, ProductGrows, ProductGrowsStrictly
<1>5. TypeOK'
  BY <1>3, <1>4 DEF TypeOK, ExecuteSwap
<1>6. QuotesAreAnswers' /\ LaterIsIdle'
  BY DEF QuotesAreAnswers, LaterIsIdle, ExecuteSwap, Floor, Ceiling
<1>7. BestIsBest'
  BY DEF BestIsBest, ExecuteSwap
<1>8. ExecutedNearBest'
  BY <1>3, <1>4 DEF ExecutedNearBest, ExecuteSwap
<1> QED BY <1>5, <1>6, <1>7, <1>8

LEMMA RouterRefuseSwap ==
  ASSUME RInv, RefuseSwap
  PROVE  RInv'
  BY DEF RInv, RefuseSwap, TypeOK, QuotesAreAnswers, LaterIsIdle, BestIsBest, ExecutedNearBest,
         Floor, Ceiling

(* The next attempt begins without quotes. *)
LEMMA RouterRetry ==
  ASSUME RInv, Retry
  PROVE  RInv'
<1> USE DEF RInv
<1>1. attempt + 1 \in Attempts /\ attempt \in Attempts
  BY RouterAssumption DEF Retry, TypeOK, Attempts
<1>2. TypeOK'
  BY <1>1 DEF TypeOK, Retry, Asked
<1>3. \A m \in Attempts, e \in DEXes :
        calls'[m][e] = IF m = attempt + 1 THEN "asked" ELSE calls[m][e]
  BY <1>1 DEF TypeOK, Retry, Asked
<1>4. \A e \in DEXes : quotes[attempt + 1][e] = None
  BY <1>1 DEF LaterIsIdle, QuotesAreAnswers, Attempts
<1>5. QuotesAreAnswers'
  BY <1>3, <1>4 DEF QuotesAreAnswers, Retry, Floor, Ceiling
<1>6. LaterIsIdle'
  BY <1>1, <1>3 DEF LaterIsIdle, Retry, Attempts
<1>7. BestIsBest' /\ ExecutedNearBest'
  BY DEF BestIsBest, ExecutedNearBest, Retry
<1> QED BY <1>2, <1>5, <1>6, <1>7

LEMMA RouterStutter ==
  ASSUME RInv, UNCHANGED routerVars
  PROVE  RInv'
  BY DEF routerVars, RInv, TypeOK, QuotesAreAnswers, LaterIsIdle, BestIsBest, ExecutedNearBest,
         Floor, Ceiling

THEOREM RouterInvariance == Spec => []RInv
<1>1. Init => RInv
  BY RouterInit
<1>2. RInv /\ [Next]_routerVars => RInv'
  BY RouterGetQuote, RouterRefuseQuote, RouterGetBestQuote, RouterExecuteSwap,
     RouterRefuseSwap, RouterRetry, RouterStutter DEF Next, Done
<1> QED BY <1>1, <1>2, PTL DEF Spec

(* The state of an order with its router has its type, for any base price.   *)
THEOREM RouterTypes == Spec => []TypeOK
  BY RouterInvariance, PTL DEF RInv

(* What an executed price says of the quotes of its attempt. *)
LEMMA ExecutedPrice ==
  ASSUME RInv, executed # None
  PROVE  /\ slippage \in 1..100 /\ executed \in Nat
         /\ \A d \in DEXes :
              /\ quotes[attempt][d] \in Nat
              /\ quotes[attempt][d] >= Floor(d)
              /\ executed >= quotes[attempt][d] * (2000 - slippage)
         /\ best \in DEXes
         /\ quotes[attempt][best] < Ceiling
         /\ executed < quotes[attempt][best] * (2000 + slippage)
<1> USE DEF RInv
<1>1. slippage \in 1..100 /\ executed \in Nat /\ attempt \in Attempts
  BY RouterAssumption DEF TypeOK
<1>2. best \in DEXes /\ \A d \in DEXes : calls[attempt][d] = "answered"
                                      /\ quotes[attempt][best] >= quotes[attempt][d]
  BY DEF ExecutedNearBest, BestIsBest
<1>3. \A d \in DEXes : /\ quotes[attempt][d] \in Nat
                       /\ quotes[attempt][d] >= Floor(d)
                       /\ quotes[attempt][d] < Ceiling
  BY <1>1, <1>2 DEF QuotesAreAnswers
<1>4. /\ executed >= quotes[attempt][best] * (2000 - slippage)
      /\ executed < quotes[attempt][best] * (2000 + slippage)
  BY DEF ExecutedNearBest
<1>5. ASSUME NEW d \in DEXes
      PROVE  executed >= quotes[attempt][d] * (2000 - slippage)
  <2> DEFINE p == quotes[attempt][d]
             q == quotes[attempt][best]
             r == 2000 - slippage
  <2>1. p \in Nat /\ q \in Nat /\ r \in Nat /\ p <= q
    BY <1>1, <1>2, <1>3
  <2>2. executed >= q * r
    BY <1>4
  <2> HIDE DEF p, q, r
  <2>3. p * r <= q * r /\ p * r \in Nat /\ q * r \in Nat
    BY <2>1, ProductGrows
  <2>4. executed >= p * r
    BY <1>1, <2>2, <2>3
  <2> QED BY <2>4 DEF p, r
<1> QED BY <1>1, <1>2, <1>3, <1>4, <1>5

(* The executed price undercuts no quote of its attempt by more than half of *)
(* the slippage, whichever DEX was chosen and however many attempts failed.  *)
THEOREM HonoursEveryQuote == Spec => []SwapHonoursEveryQuote
<1>1. RInv => SwapHonoursEveryQuote
  BY ExecutedPrice DEF SwapHonoursEveryQuote
<1> QED BY <1>1, RouterInvariance, PTL

(* The executed price lies between the floor of Raydium and the ceiling, give*)
(* or take half of the slippage, for any base price and any draws.           *)
THEOREM BoundedPrice == Spec => []PriceIsBounded
<1>1. ASSUME RInv, executed # None
      PROVE  /\ executed >= Base * 980 * 997 * (2000 - slippage)
             /\ executed <  Base * 1020 * 998 * (2000 + slippage)
  <2> DEFINE f == Floor("raydium")
             p == quotes[attempt]["raydium"]
             q == quotes[attempt][best]
             lo == 2000 - slippage
             hi == 2000 + slippage
  <2>1. Base \in Nat
    BY RouterAssumption
  <2>2. f = Base * 980 * 997 /\ Ceiling = Base * 1020 * 998
    BY DEF Floor, Ceiling, VarianceMin, VarianceMax, Fee
  <2>3. f \in Nat /\ Ceiling \in Nat
    BY <2>1, <2>2
  <2>4. "raydium" \in DEXes
    BY DEF DEXes
  <2>5. /\ p \in Nat /\ q \in Nat /\ lo \in Nat /\ hi \in Nat /\ executed \in Nat
        /\ f <= p /\ executed >= p * lo
        /\ q < Ceiling /\ executed < q * hi
    BY <1>1, <2>4, ExecutedPrice
  <2> HIDE DEF f, p, q, lo, hi
  <2>6. f * lo <= p * lo /\ q * hi <= Ceiling * hi
    BY <2>3, <2>5, ProductGrows
  <2>7. f * lo \in Nat /\ p * lo \in Nat /\ q * hi \in Nat /\ Ceiling * hi \in Nat
    BY <2>3, <2>5
  <2>8. executed >= f * lo /\ executed < Ceiling * hi
    BY <2>5, <2>6, <2>7
  <2> QED BY <2>2, <2>8 DEF lo, hi
<1>2. RInv => PriceIsBounded
  BY <1>1 DEF PriceIsBounded
<1> QED BY <1>2, RouterInvariance, PTL
=============================================================================
