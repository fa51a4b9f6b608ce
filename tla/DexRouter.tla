------------------------------- MODULE DexRouter -------------------------------
(***************************************************************************)
(* What one order costs its client: MockDexRouter, and the attempts of     *)
(* MarketOrderExecutor that call it. Prices are exact integers where the   *)
(* code has floating-point numbers: variances and fees are in per mille, a *)
(* quote is in millionths of its unit and an executed price in units of    *)
(* 1/2000 of a quote.                                                      *)
(***************************************************************************)
EXTENDS Integers

CONSTANTS
  Base,          (* calculateBasePrice of the order, in some unit            *)
  RaydiumDraws,  (* the variances Raydium's market may show, in per mille    *)
  MeteoraDraws,  (* the same for Meteora                                     *)
  Slippages,     (* the slippages clients accept, in per mille               *)
  MaxAttempts,   (* QUEUE_CONFIG.MAX_ATTEMPTS                                *)
  None           (* no value                                                 *)

DEXes == {"raydium", "meteora"}

(* DEX_CONFIG; a draw lies in [PRICE_VARIANCE_MIN, PRICE_VARIANCE_MAX).      *)
Fee(d) == IF d = "raydium" THEN 3 ELSE 2
VarianceMin(d) == IF d = "raydium" THEN 980 ELSE 970
VarianceMax == 1020

Draws(d) == IF d = "raydium" THEN RaydiumDraws ELSE MeteoraDraws

ASSUME RouterAssumption ==
  /\ Base \in Nat \ {0}
  /\ \A d \in DEXes : Draws(d) \subseteq VarianceMin(d)..(VarianceMax - 1)
  /\ Slippages \subseteq 1..100
  /\ MaxAttempts \in Nat \ {0}
  /\ None \notin Nat \cup DEXes

VARIABLES
  slippage,   (* the slippage of the order                                   *)
  attempt,    (* the attempt in progress                                     *)
  step,       (* what the attempt waits for, or how it ended                 *)
  calls,      (* calls[n][d]: the call for a quote of DEX d in attempt n     *)
  quotes,     (* quotes[n][d]: the effective price it answered               *)
  best,       (* the DEX that was selected                                   *)
  executed    (* the executed price                                          *)

routerVars == <<slippage, attempt, step, calls, quotes, best, executed>>

Attempts == 1..MaxAttempts

TypeOK ==
  /\ slippage \in Slippages
  /\ attempt \in Attempts
  /\ step \in {"quoting", "routed", "refused", "swapped"}
  /\ calls \in [Attempts -> [DEXes -> {"idle", "asked", "answered", "failed"}]]
  /\ quotes \in [Attempts -> [DEXes -> Nat \cup {None}]]
  /\ best \in DEXes \cup {None}
  /\ executed \in Nat \cup {None}

(* Both quotes are asked for at once. *)
Asked == [d \in DEXes |-> "asked"]

Init ==
  /\ slippage \in Slippages
  /\ attempt = 1
  /\ step = "quoting"
  /\ calls = [n \in Attempts |-> IF n = 1 THEN Asked ELSE [d \in DEXes |-> "idle"]]
  /\ quotes = [n \in Attempts |-> [d \in DEXes |-> None]]
  /\ best = None
  /\ executed = None

-----------------------------------------------------------------------------
(* Mutant of EffectivePrice: the fee is added. *)
EffectivePriceFeeAdded(d, variance) == Base * variance * (1000 + Fee(d))

EffectivePrice(d, variance) == Base * variance * (1000 - Fee(d))

(* A DEX answers. Its answer to an attempt that has been given up may come   *)
(* during the next one.                                                      *)
GetQuote(n, d) ==
  /\ calls[n][d] = "asked"
  /\ calls' = [calls EXCEPT ![n][d] = "answered"]
  /\ \E v \in Draws(d) : quotes' = [quotes EXCEPT ![n][d] = EffectivePrice(d, v)]
  /\ UNCHANGED <<slippage, attempt, step, best, executed>>

(* A DEX refuses. Promise.all rejects with the first refusal, and the attempt*)
(* fails without waiting for the other DEX.                                  *)
RefuseQuote(n, d) ==
  /\ calls[n][d] = "asked"
  /\ calls' = [calls EXCEPT ![n][d] = "failed"]
  /\ step' = IF n = attempt THEN "refused" ELSE step
  /\ UNCHANGED <<slippage, attempt, quotes, best, executed>>

(* Mutant of GetBestQuote: the first answer is taken. *)
GetBestQuoteFirst ==
  /\ step = "quoting"
  /\ \E d \in DEXes : calls[attempt][d] = "answered" /\ best' = d
  /\ step' = "routed"
  /\ UNCHANGED <<slippage, attempt, calls, quotes, executed>>

(* Both have answered: the higher effective price wins, and Meteora a tie.   *)
GetBestQuote ==
  /\ step = "quoting"
  /\ \A d \in DEXes : calls[attempt][d] = "answered"
  /\ best' = IF quotes[attempt]["raydium"] > quotes[attempt]["meteora"]
               THEN "raydium" ELSE "meteora"
  /\ step' = "routed"
  /\ UNCHANGED <<slippage, attempt, calls, quotes, executed>>

(* The swap: the price moves by up to half of the slippage either way.       *)
ExecuteSwap ==
  /\ step = "routed"
  /\ \E k \in -slippage..(slippage - 1) :
       executed' = quotes[attempt][best] * (2000 + k)
  /\ step' = "swapped"
  /\ UNCHANGED <<slippage, attempt, calls, quotes, best>>

(* The DEX refuses the swap. *)
RefuseSwap ==
  /\ step = "routed"
  /\ step' = "refused"
  /\ UNCHANGED <<slippage, attempt, calls, quotes, best, executed>>

(* Mutant of Retry: one attempt too many. *)
RetryOffByOne ==
  /\ step = "refused"
  /\ attempt <= MaxAttempts
  /\ attempt' = attempt + 1
  /\ step' = "quoting"
  /\ calls' = [calls EXCEPT ![attempt + 1] = Asked]
  /\ best' = None
  /\ UNCHANGED <<slippage, quotes, executed>>

(* The queue tries the order again, with quotes of its own. *)
Retry ==
  /\ step = "refused"
  /\ attempt < MaxAttempts
  /\ attempt' = attempt + 1
  /\ step' = "quoting"
  /\ calls' = [calls EXCEPT ![attempt + 1] = Asked]
  /\ best' = None
  /\ UNCHANGED <<slippage, quotes, executed>>

(* The order is done with, and no answer is missing. *)
Done ==
  /\ step = "swapped" \/ (step = "refused" /\ attempt = MaxAttempts)
  /\ \A n \in Attempts, d \in DEXes : calls[n][d] # "asked"
  /\ UNCHANGED routerVars

Next ==
  \/ \E n \in Attempts, d \in DEXes : GetQuote(n, d) \/ RefuseQuote(n, d)
  \/ GetBestQuote
  \/ ExecuteSwap
  \/ RefuseSwap
  \/ Retry
  \/ Done

Spec == Init /\ [][Next]_routerVars
-----------------------------------------------------------------------------
(* The client is served at the best price it could have had: the executed one*)
(* is worse than no quote of its attempt, whichever came first, by more than *)
(* half of the slippage the client accepts. Answers to an attempt that was   *)
(* given up play no part.                                                    *)
SwapHonoursEveryQuote ==
  executed # None =>
    \A d \in DEXes :
      quotes[attempt][d] # None => executed >= quotes[attempt][d] * (2000 - slippage)

(* Whatever the markets show and the DEXes refuse, the price keeps to bounds *)
(* that the client can compute from the base price and its own slippage. The *)
(* lower one is that of Raydium, the better of the two floors: the choice of *)
(* the best quote keeps the client from Meteora's.                           *)
PriceIsBounded ==
  executed # None =>
    /\ executed >= Base * 980 * 997 * (2000 - slippage)
    /\ executed <  Base * 1020 * 998 * (2000 + slippage)
=============================================================================
