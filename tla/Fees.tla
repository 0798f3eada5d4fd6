-------------------------------- MODULE Fees --------------------------------
(***************************************************************************)
(* The gas limit and the fee of a transaction, as buildSignAndBroadcast    *)
(* finds them: the chain's fee-free gas limit from a cache, then for each  *)
(* attempt either no fee, or a simulation and a fee over the floor of the  *)
(* fee market; more gas after the chain has reported too little.  Module   *)
(* TxSender has the sequence numbers and the deliveries of the same loop.  *)
(*                                                                         *)
(* The chain is external: its limits, its minimum gas price and its free   *)
(* epochs change at any time, and every query may fail.                    *)
(***************************************************************************)
EXTENDS Integers

CONSTANTS
  Limits,         \* the limits a chain may have registered for the message
  NoEntry,        \* the message is not in the chain's table
  NoCache,        \* no table has been fetched yet
  Fallback,       \* feeFreeFallback of the message
  Units,          \* unitCountForMsg of the messages sent
  Simulations,    \* what simulateGas may return
  Needs,          \* the gas the execution may take
  GasPrice,       \* gasPrices
  MinGasPrices,   \* the minimum gas prices the chain may have
  MaxRetries,     \* txMaxRetries
  NumEndpoints,   \* len(grpcEndpoints)
  MaxChanges      \* bound on the changes of the chain

Limit == [base : Nat, perUnit : Nat]

ASSUME LimitsAssumption == Limits \subseteq Limit /\ Fallback \in Limit /\ Fallback.base > 0
ASSUME NoLimitAssumption == NoEntry \notin Limits /\ NoCache \notin Limits /\ NoEntry # NoCache
ASSUME GasAssumption ==
  /\ Units \subseteq Nat \ {0}
  /\ Simulations \subseteq Nat \ {0} /\ Needs \subseteq Nat
ASSUME PricesAssumption == GasPrice \in Nat /\ MinGasPrices \subseteq Nat
ASSUME AttemptsAssumption ==
  /\ MaxRetries \in Nat /\ NumEndpoints \in Nat \ {0} /\ MaxChanges \in Nat

VARIABLES
  registered,  \* the limits the chain has for the message, or NoEntry
  minPrice,    \* the fee market's MinGasPrice
  freeNow,     \* the current epoch is below FreeMiningUntilEpoch
  changes,     \* how many times the chain has changed
  cache,       \* the entry of gasLimitsCache, NoEntry in one without, or NoCache
  fresh,       \* the cache is younger than feeFreeGasLimitsTTL
  pc,          \* where the call is
  units,       \* its unitCount
  need,        \* the gas its message will take
  gasLimit,    \* gasLimit
  attempt,     \* attempt
  endpoint,    \* endpointAttempt
  free,        \* useFreeGas
  estGas,      \* estGas
  fee,         \* fees
  asked,       \* history: the minimum gas price the fee is based on
  short        \* history: the most gas the chain has found too little

chainVars == <<registered, minPrice, freeNow, changes>>
cacheVars == <<cache, fresh>>
messageVars == <<units, need>>
roundVars == <<attempt, endpoint>>
txVars == <<free, estGas, fee, asked>>
vars == <<chainVars, cacheVars, pc, messageVars, gasLimit, roundVars, txVars, short>>

Init ==
  /\ registered \in Limits \union {NoEntry}
  /\ minPrice \in MinGasPrices
  /\ freeNow \in BOOLEAN
  /\ changes = 0
  /\ cache = NoCache /\ fresh = FALSE
  /\ pc = "idle"
  /\ units = 0 /\ need = 0 /\ gasLimit = 0
  /\ attempt = 0 /\ endpoint = 0
  /\ free = FALSE /\ estGas = 0 /\ fee = 0 /\ asked = 0
  /\ short = 0

-----------------------------------------------------------------------------
(* Arithmetic *)

\* uint64(float64(gas) * 1.2 + 0.9999), and the same with 1.3.
Adjusted(gas) == (12 * gas + 9) \div 10
Grown(gas) == (13 * gas + 9) \div 10

AtLeast(m, n) == IF m < n THEN n ELSE m

\* base + perUnit * n, when that is above zero.
Gas(limit) == limit.base + limit.perUnit * units
GasFrom_NoFallback(entry) ==
  IF entry \in {NoEntry, NoCache} THEN Gas(Fallback) ELSE Gas(entry)
GasFrom(entry) ==
  IF entry \in {NoEntry, NoCache} THEN Gas(Fallback)
  ELSE IF Gas(entry) > 0 THEN Gas(entry) ELSE Gas(Fallback)

\* The fee for so much gas over a minimum price: prices in tenths, for the
\* margin of 1.1; at least one coin.
FeeFor_NoMargin(gas, min) ==
  AtLeast(1, (gas * AtLeast(10 * GasPrice, 10 * min) + 9) \div 10)
FeeFor(gas, min) ==
  AtLeast(1, (gas * AtLeast(10 * GasPrice, 11 * min) + 9) \div 10)

-----------------------------------------------------------------------------
(* The chain *)

Changes ==
  /\ changes < MaxChanges
  /\ changes' = changes + 1
  /\ \/ registered' \in Limits \union {NoEntry} /\ UNCHANGED <<minPrice, freeNow>>
     \/ minPrice' \in MinGasPrices /\ UNCHANGED <<registered, freeNow>>
     \/ freeNow' = ~freeNow /\ UNCHANGED <<registered, minPrice>>
  /\ UNCHANGED <<cacheVars, pc, messageVars, gasLimit, roundVars, txVars, short>>

Expires ==
  /\ fresh
  /\ fresh' = FALSE
  /\ UNCHANGED <<chainVars, cache, pc, messageVars, gasLimit, roundVars, txVars, short>>

-----------------------------------------------------------------------------
(* buildSignAndBroadcast *)

Begins(u, n) ==
  /\ pc = "idle"
  /\ units' = u
  /\ need' = n
  /\ pc' = "limits"
  /\ UNCHANGED <<chainVars, cacheVars, gasLimit, roundVars, txVars, short>>

\* The local variables of a call go with it.
Forgotten ==
  /\ units' = 0 /\ need' = 0 /\ gasLimit' = 0
  /\ attempt' = 0 /\ endpoint' = 0
  /\ free' = FALSE /\ estGas' = 0 /\ fee' = 0 /\ asked' = 0
  /\ short' = 0

\* feeFreeMinGasOrDefault
LimitsKnown ==
  /\ pc = "limits"
  /\ cache # NoCache /\ fresh
  /\ gasLimit' = GasFrom(cache)
  /\ pc' = "eligible"
  /\ UNCHANGED <<chainVars, cacheVars, messageVars, roundVars, txVars, short>>

LimitsAnswered ==
  /\ pc = "limits"
  /\ cache = NoCache \/ ~fresh
  /\ cache' = registered
  /\ fresh' = TRUE
  /\ gasLimit' = GasFrom(registered)
  /\ pc' = "eligible"
  /\ UNCHANGED <<chainVars, messageVars, roundVars, txVars, short>>

\* The fallback is used even if there is an older entry in the cache.
LimitsFail ==
  /\ pc = "limits"
  /\ cache = NoCache \/ ~fresh
  /\ gasLimit' = Gas(Fallback)
  /\ pc' = "eligible"
  /\ UNCHANGED <<chainVars, cacheVars, messageVars, roundVars, txVars, short>>

\* isFreeGasEligible: it is not when a query fails.
Waived_Adjusted ==
  /\ free' = TRUE
  /\ estGas' = Adjusted(gasLimit)
  /\ fee' = 0
  /\ pc' = "broadcast"
Waived ==
  /\ free' = TRUE
  /\ estGas' = gasLimit
  /\ fee' = 0
  /\ pc' = "broadcast"
EligibleAnswered ==
  /\ pc = "eligible"
  /\ IF freeNow THEN Waived
     ELSE free' = FALSE /\ pc' = "simulate" /\ UNCHANGED <<estGas, fee>>
  /\ UNCHANGED <<chainVars, cacheVars, messageVars, gasLimit, roundVars, asked, short>>

EligibleFails ==
  /\ pc = "eligible"
  /\ free' = FALSE
  /\ pc' = "simulate"
  /\ UNCHANGED <<chainVars, cacheVars, messageVars, gasLimit, roundVars, estGas, fee, asked, short>>

\* The limit stands in for a simulation that fails, and is the least in any
\* case.
Estimate_Simulation(sim) == Adjusted(sim)
Estimate(sim) == AtLeast(Adjusted(sim), gasLimit)
Simulate ==
  /\ pc = "simulate"
  /\ \E sim \in Simulations \union {gasLimit} : estGas' = Estimate(sim)
  /\ pc' = "fees"
  /\ UNCHANGED <<chainVars, cacheVars, messageVars, gasLimit, roundVars, free, fee, asked, short>>

\* computeFees
FloorAnswered ==
  /\ pc = "fees"
  /\ asked' = minPrice
  /\ fee' = FeeFor(estGas, minPrice)
  /\ pc' = "broadcast"
  /\ UNCHANGED <<chainVars, cacheVars, messageVars, gasLimit, roundVars, free, estGas, short>>

\* The floor has no value then, and IsPositive dereferences it: the program
\* ends.
FloorFails ==
  /\ pc = "fees"
  /\ pc' = "panicked"
  /\ UNCHANGED <<chainVars, cacheVars, messageVars, gasLimit, roundVars, txVars, short>>

\* Docker starts it again.
Restart ==
  /\ pc = "panicked"
  /\ pc' = "idle"
  /\ cache' = NoCache /\ fresh' = FALSE
  /\ Forgotten
  /\ UNCHANGED chainVars

\* The call returns, with the transaction, with an error that is not retried,
\* or for want of another attempt; its local variables go with it.
Ends ==
  /\ pc = "broadcast"
  /\ pc' = "idle"
  /\ Forgotten
  /\ UNCHANGED <<chainVars, cacheVars>>

\* The next attempt, at the next endpoint after the last one.
GoesOn == attempt < MaxRetries \/ endpoint + 1 < NumEndpoints
NextAttempt ==
  /\ GoesOn
  /\ pc' = "eligible"
  /\ IF attempt < MaxRetries
     THEN attempt' = attempt + 1 /\ UNCHANGED endpoint
     ELSE attempt' = 0 /\ endpoint' = endpoint + 1
  /\ UNCHANGED <<chainVars, cacheVars, messageVars, txVars>>

OutOfGas ==
  /\ pc = "broadcast"
  /\ estGas < need
  /\ gasLimit' = Grown(estGas)
  /\ short' = AtLeast(short, estGas)
  /\ NextAttempt

\* No answer, or another error.
Rejected ==
  /\ pc = "broadcast"
  /\ NextAttempt
  /\ UNCHANGED <<gasLimit, short>>

Next ==
  \/ Changes \/ Expires
  \/ \E u \in Units, n \in Needs : Begins(u, n)
  \/ LimitsKnown \/ LimitsAnswered \/ LimitsFail
  \/ EligibleAnswered \/ EligibleFails \/ Simulate
  \/ FloorAnswered \/ FloorFails \/ Restart
  \/ Ends \/ OutOfGas \/ Rejected

Spec == Init /\ [][Next]_vars

-----------------------------------------------------------------------------
(* Properties *)

Places == {"idle", "limits", "eligible", "simulate", "fees", "broadcast", "panicked"}

\* A message never goes out without gas.
FeesTypeOK ==
  /\ registered \in Limits \union {NoEntry}
  /\ minPrice \in MinGasPrices
  /\ freeNow \in BOOLEAN
  /\ changes \in 0 .. MaxChanges
  /\ cache \in Limits \union {NoEntry, NoCache}
  /\ fresh \in BOOLEAN
  /\ pc \in Places
  /\ units \in Units \union {0}
  /\ need \in Needs \union {0}
  /\ gasLimit \in Nat /\ estGas \in Nat
  /\ pc \in {"eligible", "simulate", "fees", "broadcast"} => gasLimit > 0 /\ units > 0
  /\ pc \in {"fees", "broadcast"} => estGas > 0
  /\ attempt \in 0 .. MaxRetries
  /\ endpoint \in 0 .. NumEndpoints - 1
  /\ free \in BOOLEAN
  /\ fee \in Nat /\ asked \in Nat /\ short \in Nat

\* No attempt repeats an amount of gas that the chain has already found too
\* little, although the attempts of a call alternate between free and paid
\* ones, each with an estimate of its own (transactions.go:160-184, 241-243).
ShortGasNotRepeated ==
  pc = "broadcast" /\ short > 0 => estGas > short

\* A paid transaction meets the chain's minimum price when it is sent, unless
\* that has risen by more than a tenth since the client asked (chain.go:318-356).
PaidFeeSuffices ==
  pc = "broadcast" /\ ~free =>
    /\ fee > 0
    /\ 10 * minPrice <= 11 * asked => fee >= minPrice * estGas

\* A free transaction names the limit of the chain's table, or the fallback,
\* and none in between, until the chain has called it short: the ante check
\* takes no more than a multiple of that limit (chain.go:380-384,
\* transactions.go:158-169).
FreeGasIsTableGas ==
  pc = "broadcast" /\ free /\ short = 0 =>
    estGas \in {Gas(Fallback)} \union (IF cache = NoCache THEN {} ELSE {GasFrom(cache)})

\* "Enforce floor if present" (chain.go:338): without one the call goes on.
FloorIsOptional == pc # "panicked"
=============================================================================
