----------------------------- MODULE FeesProofs -----------------------------
(* Theorems about the gas and the fees of Fees. *)
EXTENDS Fees, TLAPS

InAttempt == {"eligible", "simulate", "fees", "broadcast"}
HasEstimate == {"fees", "broadcast"}

\* What makes ShortGasNotRepeated inductive: gasLimit carries the report of one
\* attempt over to the next, and no estimate is below it.
GasInv ==
  /\ pc \in {"idle", "limits"} => short = 0
  /\ pc = "limits" => units > 0
  /\ pc \in InAttempt => gasLimit > short
  /\ pc \in HasEstimate => estGas >= gasLimit
  /\ pc = "broadcast" /\ free => estGas = gasLimit
  /\ pc \in {"simulate", "fees"} => ~free

\* Until the chain has called it short, gasLimit is what the limits gave.
TableInv ==
  pc \in InAttempt /\ short = 0 =>
    gasLimit \in {Gas(Fallback)} \union (IF cache = NoCache THEN {} ELSE {GasFrom(cache)})

\* The fee of a paid attempt is that of the price it has asked for.
FeeInv == pc = "broadcast" /\ ~free => fee = FeeFor(estGas, asked)

FeesInv == FeesTypeOK /\ GasInv /\ TableInv /\ FeeInv

-----------------------------------------------------------------------------
(* Arithmetic *)

LEMMA GrownGrows ==
  ASSUME NEW gas \in Nat \ {0}
  PROVE  Grown(gas) \in Nat /\ Grown(gas) > gas
BY DEF Grown

LEMMA AdjustedIsNat ==
  ASSUME NEW gas \in Nat
  PROVE  Adjusted(gas) \in Nat
BY DEF Adjusted

LEMMA GasIsNat ==
  ASSUME NEW limit \in Limits \union {Fallback}, units \in Nat
  PROVE  Gas(limit) \in Nat
<1>1. limit.base \in Nat /\ limit.perUnit \in Nat
  BY LimitsAssumption DEF Limit
<1>2. limit.perUnit * units \in Nat
  BY <1>1
<1> QED BY <1>1, <1>2 DEF Gas

LEMMA FallbackIsPositive ==
  ASSUME units \in Nat
  PROVE  Gas(Fallback) \in Nat /\ Gas(Fallback) > 0
<1>1. Fallback.base \in Nat /\ Fallback.base > 0 /\ Fallback.perUnit \in Nat
  BY LimitsAssumption DEF Limit
<1>2. Fallback.perUnit * units \in Nat
  BY <1>1
<1> QED BY <1>1, <1>2 DEF Gas

LEMMA GasFromIsPositive ==
  ASSUME NEW entry \in Limits \union {NoEntry, NoCache}, units \in Nat
  PROVE  GasFrom(entry) \in Nat /\ GasFrom(entry) > 0
BY GasIsNat, FallbackIsPositive DEF GasFrom

LEMMA FeeIsPositive ==
  ASSUME NEW gas \in Nat, NEW min \in Nat
  PROVE  FeeFor(gas, min) \in Nat /\ FeeFor(gas, min) > 0
<1> DEFINE price == AtLeast(10 * GasPrice, 11 * min)
           paid == gas * price
<1>1. price \in Nat
  BY PricesAssumption DEF AtLeast
<1>2. paid \in Nat
  BY <1>1
<1> HIDE DEF paid
<1>3. (paid + 9) \div 10 \in Nat
  BY <1>2
<1>4. FeeFor(gas, min) = AtLeast(1, (paid + 9) \div 10)
  BY DEF FeeFor, paid
<1> QED BY <1>3, <1>4 DEF AtLeast

\* The fee covers every price up to a tenth above the one it is made for.
LEMMA FeeCovers ==
  ASSUME NEW gas \in Nat, NEW min \in Nat, NEW later \in Nat, 10 * later <= 11 * min
  PROVE  FeeFor(gas, min) >= later * gas
<1> DEFINE price == AtLeast(10 * GasPrice, 11 * min)
           paid == gas * price
<1>1. price \in Nat /\ price >= 10 * later
  BY PricesAssumption DEF AtLeast
<1> HIDE DEF price
<1>2. gas * price >= gas * (10 * later)
  <2>1. \A a, b, c \in Nat : b >= c => a * b >= a * c
    OBVIOUS
  <2> QED BY <1>1, <2>1
<1>3. paid \in Nat /\ later * gas \in Nat /\ paid >= 10 * (later * gas)
  BY <1>1, <1>2
<1> HIDE DEF paid
<1>4. (paid + 9) \div 10 \in Nat /\ (paid + 9) \div 10 >= later * gas
  <2> DEFINE due == later * gas
  <2>1. due \in Nat /\ paid >= 10 * due
    BY <1>3
  <2> HIDE DEF due
  <2>2. (paid + 9) \div 10 >= due /\ (paid + 9) \div 10 \in Nat
    BY <1>3, <2>1
  <2> QED BY <2>2 DEF due
<1>5. FeeFor(gas, min) = AtLeast(1, (paid + 9) \div 10)
  BY DEF FeeFor, paid, price
<1> QED BY <1>3, <1>4, <1>5 DEF AtLeast

-----------------------------------------------------------------------------
(* The invariant *)

\* The conjuncts of FeesTypeOK that are about Boolean variables, and the others.
Flags == freeNow \in BOOLEAN /\ fresh \in BOOLEAN /\ free \in BOOLEAN
ChainTypes ==
  /\ registered \in Limits \union {NoEntry}
  /\ minPrice \in MinGasPrices
  /\ changes \in 0 .. MaxChanges
CallTypes ==
  /\ cache \in Limits \union {NoEntry, NoCache}
  /\ pc \in Places
  /\ units \in Units \union {0}
  /\ need \in Needs \union {0}
  /\ gasLimit \in Nat /\ estGas \in Nat
  /\ pc \in {"eligible", "simulate", "fees", "broadcast"} => gasLimit > 0 /\ units > 0
  /\ pc \in {"fees", "broadcast"} => estGas > 0
  /\ attempt \in 0 .. MaxRetries
  /\ endpoint \in 0 .. NumEndpoints - 1
  /\ fee \in Nat /\ asked \in Nat /\ short \in Nat

LEMMA TypesSplit == FeesTypeOK <=> Flags /\ ChainTypes /\ CallTypes
BY DEF FeesTypeOK, Flags, ChainTypes, CallTypes

LEMMA FeesInit == Init => FeesInv
<1> SUFFICES ASSUME Init PROVE FeesInv
  OBVIOUS
<1>1. Flags
  BY DEF Init, Flags
<1>2. ChainTypes /\ CallTypes
  BY AttemptsAssumption DEF Init, ChainTypes, CallTypes, Places
<1>3. GasInv /\ TableInv /\ FeeInv
  BY DEF Init, GasInv, TableInv, FeeInv, InAttempt, HasEstimate
<1> QED BY <1>1, <1>2, <1>3, TypesSplit DEF FeesInv

LEMMA NextAttemptRounds ==
  ASSUME FeesTypeOK, NextAttempt
  PROVE  attempt' \in 0 .. MaxRetries /\ endpoint' \in 0 .. NumEndpoints - 1
BY AttemptsAssumption DEF FeesTypeOK, NextAttempt, GoesOn

LEMMA FeesStep == FeesInv /\ [Next]_vars => FeesInv'
<1> SUFFICES ASSUME FeesInv, [Next]_vars PROVE FeesInv'
  OBVIOUS
<1> USE DEF InAttempt, HasEstimate
<1>a. FeesTypeOK /\ GasInv /\ TableInv /\ FeeInv
  BY DEF FeesInv
<1>0. Flags /\ ChainTypes /\ CallTypes
  BY <1>a, TypesSplit
<1>b. units \in Nat /\ cache \in Limits \union {NoEntry, NoCache}
      /\ registered \in Limits \union {NoEntry} /\ minPrice \in Nat
  BY <1>a, GasAssumption, PricesAssumption DEF FeesTypeOK
<1>c. /\ Gas(Fallback) \in Nat /\ Gas(Fallback) > 0
      /\ GasFrom(cache) \in Nat /\ GasFrom(cache) > 0
      /\ GasFrom(registered) \in Nat /\ GasFrom(registered) > 0
  BY <1>b, FallbackIsPositive, GasFromIsPositive
<1>1. CASE Changes
  <2>1. FeesTypeOK'
    <3>1. Flags'
      BY <1>1, <1>0 DEF Flags, Changes, cacheVars, txVars
    <3>2. ChainTypes'
      BY <1>1, <1>0, AttemptsAssumption DEF ChainTypes, Changes
    <3>3. CallTypes'
      BY <1>1, <1>0 DEF CallTypes, Changes, cacheVars, messageVars, roundVars, txVars
    <3> QED BY <3>1, <3>2, <3>3 DEF FeesTypeOK, Flags, ChainTypes, CallTypes
  <2>2. (GasInv /\ TableInv /\ FeeInv)'
    BY <1>1, <1>a DEF GasInv, TableInv, FeeInv, Gas, GasFrom, FeeFor, Changes, cacheVars,
                      messageVars, roundVars, txVars
  <2> QED BY <2>1, <2>2 DEF FeesInv
<1>2. CASE Expires
  <2>1. FeesTypeOK'
    BY <1>2, <1>a DEF FeesTypeOK, Expires, chainVars, messageVars, roundVars, txVars
  <2>2. (GasInv /\ TableInv /\ FeeInv)'
    BY <1>2, <1>a DEF GasInv, TableInv, FeeInv, Gas, GasFrom, FeeFor, Expires, chainVars,
                      messageVars, roundVars, txVars
  <2> QED BY <2>1, <2>2 DEF FeesInv
<1>3. ASSUME NEW u \in Units, NEW n \in Needs, Begins(u, n) PROVE FeesInv'
  <2>1. FeesTypeOK'
    BY <1>3, <1>a DEF FeesTypeOK, Begins, chainVars, cacheVars, roundVars, txVars, Places
  <2>2. (GasInv /\ TableInv /\ FeeInv)'
    BY <1>3, <1>a, GasAssumption DEF GasInv, TableInv, FeeInv, Begins
  <2> QED BY <2>1, <2>2 DEF FeesInv
<1>4. ASSUME LimitsKnown \/ LimitsAnswered \/ LimitsFail PROVE FeesInv'
  <2>1. /\ pc = "limits" /\ pc' = "eligible" /\ units' = units /\ short' = short
        /\ gasLimit' \in {GasFrom(cache), GasFrom(registered), Gas(Fallback)}
        /\ gasLimit' = Gas(Fallback) \/ (cache' # NoCache /\ gasLimit' = GasFrom(cache'))
    BY <1>4, <1>b, NoLimitAssumption
       DEF LimitsKnown, LimitsAnswered, LimitsFail, messageVars, cacheVars
  <2>2. gasLimit' \in Nat /\ gasLimit' > 0 /\ units' > 0 /\ short' = 0
    <3>1. short = 0 /\ units > 0
      BY <1>a, <2>1 DEF GasInv
    <3> QED BY <2>1, <1>c, <3>1
  <2>3. FeesTypeOK'
    BY <1>4, <1>a, <2>2 DEF FeesTypeOK, LimitsKnown, LimitsAnswered, LimitsFail, chainVars,
                            cacheVars, messageVars, roundVars, txVars, Places
  <2>4. (GasInv /\ TableInv /\ FeeInv)'
    BY <2>1, <2>2 DEF GasInv, TableInv, FeeInv, Gas, GasFrom
  <2> QED BY <2>3, <2>4 DEF FeesInv
<1>5. ASSUME EligibleAnswered \/ EligibleFails PROVE FeesInv'
  <2>1. /\ pc = "eligible" /\ UNCHANGED <<cache, units, gasLimit, short>>
        /\ \/ pc' = "broadcast" /\ free' = TRUE /\ estGas' = gasLimit
           \/ pc' = "simulate" /\ free' = FALSE
    BY <1>5 DEF EligibleAnswered, EligibleFails, Waived, messageVars, cacheVars
  <2>2. FeesTypeOK'
    <3>1. Flags'
      BY <1>5, <1>0 DEF Flags, EligibleAnswered, EligibleFails, Waived, chainVars, cacheVars, messageVars, roundVars
    <3>2. ChainTypes'
      BY <1>5, <1>0 DEF ChainTypes, EligibleAnswered, EligibleFails, Waived, chainVars
    <3>3. CallTypes'
      BY <1>5, <1>0 DEF CallTypes, EligibleAnswered, EligibleFails, Waived, chainVars, cacheVars, messageVars, roundVars, Places
    <3> QED BY <3>1, <3>2, <3>3 DEF FeesTypeOK, Flags, ChainTypes, CallTypes
  <2>3. (GasInv /\ TableInv /\ FeeInv)'
    BY <2>1, <1>a DEF GasInv, TableInv, FeeInv, Gas, GasFrom, FeesTypeOK
  <2> QED BY <2>2, <2>3 DEF FeesInv
<1>6. ASSUME Simulate PROVE FeesInv'
  <2>1. PICK sim \in Simulations \union {gasLimit} : estGas' = Estimate(sim)
    BY <1>6 DEF Simulate
  <2>2. gasLimit \in Nat /\ gasLimit > 0 /\ sim \in Nat
    BY <1>6, <1>a, GasAssumption DEF FeesTypeOK, Simulate
  <2>3. Adjusted(sim) \in Nat
    BY <2>2, AdjustedIsNat
  <2>4. estGas' \in Nat /\ estGas' >= gasLimit
    BY <2>1, <2>2, <2>3 DEF Estimate, AtLeast
  <2>5. FeesTypeOK'
    BY <1>6, <1>a, <2>2, <2>4 DEF FeesTypeOK, Simulate, chainVars, cacheVars, messageVars,
                            roundVars, Places
  <2>6. (GasInv /\ TableInv /\ FeeInv)'
    BY <1>6, <1>a, <2>4 DEF GasInv, TableInv, FeeInv, Gas, GasFrom, Simulate, cacheVars,
                            messageVars
  <2> QED BY <2>5, <2>6 DEF FeesInv
<1>7. ASSUME FloorAnswered PROVE FeesInv'
  <2>1. fee' \in Nat /\ fee' = FeeFor(estGas, minPrice) /\ asked' = minPrice
    BY <1>7, <1>a, <1>b, FeeIsPositive DEF FloorAnswered, FeesTypeOK
  <2>2. FeesTypeOK'
    <3>1. Flags'
      BY <1>7, <1>0 DEF Flags, FloorAnswered, chainVars, cacheVars, messageVars, roundVars
    <3>2. ChainTypes'
      BY <1>7, <1>0 DEF ChainTypes, FloorAnswered, chainVars
    <3>3. CallTypes'
      BY <1>7, <1>0, <1>b, <2>1 DEF CallTypes, FloorAnswered, chainVars, cacheVars, messageVars, roundVars, Places
    <3> QED BY <3>1, <3>2, <3>3 DEF FeesTypeOK, Flags, ChainTypes, CallTypes
  <2>3. GasInv' /\ TableInv'
    <3>1. /\ pc = "fees" /\ pc' = "broadcast"
          /\ UNCHANGED <<cache, units, gasLimit, estGas, short>>
          /\ free' = free
      BY <1>7 DEF FloorAnswered, cacheVars, messageVars
    <3>2. ~free
      BY <1>a, <3>1 DEF GasInv
    <3> QED BY <1>a, <3>1, <3>2 DEF GasInv, TableInv, Gas, GasFrom
  <2>4. FeeInv'
    BY <1>7, <2>1 DEF FeeInv, FeeFor, FloorAnswered
  <2> QED BY <2>2, <2>3, <2>4 DEF FeesInv
<1>8. ASSUME FloorFails PROVE FeesInv'
  <2>1. FeesTypeOK'
    BY <1>8, <1>a DEF FeesTypeOK, FloorFails, chainVars, cacheVars, messageVars,
                      roundVars, txVars, Places
  <2>2. (GasInv /\ TableInv /\ FeeInv)'
    BY <1>8 DEF GasInv, TableInv, FeeInv, FloorFails
  <2> QED BY <2>1, <2>2 DEF FeesInv
<1>9. ASSUME Restart \/ Ends PROVE FeesInv'
  <2>1. FeesTypeOK'
    <3>1. Flags'
      BY <1>9, <1>0 DEF Flags, Restart, Ends, Forgotten, chainVars, cacheVars
    <3>2. ChainTypes'
      BY <1>9, <1>0 DEF ChainTypes, Restart, Ends, Forgotten, chainVars
    <3>3. CallTypes'
      BY <1>9, <1>0, AttemptsAssumption DEF CallTypes, Restart, Ends, Forgotten, chainVars, cacheVars, Places
    <3> QED BY <3>1, <3>2, <3>3 DEF FeesTypeOK, Flags, ChainTypes, CallTypes
  <2>2. (GasInv /\ TableInv /\ FeeInv)'
    BY <1>9 DEF GasInv, TableInv, FeeInv, Restart, Ends, Forgotten
  <2> QED BY <2>1, <2>2 DEF FeesInv
<1>10. ASSUME OutOfGas \/ Rejected PROVE FeesInv'
  <2>1. /\ pc = "broadcast" /\ pc' = "eligible" /\ estGas \in Nat \ {0} /\ gasLimit \in Nat
        /\ short \in Nat /\ estGas >= gasLimit /\ gasLimit > short
    BY <1>10, <1>a DEF OutOfGas, Rejected, NextAttempt, FeesTypeOK, GasInv
  <2>2. /\ NextAttempt /\ UNCHANGED <<chainVars, cacheVars, messageVars, txVars>>
        /\ \/ gasLimit' = Grown(estGas) /\ short' = estGas
           \/ gasLimit' = gasLimit /\ short' = short
    BY <1>10, <2>1 DEF OutOfGas, Rejected, NextAttempt, AtLeast
  <2>3. gasLimit' \in Nat /\ short' \in Nat /\ gasLimit' > short'
    BY <2>1, <2>2, GrownGrows
  <2>4. attempt' \in 0 .. MaxRetries /\ endpoint' \in 0 .. NumEndpoints - 1
    BY <1>a, <2>2, NextAttemptRounds
  <2>5. FeesTypeOK'
    BY <1>a, <2>1, <2>2, <2>3, <2>4 DEF FeesTypeOK, chainVars, cacheVars, messageVars,
                                        txVars, Places
  <2>6. GasInv' /\ FeeInv'
    BY <2>1, <2>3 DEF GasInv, FeeInv
  <2>7. TableInv'
    BY <1>a, <2>1, <2>2, <2>3 DEF TableInv, Gas, GasFrom, cacheVars, messageVars
  <2> QED BY <2>5, <2>6, <2>7 DEF FeesInv
<1>11. CASE UNCHANGED vars
  <2>1. FeesTypeOK'
    BY <1>11, <1>a DEF FeesTypeOK, vars, chainVars, cacheVars, messageVars, roundVars, txVars
  <2>2. (GasInv /\ TableInv /\ FeeInv)'
    BY <1>11, <1>a DEF GasInv, TableInv, FeeInv, Gas, GasFrom, FeeFor, vars, cacheVars,
                       messageVars, txVars
  <2> QED BY <2>1, <2>2 DEF FeesInv
<1> QED
  BY <1>1, <1>2, <1>3, <1>4, <1>5, <1>6, <1>7, <1>8, <1>9, <1>10, <1>11 DEF Next

LEMMA FeesInvariant == Spec => []FeesInv
BY FeesInit, FeesStep, PTL DEF Spec

\* Types; whatever the chain answers, no message goes out without gas.
THEOREM FeesTypeCorrect == Spec => []FeesTypeOK
<1>1. FeesInv => FeesTypeOK
  BY DEF FeesInv
<1> QED BY <1>1, FeesInvariant, PTL

\* For all limits, simulations and needs, no attempt repeats an amount of gas
\* that has been found too little.
THEOREM GasOnlyGrows == Spec => []ShortGasNotRepeated
<1>1. FeesInv => ShortGasNotRepeated
  BY DEF FeesInv, FeesTypeOK, GasInv, ShortGasNotRepeated, InAttempt, HasEstimate
<1> QED BY <1>1, FeesInvariant, PTL

\* For all prices and amounts of gas, the fee has a margin of a tenth.
THEOREM FeesHaveMargin == Spec => []PaidFeeSuffices
<1>1. ASSUME FeesInv PROVE PaidFeeSuffices
  <2>1. estGas \in Nat /\ asked \in Nat /\ minPrice \in Nat
    BY <1>1, PricesAssumption DEF FeesInv, FeesTypeOK
  <2>2. FeeFor(estGas, asked) > 0
    BY <2>1, FeeIsPositive
  <2>3. 10 * minPrice <= 11 * asked => FeeFor(estGas, asked) >= minPrice * estGas
    BY <2>1, FeeCovers
  <2> QED BY <1>1, <2>2, <2>3 DEF FeesInv, FeeInv, PaidFeeSuffices
<1> QED BY <1>1, FeesInvariant, PTL

\* For all tables, a free transaction names a limit of the table.
THEOREM FreeGasFromTable == Spec => []FreeGasIsTableGas
<1>1. FeesInv => FreeGasIsTableGas
  BY DEF FeesInv, GasInv, TableInv, FreeGasIsTableGas, InAttempt
<1> QED BY <1>1, FeesInvariant, PTL

-----------------------------------------------------------------------------
(* Raising the gas limit *)

\* Every raise starts from an amount the chain has found too little, so the
\* limit passes what the message needs by less than a third of it, and a
\* free attempt names no more; the raises of a call do not multiply.
GasRaisedLittle ==
  short > 0 =>
    /\ short < need
    /\ gasLimit <= Grown(need - 1)
    /\ pc = "broadcast" /\ free => estGas <= Grown(need - 1)

\* Its part that is inductive beside FeesInv.
RaisedFromShort == short > 0 => short < need /\ gasLimit <= Grown(need - 1)

LEMMA GrownIsMonotone ==
  ASSUME NEW a \in Nat, NEW b \in Nat, a <= b
  PROVE  Grown(a) \in Nat /\ Grown(b) \in Nat /\ Grown(a) <= Grown(b)
BY DEF Grown

LEMMA StepRaised ==
  ASSUME FeesInv, RaisedFromShort, [Next]_vars
  PROVE  RaisedFromShort'
<1>1. CASE OutOfGas
  <2>1. /\ estGas < need /\ gasLimit' = Grown(estGas) /\ short' = AtLeast(short, estGas)
        /\ need' = need
    BY <1>1 DEF OutOfGas, NextAttempt, messageVars
  <2>2. estGas \in Nat /\ short \in Nat /\ need \in Nat /\ need - 1 \in Nat /\ estGas <= need - 1
    BY <2>1, GasAssumption DEF FeesInv, FeesTypeOK
  <2>3. short' < need'
    BY <2>1, <2>2 DEF AtLeast, RaisedFromShort
  <2>4. gasLimit' <= Grown(need' - 1)
    BY <2>1, <2>2, GrownIsMonotone
  <2> QED BY <2>3, <2>4 DEF RaisedFromShort
<1>2. CASE UNCHANGED <<short, need, gasLimit>>
  BY <1>2 DEF RaisedFromShort
<1>3. CASE /\ pc \in {"idle", "limits"} /\ UNCHANGED short
           \/ short' = 0
  BY <1>3 DEF FeesInv, GasInv, RaisedFromShort
<1> QED
  BY <1>1, <1>2, <1>3
  DEF Next, Changes, Expires, Begins, LimitsKnown, LimitsAnswered, LimitsFail, EligibleAnswered,
      EligibleFails, Simulate, FloorAnswered, FloorFails, Restart, Ends, Forgotten, Rejected,
      NextAttempt, messageVars, vars

\* However many attempts a call makes, at however many endpoints, and whether
\* they are free or paid, a limit it has raised is below 1.3 times what the
\* message needs (transactions.go:241-243).
THEOREM RaisedGasFollowsNeed == Spec => []GasRaisedLittle
<1>1. Init => RaisedFromShort
  BY DEF Init, RaisedFromShort
<1>2. FeesInv /\ RaisedFromShort /\ [Next]_vars => RaisedFromShort'
  BY StepRaised
<1>3. FeesInv /\ RaisedFromShort => GasRaisedLittle
  BY DEF FeesInv, GasInv, RaisedFromShort, GasRaisedLittle
<1> QED BY <1>1, <1>2, <1>3, FeesInvariant, PTL DEF Spec
=============================================================================
