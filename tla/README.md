# Verification of the Ault mining node

TLA+ modules that model the concurrent and fault-handling core of the miner,
TLC configurations that check them on small instances, and TLAPS proofs of the
results that matter most for every instance. Paths like `manager.go:248` are
relative to `src/pkg/mining`, `src/pkg/client`, `src/cmd` or
`src/internal/storage`; `PROJECT.json` maps each definition to its lines.

- [The system](#the-system)
- [Modules and code](#modules-and-code)
- [What the runs check](#what-the-runs-check)
- [Fairness](#fairness)
- [What is proved](#what-is-proved)
- [Disagreements between code and text](#disagreements-between-code-and-text)
- [Not modelled](#not-modelled)

## The system

`aultmined` watches a Cosmos chain for epochs. In every epoch each license
takes part in a VRF lottery; a winner must find a small proof of work, and the
results go to the chain in batched transactions signed with the operator's key.

| Component | State | Operations | Interacts with |
|---|---|---|---|
| Epoch feed (`MonitorEpochs`, `Start`, head of `processEpoch`) | last epoch sent, channel of capacity 1, epoch in work, start and last-processed epoch | poll, send, receive, re-check freshness, query licenses, shut down | chain endpoints (queries), mining run (call) |
| Mining run (`processEpoch`, `processLicenseForBatch`, `submitBatchWork`) | one goroutine per eligible license, results channel, current batch, `epochExpired`, counters | prove, solve, send a result; collect, check the epoch, submit or discard a batch; join | epoch feed, transaction sender, statistics |
| Transaction sender (`BatchSubmitWork`, `buildSignAndBroadcast`, `waitForTxConfirmation`) | local account sequence (`seqInit`, `nextSeq`), gas limit, attempt, endpoint | refresh, sign, broadcast, look up, retry, switch endpoint, poll for the delivered result | chain (CheckTx, blocks), replicas with the same key |
| Endpoint rotation (`chain.go`, `queries.go`) | order of endpoints, shared connection, pool of epoch connections, closed flag | query with rotation, switch, ask all endpoints, close | every query and broadcast of every goroutine |
| License queries | key of the next page and the list so far; one goroutine per index, semaphore, results channel | list delegated and owned licenses | start of the manager, epoch feed, auto mode |
| Auto mode (`mineCmd`) and key store | key file on a volume; keys, context and registration state of the process | load, generate, save, wait for delegation, compare, register or rotate, mine, stop | chain, platform that restarts it, user who delegates |
| Statistics, metrics, health check | counters | count, snapshot | workers, collector, HTTP server |
| Gas and fees | cached fee-free limits; gas limit, estimate and fee of a call | look up limits, decide free or paid, simulate, price, grow after out of gas | sender, chain |
| Proof of work, VRF | none | pure computations | workers |

What is hard here, and what makes each component correct:

- **Feed.** Two goroutines and a chain advance on their own. The monitor sends
  an epoch when it is above the last one it *sent*; the processor jumps to
  the chain's epoch *without* telling the monitor. Correct means: the epoch the
  chain stays in is taken up, the check never takes the miner back, repeated
  runs of one epoch are bounded, and both goroutines can always be shut down.
- **Run.** Workers finish in any order while the collector submits batches and
  checks whether the epoch has passed. Correct means: every result is in exactly
  one place, the run ends with nothing left over, after expiry nothing is
  submitted, and no valid work is thrown away.
- **Sender.** Any answer may be lost, CheckTx is not delivery, the committed
  sequence lags behind the mempool, replicas race for each sequence. Correct
  means: success is reported only for credited work, a batch never has two pending
  transactions, the local sequence never runs ahead, every call returns.
- **Endpoints.** All goroutines share one connection, and any of them may move it;
  the monitor outlives `Start` and races `Close`. Correct means: no connection
  is lost or left open, a question for the highest epoch reaches every endpoint,
  a query gives up only when there was nowhere left to go, and it always ends.
- **Licenses.** The set changes between two pages, and the next page may come
  from a node that is behind. Correct means: nothing twice, nothing invented,
  nothing lost that was there all along, however many look-ups fail.
- **Gas and fees.** Attempts of one call alternate between free and paid ones as
  the chain's parameters change. Correct means: gas found short is not tried
  again, a free transaction names the table's gas, a paid one has its margin.
- **Auto mode.** The process may be killed between any two steps; registrations
  time out and are applied later. Correct means: announced keys survive, nobody
  mines with a key that was never registered, retries never set the own key over
  itself, the miner gets to mining and stops when told.

The full list of hazards, each at its line and with the properties that cover
it, is `hazards` in `PROJECT.json`.

## Modules and code

| Module | Role |
|---|---|
| `EpochFeed` | monitor, channel, processor loop; a run of an epoch is the pair `LicensesFound` / `FinishRun` |
| `MiningRun` | extends `EpochFeed`, replaces that pair by workers, collector, batches and expiry checks |
| `MCMiningRun` | symmetry of licenses for TLC |
| `SubmitContract` | abstract: what `BatchSubmitWork` promises its callers |
| `TxSender` | the sender of one process or of replicas, with faults chosen per instance; implements `SubmitContract` |
| `MCTxSender` | batches for TLC |
| `AutoMode` | auto mode, key store, VRF registration and the `set-key` command |
| `Endpoints` | the shared connection and the pool: rotating queries, questions to all endpoints, shutdown |
| `MCEndpoints` | endpoints in order, and which of them fail, for TLC |
| `Licenses` | the two license queries and what the manager makes of them |
| `MCLicenses` | small worlds of licenses for TLC |
| `Fees` | gas limit and fee of each attempt of a call |
| `MCFees` | small limits for TLC |
| `EpochFeedProofs`, `MiningRunProofs`, `TxSenderProofs`, `AutoModeProofs`, `EndpointsProofs`, `LicensesProofs`, `FeesProofs` | theorems and proofs |

`MiningRun` extends `EpochFeed` and implements it; `TxSender` implements
`SubmitContract`, which is what `MiningRun` uses of it (`SubmitOutcomes` are its
verdicts). `Endpoints`, `Licenses` and `Fees` spell out what the others take as
an answer or an error: which queries fail, which licenses a run begins with, how
two attempts of the sender come to sign different bytes. They are checked on
their own: each shares with the others no more than that outcome.

Operators whose name ends in a described change (`IsNewEpoch_NotBelow`,
`SaveFails_Ignored`, ...) are mutants: a plausible bug in the definition that
follows, used to confirm that a property notices it. They are no part of the
specifications.

### EpochFeed

`monPc`, `lastEpoch` and `reachable` are the state of `MonitorEpochs`
(`queries.go:327-354`); `MonitorTick` is a poll that is answered with a new
epoch or an old one, `MonitorTickFails` one that is not, `MonitorSend` and
`MonitorReturn` the two arms of the `select` around the send. `procPc` and
`epochInfo` belong to `Start` and `processEpoch` (`manager.go:151-204`):
`Receive`, `RecheckAnswered` and `RecheckFails`, `LicensesFail` and
`LicensesFound`. An epoch query is answered with the highest epoch among the
endpoints that answer (`getHighestCurrentEpoch`), and each endpoint serves a
`view` that may lag. `begun` is a history variable that counts runs per epoch.

### MiningRun

Each license has a worker (`absent`, `proving`, `solving`, `sent`, `done`);
`results` is the buffered channel; it has room for every eligible license
(`manager.go:209`), so that no send blocks, and is a set; `runPc` is the
collector. Winning the lottery and finding the nonce are free choices.
`HandOver` and `SubmitOutcomes` stand for `submitBatchWork` with each verdict of
the sender and the counter it touches. Every other action of the feed goes on in
between, with `runVars` unchanged, so that the module is a refinement of
`EpochFeed` on the same variables.

### TxSender

`pc[c]` walks through `BatchSubmitWork` and `buildSignAndBroadcast` of client
`c` (`transactions.go:39-281`): refresh and sign, broadcast, and for each answer
of CheckTx its branch - accepted, already in the cache, sequence mismatch (the
local sequence is corrected, the batch given up), duplicate, out of gas (signed
again with more), other rejection, no answer (look-up, forced refresh, retry,
next endpoint, or the end of the call when there is none to switch to). `await`
is `waitForTxConfirmation`. The chain is external: a mempool in sequence order,
`Deliver`, `credited` licenses. What CheckTx answers is assumed no further than
the code shows: it refuses bytes it knows and wrong sequences, while work that
is already credited it may name as a duplicate (`transactions.go:245-247`) or
admit, so that it fails when it is delivered (`transactions.go:60-63`);
`Accepts` therefore says nothing of the work. A transaction is identified by
what is signed, so that replicas signing the same batch with the same sequence
produce the same bytes. `Faults` selects which failures an instance admits;
theorems hold for every set of them. Time is not modelled: what a timeout bounds
may always happen.

### AutoMode

`pc` walks through `mineCmd` (`main.go:257-462`). `Exit` forgets everything but
`keysFile` and the chain; `Crash`, `Cancel` and every error path lead to it, and
`Boot` is the platform. `SaveBegins` / `SaveEnds` are the truncation and the end
of `os.WriteFile`: between them the file is `torn`, which `LoadKeys` refuses.
`ownerLog[k]` is the history of VRF keys the owner set; `Query/OwnerKey` may be
answered by a lagging node, that is with any prefix of it. A failed query and
an unknown key are one branch, as in the code (`main.go:411`). A set-key
transaction outlives the call that sent it: `SetKeyFails` may happen while it is
pending and even after it was applied. `OutsideSets` is the operator's `set-key`
command. That the chain accepts a nonce exactly if it is the number of keys set
so far is an assumption, taken from how the code hands the reported nonce back.

### Endpoints

Each goroutine is `idle`, inside `queryWithEndpointRotation` (`calling`,
`switching`; `queries.go:21-43`) or inside `getHighestCurrentEpoch` (`asking`;
`queries.go:94-153`), where it has a `part` per endpoint: `PartReuses`,
`PartDials` and `PartCannotDial` are `getEpochQueryClient`, `PartAnswered` and
`PartFails` the retries of `queryEpochWithRetries`. `Switch` is the whole of
`switchToNextGRPCEndpoint` under its lock, with the loop condition of its caller
(`RoundsLeft`). Closing a connection fails the calls on it: `cut` for a query,
the part value `"cut"` for a question. The next attempt of a query goes over the
connection that is then current; a part stays with the one it began with.
`CloseShared` and `ClosePool` are the two halves of `Close`, which `main`
reaches when `Start` has returned and the monitor perhaps has not. `Situations`
lists which endpoints may fail calls and which cannot be dialed; the configured
endpoints are taken to be distinct (a repeated one would only repeat a round).

### Licenses

`PageAnswered(e)` is a page of `GetDelegatedLicenses` (`queries.go:296-324`) from
whichever endpoint the rotation has reached; `view[e]` changes under it
(`Delegation`). A page key stands for the first license not yet sent, which is
how a key-value store pages; that the chain does so is an assumption about it.
Each endpoint has its own `holding` too: a look-up may be answered by another node
than the balance was, which has another license at the index or none.
`GetOwnedLicenses` (`queries.go:227-294`) is `BalanceAnswered`, one `call` per
index through `Acquire` and `TokenReplied`, `Collect` and `CollectEnds`; the
list an endpoint shows changes by `Transfer`. `Started` is the end of `NewMinerManager`,
`ListBegins` the listing of the next epoch. `always`, `ever` and `held` are
history variables that say what the chain has shown since a query began.

### Fees

One call of `buildSignAndBroadcast` at a time, reduced to `gasLimit`, `estGas`,
`free` and `fee`: `LimitsKnown`, `LimitsAnswered` and `LimitsFail` are the cache
of fee-free limits with its time to live and the fallback
(`queries.go:45-77`, `chain.go:404-425`); `EligibleAnswered`, `EligibleFails` and
`Simulate` choose the gas of an attempt (`transactions.go:151-175`);
`FloorAnswered` and `FloorFails` are `computeFees`; `OutOfGas`, `Rejected` and
`Ends` the answer. Sequence numbers and delivery are left to `TxSender`. The
floating-point factors 1.2 and 1.3 with `+ 0.9999` are exact tenths rounded up.

## What the runs check

Passing runs (all with deadlock checked unless noted):

| Run | Instance | Shows | States |
|---|---|---|---|
| `feed_one` | 1 endpoint, 5 epochs | types; an epoch is run at most 4 times (`BoundedReprocessing`); an answered check never goes back (`FreshAfterRecheck`); a cancelled miner shuts down (`ShutsDown`) | 70 761 |
| `run_one` | 1 endpoint, 2 epochs, 4 licenses, batches of 2 | results accounted for, runs complete, wins counted cover what is on its way (`WinsCoverResults`), only passed epochs discarded, nothing submitted after expiry | 160 727 |
| `run_live` | 2 endpoints, 2 epochs, 2 licenses, batches of 1 | `FairSpec`: the refined miner implements the *fair* feed - so every run comes to its end (`FinishRun`) and liveness of the feed carries over; the epoch the chain rests in is taken up (`FinalEpochTakenUp`) | 141 042 |
| `tx_one` | 1 client, 2 batches, 1 retry, 1 endpoint, all faults but eviction | no gap (`NeverAhead`), never two pending transactions for a batch (`OnePendingTransaction`), unconfirmed means admitted; `ImplementsContract`, of which "confirmed means credited" is a part; every call returns (`EveryCallReturns`) | 105 730 |
| `tx_replicas` | 2 clients with unequal batches, 2 endpoints, lost broadcasts, slow blocks, lagging nodes, undialable endpoints, failures on delivery, cancellation, eviction | `EveryCallReturns`; a call that is turned down leaves no gap behind (`RejectedCallResyncs`) | 51 782 |
| `auto_one` | 2 key pairs, 2 kills or stops, 1 foreign key, 1 abandoned registration | the properties of auto mode, safety and liveness; that a process told to stop always has a step to take (`AlwaysAWayOut`) | 17 980 |
| `endpoints_one` | processor and monitor, 3 endpoints, 2 tries each | connections balance (`ConnectionsAccounted`), a question goes everywhere (`AsksEveryEndpoint`), failures were forced (`FailedQueryTriedAll`, `FailedAskHadNoChoice`), queries end | 122 440 |
| `licenses_one` | 2 endpoints, 3 licenses, pages of 1, 2 owned, 1 look-up at a time, 2 changes | `ListingFaithful`, `OwnedFaithful`, `ListingsEnd` | 70 189 |
| `fees_one` | 3 kinds of limit, 2 message sizes, 1 retry, 2 endpoints, 2 changes of the chain | `ShortGasNotRepeated`, `PaidFeeSuffices`, `FreeGasIsTableGas` | 753 578 |

Why these bounds are enough to mean something:

- *Epochs.* The most that can be between chain and run is one epoch in the
  blocked send, one in the channel and one in hand, plus the one the chain just
  entered. Five epochs let each place hold a different older one; the bound 4 of
  `BoundedReprocessing` is reached (a bound of 3 fails), and it is proved for
  every number of epochs.
- *Licenses and batches.* Four licenses in batches of two give two full batches,
  or a full and a partial one, or none, with results arriving while a batch is
  checked or submitted. Symmetry over licenses is used for invariants and
  action properties only, never for liveness.
- *Sender.* The loops of the code are nested counters; one retry and two
  endpoints exercise the end of each loop, the step to the next endpoint and the
  reset of the attempts. Two batches let the state one call leaves behind matter
  to the next; replicas with the batches {l1}, {l2} against {l2} alone race for the
  sequence with different work first and with the same work last. Answers that are
  lost are in `tx_one` only: what one client does about them does not need the
  second, and with it the state space is out of reach.
- *Endpoints.* Three endpoints let the middle one be skipped and the list turn
  more than once; two tries distinguish a first failure from the last. Two
  goroutines are what runs at a time in this program: the two queries at the
  start, later processor and monitor.
- *Licenses.* With pages of one license a listing of three has two page
  boundaries, and two changes let the set change at both; the worlds are two endpoints that
  agree, two of which one is behind (in what is delegated and in what is owned), and
  nothing at all. A semaphore of one place makes a look-up wait.
- *Fees.* One limit per message, one per unit, one of zero that calls for the
  fallback; a simulation below and one above the limit; the chain's price below,
  at and just above what the margin covers. Amounts are small, the roundings of
  the code occur all the same.
- *Auto mode.* Two stops allow a kill in the save and one later, or a restart
  during a registration and another during its repetition; one foreign key is
  what makes a rotation necessary; an abandoned registration is what makes two
  of the miner's own transactions compete. The second key pair is only there to
  be generated wrongly. `MaxStops`, `MaxOutside` and `MaxAbandoned` bound the
  outside, not the process. Deadlock is not checked in this run: mining is a
  single state that lasts as long as nobody stops the process.

Further bounds: `MaxEpoch` in the guard of `ChainAdvance`, `MaxChanges` in those of
the chain's changes in `Licenses` and `Fees`, `MaxBalance` on the owned licenses;
`MaxRetries`, `NumEndpoints`, `Limit` and `MaxConcurrency` are the code's own
limits, smaller.

`NeverAhead`, `UnconfirmedWasAdmitted` and `OnePendingTransaction` are stated
for a mempool that keeps what it admits (`"evicted" \notin Faults`); with
eviction they are false, because the local sequence is then ahead until a
mismatch corrects it at the cost of one batch: `RejectedCallResyncs` says that
it is one, given account queries that are answered. `OnePendingTransaction` is
about batches that all differ, those of replicas included (two that sign the
same batch with two sequences may both be admitted); `tx_one` checks it for one
client, the theorem holds for any number. It is about the mempool: once a
transaction has been delivered, and its answer lost, the same work may be signed
and admitted again (see the disagreements below). `FailedQueryTriedAll` is about
a goroutine that rotates alone (`SoleRotator`): with two the third disagreement
below applies. `FreshAfterRecheck`, `BoundedReprocessing` and
`DiscardOnlyPassed` are stated for one endpoint (`SingleEndpoint`); with several
the first disagreement applies. These conditions are part of the formulas.

## Fairness

- *Goroutines* (`SchedulerFairness`, `RunFairness`, `Call(c)`, `Process`, `Query(g)`,
  `Part(g, i)`, `ListStep`, `CallStep(i)`): weak
  fairness. The Go scheduler runs every runnable goroutine, a blocked channel
  operation proceeds when it can, and the proof-of-work search of a worker is
  bounded.
- *Queries return an answer or an error.* This is an assumption about the
  endpoints: only broadcasts and gas simulations have a deadline
  (`transactions.go:221`, `chain.go:454`). Epoch, account and transaction queries
  run under the miner's context; the keepalive settings end them when the
  connection is dead, but a node that accepts a call and stays silent stops the
  caller, and the highest-epoch query waits for every endpoint. Both are listed
  as hazards (`chain.go:244`, `queries.go:130`).
- *Chain.* Blocks deliver the head of the mempool (`Deliver`, `Apply \/ Drop`),
  endpoints catch up (`CatchUp`), polls are now and then answered
  (`NetworkFairness`).
- *Auto mode* also needs strong fairness of the steps that may fail each time
  round the loop: a load, connection, license query, key query or broadcast that
  is possible again and again succeeds some time. Without it `MiningBegins` is
  plainly false, and the code's answer to a failure is precisely to try again.
  The key query is required to be answered now and then by an up-to-date node,
  the broadcast to get through now and then with the nonce that is current.
- No fairness on cancelling, kills, evictions, losses, or anything a user does.

## What is proved

`tlapm` checks every proof; each theorem holds for all values of the constants
that satisfy the named assumptions (`EndpointsAssumption`, `MaxEpochAssumption`
and so on: non-empty sets, natural bounds, types).

| Module | Theorems | Argument |
|---|---|---|
| `EpochFeedProofs` | `TypeCorrect`, `ReprocessingInvariant`, `RepetitionsBounded`, `RecheckIsFresh`, `RunsNeedSends`, `FeedInvariant`, `CancelledMinerShutsDown`, `RestIsTakenUp`, `FinalEpochIsTakenUp` | "At most 4 runs" says nothing of the runs still to come. `FewRunsLeft` adds them up: every place that still holds an epoch `<= e`, and `e` itself while the monitor has not come to it, counts for one run, and `begun[e]` plus that number never exceeds 4. Each action moves a unit from one term to another. `NothingAhead` supplies that no place holds an epoch above the endpoint's view. `RunsWithinSends` does the same for any endpoints with the number of epochs sent in place of 4, which is the bound that is left when one of them lags. The liveness theorems are described below. |
| `MiningRunProofs` | `RunImplementsFeed`, `RunRepetitionsBounded`, `RunTypeCorrect`, `RunsAreComplete`, `WinsAreAccounted`, `ExpiredRunsSubmitNothing`, `OnlyPassedIsDiscarded`, `BatchesAreFresh`, `StatsAreOrdered`, `RunsAreBounded` | Every step is a step of the feed or leaves its variables alone, so the feed's theorems carry over. `WinsCoverResults` makes the order of the counters inductive: wins not yet counted as submitted cover the results still on their way. `ExpiredMeansPassed` ties the collector's flag to the chain. `BatchIsFilled` and `WinsAccounted` make the batches of a run nonempty and disjoint, which is what the sender's theorems ask of its caller. `RunStepsLeft` is a measure of the run (see below). |
| `TxSenderProofs` | `TxTypeCorrect`, `NobodyIsAhead`, `ConfirmedHasBeenCredited`, `SenderImplementsContract`, `RejectedCallsResync`, `UnconfirmedHasBeenAdmitted`, `WorkIsPendingOnce`, `NoRetryPaysInVain`, `DuplicatesAreCredited`, `RefusalsAreCredited`, `StepsAreBounded`, `CallsRunDown` | Two parts of `TxTypeOK` carry the rest: the mempool continues the committed sequence without a gap, and a signed transaction carries the batch and the sequence of its client. `CreditedIsDelivered` links credit to deliveries; for the refinement, `OnlyRequested` says that whatever the chain delivers is a batch somebody was asked to submit. `RetryBehind`: after a forced refresh, and until the next admission, the sequence is not above the committed one. `AwaitsAdmitted`: what a client waits for was admitted. `OnePendingInv`: while a call may still sign, its sequence is at most that of a transaction for its batch in the mempool, and the same holds of a request that arrives late, so that a second one could only be refused. `SpentInv` is the same with delivered transactions, when no admitted one goes unanswered: a call that may still sign has spent no sequence on its batch; `CreditsAreTraced` (a credited license is in a delivered transaction of a requested batch) then makes the head of the mempool new to the chain. It survives eviction. `FailedIsDone`: a transaction that failed repeats work that is credited, hence `RefusalsAreCredited`. |
| `AutoModeProofs` | `AutoTypeCorrect`, `KeysArePersistent`, `MiningIsRegistered`, `OwnKeyIsSetOnce`, `RegistrationsAreBounded`, `ToldMinerStops` | `FileFollowsKey`: while keys exist only in memory the file holds none. `RegistrationInv`: each of the miner's pending transactions, and the nonce it is about to use, is zero or directly follows a foreign key; this stays true because the log only grows, and it is what `Apply` needs. A call is told "applied" only for the one transaction it waits for. `OthersAreCounted`: foreign keys in the log and in the mempool are no more than were set by hand; own keys but the first map one to one to the foreign keys before them. |
| `EndpointsProofs` | `EndpointsTypeCorrect`, `AccountsBalanced`, `QuestionsCoverAll`, `SoleQueryTriesAll`, `FailedAskWasForced`, `SoleFallbackWorks`, `QueriesAreBounded`, `QueriesEndInTime` | `CoreInv`: the list and every snapshot are rotations that name each endpoint once, and the primary is the head of its snapshot. `TriedAreLast`: the endpoints that have failed a sole query in `round` rounds are the last `round` of the list, because rotation moves them there; when the rounds are used up, the list has none left. `FailuresAreReal`: a failure a sole query has counted was that of an endpoint that is not healthy, so one healthy endpoint is enough. `HealthyPartsHold`: behind its first part a question loses no healthy endpoint before the context ends. The lemmas before them are about rotation: it is a bijection of positions. |
| `LicensesProofs` | `ListingIsFaithful`, `LicensesTypeCorrect`, `OwnedIsFaithful`, `CallsAreBounded`, `ListingsRunDown`, `OwnedLookupsRunDown` | `ListInv`: `nextKey` parts the licenses already listed from those to come, so that no page can repeat or skip one. `OwnInv`: an answered index is in the channel or collected. |
| `FeesProofs` | `FeesTypeCorrect`, `GasOnlyGrows`, `FeesHaveMargin`, `FreeGasFromTable`, `RaisedGasFollowsNeed` | `GasInv`: `gasLimit` is above all gas reported short, and no estimate is below `gasLimit`. `TableInv`: until then `gasLimit` is the table's. `RaisedFromShort`: every raise starts from an amount below the need. The rest is arithmetic with rounding. |

### Liveness that is proved

The prover has the rules of temporal logic (`PTL`), weak and strong fairness, and
`~>`; it knows nothing of `ENABLED`. Four liveness theorems are within its reach
because a miner passes through a fixed number of stages on the way:

- `CancelledMinerShutsDown`: the monitor returns; after that the processor, with at
  most two more epochs to go through (`Alone(place, left)`), returns.
- `RestIsTakenUp`: when the chain and all endpoints stay in an epoch, the older
  epochs in hand, in the channel and in the blocked send are worked off
  (`SendsOlder`, `Waits`), the next poll finds the epoch (`PollsFor`), and it goes
  the same way (`SendsLast`, `LastWaits`, `Settled`). `FeedInv` says that the epoch
  sent last is never overtaken. It holds for any number of endpoints.
- `FinalEpochIsTakenUp` adds that endpoints which keep up come to rest with the
  chain, for one or two of them: "all of them at some one moment" is an induction
  over the set of endpoints.
- `ToldMinerStops`: from each place of the loop a cancelled process only goes
  forward (`LastSteps`), to the check of the context at the loop's head.

Each has a hypothesis about `ENABLED`, which the prover cannot expand. That of the three
theorems about the feed, `NeverStuck`, only says that an action is enabled when its guard
holds. That is so by the form of the actions and says nothing of the code, hence no run
checks it; what the theorems conclude from it, `ShutsDown` and `FinalEpochTakenUp`, is
checked. The hypothesis of `ToldMinerStops`, `AlwaysAWayOut`, says that
a cancelled process has some step to take at every place of its loop; `auto_one`
checks it, and a wait that forgets the context violates it. All the rest of the
argument is proved.

### Why nothing goes on for ever

Where the code loops over data - licenses of a run, retries and endpoints of a
call, rounds of a query, pages of a listing - the end is an induction over a
number, which the prover cannot do for temporal formulas. What is proved instead
is the number: a measure that no fault, answer or interleaving increases and that every
step of the loop itself lowers.

| Measure | Bound | Theorem |
|---|---|---|
| `RunStepsLeft` of a run | 5 per license, and 4 | `RunsAreBounded` |
| `StepsLeft(c)` of a client | `4 * NumEndpoints * (MaxRetries + 1) + 2` per batch | `StepsAreBounded`, `CallsRunDown` |
| `QueryLeft(g)`, `PartLeft(g, i)` of a query, of a part of a question | `Len(Configured) * (MaxRetries + 1)`, `MaxRetries + 1` | `QueriesAreBounded`, `QueriesEndInTime` |
| `PagesLeft` of a listing | licenses from the key on, and one | `ListingsRunDown` |
| `LookupsLeft` of the owned licenses | `3 * MaxBalance + 2` | `OwnedLookupsRunDown` |

With a goroutine that is scheduled and a step that is possible, these give
`EveryCallReturns`, `QueriesEnd` and `ListingsEnd`; that last inference is what TLC
checks on the instances above.

### Only model-checked

`EveryCallReturns`, `QueriesEnd`, `ListingsEnd` (their measures are proved, the
induction over them is not); `MiningBegins`, which also needs an induction over
the restarts, foreign keys and pending transactions; `FinalEpochTakenUp` with
three endpoints or more; `AlwaysAWayOut`, which is about `ENABLED`; and the
refinement with fairness (`FairSpec` in `run_live`; its safety part is
`RunImplementsFeed`). Proved without a run of their own, since other properties
of the same run imply or outdo them: `ConfirmedIsCredited` (by
`ImplementsContract`), `ReprocessingInv`, `StatsOrdered`, `LicensesTypeOK`,
`CallsBounded`. Proved and not among the runs' properties: the bounds and
measures, and the consequences stated in the proof modules (`BatchIsFresh`,
`NothingPaidInVain`, `DuplicateIsCredited`, `RefusedIsCredited`,
`RegistrationsAreFew`, `GasRaisedLittle`, `SoleFallbackIsUsed`).

## Disagreements between code and text

Three are runs in which TLC finds the stated property violated:

- `run_lagging` - "Check if epoch is still valid before submitting"
  (`manager.go:245`) compares with `!=`: when only a lagging endpoint answers, an
  epoch *below* the run's counts as expiry and the work of the epoch the chain
  is in is discarded.
- `fees_floor` - "Enforce floor if present" (`chain.go:338`): when the query for
  the minimum gas price fails, `floor` is the zero `LegacyDec`, and `IsPositive`
  on it dereferences a nil pointer. Nothing recovers the panic; the platform
  restarts the miner.
- `endpoints_fallback` - "gRPC endpoint(s), comma-separated for fallback"
  (`README.md:70` of the repository): the two queries at the start rotate one
  shared connection, each on its own failure. The second rotation undoes the
  first; with two endpoints, one of them healthy, a query may spend all its
  rounds at the dead one and fail. What holds is `SoleFallbackWorks`: a goroutine
  that rotates alone finds the healthy endpoint.

Smaller ones follow from the models without a run of their own:

- "processEpoch processes a new epoch" (`manager.go:172`), but an epoch the
  freshness check jumped to is sent by the monitor as well and run again; nothing
  compares it with `LastProcessedEpoch`. `BoundedReprocessing` is the bound that
  holds.
- "Credit already recorded on-chain (HA peer beat us)" (`transactions.go:246`): a
  miner alone with its key is told so of its own transaction, after a lost
  answer, and counts credited work as failed.
- "Precompute tx hash for idempotency checks on network errors"
  (`transactions.go:205`): the look-up shares the context of the broadcast
  (`transactions.go:226`), so that after a timeout it fails although the transaction
  was delivered. The forced refresh then moves to the next sequence, the work is signed
  and paid for again, and it fails when it is delivered unless CheckTx names the
  duplicate. `NoRetryPaysInVain` says that only a lost or late answer leads there,
  `RefusalsAreCredited` that the batch is credited all the same.
- "First submission wins, others are rejected as duplicates (harmless)"
  (`docs/FLY_DEPLOYMENT.md:291`): the loser of a race gets a sequence mismatch and
  drops its batch; if replicas batch their wins differently, a license may be
  submitted by none. `DuplicatesAreCredited` says when "duplicate" means done:
  when batches share all of their licenses or none.

## Not modelled

- Hash, curve and key arithmetic, and the layout of messages: pure functions
  whose reference, the chain's keeper, is not in the repository. Whether a
  license wins and whether its nonce search succeeds are free choices;
  `VerifyPoW` and `CountLeadingZeros` have no caller outside the tests.
- The counters per license and the snapshot `GetStats` takes: nothing reads them.
- The health check (each request dials, asks once and closes; no state, none
  shared with the miner), configuration (read once), command line output, build
  and deployment files, and normal mode (which checks the registered key once
  and otherwise goes the same way).
- A node that accepts a call and never answers, see *Fairness*.
- In auto mode, the retry after a VRF key that does not parse (`main.go:404-409`) and
  after a failing `NewMinerManager` (`main.go:443-448`, which fails for such a key and
  for an address that cannot be derived, `manager.go:29-38`): neither happens for keys
  the program generated, and `AutoMode` has no others in its file. A file written by
  hand with 64 bytes that are no key would be retried for ever.
- Memory races on the clients that `switchToNextGRPCEndpoint` replaces while
  others read them without the lock: a read gives the old client or the new one,
  which is what `Endpoints` allows.
- Loss of data the operating system has not written back: `SaveKeys` neither
  syncs nor renames, so a power failure may tear a file that `AutoMode` takes as
  written. A file torn by a kill during the save makes every later start fail
  until someone removes it; the key in it was not announced (`KeysPersist`).
