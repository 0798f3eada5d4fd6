------------------------------ MODULE MiningRun ------------------------------
(***************************************************************************)
(* One run of an epoch, inside MinerManager.processEpoch: a worker per     *)
(* eligible license evaluates the VRF and, on a win, solves the proof of   *)
(* work and sends its result; the processor collects the results into      *)
(* batches, asks the chain before each batch whether the epoch is still    *)
(* current, and hands the batch over for submission or discards it.        *)
(*                                                                         *)
(* EpochFeed's LicensesFound is refined by BeginRun and its FinishRun by   *)
(* EndRun; every other step of EpochFeed goes on around the run, with the  *)
(* chain, the monitor and a cancellation interleaved between any two steps *)
(* of the run.                                                             *)
(*                                                                         *)
(* Which licenses win is decided by the VRF and is left open here, as is   *)
(* the answer of BatchSubmitWork.                                          *)
(***************************************************************************)
EXTENDS EpochFeed, FiniteSets

CONSTANTS
  Licenses,   \* the licenses delegated to the operator
  BatchSize   \* config.BatchSize

ASSUME LicensesAssumption == IsFiniteSet(Licenses)
ASSUME BatchSizeAssumption == BatchSize \in Nat \ {0}

VARIABLES
  runPc,       \* where the processor is within the run
  worker,      \* where the worker of each license is
  results,     \* resultsChan: the licenses whose result waits in it
  batch,       \* currentBatch
  expired,     \* epochExpired
  submitted,   \* history: the licenses this run handed to BatchSubmitWork
  discarded,   \* history: the licenses whose result this run threw away
  attempts,    \* MiningStats.TotalAttempts
  wins,        \* MiningStats.TotalWins
  submissions  \* MiningStats.TotalSubmissions

collectorVars == <<runPc, batch, expired, submitted, discarded>>
statVars == <<attempts, wins, submissions>>
runVars == <<collectorVars, worker, results, statVars>>
allVars == <<vars, runVars>>

RunInit ==
  /\ Init
  /\ runPc = "idle"
  /\ worker = [l \in Licenses |-> "absent"]
  /\ results = {}
  /\ batch = {}
  /\ expired = FALSE
  /\ submitted = {}
  /\ discarded = {}
  /\ attempts = 0
  /\ wins = 0
  /\ submissions = 0

-----------------------------------------------------------------------------
\* processEpoch, from the eligible licenses to the start of the workers.
BeginRun(eligible) ==
  /\ LicensesFound
  /\ eligible # {}
  /\ runPc' = "collecting"
  /\ worker' = [l \in Licenses |-> IF l \in eligible THEN "proving" ELSE "absent"]
  /\ results' = {}
  /\ batch' = {}
  /\ expired' = FALSE
  /\ submitted' = {}
  /\ discarded' = {}
  /\ UNCHANGED statVars

-----------------------------------------------------------------------------
(* The workers: processLicenseForBatch and the send around it. *)

\* The attempt counts whatever comes of it; the win counts before the proof of
\* work is looked for.
WorkerLoses(l) ==
  /\ worker[l] = "proving"
  /\ attempts' = attempts + 1
  /\ worker' = [worker EXCEPT ![l] = "done"]
  /\ UNCHANGED <<vars, collectorVars, results, wins, submissions>>

WorkerWins(l) ==
  /\ worker[l] = "proving"
  /\ attempts' = attempts + 1
  /\ wins' = wins + 1
  /\ worker' = [worker EXCEPT ![l] = "solving"]
  /\ UNCHANGED <<vars, collectorVars, results, submissions>>

WorkerSends(l) ==
  /\ worker[l] = "solving"
  /\ results' = results \union {l}
  /\ worker' = [worker EXCEPT ![l] = "sent"]
  /\ UNCHANGED <<vars, collectorVars, statVars>>

\* No proof of work within the attempts allowed, or the context was cancelled
\* and the select around the send took that branch.
WorkerGivesUp(l) ==
  /\ worker[l] = "solving"
  /\ worker' = [worker EXCEPT ![l] = "done"]
  /\ UNCHANGED <<vars, collectorVars, results, statVars>>

Working(l) == worker[l] \in {"proving", "solving"}

-----------------------------------------------------------------------------
(* The collector loop of processEpoch. *)

BatchFull_Above(b) == Cardinality(b) > BatchSize
BatchFull(b) == Cardinality(b) >= BatchSize

CollectResult(l) ==
  /\ runPc = "collecting"
  /\ l \in results
  /\ results' = results \ {l}
  /\ batch' = batch \union {l}
  /\ runPc' = IF BatchFull(batch') THEN "checking" ELSE "collecting"
  /\ UNCHANGED <<vars, worker, expired, submitted, discarded, statVars>>

\* currentBatch = currentBatch[:0]
DiscardBatch ==
  /\ batch' = {}
  /\ discarded' = discarded \union batch
  /\ UNCHANGED submitted

SkipBatch ==
  /\ runPc = "checking"
  /\ expired
  /\ DiscardBatch
  /\ runPc' = "collecting"
  /\ UNCHANGED <<vars, worker, results, expired, statVars>>

\* The chain answers another epoch than the run's: from here on every batch of
\* the run is discarded.
CheckFindsExpired_LeavesLoop(e) ==
  /\ runPc = "checking"
  /\ ~expired
  /\ AnswersEpoch(e)
  /\ e # epochInfo
  /\ expired' = TRUE
  /\ DiscardBatch
  /\ runPc' = "ending"
  /\ UNCHANGED <<vars, worker, results, statVars>>
CheckFindsExpired(e) ==
  /\ runPc = "checking"
  /\ ~expired
  /\ AnswersEpoch(e)
  /\ e # epochInfo
  /\ expired' = TRUE
  /\ DiscardBatch
  /\ runPc' = "collecting"
  /\ UNCHANGED <<vars, worker, results, statVars>>

CheckFindsCurrent ==
  /\ runPc = "checking"
  /\ ~expired
  /\ AnswersEpoch(epochInfo)
  /\ runPc' = "submitting"
  /\ UNCHANGED <<vars, worker, results, batch, expired, submitted, discarded, statVars>>

\* A query that fails is no reason to hold the batch back.
CheckFails_Discards ==
  /\ runPc = "checking"
  /\ ~expired
  /\ expired' = TRUE
  /\ DiscardBatch
  /\ runPc' = "collecting"
  /\ UNCHANGED <<vars, worker, results, statVars>>
CheckFails ==
  /\ runPc = "checking"
  /\ ~expired
  /\ runPc' = "submitting"
  /\ UNCHANGED <<vars, worker, results, batch, expired, submitted, discarded, statVars>>

\* submitBatchWork: a batch that is confirmed counts as submitted, and so does
\* one whose confirmation timed out; any other failure leaves the counters.
SubmitOutcomes == {"confirmed", "unconfirmed", "failed"}

HandOver_CountsTwice(outcome) ==
  /\ submitted' = submitted \union batch
  /\ submissions' = CASE outcome = "failed" -> submissions
                      [] outcome = "unconfirmed" -> submissions + 2 * Cardinality(batch)
                      [] outcome = "confirmed" -> submissions + Cardinality(batch)
  /\ UNCHANGED <<vars, worker, results, expired, discarded, attempts, wins>>
HandOver(outcome) ==
  /\ submitted' = submitted \union batch
  /\ submissions' = IF outcome = "failed" THEN submissions
                    ELSE submissions + Cardinality(batch)
  /\ UNCHANGED <<vars, worker, results, expired, discarded, attempts, wins>>

SubmitBatch_KeepsBatch(outcome) ==
  /\ runPc = "submitting"
  /\ HandOver(outcome)
  /\ runPc' = "collecting"
  /\ UNCHANGED batch
SubmitBatch(outcome) ==
  /\ runPc = "submitting"
  /\ HandOver(outcome)
  /\ batch' = {}
  /\ runPc' = "collecting"

\* resultsChan is closed once all workers are done, and the loop over it ends
\* when it is also empty.
AllCollected ==
  /\ runPc = "collecting"
  /\ \A l \in Licenses : ~Working(l)
  /\ results = {}

LoopEndsWithBatch_IgnoresExpiry ==
  /\ AllCollected
  /\ batch # {}
  /\ runPc' = "finalCheck"
  /\ UNCHANGED <<vars, worker, results, batch, expired, submitted, discarded, statVars>>
LoopEndsWithBatch ==
  /\ AllCollected
  /\ batch # {}
  /\ ~expired
  /\ runPc' = "finalCheck"
  /\ UNCHANGED <<vars, worker, results, batch, expired, submitted, discarded, statVars>>

LoopEndsWithout ==
  /\ AllCollected
  /\ batch = {} \/ expired
  /\ DiscardBatch
  /\ runPc' = "ending"
  /\ UNCHANGED <<vars, worker, results, expired, statVars>>

FinalCheckFindsExpired(e) ==
  /\ runPc = "finalCheck"
  /\ AnswersEpoch(e)
  /\ e # epochInfo
  /\ DiscardBatch
  /\ runPc' = "ending"
  /\ UNCHANGED <<vars, worker, results, expired, statVars>>

\* The final check is answered with the run's epoch, or not at all.
FinalCheckPasses ==
  /\ runPc = "finalCheck"
  /\ runPc' = "finalSubmit"
  /\ UNCHANGED <<vars, worker, results, batch, expired, submitted, discarded, statVars>>

SubmitFinalBatch(outcome) ==
  /\ runPc = "finalSubmit"
  /\ HandOver(outcome)
  /\ batch' = {}
  /\ runPc' = "ending"

EndRun_UnlessExpired ==
  /\ runPc = "ending"
  /\ IF expired
     THEN /\ procPc' = "select"
          /\ UNCHANGED <<chainVars, ctxDone, monVars, epochChan,
                         epochInfo, startEpoch, lastProcessed, begun>>
     ELSE FinishRun
  /\ runPc' = "idle"
  /\ UNCHANGED <<worker, results, batch, expired, submitted, discarded, statVars>>
EndRun ==
  /\ runPc = "ending"
  /\ FinishRun
  /\ runPc' = "idle"
  /\ UNCHANGED <<worker, results, batch, expired, submitted, discarded, statVars>>

-----------------------------------------------------------------------------
Work(l) == WorkerLoses(l) \/ WorkerWins(l) \/ WorkerSends(l) \/ WorkerGivesUp(l)

Collect ==
  \/ \E l \in Licenses : CollectResult(l)
  \/ SkipBatch
  \/ \E e \in 0 .. MaxEpoch : CheckFindsExpired(e)
  \/ CheckFindsCurrent
  \/ CheckFails
  \/ \E outcome \in SubmitOutcomes : SubmitBatch(outcome)
  \/ LoopEndsWithBatch
  \/ LoopEndsWithout
  \/ \E e \in 0 .. MaxEpoch : FinalCheckFindsExpired(e)
  \/ FinalCheckPasses
  \/ \E outcome \in SubmitOutcomes : SubmitFinalBatch(outcome)

RunNext ==
  \/ FeedNext /\ UNCHANGED runVars
  \/ \E eligible \in SUBSET Licenses : BeginRun(eligible)
  \/ \E l \in Licenses : Work(l)
  \/ Collect
  \/ EndRun

RunSpec == RunInit /\ [][RunNext]_allVars

\* The goroutines of a run are scheduled like the others: a worker's search for
\* a proof of work is bounded, queries and submissions return.
RunFairness ==
  /\ \A l \in Licenses : WF_allVars(Work(l))
  /\ WF_allVars(Collect)
  /\ WF_allVars(EndRun)
  /\ WF_allVars(MonitorSend /\ UNCHANGED runVars)
  /\ WF_allVars(MonitorReturn /\ UNCHANGED runVars)
  /\ WF_allVars(Receive /\ UNCHANGED runVars)
  /\ WF_allVars(StartReturn /\ UNCHANGED runVars)
  /\ WF_allVars(/\ RecheckFails \/ \E e \in 0 .. MaxEpoch : RecheckAnswered(e)
                /\ UNCHANGED runVars)
  /\ WF_allVars(\/ LicensesFail /\ UNCHANGED runVars
                \/ \E eligible \in SUBSET Licenses : BeginRun(eligible))

RunNetworkFairness ==
  /\ \A n \in Endpoints : WF_allVars(CatchUp(n) /\ UNCHANGED runVars)
  /\ WF_allVars((\E e \in 0 .. MaxEpoch : MonitorTick(e)) /\ UNCHANGED runVars)

RunFairSpec == RunSpec /\ RunFairness /\ RunNetworkFairness

-----------------------------------------------------------------------------
(* Properties *)

\* Types; a batch never outgrows the configured size and has room whenever a
\* result is taken, and the collector is active exactly while EpochFeed says
\* the processor runs an epoch.
RunTypeOK ==
  /\ runPc \in {"idle", "collecting", "checking", "submitting",
                "finalCheck", "finalSubmit", "ending"}
  /\ (runPc = "idle") <=> (procPc # "running")
  /\ worker \in [Licenses -> {"absent", "proving", "solving", "sent", "done"}]
  /\ results \in SUBSET Licenses
  /\ batch \in SUBSET Licenses
  /\ Cardinality(batch) <= BatchSize
  /\ runPc = "collecting" => Cardinality(batch) < BatchSize
  /\ expired \in BOOLEAN
  /\ submitted \in SUBSET Licenses
  /\ discarded \in SUBSET Licenses
  /\ attempts \in Nat
  /\ wins \in Nat
  /\ submissions \in Nat

Sent == {l \in Licenses : worker[l] = "sent"}

\* Every result a worker has sent is in exactly one place: in the channel, in
\* the batch, handed over for submission, or discarded with its batch.  So no
\* win is lost between the channel and the last, partial batch, and none is
\* submitted twice by one run (manager.go:239-276).
WinsAccounted ==
  /\ Sent = results \union batch \union submitted \union discarded
  /\ results \intersect (batch \union submitted \union discarded) = {}
  /\ batch \intersect (submitted \union discarded) = {}
  /\ submitted \intersect discarded = {}

\* When processEpoch is done with an epoch, and LastProcessedEpoch says so, all
\* the workers it started have finished and nothing is left in the channel or
\* the batch, also when it found the epoch expired (manager.go:226-230, 254-257).
RunIsComplete ==
  /\ runPc \in {"finalCheck", "finalSubmit", "ending", "idle"} =>
       /\ \A l \in Licenses : ~Working(l)
       /\ results = {}
  /\ runPc \in {"ending", "idle"} => batch = {}

\* No submission is counted without a win, and no win without an attempt, over
\* all the runs of a session and in the middle of each.
StatsOrdered == submissions <= wins /\ wins <= attempts

\* The strengthening that makes StatsOrdered inductive: the wins not yet
\* counted as submitted cover the results still on their way.
Solving == {l \in Licenses : worker[l] = "solving"}

WinsCoverResults ==
  submissions + Cardinality(results) + Cardinality(batch) + Cardinality(Solving) <= wins

\* With one endpoint a run throws results away only because the chain has left
\* its epoch: valid work is never discarded ("Check if epoch is still valid
\* before submitting", manager.go:245).
DiscardOnlyPassed ==
  SingleEndpoint /\ procPc = "running" /\ discarded # {} => chainEpoch > epochInfo

\* What makes it inductive: the collector's flag has the same meaning, and no
\* endpoint is ahead of the chain.
ExpiredMeansPassed ==
  /\ \A n \in Endpoints : view[n] <= chainEpoch
  /\ SingleEndpoint /\ procPc = "running" /\ (expired \/ discarded # {})
       => chainEpoch > epochInfo

\* DiscardOnlyPassed without its condition on the endpoints.
WorkDiscardedOnlyWhenPassed ==
  procPc = "running" /\ discarded # {} => chainEpoch > epochInfo

\* "skipping remaining batches" (manager.go:249): after a run has found its
\* epoch expired it submits nothing more.
ExpiredRunSubmitsNothing ==
  [][expired /\ expired' => submitted' = submitted]_allVars
=============================================================================
