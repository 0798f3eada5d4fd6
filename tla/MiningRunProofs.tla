--------------------------- MODULE MiningRunProofs ---------------------------
(***************************************************************************)
(* Proofs about MiningRun: it implements EpochFeed, its runs account for   *)
(* every win, and with one endpoint they discard none that is still valid. *)
(***************************************************************************)
EXTENDS MiningRun, EpochFeedProofs, FiniteSetTheorems

-----------------------------------------------------------------------------
(* MiningRun implements EpochFeed. *)

\* The steps of a run between its first and its last leave EpochFeed alone.
LEMMA InnerStepStutters ==
  ASSUME Collect \/ \E l \in Licenses : Work(l)
  PROVE  UNCHANGED vars
BY DEF Collect, Work, WorkerLoses, WorkerWins, WorkerSends, WorkerGivesUp,
       CollectResult, SkipBatch, CheckFindsExpired, CheckFindsCurrent, CheckFails,
       SubmitBatch, HandOver, LoopEndsWithBatch, LoopEndsWithout,
       FinalCheckFindsExpired, FinalCheckPasses, SubmitFinalBatch

LEMMA RunStepIsFeedStep ==
  ASSUME [RunNext]_allVars
  PROVE  [Next]_vars
<1>1. CASE FeedNext /\ UNCHANGED runVars
  BY <1>1 DEF Next
<1>2. ASSUME NEW eligible \in SUBSET Licenses, BeginRun(eligible)
      PROVE  Next
  BY <1>2 DEF BeginRun, Next
<1>3. CASE Collect \/ \E l \in Licenses : Work(l)
  BY <1>3, InnerStepStutters
<1>4. CASE EndRun
  BY <1>4 DEF EndRun, Next
<1>5. CASE UNCHANGED allVars
  BY <1>5 DEF allVars
<1> QED BY <1>1, <1>2, <1>3, <1>4, <1>5 DEF RunNext

\* A run worker by worker and batch by batch is, seen from the feed of epochs,
\* the one step that begins it and the one that ends it.
THEOREM RunImplementsFeed == RunSpec => Spec
<1>1. RunInit => Init
  BY DEF RunInit
<1>2. [RunNext]_allVars => [Next]_vars
  BY RunStepIsFeedStep
<1> QED BY <1>1, <1>2, PTL DEF RunSpec, Spec

\* What holds of EpochFeed holds of MiningRun.
LEMMA FeedInvariants == RunSpec => [](TypeOK /\ ReprocessingInv)
BY RunImplementsFeed, TypeCorrect, ReprocessingInvariant, PTL

\* The bound on repetitions, for the miner with its runs spelt out.
THEOREM RunRepetitionsBounded == RunSpec => []BoundedReprocessing
BY RunImplementsFeed, RepetitionsBounded, PTL

-----------------------------------------------------------------------------
(* The run's own variables *)

USE LicensesAssumption, BatchSizeAssumption
    DEF LicensesAssumption, BatchSizeAssumption

\* Sets of licenses are finite, and grow and shrink by one element at a time.
LEMMA LicenseSets ==
  ASSUME NEW S \in SUBSET Licenses
  PROVE  /\ IsFiniteSet(S)
         /\ Cardinality(S) \in Nat
         /\ \A l \in Licenses : Cardinality(S \union {l}) <= Cardinality(S) + 1
         /\ \A l \in S : Cardinality(S \ {l}) = Cardinality(S) - 1
<1>1. IsFiniteSet(S) /\ Cardinality(S) \in Nat
  BY FS_Subset, FS_CardinalityType
<1>2. ASSUME NEW l \in Licenses
      PROVE  Cardinality(S \union {l}) <= Cardinality(S) + 1
  <2>1. Cardinality(S \union {l}) \in {Cardinality(S), Cardinality(S) + 1}
    BY <1>1, FS_AddElement
  <2> QED BY <1>1, <2>1
<1>3. ASSUME NEW l \in S
      PROVE  Cardinality(S \ {l}) = Cardinality(S) - 1
  BY <1>1, FS_RemoveElement
<1> QED BY <1>1, <1>2, <1>3

\* An empty batch has room.
LEMMA NoLicenses ==
  /\ Cardinality({}) = 0
  /\ Cardinality({}) < BatchSize
  /\ Cardinality({}) <= BatchSize
<1>1. Cardinality({}) = 0
  BY FS_EmptySet
<1>2. 0 < BatchSize
  OBVIOUS
<1> QED BY <1>1, <1>2

\* The steps around a run neither begin nor end one, and while one is under way
\* they leave its epoch alone; the chain never goes back.
LEMMA FeedFrame ==
  ASSUME TypeOK, FeedNext
  PROVE  /\ (procPc' = "running") <=> (procPc = "running")
         /\ procPc = "running" => epochInfo' = epochInfo
         /\ chainEpoch' >= chainEpoch
BY DEF FeedNext, TypeOK, ChainAdvance, CatchUp, Cancel, MonitorTick,
       MonitorTickFails, MonitorSend, MonitorReturn, Receive, StartReturn,
       RecheckAnswered, RecheckFails, WorkOn, LicensesFail, Stopped,
       vars, chainVars, monVars, procVars

LEMMA RunTypeInit ==
  ASSUME RunInit
  PROVE  RunTypeOK
<1>1. batch = {} /\ procPc = "select" /\ runPc = "idle"
  BY DEF RunInit, Init
<1>2. Cardinality(batch) <= BatchSize
  BY <1>1, NoLicenses
<1> QED BY <1>1, <1>2 DEF RunInit, RunTypeOK

LEMMA RunTypeNext ==
  ASSUME TypeOK, RunTypeOK, [RunNext]_allVars
  PROVE  RunTypeOK'
<1>1. CASE FeedNext /\ UNCHANGED runVars
  BY <1>1, FeedFrame DEF RunTypeOK, runVars, collectorVars, statVars
<1>2. ASSUME NEW eligible \in SUBSET Licenses, BeginRun(eligible)
      PROVE  RunTypeOK'
  <2>1. Cardinality(batch') < BatchSize /\ Cardinality(batch') <= BatchSize
    BY <1>2, NoLicenses DEF BeginRun
  <2> QED BY <1>2, <2>1 DEF BeginRun, LicensesFound, RunTypeOK, statVars
<1>3. ASSUME NEW l \in Licenses, Work(l)
      PROVE  RunTypeOK'
  BY <1>3 DEF Work, WorkerLoses, WorkerWins, WorkerSends, WorkerGivesUp, RunTypeOK,
              vars, procVars, collectorVars, statVars
<1>4. ASSUME NEW l \in Licenses, CollectResult(l)
      PROVE  RunTypeOK'
  <2>1. /\ batch' \in SUBSET Licenses
        /\ Cardinality(batch) < BatchSize
        /\ Cardinality(batch') <= Cardinality(batch) + 1
        /\ Cardinality(batch) \in Nat /\ Cardinality(batch') \in Nat
    BY <1>4, LicenseSets DEF CollectResult, RunTypeOK
  <2> QED BY <1>4, <2>1
          DEF CollectResult, BatchFull, RunTypeOK, vars, procVars, statVars
<1>5. ASSUME NEW outcome \in SubmitOutcomes,
             SubmitBatch(outcome) \/ SubmitFinalBatch(outcome)
      PROVE  RunTypeOK'
  <2>1. submissions' \in Nat
    BY <1>5, LicenseSets DEF SubmitBatch, SubmitFinalBatch, HandOver, RunTypeOK
  <2> QED BY <1>5, <2>1, NoLicenses
          DEF SubmitBatch, SubmitFinalBatch, HandOver, RunTypeOK, vars, procVars
<1>6. CASE \/ SkipBatch \/ LoopEndsWithout
           \/ \E e \in 0 .. MaxEpoch : CheckFindsExpired(e) \/ FinalCheckFindsExpired(e)
  <2>1. batch' = {}
    BY <1>6 DEF SkipBatch, LoopEndsWithout, CheckFindsExpired,
                FinalCheckFindsExpired, DiscardBatch
  <2>2. Cardinality(batch') < BatchSize /\ Cardinality(batch') <= BatchSize
    BY <2>1, NoLicenses
  <2> QED BY <1>6, <2>1, <2>2
     DEF SkipBatch, LoopEndsWithout, CheckFindsExpired, FinalCheckFindsExpired,
         AllCollected, DiscardBatch, RunTypeOK, vars, procVars, statVars
<1>7. CASE CheckFindsCurrent \/ CheckFails \/ LoopEndsWithBatch \/ FinalCheckPasses
  BY <1>7 DEF CheckFindsCurrent, CheckFails, LoopEndsWithBatch, FinalCheckPasses,
              AllCollected, RunTypeOK, vars, procVars, statVars
<1>8. CASE EndRun
  BY <1>8 DEF EndRun, FinishRun, RunTypeOK, statVars
<1>9. CASE UNCHANGED allVars
  BY <1>9 DEF allVars, vars, procVars, runVars, collectorVars, statVars, RunTypeOK
<1> QED
  BY <1>1, <1>2, <1>3, <1>4, <1>5, <1>6, <1>7, <1>8, <1>9 DEF RunNext, Collect

\* The run's variables keep their types; a batch is never larger than the
\* configured size, for any number of licenses (manager.go:239-263).
THEOREM RunTypeCorrect == RunSpec => []RunTypeOK
BY RunTypeInit, RunTypeNext, FeedInvariants, PTL DEF RunSpec

-----------------------------------------------------------------------------
(* A run is complete, and accounts for its wins *)

LEMMA CompleteNext ==
  ASSUME RunTypeOK, RunIsComplete, [RunNext]_allVars
  PROVE  RunIsComplete'
<1>1. CASE FeedNext /\ UNCHANGED runVars
  BY <1>1 DEF RunIsComplete, Working, runVars, collectorVars
<1>2. ASSUME NEW eligible \in SUBSET Licenses, BeginRun(eligible)
      PROVE  RunIsComplete'
  BY <1>2 DEF BeginRun, RunIsComplete
<1>3. ASSUME NEW l \in Licenses, Work(l)
      PROVE  RunIsComplete'
  <2>1. Working(l) /\ UNCHANGED <<runPc, batch>>
    BY <1>3 DEF Work, WorkerLoses, WorkerWins, WorkerSends, WorkerGivesUp,
                Working, collectorVars
  <2> QED BY <2>1 DEF RunIsComplete
<1>4. CASE LoopEndsWithBatch \/ LoopEndsWithout
  BY <1>4 DEF LoopEndsWithBatch, LoopEndsWithout, AllCollected, DiscardBatch,
              RunIsComplete, Working
<1>5. CASE \/ \E e \in 0 .. MaxEpoch : FinalCheckFindsExpired(e)
           \/ FinalCheckPasses
           \/ \E outcome \in SubmitOutcomes : SubmitFinalBatch(outcome)
           \/ EndRun
  BY <1>5 DEF FinalCheckFindsExpired, FinalCheckPasses, SubmitFinalBatch, HandOver,
              EndRun, DiscardBatch, RunIsComplete, Working
<1>6. CASE \/ \E l \in Licenses : CollectResult(l)
           \/ SkipBatch
           \/ \E e \in 0 .. MaxEpoch : CheckFindsExpired(e)
           \/ CheckFindsCurrent
           \/ CheckFails
           \/ \E outcome \in SubmitOutcomes : SubmitBatch(outcome)
  BY <1>6 DEF CollectResult, SkipBatch, CheckFindsExpired, CheckFindsCurrent,
              CheckFails, SubmitBatch, RunIsComplete
<1>7. CASE UNCHANGED allVars
  BY <1>7 DEF allVars, runVars, collectorVars, RunIsComplete, Working
<1> QED BY <1>1, <1>2, <1>3, <1>4, <1>5, <1>6, <1>7 DEF RunNext, Collect

\* processEpoch joins its workers and empties channel and batch before it
\* returns, on every path (manager.go:226-287).
THEOREM RunsAreComplete == RunSpec => []RunIsComplete
<1>1. RunInit => RunIsComplete
  BY DEF RunInit, RunIsComplete, Working
<1> QED BY <1>1, CompleteNext, RunTypeCorrect, PTL DEF RunSpec

LEMMA AccountedNext ==
  ASSUME RunTypeOK, WinsAccounted, [RunNext]_allVars
  PROVE  WinsAccounted'
<1>1. CASE FeedNext /\ UNCHANGED runVars
  BY <1>1 DEF WinsAccounted, Sent, runVars, collectorVars
<1>2. ASSUME NEW eligible \in SUBSET Licenses, BeginRun(eligible)
      PROVE  WinsAccounted'
  <2>1. Sent' = {}
    BY <1>2 DEF BeginRun, Sent
  <2> QED BY <1>2, <2>1 DEF BeginRun, WinsAccounted
<1>3. ASSUME NEW l \in Licenses, WorkerSends(l)
      PROVE  WinsAccounted'
  <2>1. l \notin Sent /\ Sent' = Sent \union {l}
    BY <1>3 DEF WorkerSends, Sent, RunTypeOK
  <2> QED BY <1>3, <2>1 DEF WorkerSends, WinsAccounted, collectorVars
<1>4. ASSUME NEW l \in Licenses, WorkerLoses(l) \/ WorkerWins(l) \/ WorkerGivesUp(l)
      PROVE  WinsAccounted'
  <2>1. Sent' = Sent
    BY <1>4 DEF WorkerLoses, WorkerWins, WorkerGivesUp, Sent, RunTypeOK
  <2> QED BY <1>4, <2>1
          DEF WorkerLoses, WorkerWins, WorkerGivesUp, WinsAccounted, collectorVars
<1>5. ASSUME NEW l \in Licenses, CollectResult(l)
      PROVE  WinsAccounted'
  BY <1>5 DEF CollectResult, WinsAccounted, Sent
<1>6. CASE \/ SkipBatch \/ LoopEndsWithout
           \/ \E e \in 0 .. MaxEpoch : CheckFindsExpired(e) \/ FinalCheckFindsExpired(e)
  <2>1. DiscardBatch /\ UNCHANGED <<worker, results>>
    BY <1>6 DEF SkipBatch, LoopEndsWithout, CheckFindsExpired, FinalCheckFindsExpired
  <2> QED BY <2>1 DEF DiscardBatch, WinsAccounted, Sent
<1>7. ASSUME NEW outcome \in SubmitOutcomes,
             SubmitBatch(outcome) \/ SubmitFinalBatch(outcome)
      PROVE  WinsAccounted'
  <2>1. /\ batch' = {}
        /\ submitted' = submitted \union batch
        /\ UNCHANGED <<worker, results, discarded>>
    BY <1>7 DEF SubmitBatch, SubmitFinalBatch, HandOver
  <2> QED BY <2>1 DEF WinsAccounted, Sent
<1>8. CASE CheckFindsCurrent \/ CheckFails \/ LoopEndsWithBatch \/ FinalCheckPasses
           \/ EndRun \/ UNCHANGED allVars
  <2>1. UNCHANGED <<worker, results, batch, submitted, discarded>>
    BY <1>8 DEF CheckFindsCurrent, CheckFails, LoopEndsWithBatch, FinalCheckPasses,
                EndRun, allVars, runVars, collectorVars
  <2> QED BY <2>1 DEF WinsAccounted, Sent
<1> QED
  BY <1>1, <1>2, <1>3, <1>4, <1>5, <1>6, <1>7, <1>8 DEF RunNext, Work, Collect

\* No result is lost or handed over twice by a run, for any number of licenses,
\* any batch size and any interleaving (manager.go:209-276).
THEOREM WinsAreAccounted == RunSpec => []WinsAccounted
<1>1. RunInit => WinsAccounted
  BY DEF RunInit, WinsAccounted, Sent
<1> QED BY <1>1, AccountedNext, RunTypeCorrect, PTL DEF RunSpec

-----------------------------------------------------------------------------
(* What is handed over *)

\* A batch on its way to submission has at least one result and at most
\* BatchSize, and none that this run has submitted before.
BatchIsFresh ==
  runPc \in {"checking", "submitting", "finalCheck", "finalSubmit"} =>
    batch # {} /\ Cardinality(batch) <= BatchSize /\ batch \intersect submitted = {}

BatchIsFilled == runPc \in {"checking", "submitting", "finalCheck", "finalSubmit"} => batch # {}

LEMMA FilledNext ==
  ASSUME BatchIsFilled, [RunNext]_allVars
  PROVE  BatchIsFilled'
<1>1. CASE \/ FeedNext /\ UNCHANGED runVars
           \/ \E l \in Licenses : Work(l)
           \/ UNCHANGED allVars
  <2>1. UNCHANGED <<runPc, batch>>
    BY <1>1 DEF Work, WorkerLoses, WorkerWins, WorkerSends, WorkerGivesUp,
                allVars, runVars, collectorVars
  <2> QED BY <2>1 DEF BatchIsFilled
<1>2. CASE (\E eligible \in SUBSET Licenses : BeginRun(eligible)) \/ EndRun
  BY <1>2 DEF BeginRun, EndRun, BatchIsFilled
<1>3. CASE Collect
  BY <1>3 DEF Collect, CollectResult, SkipBatch, CheckFindsExpired, CheckFindsCurrent,
              CheckFails, SubmitBatch, HandOver, LoopEndsWithBatch, LoopEndsWithout,
              FinalCheckFindsExpired, FinalCheckPasses, SubmitFinalBatch, BatchIsFilled
<1> QED BY <1>1, <1>2, <1>3 DEF RunNext

\* For any number of licenses and any batch size, the batches of a run are not
\* empty, not too large, and share no license (manager.go:239-276): what the
\* sender's theorems about batches that share none ask of its callers.
THEOREM BatchesAreFresh == RunSpec => []BatchIsFresh
<1>1. RunInit => BatchIsFilled
  BY DEF RunInit, BatchIsFilled
<1>2. RunTypeOK /\ WinsAccounted /\ BatchIsFilled => BatchIsFresh
  BY DEF RunTypeOK, WinsAccounted, BatchIsFilled, BatchIsFresh
<1> QED BY <1>1, <1>2, FilledNext, RunTypeCorrect, WinsAreAccounted, PTL DEF RunSpec

-----------------------------------------------------------------------------
(* Expiry *)

\* A batch is on its way to submission only in a run that has not found its
\* epoch expired.
SubmittingIsCurrent ==
  runPc \in {"submitting", "finalCheck", "finalSubmit"} => ~expired

LEMMA SubmittingNext ==
  ASSUME SubmittingIsCurrent, [RunNext]_allVars
  PROVE  SubmittingIsCurrent'
<1>1. CASE \/ FeedNext /\ UNCHANGED runVars
           \/ \E l \in Licenses : Work(l)
           \/ UNCHANGED allVars
  <2>1. UNCHANGED <<runPc, expired>>
    BY <1>1 DEF Work, WorkerLoses, WorkerWins, WorkerSends, WorkerGivesUp,
                allVars, runVars, collectorVars
  <2> QED BY <2>1 DEF SubmittingIsCurrent
<1>2. CASE (\E eligible \in SUBSET Licenses : BeginRun(eligible)) \/ EndRun
  BY <1>2 DEF BeginRun, EndRun, SubmittingIsCurrent
<1>3. CASE Collect
  BY <1>3 DEF Collect, CollectResult, SkipBatch, CheckFindsExpired, CheckFindsCurrent,
              CheckFails, SubmitBatch, HandOver, LoopEndsWithBatch, LoopEndsWithout,
              FinalCheckFindsExpired, FinalCheckPasses, SubmitFinalBatch,
              SubmittingIsCurrent
<1> QED BY <1>1, <1>2, <1>3 DEF RunNext

\* Once a run has found its epoch expired it submits nothing more, however the
\* later answers of the chain turn out (manager.go:246-257, 267).
THEOREM ExpiredRunsSubmitNothing == RunSpec => ExpiredRunSubmitsNothing
<1>1. RunInit => SubmittingIsCurrent
  BY DEF RunInit, SubmittingIsCurrent
<1>2. ASSUME SubmittingIsCurrent, [RunNext]_allVars, expired, expired'
      PROVE  submitted' = submitted
  <2>1. ~ \E outcome \in SubmitOutcomes : SubmitBatch(outcome) \/ SubmitFinalBatch(outcome)
    BY <1>2 DEF SubmitBatch, SubmitFinalBatch, SubmittingIsCurrent
  <2>2. ~ \E eligible \in SUBSET Licenses : BeginRun(eligible)
    BY <1>2 DEF BeginRun
  <2> QED BY <1>2, <2>1, <2>2
    DEF RunNext, Work, Collect, WorkerLoses, WorkerWins, WorkerSends, WorkerGivesUp,
        CollectResult, SkipBatch, CheckFindsExpired, CheckFindsCurrent, CheckFails,
        LoopEndsWithBatch, LoopEndsWithout, FinalCheckFindsExpired, FinalCheckPasses,
        DiscardBatch, EndRun, allVars, runVars, collectorVars
<1>3. SubmittingIsCurrent /\ [RunNext]_allVars
        => [expired /\ expired' => submitted' = submitted]_allVars
  BY <1>2
<1> QED BY <1>1, SubmittingNext, <1>3, PTL DEF RunSpec, ExpiredRunSubmitsNothing

LEMMA PassedNext ==
  ASSUME TypeOK, TypeOK', RunTypeOK, ReprocessingInv, ExpiredMeansPassed, [RunNext]_allVars
  PROVE  ExpiredMeansPassed'
<1>1. CASE FeedNext /\ UNCHANGED runVars
  <2>0. /\ chainEpoch \in Nat
        /\ \A n \in Endpoints : view[n] \in Nat /\ view[n] <= chainEpoch
    BY DEF TypeOK, ExpiredMeansPassed
  <2>1. \A n \in Endpoints : view'[n] <= chainEpoch'
    <3>1. CASE ChainAdvance
      <4>1. chainEpoch' = chainEpoch + 1
        BY <3>1 DEF ChainAdvance
      <4> QED BY <2>0, <3>1, <4>1 DEF ChainAdvance
    <3>2. ASSUME NEW m \in Endpoints, CatchUp(m)
          PROVE  \A n \in Endpoints : view'[n] <= chainEpoch'
      BY <3>2 DEF CatchUp, TypeOK, ExpiredMeansPassed
    <3>3. CASE UNCHANGED chainVars
      BY <3>3 DEF chainVars, ExpiredMeansPassed
    <3> QED
      BY <1>1, <3>1, <3>2, <3>3
         DEF FeedNext, Cancel, MonitorTick, MonitorTickFails, MonitorSend,
             MonitorReturn, Receive, StartReturn, RecheckAnswered, RecheckFails,
             WorkOn, LicensesFail, Stopped, vars
  <2>2. chainEpoch \in Nat /\ chainEpoch' \in Nat /\ epochInfo \in Nat
    BY DEF TypeOK
  <2> QED BY <1>1, <2>1, <2>2, FeedFrame
          DEF ExpiredMeansPassed, SingleEndpoint, runVars, collectorVars
<1>2. ASSUME NEW eligible \in SUBSET Licenses, BeginRun(eligible)
      PROVE  ExpiredMeansPassed'
  BY <1>2 DEF BeginRun, LicensesFound, chainVars, ExpiredMeansPassed
<1>3. CASE EndRun
  BY <1>3 DEF EndRun, FinishRun, chainVars, ExpiredMeansPassed
<1>4. ASSUME NEW e \in 0 .. MaxEpoch, CheckFindsExpired(e) \/ FinalCheckFindsExpired(e)
      PROVE  ExpiredMeansPassed'
  <2>1. UNCHANGED vars /\ AnswersEpoch(e) /\ e # epochInfo
    BY <1>4 DEF CheckFindsExpired, FinalCheckFindsExpired
  <2>2. ASSUME SingleEndpoint
        PROVE  chainEpoch > epochInfo
    <3>1. PICK n \in Endpoints : view[n] = e
      BY <2>1, <2>2, AnswerOfSingle, EndpointsAssumption DEF EndpointsAssumption
    <3>2. epochInfo <= e /\ e <= chainEpoch
      BY <2>2, <3>1 DEF ReprocessingInv, NothingAhead, ExpiredMeansPassed
    <3> QED BY <2>1, <3>2 DEF TypeOK
  <2> QED BY <2>1, <2>2
          DEF ExpiredMeansPassed, SingleEndpoint, vars, chainVars, procVars
<1>5. CASE SkipBatch \/ LoopEndsWithout
  BY <1>5 DEF SkipBatch, LoopEndsWithout, AllCollected, DiscardBatch,
              ExpiredMeansPassed, vars, chainVars, procVars
<1>6. CASE \/ \E l \in Licenses : Work(l) \/ CollectResult(l)
           \/ CheckFindsCurrent \/ CheckFails \/ LoopEndsWithBatch \/ FinalCheckPasses
           \/ \E outcome \in SubmitOutcomes :
                SubmitBatch(outcome) \/ SubmitFinalBatch(outcome)
           \/ UNCHANGED allVars
  <2>1. UNCHANGED <<chainEpoch, view, procPc, epochInfo, expired, discarded>>
    BY <1>6 DEF Work, WorkerLoses, WorkerWins, WorkerSends, WorkerGivesUp, CollectResult,
        CheckFindsCurrent, CheckFails, LoopEndsWithBatch, FinalCheckPasses,
        SubmitBatch, SubmitFinalBatch, HandOver,
        allVars, runVars, collectorVars, vars, chainVars, procVars
  <2> QED BY <2>1 DEF ExpiredMeansPassed
<1> QED BY <1>1, <1>2, <1>3, <1>4, <1>5, <1>6 DEF RunNext, Collect

\* A miner with one endpoint discards results only of an epoch the chain has
\* left, for any number of epochs and licenses (manager.go:246-257, 267-276).
THEOREM OnlyPassedIsDiscarded == RunSpec => []DiscardOnlyPassed
<1>1. RunInit => ExpiredMeansPassed
  BY DEF RunInit, Init, ExpiredMeansPassed
<1>2. ExpiredMeansPassed => DiscardOnlyPassed
  BY DEF ExpiredMeansPassed, DiscardOnlyPassed
<1> QED BY <1>1, <1>2, PassedNext, RunTypeCorrect, FeedInvariants, PTL DEF RunSpec

-----------------------------------------------------------------------------
(* The session's statistics *)

\* The sizes that WinsCoverResults adds up are numbers.
LEMMA SizesAreNumbers ==
  ASSUME RunTypeOK
  PROVE  /\ Cardinality(results) \in Nat
         /\ Cardinality(batch) \in Nat
         /\ Cardinality(Solving) \in Nat
BY LicenseSets DEF RunTypeOK, Solving

LEMMA CoverNext ==
  ASSUME RunTypeOK, RunTypeOK', WinsCoverResults, [RunNext]_allVars
  PROVE  WinsCoverResults'
<1>1. /\ Cardinality(results) \in Nat /\ Cardinality(results') \in Nat
      /\ Cardinality(batch) \in Nat /\ Cardinality(batch') \in Nat
      /\ Cardinality(Solving) \in Nat /\ Cardinality(Solving') \in Nat
      /\ submissions \in Nat /\ submissions' \in Nat
      /\ wins \in Nat /\ wins' \in Nat
  BY LicenseSets DEF RunTypeOK, Solving
<1>2. ASSUME NEW eligible \in SUBSET Licenses, BeginRun(eligible)
      PROVE  WinsCoverResults'
  <2>1. results' = {} /\ batch' = {} /\ Solving' = {} /\ UNCHANGED statVars
    BY <1>2 DEF BeginRun, Solving
  <2>2. Cardinality(results') = 0 /\ Cardinality(batch') = 0 /\ Cardinality(Solving') = 0
    BY <2>1, NoLicenses
  <2> QED BY <1>1, <2>1, <2>2 DEF WinsCoverResults, statVars
<1>3. ASSUME NEW l \in Licenses, WorkerWins(l)
      PROVE  WinsCoverResults'
  <2>1. Solving' = Solving \union {l}
    BY <1>3 DEF WorkerWins, Solving, RunTypeOK
  <2>2. Cardinality(Solving') <= Cardinality(Solving) + 1
    BY <2>1, LicenseSets DEF Solving
  <2>3. wins' = wins + 1 /\ UNCHANGED <<results, batch, submissions>>
    BY <1>3 DEF WorkerWins, collectorVars
  <2> QED BY <1>1, <2>2, <2>3 DEF WinsCoverResults
<1>4. ASSUME NEW l \in Licenses, WorkerSends(l)
      PROVE  WinsCoverResults'
  <2>1. l \in Solving /\ Solving' = Solving \ {l}
    BY <1>4 DEF WorkerSends, Solving, RunTypeOK
  <2>2. Cardinality(Solving') = Cardinality(Solving) - 1
    BY <2>1, LicenseSets DEF Solving
  <2>3. Cardinality(results') <= Cardinality(results) + 1
    BY <1>4, LicenseSets DEF WorkerSends, RunTypeOK
  <2>4. UNCHANGED <<batch, wins, submissions>>
    BY <1>4 DEF WorkerSends, collectorVars, statVars
  <2> QED BY <1>1, <2>2, <2>3, <2>4 DEF WinsCoverResults
<1>5. ASSUME NEW l \in Licenses, WorkerGivesUp(l) \/ WorkerLoses(l)
      PROVE  WinsCoverResults'
  <2>1. Solving' = Solving \ {l} /\ UNCHANGED <<results, batch, submissions, wins>>
    BY <1>5 DEF WorkerGivesUp, WorkerLoses, Solving, RunTypeOK, collectorVars, statVars
  <2>2. Cardinality(Solving') <= Cardinality(Solving)
    <3>1. CASE l \in Solving
      <4>1. Cardinality(Solving') = Cardinality(Solving) - 1
        BY <2>1, <3>1, LicenseSets DEF Solving
      <4> QED BY <1>1, <4>1
    <3>2. CASE l \notin Solving
      <4>1. Solving' = Solving
        BY <2>1, <3>2
      <4> QED BY <1>1, <4>1
    <3> QED BY <3>1, <3>2
  <2> QED BY <1>1, <2>1, <2>2 DEF WinsCoverResults
<1>6. ASSUME NEW l \in Licenses, CollectResult(l)
      PROVE  WinsCoverResults'
  <2>1. Cardinality(results') = Cardinality(results) - 1
        /\ Cardinality(batch') <= Cardinality(batch) + 1
    BY <1>6, LicenseSets DEF CollectResult, RunTypeOK
  <2>2. Solving' = Solving /\ UNCHANGED <<submissions, wins>>
    BY <1>6 DEF CollectResult, Solving, statVars
  <2> QED BY <1>1, <2>1, <2>2 DEF WinsCoverResults
<1>7. ASSUME NEW outcome \in SubmitOutcomes,
             SubmitBatch(outcome) \/ SubmitFinalBatch(outcome)
      PROVE  WinsCoverResults'
  <2>1. submissions' <= submissions + Cardinality(batch)
    BY <1>1, <1>7 DEF SubmitBatch, SubmitFinalBatch, HandOver
  <2>2. batch' = {} /\ UNCHANGED <<results, worker, wins>>
    BY <1>7 DEF SubmitBatch, SubmitFinalBatch, HandOver
  <2>3. Cardinality(batch') = 0 /\ Solving' = Solving
    BY <2>2, NoLicenses DEF Solving
  <2> QED BY <1>1, <2>1, <2>2, <2>3 DEF WinsCoverResults
<1>8. CASE \/ SkipBatch \/ LoopEndsWithout
           \/ \E e \in 0 .. MaxEpoch : CheckFindsExpired(e) \/ FinalCheckFindsExpired(e)
  <2>1. batch' = {} /\ UNCHANGED <<results, worker, statVars>>
    BY <1>8 DEF SkipBatch, LoopEndsWithout, CheckFindsExpired, FinalCheckFindsExpired,
                DiscardBatch
  <2>2. Cardinality(batch') = 0 /\ Solving' = Solving
    BY <2>1, NoLicenses DEF Solving
  <2> QED BY <1>1, <2>1, <2>2 DEF WinsCoverResults, statVars
<1>9. CASE CheckFindsCurrent \/ CheckFails \/ LoopEndsWithBatch \/ FinalCheckPasses
           \/ EndRun \/ UNCHANGED allVars \/ (FeedNext /\ UNCHANGED runVars)
  <2>1. UNCHANGED <<results, worker, batch, statVars>>
    BY <1>9 DEF CheckFindsCurrent, CheckFails, LoopEndsWithBatch, FinalCheckPasses,
                EndRun, allVars, runVars, collectorVars
  <2>2. Solving' = Solving
    BY <2>1 DEF Solving
  <2> QED BY <2>1, <2>2 DEF WinsCoverResults, statVars
<1> QED
  BY <1>2, <1>3, <1>4, <1>5, <1>6, <1>7, <1>8, <1>9 DEF RunNext, Work, Collect

\* No win is counted without its attempt.
WinsAttempted == wins <= attempts

LEMMA AttemptsNext ==
  ASSUME RunTypeOK, WinsAttempted, [RunNext]_allVars
  PROVE  WinsAttempted'
<1> USE DEF WinsAttempted
<1>1. CASE \E l \in Licenses : WorkerLoses(l) \/ WorkerWins(l)
  BY <1>1 DEF WorkerLoses, WorkerWins, RunTypeOK
<1>2. CASE UNCHANGED <<wins, attempts>>
  BY <1>2
<1>3. CASE ~ \E l \in Licenses : WorkerLoses(l) \/ WorkerWins(l)
  <2>1. UNCHANGED <<wins, attempts>>
    BY <1>3
    DEF RunNext, BeginRun, Work, WorkerSends, WorkerGivesUp,
        Collect, CollectResult, SkipBatch, CheckFindsExpired, CheckFindsCurrent,
        CheckFails, SubmitBatch, HandOver, LoopEndsWithBatch, LoopEndsWithout,
        FinalCheckFindsExpired, FinalCheckPasses, SubmitFinalBatch, EndRun,
        allVars, runVars, statVars
  <2> QED BY <2>1
<1> QED BY <1>1, <1>3

\* Over all the runs of a session the counters never report a submission
\* without a win or a win without an attempt (manager.go:301, 329, 417-452).
THEOREM StatsAreOrdered == RunSpec => [](WinsCoverResults /\ StatsOrdered)
<1>1. RunInit => WinsCoverResults /\ WinsAttempted
  <2> SUFFICES ASSUME RunInit
               PROVE  WinsCoverResults /\ WinsAttempted
    OBVIOUS
  <2>1. results = {} /\ batch = {} /\ Solving = {}
    BY DEF RunInit, Solving
  <2>2. Cardinality(results) = 0 /\ Cardinality(batch) = 0 /\ Cardinality(Solving) = 0
    BY <2>1, NoLicenses
  <2>3. submissions = 0 /\ wins = 0 /\ attempts = 0
    BY DEF RunInit
  <2> QED BY <2>2, <2>3 DEF WinsCoverResults, WinsAttempted
<1>2. RunTypeOK /\ WinsCoverResults /\ WinsAttempted => StatsOrdered
  BY SizesAreNumbers DEF WinsCoverResults, StatsOrdered, WinsAttempted, RunTypeOK
<1> QED BY <1>1, <1>2, CoverNext, AttemptsNext, RunTypeCorrect, PTL DEF RunSpec

-----------------------------------------------------------------------------
(* Running down *)

\* What a run still has to do: a license that is proving may have to solve, to
\* send, and to be collected, checked and submitted on its own; the collector
\* has at most a batch to check and submit.
Proving == {l \in Licenses : worker[l] = "proving"}

CollectorSteps ==
  IF runPc = "checking" THEN 6
  ELSE IF runPc = "submitting" THEN 5
  ELSE IF runPc = "collecting" THEN 4
  ELSE IF runPc = "finalCheck" THEN 3
  ELSE IF runPc = "finalSubmit" THEN 2
  ELSE IF runPc = "ending" THEN 1 ELSE 0

RunStepsLeft ==
  5 * Cardinality(Proving) + 4 * Cardinality(Solving) + 3 * Cardinality(results) + CollectorSteps

RunStep == (\E l \in Licenses : Work(l)) \/ Collect \/ EndRun

\* Every step of a run brings its end nearer; no step of the chain, the monitor
\* or a signal puts it off.
RunsRunDown ==
  [][ /\ RunStep => RunStepsLeft' < RunStepsLeft
      /\ FeedNext /\ UNCHANGED runVars => RunStepsLeft' = RunStepsLeft
      /\ (\E eligible \in SUBSET Licenses : BeginRun(eligible))
           => RunStepsLeft' <= 5 * Cardinality(Licenses) + 4 ]_allVars

LEMMA WorkRunsDown ==
  ASSUME RunTypeOK, RunTypeOK', NEW l \in Licenses, Work(l)
  PROVE  RunStepsLeft' < RunStepsLeft
<1>1. /\ Cardinality(Proving) \in Nat /\ Cardinality(Proving') \in Nat
      /\ Cardinality(Solving) \in Nat /\ Cardinality(Solving') \in Nat
      /\ Cardinality(results) \in Nat /\ Cardinality(results') \in Nat
  BY LicenseSets DEF RunTypeOK, Proving, Solving
<1>2. CollectorSteps' = CollectorSteps /\ CollectorSteps \in 0 .. 6
  BY DEF Work, WorkerLoses, WorkerWins, WorkerSends, WorkerGivesUp, collectorVars,
     CollectorSteps
<1>3. CASE WorkerLoses(l)
  <2>1. l \in Proving /\ Proving' = Proving \ {l} /\ Solving' = Solving /\ results' = results
    BY <1>3 DEF WorkerLoses, Proving, Solving, RunTypeOK
  <2>2. Cardinality(Proving') = Cardinality(Proving) - 1
    BY <2>1, LicenseSets DEF Proving
  <2> QED BY <1>1, <1>2, <2>1, <2>2 DEF RunStepsLeft
<1>4. CASE WorkerWins(l)
  <2>1. l \in Proving /\ Proving' = Proving \ {l} /\ Solving' = Solving \union {l}
        /\ results' = results
    BY <1>4 DEF WorkerWins, Proving, Solving, RunTypeOK
  <2>2. /\ Cardinality(Proving') = Cardinality(Proving) - 1
        /\ Cardinality(Solving') <= Cardinality(Solving) + 1
    BY <2>1, LicenseSets DEF Proving, Solving
  <2> QED BY <1>1, <1>2, <2>1, <2>2 DEF RunStepsLeft
<1>5. CASE WorkerSends(l)
  <2>1. l \in Solving /\ Proving' = Proving /\ Solving' = Solving \ {l}
        /\ results' = results \union {l}
    BY <1>5 DEF WorkerSends, Proving, Solving, RunTypeOK
  <2>2. /\ Cardinality(Solving') = Cardinality(Solving) - 1
        /\ Cardinality(results') <= Cardinality(results) + 1
    BY <2>1, LicenseSets DEF Solving, RunTypeOK
  <2> QED BY <1>1, <1>2, <2>1, <2>2 DEF RunStepsLeft
<1>6. CASE WorkerGivesUp(l)
  <2>1. l \in Solving /\ Proving' = Proving /\ Solving' = Solving \ {l} /\ results' = results
    BY <1>6 DEF WorkerGivesUp, Proving, Solving, RunTypeOK
  <2>2. Cardinality(Solving') = Cardinality(Solving) - 1
    BY <2>1, LicenseSets DEF Solving
  <2> QED BY <1>1, <1>2, <2>1, <2>2 DEF RunStepsLeft
<1> QED BY <1>3, <1>4, <1>5, <1>6 DEF Work

LEMMA CollectRunsDown ==
  ASSUME RunTypeOK, RunTypeOK', Collect \/ EndRun
  PROVE  RunStepsLeft' < RunStepsLeft
<1>1. /\ Cardinality(Proving) \in Nat /\ Cardinality(Solving) \in Nat
      /\ Cardinality(results) \in Nat /\ Cardinality(results') \in Nat
  BY LicenseSets DEF RunTypeOK, Proving, Solving
<1>2. Proving' = Proving /\ Solving' = Solving
  BY DEF Collect, CollectResult, SkipBatch, CheckFindsExpired, CheckFindsCurrent,
        CheckFails, SubmitBatch, HandOver, LoopEndsWithBatch, LoopEndsWithout,
        FinalCheckFindsExpired, FinalCheckPasses, SubmitFinalBatch, EndRun, Proving, Solving
<1>3. CASE \E l \in Licenses : CollectResult(l)
  <2>1. Cardinality(results') = Cardinality(results) - 1
    BY <1>3, LicenseSets DEF CollectResult, RunTypeOK
  <2>2. CollectorSteps = 4 /\ CollectorSteps' \in {4, 6}
    BY <1>3 DEF CollectResult, CollectorSteps
  <2> QED BY <1>1, <1>2, <2>1, <2>2 DEF RunStepsLeft
<1>4. CASE ~ \E l \in Licenses : CollectResult(l)
  <2>1. results' = results
    BY <1>4 DEF Collect, SkipBatch, CheckFindsExpired, CheckFindsCurrent,
        CheckFails, SubmitBatch, HandOver, LoopEndsWithBatch, LoopEndsWithout,
        FinalCheckFindsExpired, FinalCheckPasses, SubmitFinalBatch, EndRun
  <2>2. CollectorSteps' < CollectorSteps
    BY <1>4 DEF Collect, SkipBatch, CheckFindsExpired, CheckFindsCurrent,
        CheckFails, SubmitBatch, LoopEndsWithBatch, LoopEndsWithout, AllCollected,
        FinalCheckFindsExpired, FinalCheckPasses, SubmitFinalBatch, EndRun, CollectorSteps
  <2>3. CollectorSteps \in 0 .. 6 /\ CollectorSteps' \in 0 .. 6
    BY DEF CollectorSteps
  <2> QED BY <1>1, <1>2, <2>1, <2>2, <2>3 DEF RunStepsLeft
<1> QED BY <1>3, <1>4

LEMMA BeginBounded ==
  ASSUME NEW eligible \in SUBSET Licenses, BeginRun(eligible)
  PROVE  RunStepsLeft' <= 5 * Cardinality(Licenses) + 4
<1>1. Proving' = eligible /\ Solving' = {} /\ results' = {} /\ runPc' = "collecting"
  BY DEF BeginRun, Proving, Solving
<1>2. /\ Cardinality(eligible) <= Cardinality(Licenses)
      /\ Cardinality(eligible) \in Nat /\ Cardinality(Licenses) \in Nat
  BY FS_Subset, FS_CardinalityType
<1>3. CollectorSteps' = 4
  BY <1>1 DEF CollectorSteps
<1>4. RunStepsLeft' = 5 * Cardinality(eligible) + 4 * 0 + 3 * 0 + 4
  BY <1>1, <1>3, NoLicenses DEF RunStepsLeft
<1> QED BY <1>2, <1>4

\* A run ends within 5 * |Licenses| + 4 steps of its own, for any licenses and
\* any batch size, whatever its checks and submissions answer and whether or not
\* it is cancelled (manager.go:209-287).
THEOREM RunsAreBounded == RunSpec => RunsRunDown
<1>1. RunTypeOK /\ RunTypeOK' /\ [RunNext]_allVars
        => [ /\ RunStep => RunStepsLeft' < RunStepsLeft
             /\ FeedNext /\ UNCHANGED runVars => RunStepsLeft' = RunStepsLeft
             /\ (\E eligible \in SUBSET Licenses : BeginRun(eligible))
                  => RunStepsLeft' <= 5 * Cardinality(Licenses) + 4 ]_allVars
  <2>1. UNCHANGED runVars => RunStepsLeft' = RunStepsLeft
    BY DEF runVars, collectorVars, RunStepsLeft, Proving, Solving, CollectorSteps
  <2> QED BY <2>1, WorkRunsDown, CollectRunsDown, BeginBounded DEF RunStep
<1> QED BY <1>1, RunTypeCorrect, PTL DEF RunSpec, RunsRunDown
=============================================================================
