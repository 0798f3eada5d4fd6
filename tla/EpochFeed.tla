------------------------------ MODULE EpochFeed ------------------------------
(***************************************************************************)
(* How the miner learns about epochs and decides which one to work on.     *)
(*                                                                         *)
(* Two goroutines share a channel of capacity one.  The monitor            *)
(* (ChainClient.MonitorEpochs) polls the chain on a ticker and sends every *)
(* epoch above the last one it sent.  The processor (MinerManager.Start    *)
(* and processEpoch) receives an epoch, asks the chain again whether it is *)
(* still current, asks for the licenses it may mine and runs the epoch.    *)
(* The run itself is one pair of steps here, LicensesFound and FinishRun;  *)
(* module MiningRun refines what happens between them.                     *)
(*                                                                         *)
(* The chain is external: its epoch only grows, and each gRPC endpoint     *)
(* serves a view of it that may lag.                                       *)
(***************************************************************************)
EXTENDS Naturals, Sequences

CONSTANTS
  Endpoints,  \* the gRPC endpoints the operator configured
  MaxEpoch    \* bound on the epochs the chain reaches

ASSUME EndpointsAssumption == Endpoints # {}
ASSUME MaxEpochAssumption == MaxEpoch \in Nat \ {0}

VARIABLES
  chainEpoch,     \* the epoch of the chain itself
  view,           \* the epoch each endpoint answers with
  ctxDone,        \* the context passed to Start has been cancelled
  reachable,      \* the chain-reachable gauge the monitor exports
  monPc,          \* where the monitor is
  lastEpoch,      \* the monitor's lastEpoch
  epochChan,      \* the channel between the two goroutines
  procPc,         \* where the processor is
  epochInfo,      \* the epoch processEpoch works on
  startEpoch,     \* MiningStats.StartEpoch
  lastProcessed,  \* MiningStats.LastProcessedEpoch
  begun           \* history: how many runs each epoch has been given

chainVars == <<chainEpoch, view>>
monVars == <<reachable, monPc, lastEpoch>>
procVars == <<procPc, epochInfo, startEpoch, lastProcessed, begun>>
vars == <<chainVars, ctxDone, monVars, epochChan, procVars>>

Epochs == 1 .. MaxEpoch

Init ==
  /\ chainEpoch = 0
  /\ view = [n \in Endpoints |-> 0]
  /\ ctxDone = FALSE
  /\ reachable = FALSE
  /\ monPc = "waiting"
  /\ lastEpoch = 0
  /\ epochChan = <<>>
  /\ procPc = "select"
  /\ epochInfo = 0
  /\ startEpoch = 0
  /\ lastProcessed = 0
  /\ begun = [e \in Epochs |-> 0]

-----------------------------------------------------------------------------
(* The chain and its endpoints. *)

ChainAdvance ==
  /\ chainEpoch < MaxEpoch
  /\ chainEpoch' = chainEpoch + 1
  /\ UNCHANGED <<view, ctxDone, monVars, epochChan, procVars>>

CatchUp(n) ==
  /\ view[n] < chainEpoch
  /\ view' = [view EXCEPT ![n] = chainEpoch]
  /\ UNCHANGED <<chainEpoch, ctxDone, monVars, epochChan, procVars>>

\* GetCurrentEpoch returns the highest epoch among the endpoints that answered
\* (all but those in the set that stays silent); with one endpoint that is its
\* only view.  A cancelled context fails every query.
AnswersEpoch(e) ==
  /\ ~ctxDone
  /\ \E answered \in SUBSET Endpoints :
       /\ e \in {view[n] : n \in answered}
       /\ \A n \in answered : view[n] <= e

Cancel ==
  /\ ~ctxDone
  /\ ctxDone' = TRUE
  /\ UNCHANGED <<chainVars, monVars, epochChan, procVars>>

-----------------------------------------------------------------------------
(* MonitorEpochs *)

ChanCapacity_Two == 2
ChanCapacity == 1

IsNewEpoch_NotBelow(e) == e >= lastEpoch
IsNewEpoch_SkipsNext(e) == e > lastEpoch + 1
IsNewEpoch(e) == e > lastEpoch

\* A tick whose query is answered: an epoch above lastEpoch is remembered and
\* about to be sent, any other is ignored.
MonitorTick(e) ==
  /\ monPc = "waiting"
  /\ AnswersEpoch(e)
  /\ reachable' = TRUE
  /\ IF IsNewEpoch(e)
     THEN monPc' = "sending" /\ lastEpoch' = e
     ELSE UNCHANGED <<monPc, lastEpoch>>
  /\ UNCHANGED <<chainVars, ctxDone, epochChan, procVars>>

MonitorTickFails ==
  /\ monPc = "waiting"
  /\ reachable' = FALSE
  /\ UNCHANGED <<chainVars, ctxDone, monPc, lastEpoch, epochChan, procVars>>

MonitorSend ==
  /\ monPc = "sending"
  /\ Len(epochChan) < ChanCapacity
  /\ epochChan' = Append(epochChan, lastEpoch)
  /\ monPc' = "waiting"
  /\ UNCHANGED <<chainVars, ctxDone, reachable, lastEpoch, procVars>>

MonitorReturn_OnlyFromTicker ==
  /\ monPc = "waiting"
  /\ ctxDone
  /\ monPc' = "returned"
  /\ UNCHANGED <<chainVars, ctxDone, reachable, lastEpoch, epochChan, procVars>>

\* Both selects of the monitor, the one on the ticker and the one on the send,
\* also watch the context.
MonitorReturn ==
  /\ monPc \in {"waiting", "sending"}
  /\ ctxDone
  /\ monPc' = "returned"
  /\ UNCHANGED <<chainVars, ctxDone, reachable, lastEpoch, epochChan, procVars>>

-----------------------------------------------------------------------------
(* Start and processEpoch *)

Receive ==
  /\ procPc = "select"
  /\ epochChan # <<>>
  /\ epochInfo' = Head(epochChan)
  /\ epochChan' = Tail(epochChan)
  /\ procPc' = "recheck"
  /\ UNCHANGED <<chainVars, ctxDone, monVars, startEpoch, lastProcessed, begun>>

StartReturn ==
  /\ procPc = "select"
  /\ ctxDone
  /\ procPc' = "returned"
  /\ UNCHANGED <<chainVars, ctxDone, monVars, epochChan,
                 epochInfo, startEpoch, lastProcessed, begun>>

\* The end of the freshness check: the run will work on e.  The first epoch of
\* the session also starts the statistics.
WorkOn(e) ==
  /\ epochInfo' = e
  /\ procPc' = "licenses"
  /\ IF startEpoch = 0
     THEN startEpoch' = e /\ lastProcessed' = 0
     ELSE UNCHANGED <<startEpoch, lastProcessed>>
  /\ UNCHANGED <<chainVars, ctxDone, monVars, epochChan, begun>>

\* The epoch to work on, given the one the chain answered.
Fresher_MissesNext(e) == IF e > epochInfo + 1 THEN e ELSE epochInfo
Fresher(e) == IF e > epochInfo THEN e ELSE epochInfo

RecheckAnswered(e) ==
  /\ procPc = "recheck"
  /\ AnswersEpoch(e)
  /\ WorkOn(Fresher(e))

RecheckFails ==
  /\ procPc = "recheck"
  /\ WorkOn(epochInfo)

\* The license query fails or finds none: the epoch is dropped for good.
LicensesFail ==
  /\ procPc = "licenses"
  /\ procPc' = "select"
  /\ UNCHANGED <<chainVars, ctxDone, monVars, epochChan,
                 epochInfo, startEpoch, lastProcessed, begun>>

LicensesFound ==
  /\ procPc = "licenses"
  /\ ~ctxDone
  /\ procPc' = "running"
  /\ begun' = [begun EXCEPT ![epochInfo] = @ + 1]
  /\ UNCHANGED <<chainVars, ctxDone, monVars, epochChan,
                 epochInfo, startEpoch, lastProcessed>>

FinishRun ==
  /\ procPc = "running"
  /\ lastProcessed' = epochInfo
  /\ procPc' = "select"
  /\ UNCHANGED <<chainVars, ctxDone, monVars, epochChan,
                 epochInfo, startEpoch, begun>>

\* Both goroutines have returned; nothing of the miner moves any more.
Stopped ==
  /\ monPc = "returned"
  /\ procPc = "returned"
  /\ UNCHANGED vars

-----------------------------------------------------------------------------
\* Every step but those of a run of an epoch.
FeedNext ==
  \/ ChainAdvance
  \/ \E n \in Endpoints : CatchUp(n)
  \/ Cancel
  \/ \E e \in 0 .. MaxEpoch : MonitorTick(e)
  \/ MonitorTickFails
  \/ MonitorSend
  \/ MonitorReturn
  \/ Receive
  \/ StartReturn
  \/ \E e \in 0 .. MaxEpoch : RecheckAnswered(e)
  \/ RecheckFails
  \/ LicensesFail
  \/ Stopped

Next ==
  \/ FeedNext
  \/ LicensesFound
  \/ FinishRun

Spec == Init /\ [][Next]_vars

\* The steps whose outcome the network decides: a poll that is answered, the
\* question for freshness, the question for licenses.
Poll == \E e \in 0 .. MaxEpoch : MonitorTick(e)
Recheck == RecheckFails \/ \E e \in 0 .. MaxEpoch : RecheckAnswered(e)
AskLicenses == LicensesFail \/ LicensesFound

\* A goroutine that can run does run: a select that has both the context and a
\* channel ready picks either at random, a blocked send proceeds when there is
\* room, a query returns an answer or an error, and a run comes to its end.
SchedulerFairness ==
  /\ WF_vars(MonitorSend)
  /\ WF_vars(MonitorReturn)
  /\ WF_vars(Receive)
  /\ WF_vars(StartReturn)
  /\ WF_vars(Recheck)
  /\ WF_vars(AskLicenses)
  /\ WF_vars(FinishRun)

\* What is asked of the outside: endpoints keep up with the chain, and a
\* monitor that goes on polling is answered now and then.
KeepsUp(n) == WF_vars(CatchUp(n))

AllKeepUp == \A n \in Endpoints : KeepsUp(n)

NetworkFairness == AllKeepUp /\ WF_vars(Poll)

FairSpec == Spec /\ SchedulerFairness /\ NetworkFairness

-----------------------------------------------------------------------------
(* Properties *)

\* Types, and two facts that go with them: an epoch on its way to a run is
\* never the unset epoch zero, and the channel holds at most one epoch.
TypeOK ==
  /\ chainEpoch \in 0 .. MaxEpoch
  /\ view \in [Endpoints -> 0 .. MaxEpoch]
  /\ ctxDone \in BOOLEAN
  /\ reachable \in BOOLEAN
  /\ monPc \in {"waiting", "sending", "returned"}
  /\ lastEpoch \in 0 .. MaxEpoch
  /\ monPc = "sending" => lastEpoch \in Epochs
  /\ epochChan \in Seq(Epochs)
  /\ Len(epochChan) <= 1
  /\ procPc \in {"select", "recheck", "licenses", "running", "returned"}
  /\ epochInfo \in 0 .. MaxEpoch
  /\ procPc \in {"recheck", "licenses", "running"} => epochInfo \in Epochs
  /\ startEpoch \in 0 .. MaxEpoch
  /\ lastProcessed \in 0 .. MaxEpoch
  /\ begun \in [Epochs -> Nat]

SingleEndpoint == \A m, n \in Endpoints : m = n

\* An epoch is run again when the freshness check jumps to it before the
\* monitor has sent it (manager.go:179-182 against queries.go:346).  With one
\* endpoint the repetitions are bounded by the epochs in flight when the chain
\* entered the epoch: one in the processor's hands, one in the channel, one in
\* the blocked send, and the epoch itself.
BoundedReprocessing == SingleEndpoint => \A e \in Epochs : begun[e] <= 4

\* With one endpoint, a freshness check that is answered never takes the miner
\* back to an epoch below one it has already run, however old the epoch taken
\* from the channel (the purpose stated at manager.go:174-175).
FreshAfterRecheck ==
  [][ SingleEndpoint /\ (\E e \in 0 .. MaxEpoch : RecheckAnswered(e))
        => \A k \in Epochs : begun[k] > 0 => k <= epochInfo' ]_vars

\* A cancelled miner shuts down: both goroutines return, whatever they were
\* blocked on (manager.go:163-165, queries.go:334-336 and 348-352).
ShutsDown == ctxDone ~> (monPc = "returned" /\ procPc = "returned")

\* An epoch the chain stays in is in the end the one the processor has taken
\* up, and no older epoch still in flight replaces it: the monitor may skip
\* epochs but never the one the chain has come to rest in.
FinalEpochTakenUp ==
  \A e \in Epochs :
    <>[](chainEpoch = e /\ ~ctxDone) => <>[](epochInfo = e)

\* What makes BoundedReprocessing inductive.  Nothing of the miner is ahead of
\* an endpoint it has only one of ...
NothingAhead ==
  SingleEndpoint =>
    \A n \in Endpoints :
      /\ lastEpoch <= view[n]
      /\ epochInfo <= view[n]
      /\ \A i \in 1 .. Len(epochChan) : epochChan[i] <= view[n]
      /\ \A k \in Epochs : begun[k] > 0 => k <= view[n]

\* ... and whatever may still turn into a run of epoch e counts for one: the
\* epoch in hand, the one in the channel, the one being sent, and e itself as
\* long as the monitor has not come to it.
OneIf(condition) == IF condition THEN 1 ELSE 0

InHand(e) == procPc \in {"recheck", "licenses"} /\ epochInfo <= e
InChannel(e) == epochChan # <<>> /\ Head(epochChan) <= e
InSend(e) == monPc = "sending" /\ lastEpoch <= e

RunsStillDue(e) ==
  OneIf(InHand(e)) + OneIf(InChannel(e)) + OneIf(InSend(e)) + OneIf(lastEpoch < e)

FewRunsLeft ==
  SingleEndpoint =>
    \A n \in Endpoints, e \in Epochs :
      e <= view[n] => begun[e] + RunsStillDue(e) <= 4

\* The induction of BoundedReprocessing: its two strengthenings, which also
\* say that a repetition never comes from an epoch younger than the endpoint.
ReprocessingInv == NothingAhead /\ FewRunsLeft
=============================================================================
