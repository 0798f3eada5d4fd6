--------------------------- MODULE EpochFeedProofs ---------------------------
(***************************************************************************)
(* Proofs about EpochFeed: types; with a single endpoint the bound on how  *)
(* often an epoch is run and the freshness check's promise; with any       *)
(* endpoints the bound that is left, and two liveness properties, that a   *)
(* cancelled miner shuts down and that it takes up the epoch the chain     *)
(* comes to rest in.                                                       *)
(***************************************************************************)
EXTENDS EpochFeed, SequenceTheorems, TLAPS

USE MaxEpochAssumption DEF MaxEpochAssumption

\* The answer of a query is some endpoint's view, and an epoch in range.
LEMMA AnswerIsAView ==
  ASSUME NEW e, AnswersEpoch(e)
  PROVE  \E n \in Endpoints : e = view[n]
BY DEF AnswersEpoch

\* With one endpoint an answer is that endpoint's view.
LEMMA AnswerOfSingle ==
  ASSUME NEW e, AnswersEpoch(e), SingleEndpoint
  PROVE  \A n \in Endpoints : view[n] = e
BY AnswerIsAView DEF SingleEndpoint

-----------------------------------------------------------------------------
(* Types *)

LEMMA TypeInit ==
  ASSUME Init
  PROVE  TypeOK
<1>1. epochChan \in Seq(Epochs) /\ Len(epochChan) <= 1
  BY DEF Init
<1>2. begun \in [Epochs -> Nat] /\ view \in [Endpoints -> 0 .. MaxEpoch]
  BY DEF Init
<1>3. /\ chainEpoch \in 0 .. MaxEpoch
      /\ lastEpoch \in 0 .. MaxEpoch
      /\ epochInfo \in 0 .. MaxEpoch
      /\ startEpoch \in 0 .. MaxEpoch
      /\ lastProcessed \in 0 .. MaxEpoch
  BY DEF Init
<1> QED BY <1>1, <1>2, <1>3 DEF Init, TypeOK

LEMMA TypeMonitor ==
  ASSUME TypeOK,
         \/ \E e \in 0 .. MaxEpoch : MonitorTick(e)
         \/ MonitorTickFails \/ MonitorSend \/ MonitorReturn
  PROVE  TypeOK'
<1>1. ASSUME NEW e \in 0 .. MaxEpoch, MonitorTick(e)
      PROVE  TypeOK'
  BY <1>1 DEF TypeOK, MonitorTick, IsNewEpoch, chainVars, procVars, Epochs
<1>2. CASE MonitorTickFails
  BY <1>2 DEF TypeOK, MonitorTickFails, chainVars, procVars
<1>3. CASE MonitorSend
  BY <1>3 DEF TypeOK, MonitorSend, ChanCapacity, chainVars, procVars
<1>4. CASE MonitorReturn
  BY <1>4 DEF TypeOK, MonitorReturn, chainVars, procVars
<1> QED BY <1>1, <1>2, <1>3, <1>4

LEMMA TypeFeed ==
  ASSUME TypeOK, FeedNext
  PROVE  TypeOK'
<1>1. CASE ChainAdvance
  BY <1>1 DEF TypeOK, ChainAdvance, monVars, procVars
<1>2. ASSUME NEW n \in Endpoints, CatchUp(n)
      PROVE  TypeOK'
  BY <1>2 DEF TypeOK, CatchUp, monVars, procVars
<1>3. CASE Cancel
  BY <1>3 DEF TypeOK, Cancel, chainVars, monVars, procVars
<1>4. CASE \/ \E e \in 0 .. MaxEpoch : MonitorTick(e)
           \/ MonitorTickFails \/ MonitorSend \/ MonitorReturn
  BY <1>4, TypeMonitor
<1>5. CASE Receive
  <2>1. Head(epochChan) \in Epochs /\ Tail(epochChan) \in Seq(Epochs)
        /\ Len(Tail(epochChan)) = Len(epochChan) - 1
    BY <1>5 DEF TypeOK, Receive
  <2> QED BY <1>5, <2>1 DEF TypeOK, Receive, chainVars, monVars, Epochs
<1>6. CASE StartReturn
  BY <1>6 DEF TypeOK, StartReturn, chainVars, monVars
<1>7. ASSUME NEW x \in Epochs, WorkOn(x)
      PROVE  TypeOK'
  BY <1>7 DEF TypeOK, WorkOn, chainVars, monVars, Epochs
<1>8. ASSUME NEW e \in 0 .. MaxEpoch, RecheckAnswered(e)
      PROVE  TypeOK'
  <2>1. Fresher(e) \in Epochs
    BY <1>8 DEF TypeOK, RecheckAnswered, Fresher, Epochs
  <2> QED BY <1>7, <1>8, <2>1 DEF RecheckAnswered
<1>9. CASE RecheckFails
  BY <1>7, <1>9 DEF RecheckFails, TypeOK
<1>10. CASE LicensesFail
  BY <1>10 DEF TypeOK, LicensesFail, chainVars, monVars
<1>11. CASE Stopped
  BY <1>11 DEF TypeOK, Stopped, vars, chainVars, monVars, procVars
<1> QED
  BY <1>1, <1>2, <1>3, <1>4, <1>5, <1>6, <1>8, <1>9, <1>10, <1>11 DEF FeedNext

LEMMA TypeNext ==
  ASSUME TypeOK, [Next]_vars
  PROVE  TypeOK'
<1>1. CASE FeedNext
  BY <1>1, TypeFeed
<1>2. CASE LicensesFound
  BY <1>2 DEF TypeOK, LicensesFound, chainVars, monVars
<1>3. CASE FinishRun
  BY <1>3 DEF TypeOK, FinishRun, chainVars, monVars
<1>4. CASE UNCHANGED vars
  BY <1>4 DEF TypeOK, vars, chainVars, monVars, procVars
<1> QED BY <1>1, <1>2, <1>3, <1>4 DEF Next

\* Every variable keeps its type, an epoch on its way to a run is never zero,
\* and the channel never holds more than one epoch, whatever the endpoints and
\* however far the chain goes (queries.go:327-355, manager.go:151-188).
THEOREM TypeCorrect == Spec => []TypeOK
<1>1. QED BY TypeInit, TypeNext, PTL DEF Spec

\* A channel that is not empty holds one epoch.
LEMMA OneInChannel ==
  ASSUME TypeOK, epochChan # <<>>
  PROVE  /\ Len(epochChan) = 1
         /\ epochChan[1] \in Epochs
         /\ Head(epochChan) = epochChan[1]
         /\ Tail(epochChan) = <<>>
<1>1. epochChan \in Seq(Epochs)
  BY DEF TypeOK
<1>2. Len(epochChan) = 1
  <2>1. Len(epochChan) \in Nat /\ Len(epochChan) # 0
    BY <1>1, EmptySeq
  <2>2. Len(epochChan) <= 1
    BY DEF TypeOK
  <2>3. \A x \in Nat : x # 0 /\ x <= 1 => x = 1
    OBVIOUS
  <2> QED BY <2>1, <2>2, <2>3, Zenon
<1>3. Head(epochChan) = epochChan[1] /\ epochChan[1] \in Epochs
  BY <1>1, <1>2
<1>4. Tail(epochChan) \in Seq(Epochs) /\ Len(Tail(epochChan)) = 0
  BY <1>1, <1>2, HeadTailProperties
<1> QED BY <1>2, <1>3, <1>4, EmptySeq

-----------------------------------------------------------------------------
(* A single endpoint: how often an epoch is run *)

LEMMA NothingAheadInit ==
  ASSUME Init
  PROVE  NothingAhead
<1>1. \A n \in Endpoints : view[n] = 0
  BY DEF Init
<1>2. Len(epochChan) = 0
  BY DEF Init
<1>3. \A k \in Epochs : begun[k] = 0
  BY DEF Init
<1>4. lastEpoch = 0 /\ epochInfo = 0
  BY DEF Init
<1>5. \A i \in 1 .. Len(epochChan) : FALSE
  BY <1>2
<1> SUFFICES ASSUME NEW n \in Endpoints
             PROVE  /\ lastEpoch <= view[n]
                    /\ epochInfo <= view[n]
                    /\ \A i \in 1 .. Len(epochChan) : epochChan[i] <= view[n]
                    /\ \A k \in Epochs : begun[k] > 0 => k <= view[n]
  BY DEF NothingAhead
<1>6. lastEpoch <= view[n] /\ epochInfo <= view[n]
  BY <1>1, <1>4
<1>7. \A k \in Epochs : begun[k] > 0 => k <= view[n]
  BY <1>3
<1> QED BY <1>5, <1>6, <1>7

\* Every step keeps what the miner holds behind the endpoint.
LEMMA NothingAheadNext ==
  ASSUME TypeOK, TypeOK', NothingAhead, [Next]_vars
  PROVE  NothingAhead'
<1> SUFFICES ASSUME SingleEndpoint, NEW n \in Endpoints
             PROVE  /\ lastEpoch' <= view'[n]
                    /\ epochInfo' <= view'[n]
                    /\ \A i \in 1 .. Len(epochChan') : epochChan'[i] <= view'[n]
                    /\ \A k \in Epochs : begun'[k] > 0 => k <= view'[n]
  BY DEF NothingAhead, SingleEndpoint
<1>1. /\ lastEpoch <= view[n]
      /\ epochInfo <= view[n]
      /\ \A i \in 1 .. Len(epochChan) : epochChan[i] <= view[n]
      /\ \A k \in Epochs : begun[k] > 0 => k <= view[n]
  BY DEF NothingAhead
<1>2. CASE ChainAdvance \/ Cancel \/ MonitorTickFails \/ MonitorReturn
           \/ StartReturn \/ RecheckFails \/ LicensesFail \/ FinishRun
           \/ Stopped \/ UNCHANGED vars
  BY <1>1, <1>2
     DEF ChainAdvance, Cancel, MonitorTickFails, MonitorReturn, StartReturn,
         RecheckFails, WorkOn, LicensesFail, FinishRun, Stopped,
         vars, chainVars, monVars, procVars
<1>3. ASSUME NEW m \in Endpoints, CatchUp(m)
      PROVE  view[n] <= view'[n]
             /\ UNCHANGED <<lastEpoch, epochInfo, epochChan, begun>>
  BY <1>3 DEF CatchUp, TypeOK, monVars, procVars
<1>4. ASSUME NEW m \in Endpoints, CatchUp(m)
      PROVE  /\ lastEpoch' <= view'[n]
             /\ epochInfo' <= view'[n]
             /\ \A i \in 1 .. Len(epochChan') : epochChan'[i] <= view'[n]
             /\ \A k \in Epochs : begun'[k] > 0 => k <= view'[n]
  <2>1. view[n] \in Nat /\ view'[n] \in Nat /\ lastEpoch \in Nat /\ epochInfo \in Nat
    BY DEF TypeOK
  <2>2. \A i \in 1 .. Len(epochChan) : epochChan[i] \in Epochs
    BY DEF TypeOK
  <2> QED BY <1>1, <1>3, <1>4, <2>1, <2>2 DEF Epochs
<1>5. ASSUME NEW x \in 0 .. MaxEpoch, MonitorTick(x)
      PROVE  lastEpoch' <= view'[n]
             /\ UNCHANGED <<view, epochInfo, epochChan, begun>>
  BY <1>1, <1>5, AnswerOfSingle
     DEF MonitorTick, chainVars, procVars, TypeOK
<1>6. CASE MonitorSend
  <2>1. UNCHANGED <<view, lastEpoch, epochInfo, begun>>
    BY <1>6 DEF MonitorSend, chainVars, procVars
  <2>2. /\ Len(epochChan) = 0
        /\ epochChan' = Append(epochChan, lastEpoch)
    BY <1>6 DEF MonitorSend, ChanCapacity, TypeOK
  <2>3. Len(epochChan') = 1 /\ epochChan'[1] = lastEpoch
    BY <2>2 DEF TypeOK
  <2> QED BY <1>1, <2>1, <2>3
<1>7. CASE Receive
  <2>1. UNCHANGED <<view, lastEpoch, begun>>
    BY <1>7 DEF Receive, chainVars, monVars
  <2>2. epochInfo' = epochChan[1] /\ Len(epochChan) = 1 /\ Len(epochChan') = 0
    BY <1>7, OneInChannel, EmptySeq DEF Receive
  <2> QED BY <1>1, <2>1, <2>2
<1>8. ASSUME NEW x \in 0 .. MaxEpoch, RecheckAnswered(x)
      PROVE  epochInfo' <= view'[n]
             /\ UNCHANGED <<view, lastEpoch, epochChan, begun>>
  BY <1>1, <1>8, AnswerOfSingle
     DEF RecheckAnswered, WorkOn, Fresher, chainVars, monVars, TypeOK
<1>9. CASE LicensesFound
  <2>1. UNCHANGED <<view, lastEpoch, epochInfo, epochChan>>
    BY <1>9 DEF LicensesFound, chainVars, monVars
  <2>2. \A k \in Epochs : k # epochInfo => begun'[k] = begun[k]
    BY <1>9 DEF LicensesFound, TypeOK
  <2> QED BY <1>1, <2>1, <2>2
<1> QED BY <1>1, <1>2, <1>4, <1>5, <1>6, <1>7, <1>8, <1>9 DEF Next, FeedNext

\* OneIf is a bit: it can be dropped, and moved from one condition to another.
LEMMA OneIfIsBit ==
  /\ \A c \in BOOLEAN : OneIf(c) \in 0 .. 1
  /\ OneIf(TRUE) = 1
  /\ OneIf(FALSE) = 0
BY DEF OneIf

LEMMA FewRunsLeftInit ==
  ASSUME Init
  PROVE  FewRunsLeft
<1>1. \A n \in Endpoints : view[n] = 0
  BY DEF Init
<1>2. \A e \in Epochs : e > 0
  BY DEF Epochs
<1> QED BY <1>1, <1>2 DEF FewRunsLeft, Epochs

\* The step that makes an epoch visible finds it never run, and at most the
\* four tokens of RunsStillDue outstanding; every other step turns one token
\* into another or into a run.
LEMMA FewRunsLeftNext ==
  ASSUME TypeOK, TypeOK', NothingAhead, FewRunsLeft, [Next]_vars
  PROVE  FewRunsLeft'
<1> SUFFICES ASSUME SingleEndpoint, NEW n \in Endpoints, NEW e \in Epochs,
                    e <= view'[n]
             PROVE  begun'[e] + RunsStillDue(e)' <= 4
  BY DEF FewRunsLeft, SingleEndpoint
<1>1. begun[e] \in Nat /\ view[n] \in Nat /\ e \in Nat
      /\ lastEpoch \in Nat /\ epochInfo \in Nat
  BY DEF TypeOK, Epochs
<1>2. CASE ~(e <= view[n])
  <2>1. \E m \in Endpoints : CatchUp(m)
    BY <1>2
       DEF Next, FeedNext, ChainAdvance, Cancel, MonitorTick, MonitorTickFails,
           MonitorSend, MonitorReturn, Receive, StartReturn, RecheckAnswered,
           RecheckFails, WorkOn, LicensesFail, LicensesFound, FinishRun,
           Stopped, vars, chainVars, monVars, procVars
  <2>2. begun'[e] = begun[e]
    BY <2>1 DEF CatchUp, procVars
  <2>3. begun[e] = 0
    BY <1>1, <1>2 DEF NothingAhead
  <2> QED BY <2>2, <2>3 DEF RunsStillDue, OneIf
<1>3. CASE e <= view[n]
  <2>1. begun[e] + RunsStillDue(e) <= 4
    BY <1>3 DEF FewRunsLeft
  <2>2. CASE ChainAdvance \/ Cancel \/ MonitorTickFails \/ Stopped \/ UNCHANGED vars
             \/ \E m \in Endpoints : CatchUp(m)
    <3>1. UNCHANGED <<begun, lastEpoch, epochInfo, procPc, monPc, epochChan>>
      BY <2>2
         DEF ChainAdvance, Cancel, MonitorTickFails, CatchUp, Stopped,
             vars, chainVars, monVars, procVars
    <3> QED BY <2>1, <3>1 DEF RunsStillDue, InHand, InChannel, InSend
  <2>3. ASSUME NEW x \in 0 .. MaxEpoch, MonitorTick(x)
        PROVE  begun'[e] + RunsStillDue(e)' <= 4
    <3>1. e <= x
      BY <1>3, <2>3, AnswerOfSingle DEF MonitorTick
    <3>2. UNCHANGED <<begun, epochInfo, procPc, epochChan>>
      BY <2>3 DEF MonitorTick, procVars
    <3>3. CASE x > lastEpoch
      <4>1. monPc = "waiting" /\ monPc' = "sending" /\ lastEpoch' = x
        BY <2>3, <3>3 DEF MonitorTick, IsNewEpoch
      <4>2. ~InSend(e) /\ ~(lastEpoch' < e) /\ (InSend(e)' => lastEpoch < e)
        BY <1>1, <3>1, <3>3, <4>1 DEF InSend
      <4> QED BY <1>1, <2>1, <3>2, <4>2 DEF RunsStillDue, OneIf, InHand, InChannel
    <3>4. CASE ~(x > lastEpoch)
      <4>1. UNCHANGED <<monPc, lastEpoch>>
        BY <2>3, <3>4 DEF MonitorTick, IsNewEpoch
      <4> QED BY <2>1, <3>2, <4>1 DEF RunsStillDue, InHand, InChannel, InSend
    <3> QED BY <3>3, <3>4
  <2>4. CASE MonitorSend
    <3>1. UNCHANGED <<begun, lastEpoch, epochInfo, procPc>>
      BY <2>4 DEF MonitorSend, procVars
    <3>2. epochChan = <<>> /\ epochChan' = <<lastEpoch>>
      <4>1. epochChan \in Seq(Epochs) /\ Len(epochChan) < 1
        BY <2>4 DEF MonitorSend, ChanCapacity, TypeOK
      <4>2. epochChan = <<>>
        BY <4>1, EmptySeq
      <4>3. epochChan' = Append(<<>>, lastEpoch)
        BY <2>4, <4>2 DEF MonitorSend
      <4> QED BY <4>2, <4>3
    <3>3. /\ ~InChannel(e)
          /\ ~InSend(e)'
          /\ InChannel(e)' => InSend(e)
      BY <2>4, <3>1, <3>2 DEF InChannel, InSend, MonitorSend
    <3> QED BY <1>1, <2>1, <3>1, <3>3 DEF RunsStillDue, OneIf, InHand
  <2>5. CASE MonitorReturn
    <3>1. UNCHANGED <<begun, lastEpoch, epochInfo, procPc, epochChan>>
          /\ ~InSend(e)'
      BY <2>5 DEF MonitorReturn, procVars, InSend
    <3> QED BY <1>1, <2>1, <3>1 DEF RunsStillDue, OneIf, InHand, InChannel
  <2>6. CASE Receive
    <3>1. UNCHANGED <<begun, lastEpoch, monPc>>
      BY <2>6 DEF Receive, monVars
    <3>2. epochInfo' = Head(epochChan) /\ epochChan # <<>> /\ epochChan' = <<>>
      BY <2>6, OneInChannel DEF Receive
    <3>3. /\ ~InHand(e)
          /\ ~InChannel(e)'
          /\ InHand(e)' => InChannel(e)
      BY <2>6, <3>2 DEF InHand, InChannel, Receive
    <3> QED BY <1>1, <2>1, <3>1, <3>3 DEF RunsStillDue, OneIf, InSend
  <2>7. CASE StartReturn \/ LicensesFail \/ FinishRun
    <3>1. UNCHANGED <<begun, lastEpoch, monPc, epochChan>>
          /\ ~InHand(e)'
      BY <2>7 DEF StartReturn, LicensesFail, FinishRun, monVars, InHand
    <3> QED BY <1>1, <2>1, <3>1 DEF RunsStillDue, OneIf, InChannel, InSend
  <2>8. ASSUME procPc = "recheck", NEW x \in Nat, epochInfo <= x, WorkOn(x)
        PROVE  begun'[e] + RunsStillDue(e)' <= 4
    <3>1. UNCHANGED <<begun, lastEpoch, monPc, epochChan>>
      BY <2>8 DEF WorkOn, monVars
    <3>2. InHand(e)' => InHand(e)
      BY <1>1, <2>8 DEF WorkOn, InHand
    <3> QED BY <1>1, <2>1, <3>1, <3>2 DEF RunsStillDue, OneIf, InChannel, InSend
  <2>9. CASE \/ RecheckFails
             \/ \E x \in 0 .. MaxEpoch : RecheckAnswered(x)
    BY <1>1, <2>8, <2>9 DEF RecheckFails, RecheckAnswered, Fresher
  <2>10. CASE LicensesFound
    <3>1. UNCHANGED <<lastEpoch, monPc, epochChan, epochInfo>>
          /\ ~InHand(e)'
      BY <2>10 DEF LicensesFound, monVars, InHand
    <3>2. CASE epochInfo = e
      <4>1. begun'[e] = begun[e] + 1 /\ InHand(e)
        BY <1>1, <2>10, <3>2 DEF LicensesFound, InHand, TypeOK
      <4> QED BY <1>1, <2>1, <3>1, <4>1 DEF RunsStillDue, OneIf, InChannel, InSend
    <3>3. CASE epochInfo # e
      <4>1. begun'[e] = begun[e]
        BY <2>10, <3>3 DEF LicensesFound, TypeOK
      <4> QED BY <1>1, <2>1, <3>1, <4>1 DEF RunsStillDue, OneIf, InChannel, InSend
    <3> QED BY <3>2, <3>3
  <2> QED
    BY <2>2, <2>3, <2>4, <2>5, <2>6, <2>7, <2>9, <2>10 DEF Next, FeedNext
<1> QED BY <1>2, <1>3

\* The bound needs no more than the induction.
LEMMA BoundFromInv ==
  ASSUME TypeOK, ReprocessingInv
  PROVE  BoundedReprocessing
<1> SUFFICES ASSUME SingleEndpoint, NEW e \in Epochs
             PROVE  begun[e] <= 4
  BY DEF BoundedReprocessing
<1>1. PICK n \in Endpoints : TRUE
  BY EndpointsAssumption DEF EndpointsAssumption
<1>2. begun[e] \in Nat /\ view[n] \in Nat /\ e \in Nat
  BY DEF TypeOK, Epochs
<1>3. CASE e <= view[n]
  BY <1>2, <1>3 DEF ReprocessingInv, FewRunsLeft, RunsStillDue, OneIf
<1>4. CASE ~(e <= view[n])
  BY <1>2, <1>4 DEF ReprocessingInv, NothingAhead
<1> QED BY <1>3, <1>4

\* ReprocessingInv holds throughout: nothing the miner holds is ahead of its
\* only endpoint, and the runs an epoch may still get are numbered.
THEOREM ReprocessingInvariant == Spec => []ReprocessingInv
<1>1. Init => ReprocessingInv
  BY NothingAheadInit, FewRunsLeftInit DEF ReprocessingInv
<1>2. ASSUME TypeOK, TypeOK', ReprocessingInv, [Next]_vars
      PROVE  ReprocessingInv'
  BY <1>2, NothingAheadNext, FewRunsLeftNext DEF ReprocessingInv
<1> QED BY <1>1, <1>2, TypeCorrect, PTL DEF Spec

\* A miner with one endpoint runs no epoch more than four times, for any number
\* of epochs (manager.go:179-182, queries.go:346).
THEOREM RepetitionsBounded == Spec => []BoundedReprocessing
<1> QED BY TypeCorrect, ReprocessingInvariant, BoundFromInv, PTL

\* An answered freshness check of a miner with one endpoint settles on an epoch
\* no older than any it has run (manager.go:174-182).
THEOREM RecheckIsFresh == Spec => FreshAfterRecheck
<1>1. ASSUME TypeOK, ReprocessingInv, SingleEndpoint,
             NEW x \in 0 .. MaxEpoch, RecheckAnswered(x),
             NEW k \in Epochs, begun[k] > 0
      PROVE  k <= epochInfo'
  <2>1. PICK n \in Endpoints : TRUE
    BY EndpointsAssumption DEF EndpointsAssumption
  <2>2. k <= view[n] /\ view[n] = x
    BY <1>1, <2>1, AnswerOfSingle DEF ReprocessingInv, NothingAhead, RecheckAnswered
  <2>3. epochInfo' = Fresher(x) /\ epochInfo \in Nat
    BY <1>1 DEF RecheckAnswered, WorkOn, TypeOK
  <2> QED BY <2>2, <2>3 DEF Fresher, Epochs
<1>2. ASSUME TypeOK, ReprocessingInv
      PROVE  [ SingleEndpoint /\ (\E e \in 0 .. MaxEpoch : RecheckAnswered(e))
                 => \A k \in Epochs : begun[k] > 0 => k <= epochInfo' ]_vars
  BY <1>1, <1>2
<1> QED BY <1>2, TypeCorrect, ReprocessingInvariant, PTL DEF FreshAfterRecheck

-----------------------------------------------------------------------------
(* Any endpoints: how often an epoch is run *)

\* The most the monitor can have sent of the epochs up to e: it sends each once,
\* in ascending order.
SendsUpTo(e) == IF lastEpoch < e THEN lastEpoch ELSE e

RunsDue(e) == OneIf(InHand(e)) + OneIf(InChannel(e)) + OneIf(InSend(e))

\* With several endpoints, one of which lags, the bound of four does not hold:
\* the monitor may send every epoch up to e after the freshness check has gone
\* to e already, and each is then run as e.  But a run of e needs an epoch up to
\* e that was sent for it, so that the repetitions never outnumber the epochs
\* (queries.go:346, manager.go:166-182).
RunsWithinSends == \A e \in Epochs : begun[e] + RunsDue(e) <= SendsUpTo(e)

LEMMA RunsWithinSendsNext ==
  ASSUME TypeOK, RunsWithinSends, [Next]_vars
  PROVE  RunsWithinSends'
<1> SUFFICES ASSUME NEW e \in Epochs
             PROVE  begun'[e] + RunsDue(e)' <= SendsUpTo(e)'
  BY DEF RunsWithinSends
<1>1. /\ begun[e] \in Nat /\ e \in Nat /\ lastEpoch \in Nat /\ epochInfo \in Nat
      /\ begun[e] + RunsDue(e) <= SendsUpTo(e)
  BY DEF TypeOK, Epochs, RunsWithinSends
<1>2. CASE ChainAdvance \/ Cancel \/ MonitorTickFails \/ Stopped \/ UNCHANGED vars
           \/ \E m \in Endpoints : CatchUp(m)
  <2>1. UNCHANGED <<begun, lastEpoch, epochInfo, procPc, monPc, epochChan>>
    BY <1>2
       DEF ChainAdvance, Cancel, MonitorTickFails, CatchUp, Stopped,
           vars, chainVars, monVars, procVars
  <2> QED BY <1>1, <2>1 DEF RunsDue, InHand, InChannel, InSend, SendsUpTo
<1>3. ASSUME NEW x \in 0 .. MaxEpoch, MonitorTick(x)
      PROVE  begun'[e] + RunsDue(e)' <= SendsUpTo(e)'
  <2>1. UNCHANGED <<begun, epochInfo, procPc, epochChan>>
    BY <1>3 DEF MonitorTick, procVars
  <2>2. CASE x > lastEpoch
    <3>1. monPc = "waiting" /\ monPc' = "sending" /\ lastEpoch' = x
      BY <1>3, <2>2 DEF MonitorTick, IsNewEpoch
    <3>2. /\ ~InSend(e)
          /\ InSend(e)' => SendsUpTo(e)' >= SendsUpTo(e) + 1
          /\ SendsUpTo(e)' >= SendsUpTo(e) /\ SendsUpTo(e) \in Nat /\ SendsUpTo(e)' \in Nat
      BY <1>1, <2>2, <3>1 DEF InSend, SendsUpTo
    <3> HIDE DEF SendsUpTo
    <3> QED BY <1>1, <2>1, <3>2 DEF RunsDue, OneIf, InHand, InChannel
  <2>3. CASE ~(x > lastEpoch)
    <3>1. UNCHANGED <<monPc, lastEpoch>>
      BY <1>3, <2>3 DEF MonitorTick, IsNewEpoch
    <3> QED BY <1>1, <2>1, <3>1 DEF RunsDue, InHand, InChannel, InSend, SendsUpTo
  <2> QED BY <2>2, <2>3
\* The other steps send nothing: each moves an epoch on, runs it or drops it.
<1>4. ASSUME lastEpoch' = lastEpoch, begun'[e] + RunsDue(e)' <= begun[e] + RunsDue(e),
             begun'[e] + RunsDue(e)' \in Nat
      PROVE  begun'[e] + RunsDue(e)' <= SendsUpTo(e)'
  <2>1. SendsUpTo(e)' = SendsUpTo(e) /\ SendsUpTo(e) \in Nat
    BY <1>1, <1>4 DEF SendsUpTo
  <2>2. begun[e] + RunsDue(e) \in Nat
    BY <1>1 DEF RunsDue, OneIf
  <2> QED BY <1>1, <1>4, <2>1, <2>2
<1>5. CASE MonitorSend
  <2>1. UNCHANGED <<begun, lastEpoch, epochInfo, procPc>>
    BY <1>5 DEF MonitorSend, procVars
  <2>2. epochChan = <<>> /\ epochChan' = <<lastEpoch>>
    <3>1. epochChan \in Seq(Epochs) /\ Len(epochChan) < 1
      BY <1>5 DEF MonitorSend, ChanCapacity, TypeOK
    <3>2. epochChan = <<>>
      BY <3>1, EmptySeq
    <3>3. epochChan' = Append(<<>>, lastEpoch)
      BY <1>5, <3>2 DEF MonitorSend
    <3> QED BY <3>2, <3>3
  <2>3. /\ ~InChannel(e)
        /\ ~InSend(e)'
        /\ InChannel(e)' => InSend(e)
    BY <1>5, <2>1, <2>2 DEF InChannel, InSend, MonitorSend
  <2> QED BY <1>1, <1>4, <2>1, <2>3 DEF RunsDue, OneIf, InHand
<1>6. CASE MonitorReturn
  <2>1. UNCHANGED <<begun, lastEpoch, epochInfo, procPc, epochChan>> /\ ~InSend(e)'
    BY <1>6 DEF MonitorReturn, procVars, InSend
  <2> QED BY <1>1, <1>4, <2>1 DEF RunsDue, OneIf, InHand, InChannel
<1>7. CASE Receive
  <2>1. UNCHANGED <<begun, lastEpoch, monPc>>
    BY <1>7 DEF Receive, monVars
  <2>2. epochInfo' = Head(epochChan) /\ epochChan # <<>> /\ epochChan' = <<>>
    BY <1>7, OneInChannel DEF Receive
  <2>3. /\ ~InHand(e)
        /\ ~InChannel(e)'
        /\ InHand(e)' => InChannel(e)
    BY <1>7, <2>2 DEF InHand, InChannel, Receive
  <2> QED BY <1>1, <1>4, <2>1, <2>3 DEF RunsDue, OneIf, InSend
<1>8. CASE StartReturn \/ LicensesFail \/ FinishRun
  <2>1. UNCHANGED <<begun, lastEpoch, monPc, epochChan>> /\ ~InHand(e)'
    BY <1>8 DEF StartReturn, LicensesFail, FinishRun, monVars, InHand
  <2> QED BY <1>1, <1>4, <2>1 DEF RunsDue, OneIf, InChannel, InSend
<1>9. CASE RecheckFails \/ \E x \in 0 .. MaxEpoch : RecheckAnswered(x)
  <2>1. PICK x \in Nat : procPc = "recheck" /\ epochInfo <= x /\ WorkOn(x)
    BY <1>1, <1>9 DEF RecheckFails, RecheckAnswered, Fresher
  <2>2. UNCHANGED <<begun, lastEpoch, monPc, epochChan>>
    BY <2>1 DEF WorkOn, monVars
  <2>3. InHand(e)' => InHand(e)
    BY <1>1, <2>1 DEF WorkOn, InHand
  <2> QED BY <1>1, <1>4, <2>2, <2>3 DEF RunsDue, OneIf, InChannel, InSend
<1>10. CASE LicensesFound
  <2>1. UNCHANGED <<lastEpoch, monPc, epochChan, epochInfo>> /\ ~InHand(e)'
    BY <1>10 DEF LicensesFound, monVars, InHand
  <2>2. \/ begun'[e] = begun[e]
        \/ begun'[e] = begun[e] + 1 /\ InHand(e)
    BY <1>1, <1>10 DEF LicensesFound, InHand, TypeOK
  <2> QED BY <1>1, <1>4, <2>1, <2>2 DEF RunsDue, OneIf, InChannel, InSend
<1> QED
  BY <1>2, <1>3, <1>5, <1>6, <1>7, <1>8, <1>9, <1>10 DEF Next, FeedNext

\* Whatever endpoints say, epoch e is run at most e times, once for each epoch
\* up to e that the monitor has sent.
THEOREM RunsNeedSends == Spec => [](\A e \in Epochs : begun[e] <= SendsUpTo(e))
<1>1. Init => RunsWithinSends
  <2> SUFFICES ASSUME Init, NEW e \in Epochs PROVE begun[e] + RunsDue(e) <= SendsUpTo(e)
    BY DEF RunsWithinSends
  <2>1. begun[e] = 0 /\ lastEpoch = 0 /\ e > 0
    BY DEF Init, Epochs
  <2>2. ~InHand(e) /\ ~InChannel(e) /\ ~InSend(e)
    BY DEF Init, InHand, InChannel, InSend
  <2> QED BY <2>1, <2>2 DEF RunsDue, OneIf, SendsUpTo
<1>2. TypeOK /\ RunsWithinSends => \A e \in Epochs : begun[e] <= SendsUpTo(e)
  <2> SUFFICES ASSUME TypeOK, RunsWithinSends, NEW e \in Epochs
               PROVE  begun[e] <= SendsUpTo(e)
    OBVIOUS
  <2>1. begun[e] \in Nat /\ SendsUpTo(e) \in Nat /\ begun[e] + RunsDue(e) <= SendsUpTo(e)
    BY DEF TypeOK, Epochs, SendsUpTo, RunsWithinSends
  <2> HIDE DEF SendsUpTo
  <2> QED BY <2>1 DEF RunsDue, OneIf
<1> QED BY <1>1, <1>2, RunsWithinSendsNext, TypeCorrect, PTL DEF Spec

-----------------------------------------------------------------------------
(* Shutting down *)

\* After a cancellation the monitor only ever returns.
Cancelled == ctxDone /\ monPc # "returned"

\* Behind a monitor that has returned: where the processor is, and how many
\* epochs are left in the channel.
Alone(place, left) ==
  /\ ctxDone
  /\ monPc = "returned"
  /\ procPc = place
  /\ Len(epochChan) = left

AllReturned == monPc = "returned" /\ procPc = "returned"

LEMMA CancelledStep ==
  ASSUME TypeOK, Cancelled, [Next]_vars
  PROVE  Cancelled' \/ (ctxDone /\ monPc = "returned")'
BY DEF TypeOK, Cancelled, Next, FeedNext, vars, chainVars, monVars, procVars,
       ChainAdvance, CatchUp, Cancel, MonitorTick, MonitorTickFails, MonitorSend,
       MonitorReturn, Receive, StartReturn, RecheckAnswered, RecheckFails, WorkOn,
       LicensesFail, LicensesFound, FinishRun, Stopped

\* The channel is empty or holds one epoch.
LEMMA NoneOrOne ==
  ASSUME TypeOK
  PROVE  Len(epochChan) = 0 \/ Len(epochChan) = 1
<1>1. CASE epochChan = <<>>
  BY <1>1
<1>2. CASE epochChan # <<>>
  BY <1>2, OneInChannel
<1> QED BY <1>1, <1>2

\* What a step does once the monitor has returned: it leaves the processor where
\* it is, or takes it to the next place; only Receive touches the channel, and
\* no run begins any more.
LEMMA AloneStep ==
  ASSUME TypeOK, ctxDone, monPc = "returned", [Next]_vars
  PROVE  /\ ctxDone' /\ monPc' = "returned"
         /\ \/ procPc' = procPc /\ epochChan' = epochChan
            \/ /\ procPc = "select" /\ procPc' = "recheck"
               /\ Len(epochChan) = 1 /\ Len(epochChan') = 0
            \/ procPc = "select" /\ procPc' = "returned" /\ epochChan' = epochChan
            \/ procPc = "recheck" /\ procPc' = "licenses" /\ epochChan' = epochChan
            \/ procPc \in {"licenses", "running"} /\ procPc' = "select"
               /\ epochChan' = epochChan
<1>1. CASE Receive
  <2>1. Len(epochChan) = 1 /\ Len(Tail(epochChan)) = 0
    BY <1>1, OneInChannel DEF Receive, TypeOK
  <2> QED BY <1>1, <2>1 DEF Receive, chainVars, monVars
<1>2. CASE StartReturn \/ LicensesFail \/ LicensesFound \/ FinishRun
  BY <1>2 DEF StartReturn, LicensesFail, LicensesFound, FinishRun, chainVars, monVars
<1>3. CASE RecheckFails \/ \E e \in 0 .. MaxEpoch : RecheckAnswered(e)
  BY <1>3 DEF RecheckFails, RecheckAnswered, WorkOn, chainVars, monVars
<1>4. CASE ~Receive /\ ~StartReturn /\ ~LicensesFail /\ ~LicensesFound /\ ~FinishRun
           /\ ~RecheckFails /\ ~(\E e \in 0 .. MaxEpoch : RecheckAnswered(e))
  BY <1>4 DEF Next, FeedNext, vars, chainVars, monVars, procVars,
       ChainAdvance, CatchUp, Cancel, MonitorTick, MonitorTickFails, MonitorSend,
       MonitorReturn, Stopped
<1> QED BY <1>1, <1>2, <1>3, <1>4

\* Where the processor goes from there, with and without the step it may insist on.
LEMMA AloneGoes ==
  ASSUME TypeOK, NEW left \in {0, 1}, [Next]_vars
  PROVE  /\ Alone("running", left) => Alone("running", left)' \/ Alone("select", left)'
         /\ Alone("licenses", left) => Alone("licenses", left)' \/ Alone("select", left)'
         /\ Alone("recheck", left) => Alone("recheck", left)' \/ Alone("licenses", left)'
         /\ Alone("select", left)
              => Alone("select", left)' \/ AllReturned' \/ (left = 1 /\ Alone("recheck", 0)')
<1> QED BY AloneStep DEF Alone, AllReturned

LEMMA AloneInsists ==
  ASSUME NEW left \in {0, 1}
  PROVE  /\ Alone("running", left) /\ FinishRun => Alone("select", left)'
         /\ Alone("licenses", left) /\ AskLicenses => Alone("select", left)'
         /\ Alone("recheck", left) /\ Recheck => Alone("licenses", left)'
         /\ Alone("select", left) /\ StartReturn => AllReturned'
BY DEF Alone, AllReturned, FinishRun, AskLicenses, LicensesFail, LicensesFound,
       Recheck, RecheckFails, RecheckAnswered, WorkOn, StartReturn, chainVars, monVars

\* The one thing the liveness proofs take from outside: tlapm does not expand
\* ENABLED, so that an action is enabled when its guard holds has to be given to
\* them.  Each line is such a statement about one action, true by the form of the
\* action (nothing in it but the guard and assignments restricts the step); it
\* says nothing of the code.  What follows from it together with fairness, that
\* the miner shuts down and takes up the last epoch, is what TLC checks and what
\* the theorems below are about.
CanCatchUp(n) == view[n] < chainEpoch => ENABLED <<CatchUp(n)>>_vars

NeverStuck ==
  /\ monPc = "waiting" /\ ~ctxDone /\ (\E n \in Endpoints : lastEpoch < view[n])
       => ENABLED <<Poll>>_vars
  /\ monPc = "sending" /\ epochChan = <<>> => ENABLED <<MonitorSend>>_vars
  /\ monPc # "returned" /\ ctxDone => ENABLED <<MonitorReturn>>_vars
  /\ procPc = "select" /\ epochChan # <<>> => ENABLED <<Receive>>_vars
  /\ procPc = "select" /\ ctxDone => ENABLED <<StartReturn>>_vars
  /\ procPc = "recheck" => ENABLED <<Recheck>>_vars
  /\ procPc = "licenses" => ENABLED <<AskLicenses>>_vars
  /\ procPc = "running" => ENABLED <<FinishRun>>_vars
  /\ \A n \in Endpoints : CanCatchUp(n)

\* A cancelled miner shuts down, for any endpoints and any number of epochs
\* (manager.go:163-165, queries.go:334-336 and 348-352): the monitor returns
\* first, nothing fills the channel then, and the processor takes at most one
\* more epoch out of it before its select finds only the context.
THEOREM CancelledMinerShutsDown == FairSpec /\ []NeverStuck => ShutsDown
<1> DEFINE R0 == Alone("running", 0)   R1 == Alone("running", 1)
           L0 == Alone("licenses", 0)  L1 == Alone("licenses", 1)
           C0 == Alone("recheck", 0)   C1 == Alone("recheck", 1)
           S0 == Alone("select", 0)    S1 == Alone("select", 1)
<1>1. ctxDone => Cancelled \/ (ctxDone /\ monPc = "returned")
  BY DEF Cancelled
<1>2. TypeOK /\ Cancelled /\ [Next]_vars => Cancelled' \/ (ctxDone /\ monPc = "returned")'
  BY CancelledStep
<1>3. Cancelled /\ MonitorReturn => (ctxDone /\ monPc = "returned")'
  BY DEF Cancelled, MonitorReturn
<1>4. TypeOK /\ ctxDone /\ monPc = "returned"
        => AllReturned \/ S0 \/ S1 \/ C0 \/ C1 \/ L0 \/ L1 \/ R0 \/ R1
  <2> QED BY NoneOrOne DEF TypeOK, Alone, AllReturned
<1>5. TypeOK /\ [Next]_vars
        => /\ R0 => R0' \/ S0'
           /\ L0 => L0' \/ S0'
           /\ C0 => C0' \/ L0'
           /\ S0 => S0' \/ AllReturned'
  BY AloneGoes
<1>6. TypeOK /\ [Next]_vars
        => /\ R1 => R1' \/ S1'
           /\ L1 => L1' \/ S1'
           /\ C1 => C1' \/ L1'
           /\ S1 => S1' \/ AllReturned' \/ C0'
  BY AloneGoes
<1>7. /\ R0 /\ FinishRun => S0'
      /\ L0 /\ AskLicenses => S0'
      /\ C0 /\ Recheck => L0'
      /\ S0 /\ StartReturn => AllReturned'
  BY AloneInsists
<1>8. /\ R1 /\ FinishRun => S1'
      /\ L1 /\ AskLicenses => S1'
      /\ C1 /\ Recheck => L1'
      /\ S1 /\ StartReturn => AllReturned'
  BY AloneInsists
<1>9. NeverStuck
        => /\ Cancelled => ENABLED <<MonitorReturn>>_vars
           /\ R0 \/ R1 => ENABLED <<FinishRun>>_vars
           /\ L0 \/ L1 => ENABLED <<AskLicenses>>_vars
           /\ C0 \/ C1 => ENABLED <<Recheck>>_vars
           /\ S0 \/ S1 => ENABLED <<StartReturn>>_vars
  BY DEF NeverStuck, Cancelled, Alone
<1>10. AllReturned <=> monPc = "returned" /\ procPc = "returned"
  BY DEF AllReturned
<1> HIDE DEF R0, R1, L0, L1, C0, C1, S0, S1
\* The monitor first, then the processor place by place.
<1>11. FairSpec /\ []NeverStuck => (ctxDone ~> (ctxDone /\ monPc = "returned"))
  BY <1>1, <1>2, <1>3, <1>9, TypeCorrect, PTL DEF FairSpec, SchedulerFairness, Spec
<1>12. FairSpec /\ []NeverStuck => (S0 ~> AllReturned)
  BY <1>5, <1>7, <1>9, TypeCorrect, PTL DEF FairSpec, SchedulerFairness, Spec
<1>13. FairSpec /\ []NeverStuck => (R0 ~> S0) /\ (L0 ~> S0) /\ (C0 ~> L0)
  BY <1>5, <1>7, <1>9, TypeCorrect, PTL DEF FairSpec, SchedulerFairness, Spec
<1>14. FairSpec /\ []NeverStuck => (S1 ~> (AllReturned \/ C0))
  BY <1>6, <1>8, <1>9, TypeCorrect, PTL DEF FairSpec, SchedulerFairness, Spec
<1>15. FairSpec /\ []NeverStuck => (R1 ~> S1) /\ (L1 ~> S1) /\ (C1 ~> L1)
  BY <1>6, <1>8, <1>9, TypeCorrect, PTL DEF FairSpec, SchedulerFairness, Spec
<1> QED
  BY <1>4, <1>10, <1>11, <1>12, <1>13, <1>14, <1>15, TypeCorrect, PTL DEF FairSpec, ShutsDown

-----------------------------------------------------------------------------
(* Coming to rest in an epoch *)

\* Whatever the number of endpoints, nothing of the miner is ahead of the chain.
BehindChain ==
  /\ \A n \in Endpoints : view[n] <= chainEpoch
  /\ lastEpoch <= chainEpoch
  /\ epochInfo <= chainEpoch
  /\ epochChan # <<>> => Head(epochChan) <= chainEpoch

\* Goroutines return only from a cancelled context.
OnlyCancelledReturn == monPc = "returned" \/ procPc = "returned" => ctxDone

\* The epoch the monitor sent last is the next the processor takes, or it has
\* been taken and nothing older has come after it.
LastSentIsNext ==
  monPc = "waiting" =>
    IF epochChan = <<>> THEN epochInfo >= lastEpoch ELSE Head(epochChan) = lastEpoch

FeedInv == BehindChain /\ OnlyCancelledReturn /\ LastSentIsNext

LEMMA FeedInvInit ==
  ASSUME Init
  PROVE  FeedInv
BY DEF Init, FeedInv, BehindChain, OnlyCancelledReturn, LastSentIsNext

LEMMA FeedInvMonitor ==
  ASSUME TypeOK, FeedInv,
         \/ \E e \in 0 .. MaxEpoch : MonitorTick(e)
         \/ MonitorTickFails \/ MonitorSend \/ MonitorReturn
  PROVE  FeedInv'
<1> USE DEF FeedInv, BehindChain, OnlyCancelledReturn, LastSentIsNext
<1>1. ASSUME NEW e \in 0 .. MaxEpoch, MonitorTick(e)
      PROVE  FeedInv'
  <2>1. e <= chainEpoch
    BY <1>1, AnswerIsAView DEF MonitorTick
  <2> QED BY <1>1, <2>1 DEF TypeOK, MonitorTick, IsNewEpoch, chainVars, procVars
<1>2. CASE MonitorTickFails \/ MonitorReturn
  BY <1>2 DEF TypeOK, MonitorTickFails, MonitorReturn, chainVars, procVars
<1>3. CASE MonitorSend
  <2>1. epochChan = <<>>
    BY <1>3, OneInChannel DEF MonitorSend, ChanCapacity
  <2>2. epochChan' = <<lastEpoch>> /\ epochChan' # <<>> /\ Head(epochChan') = lastEpoch
    BY <1>3, <2>1 DEF MonitorSend
  <2> QED BY <1>3, <2>2 DEF TypeOK, MonitorSend, chainVars, procVars
<1> QED BY <1>1, <1>2, <1>3

LEMMA FeedInvNext ==
  ASSUME TypeOK, FeedInv, [Next]_vars
  PROVE  FeedInv'
<1> USE DEF FeedInv, BehindChain, OnlyCancelledReturn, LastSentIsNext
<1>1. CASE ChainAdvance \/ \E n \in Endpoints : CatchUp(n)
  <2>1. epochChan # <<>> => Head(epochChan) \in Nat
    BY OneInChannel DEF Epochs
  <2>2. CASE ChainAdvance
    BY <2>1, <2>2 DEF TypeOK, ChainAdvance, monVars, procVars
  <2>3. ASSUME NEW n \in Endpoints, CatchUp(n)
        PROVE  FeedInv'
    BY <2>3 DEF TypeOK, CatchUp, monVars, procVars
  <2> QED BY <1>1, <2>2, <2>3
<1>2. CASE \/ \E e \in 0 .. MaxEpoch : MonitorTick(e)
           \/ MonitorTickFails \/ MonitorSend \/ MonitorReturn
  BY <1>2, FeedInvMonitor
<1>3. CASE Receive
  <2>1. Len(epochChan) = 1 /\ epochChan' = <<>>
    BY <1>3, OneInChannel DEF Receive, TypeOK
  <2> QED BY <1>3, <2>1 DEF TypeOK, Receive, chainVars, monVars
<1>4. CASE StartReturn \/ Cancel \/ LicensesFail \/ LicensesFound \/ FinishRun
           \/ Stopped \/ UNCHANGED vars
  BY <1>4 DEF StartReturn, Cancel, LicensesFail, LicensesFound, FinishRun, Stopped,
              vars, chainVars, monVars, procVars
<1>5. ASSUME NEW e \in 0 .. MaxEpoch, RecheckAnswered(e)
      PROVE  FeedInv'
  <2>1. e <= chainEpoch
    BY <1>5, AnswerIsAView DEF RecheckAnswered
  <2> QED BY <1>5, <2>1 DEF TypeOK, RecheckAnswered, WorkOn, Fresher, chainVars, monVars
<1>6. CASE RecheckFails
  BY <1>6 DEF TypeOK, RecheckFails, WorkOn, chainVars, monVars
<1> QED
  BY <1>1, <1>2, <1>3, <1>4, <1>5, <1>6 DEF Next, FeedNext

\* With any number of endpoints, lagging or not: no epoch the miner has sent,
\* queued or taken up is one the chain has not reached, and the epoch sent last
\* is never overtaken in the channel (queries.go:346-349, manager.go:166-182).
THEOREM FeedInvariant == Spec => []FeedInv
<1> QED BY FeedInvInit, FeedInvNext, TypeCorrect, PTL DEF Spec

\* The chain stays in epoch e and every endpoint says so.
Resting(e) == ~ctxDone /\ chainEpoch = e /\ \A n \in Endpoints : view[n] = e

\* An epoch waits in the channel while the processor is somewhere else or about
\* to take it.
Waits(place) == epochChan # <<>> /\ procPc = place
Empty == epochChan = <<>>

\* How far the monitor has come with e: it has to poll or send an older epoch
\* first, it is about to send e, e is in the channel, e has been taken.
PollsFor(e) == monPc = "waiting" /\ lastEpoch < e
SendsOlder(e) == monPc = "sending" /\ lastEpoch < e
SendsLast(e) == monPc = "sending" /\ lastEpoch = e
LastWaits(e) == monPc = "waiting" /\ lastEpoch = e /\ epochChan # <<>> /\ Head(epochChan) = e
Settled(e) == monPc = "waiting" /\ lastEpoch = e /\ Empty /\ epochInfo = e

LEMMA RestStages ==
  ASSUME TypeOK, FeedInv, NEW e \in Epochs, Resting(e)
  PROVE  /\ PollsFor(e) \/ SendsOlder(e) \/ SendsLast(e) \/ LastWaits(e) \/ Settled(e)
         /\ \/ Empty \/ Waits("select") \/ Waits("recheck")
            \/ Waits("licenses") \/ Waits("running")
<1>1. lastEpoch <= e /\ epochInfo <= e /\ monPc # "returned" /\ procPc # "returned"
  BY DEF FeedInv, BehindChain, OnlyCancelledReturn, Resting
<1>2. lastEpoch = e \/ lastEpoch < e
  BY <1>1 DEF TypeOK, Epochs
<1>3. ASSUME monPc = "waiting", lastEpoch = e
      PROVE  LastWaits(e) \/ Settled(e)
  BY <1>1, <1>3 DEF FeedInv, LastSentIsNext, LastWaits, Settled, Empty, TypeOK, Epochs
<1>4. PollsFor(e) \/ SendsOlder(e) \/ SendsLast(e) \/ LastWaits(e) \/ Settled(e)
  BY <1>1, <1>2, <1>3 DEF TypeOK, PollsFor, SendsOlder, SendsLast
<1> QED BY <1>1, <1>4 DEF TypeOK, Empty, Waits

\* While an epoch waits in the channel, nothing but its receipt changes that,
\* and the processor comes round to it.
LEMMA RestProcessor ==
  ASSUME TypeOK, NEW e \in Epochs, Resting(e), [Next]_vars
  PROVE  /\ Waits("running") => Waits("running")' \/ Waits("select")'
         /\ Waits("licenses") => Waits("licenses")' \/ Waits("running")' \/ Waits("select")'
         /\ Waits("recheck") => Waits("recheck")' \/ Waits("licenses")'
         /\ Waits("select") => Waits("select")' \/ Empty'
<1> USE DEF Waits, Empty
<1>1. CASE Receive
  BY <1>1, OneInChannel DEF Receive, TypeOK
<1>2. CASE StartReturn \/ LicensesFail \/ LicensesFound \/ FinishRun
  BY <1>2 DEF Resting, StartReturn, LicensesFail, LicensesFound, FinishRun
<1>3. CASE RecheckFails \/ \E x \in 0 .. MaxEpoch : RecheckAnswered(x)
  BY <1>3 DEF RecheckFails, RecheckAnswered, WorkOn
<1>4. CASE MonitorSend
  BY <1>4, OneInChannel DEF MonitorSend, ChanCapacity
<1>5. CASE ~Receive /\ ~StartReturn /\ ~LicensesFail /\ ~LicensesFound /\ ~FinishRun
           /\ ~RecheckFails /\ ~(\E x \in 0 .. MaxEpoch : RecheckAnswered(x)) /\ ~MonitorSend
  BY <1>5 DEF Next, FeedNext, vars, procVars, ChainAdvance, CatchUp, Cancel, MonitorTick,
       MonitorTickFails, MonitorReturn, Stopped
<1> QED BY <1>1, <1>2, <1>3, <1>4, <1>5

LEMMA RestProcessorInsists ==
  ASSUME TypeOK
  PROVE  /\ Waits("running") /\ FinishRun => Waits("select")'
         /\ Waits("licenses") /\ AskLicenses => Waits("running")' \/ Waits("select")'
         /\ Waits("recheck") /\ Recheck => Waits("licenses")'
         /\ Waits("select") /\ Receive => Empty'
<1>1. Waits("select") /\ Receive => Empty'
  BY OneInChannel DEF Receive, Waits, Empty
<1> QED
  BY <1>1 DEF Waits, FinishRun, AskLicenses, LicensesFail, LicensesFound, Recheck,
     RecheckFails, RecheckAnswered, WorkOn

\* What the monitor goes through meanwhile: it polls until it holds e, sends,
\* and has nothing further to send; a send waits for the channel to be emptied,
\* and nobody else fills it.
LEMMA RestMonitor ==
  ASSUME TypeOK, FeedInv, FeedInv', NEW e \in Epochs, Resting(e), Resting(e)', [Next]_vars
  PROVE  /\ PollsFor(e) => PollsFor(e)' \/ SendsLast(e)'
         /\ SendsOlder(e) => SendsOlder(e)' \/ PollsFor(e)'
         /\ SendsOlder(e) /\ Empty => (SendsOlder(e) /\ Empty)' \/ PollsFor(e)'
         /\ SendsLast(e) => SendsLast(e)' \/ LastWaits(e)'
         /\ SendsLast(e) /\ Empty => (SendsLast(e) /\ Empty)' \/ LastWaits(e)'
         /\ LastWaits(e) => LastWaits(e)' \/ Settled(e)'
         /\ Settled(e) => Settled(e)'
<1> USE DEF PollsFor, SendsOlder, SendsLast, LastWaits, Settled, Empty
<1>1. ASSUME NEW x \in 0 .. MaxEpoch, MonitorTick(x)
      PROVE  /\ x = e /\ monPc = "waiting"
             /\ UNCHANGED <<epochChan, epochInfo>>
             /\ lastEpoch < e => monPc' = "sending" /\ lastEpoch' = e
             /\ lastEpoch = e => UNCHANGED <<monPc, lastEpoch>>
  <2>1. x = e /\ monPc = "waiting"
    BY <1>1, AnswerIsAView DEF MonitorTick, Resting
  <2> QED BY <1>1, <2>1 DEF MonitorTick, IsNewEpoch, procVars, TypeOK, Epochs
<1>2. CASE \E x \in 0 .. MaxEpoch : MonitorTick(x)
  BY <1>1, <1>2
<1>3. CASE MonitorSend
  <2>1. /\ monPc = "sending" /\ monPc' = "waiting"
        /\ UNCHANGED <<lastEpoch, epochInfo>>
        /\ epochChan' = Append(epochChan, lastEpoch)
    BY <1>3 DEF MonitorSend, procVars
  <2>2. epochChan = <<>>
    BY <1>3, OneInChannel DEF MonitorSend, ChanCapacity
  <2>3. epochChan' = <<lastEpoch>> /\ epochChan' # <<>> /\ Head(epochChan') = lastEpoch
    BY <2>1, <2>2
  <2> QED BY <2>1, <2>3
<1>4. CASE Receive
  <2>1. epochChan # <<>> /\ epochChan' = <<>> /\ epochInfo' = Head(epochChan)
    BY <1>4, OneInChannel DEF Receive
  <2>2. UNCHANGED <<monPc, lastEpoch>>
    BY <1>4 DEF Receive, monVars
  <2> QED BY <2>1, <2>2
<1>5. CASE RecheckFails \/ \E x \in 0 .. MaxEpoch : RecheckAnswered(x)
  <2>1. UNCHANGED <<monPc, lastEpoch, epochChan>>
    BY <1>5 DEF RecheckFails, RecheckAnswered, WorkOn, monVars
  <2>2. epochInfo' >= epochInfo
    BY <1>5 DEF RecheckFails, RecheckAnswered, WorkOn, Fresher, TypeOK
  <2>3. epochInfo' <= e /\ epochInfo' \in Nat
    BY <1>5 DEF FeedInv, BehindChain, Resting, RecheckFails, RecheckAnswered, WorkOn,
       Fresher, TypeOK
  <2> QED BY <2>1, <2>2, <2>3 DEF TypeOK, Epochs
<1>6. CASE \/ ChainAdvance \/ Cancel \/ MonitorTickFails \/ MonitorReturn \/ StartReturn
           \/ LicensesFail \/ LicensesFound \/ FinishRun \/ Stopped \/ UNCHANGED vars
           \/ \E n \in Endpoints : CatchUp(n)
  BY <1>6 DEF ChainAdvance, Cancel, MonitorTickFails, MonitorReturn, StartReturn,
       LicensesFail, LicensesFound, FinishRun, Stopped, CatchUp, Resting,
       vars, chainVars, monVars, procVars
<1> QED BY <1>2, <1>3, <1>4, <1>5, <1>6 DEF Next, FeedNext

\* The steps it may insist on.
LEMMA RestMonitorInsists ==
  ASSUME TypeOK, NEW e \in Epochs, Resting(e)
  PROVE  /\ PollsFor(e) /\ Poll => SendsLast(e)'
         /\ SendsOlder(e) /\ MonitorSend => PollsFor(e)'
         /\ SendsLast(e) /\ MonitorSend => LastWaits(e)'
<1>1. PollsFor(e) /\ Poll => SendsLast(e)'
  BY AnswerIsAView DEF Poll, MonitorTick, PollsFor, SendsLast, Resting, IsNewEpoch, TypeOK, Epochs
<1>2. SendsOlder(e) /\ MonitorSend => PollsFor(e)'
  BY DEF SendsOlder, MonitorSend, PollsFor
<1>3. ASSUME SendsLast(e), MonitorSend
      PROVE  LastWaits(e)'
  <2>1. epochChan = <<>>
    BY <1>3, OneInChannel DEF MonitorSend, ChanCapacity
  <2>2. epochChan' = <<lastEpoch>> /\ epochChan' # <<>> /\ Head(epochChan') = lastEpoch
    BY <1>3, <2>1 DEF MonitorSend
  <2> QED BY <1>3, <2>2 DEF MonitorSend, SendsLast, LastWaits
<1> QED BY <1>1, <1>2, <1>3

\* With one endpoint or many: once the chain and every endpoint rest in an
\* epoch, the monitor comes to it and the processor takes it up and keeps it
\* (queries.go:337-353, manager.go:166-182).  Whatever older epochs are in the
\* processor's hands, in the channel and in the blocked send at that moment are
\* worked off first.
THEOREM RestIsTakenUp ==
  ASSUME NEW e \in Epochs
  PROVE  FairSpec /\ []NeverStuck /\ <>[]Resting(e) => <>[](epochInfo = e)
<1> DEFINE R == Resting(e)  P == PollsFor(e)  O == SendsOlder(e)  L == SendsLast(e)
           W == LastWaits(e)  T == Settled(e)  N == Empty
           Q0 == Waits("select")  Q1 == Waits("recheck")
           Q2 == Waits("licenses")  Q3 == Waits("running")
<1>1. TypeOK /\ FeedInv /\ R
        => /\ P \/ O \/ L \/ W \/ T
           /\ N \/ Q0 \/ Q1 \/ Q2 \/ Q3
  BY RestStages
<1>2. TypeOK /\ R /\ [Next]_vars
        => /\ Q3 => Q3' \/ Q0'
           /\ Q2 => Q2' \/ Q3' \/ Q0'
           /\ Q1 => Q1' \/ Q2'
           /\ Q0 => Q0' \/ N'
  BY RestProcessor
<1>3. TypeOK => /\ Q3 /\ FinishRun => Q0'
                /\ Q2 /\ AskLicenses => Q3' \/ Q0'
                /\ Q1 /\ Recheck => Q2'
                /\ Q0 /\ Receive => N'
  BY RestProcessorInsists
<1>4. NeverStuck => /\ Q3 => ENABLED <<FinishRun>>_vars
                    /\ Q2 => ENABLED <<AskLicenses>>_vars
                    /\ Q1 => ENABLED <<Recheck>>_vars
                    /\ Q0 => ENABLED <<Receive>>_vars
  BY DEF NeverStuck, Waits
<1>5. TypeOK /\ FeedInv /\ FeedInv' /\ R /\ R' /\ [Next]_vars
        => /\ P => P' \/ L'
           /\ O => O' \/ P'
           /\ O /\ N => (O' /\ N') \/ P'
           /\ L => L' \/ W'
           /\ L /\ N => (L' /\ N') \/ W'
           /\ W => W' \/ T'
           /\ T => T'
  BY RestMonitor
<1>6. TypeOK /\ R => /\ P /\ Poll => L'
                     /\ O /\ MonitorSend => P'
                     /\ L /\ MonitorSend => W'
  BY RestMonitorInsists
<1>7. NeverStuck /\ R => /\ P => ENABLED <<Poll>>_vars
                         /\ O /\ N => ENABLED <<MonitorSend>>_vars
                         /\ L /\ N => ENABLED <<MonitorSend>>_vars
  <2>1. PICK n \in Endpoints : TRUE
    BY EndpointsAssumption DEF EndpointsAssumption
  <2>2. R /\ P => ~ctxDone /\ lastEpoch < view[n]
    BY DEF Resting, PollsFor
  <2> QED
    BY <2>1, <2>2 DEF NeverStuck, PollsFor, SendsOlder, SendsLast, Empty
<1>8. W => ~N
  BY DEF LastWaits, Empty
<1>9. (T => epochInfo = e) /\ (R <=> Resting(e))
  BY DEF Settled
<1> HIDE DEF R, P, O, L, W, T, N, Q0, Q1, Q2, Q3
\* The processor empties the channel ...
<1>10. FairSpec /\ []NeverStuck => []([]R => (Q0 ~> N))
  BY <1>2, <1>3, <1>4, TypeCorrect, PTL DEF FairSpec, SchedulerFairness, Spec
<1>11. FairSpec /\ []NeverStuck => []([]R => (Q3 ~> Q0))
  BY <1>2, <1>3, <1>4, TypeCorrect, PTL DEF FairSpec, SchedulerFairness, Spec
<1>12. FairSpec /\ []NeverStuck => []([]R => (Q2 ~> (Q3 \/ Q0)))
  BY <1>2, <1>3, <1>4, TypeCorrect, PTL DEF FairSpec, SchedulerFairness, Spec
<1>13. FairSpec /\ []NeverStuck => []([]R => (Q1 ~> Q2))
  BY <1>2, <1>3, <1>4, TypeCorrect, PTL DEF FairSpec, SchedulerFairness, Spec
<1>14. FairSpec /\ []NeverStuck => []([]R => []<>N)
  BY <1>1, <1>10, <1>11, <1>12, <1>13, TypeCorrect, FeedInvariant, PTL DEF FairSpec
\* ... so that the monitor can send, poll, send again and see e taken.
<1>15. FairSpec /\ []NeverStuck => []([]R => (O ~> P))
  BY <1>5, <1>6, <1>7, <1>14, TypeCorrect, FeedInvariant, PTL
     DEF FairSpec, SchedulerFairness, Spec
<1>16. FairSpec /\ []NeverStuck => []([]R => (P ~> L))
  BY <1>5, <1>6, <1>7, TypeCorrect, FeedInvariant, PTL
     DEF FairSpec, NetworkFairness, Spec
<1>17. FairSpec /\ []NeverStuck => []([]R => (L ~> W))
  BY <1>5, <1>6, <1>7, <1>14, TypeCorrect, FeedInvariant, PTL
     DEF FairSpec, SchedulerFairness, Spec
<1>18. FairSpec /\ []NeverStuck => []([]R => (W ~> T))
  BY <1>5, <1>8, <1>14, TypeCorrect, FeedInvariant, PTL DEF FairSpec, Spec
<1>19. FairSpec /\ []NeverStuck => []([]R => <>T)
  BY <1>1, <1>15, <1>16, <1>17, <1>18, TypeCorrect, FeedInvariant, PTL DEF FairSpec
<1>20. FairSpec => []([]R /\ T => []T)
  BY <1>5, TypeCorrect, FeedInvariant, PTL DEF FairSpec, Spec
<1> QED BY <1>9, <1>19, <1>20, PTL

\* The chain stays in epoch e and the miner is not cancelled.
Calm(e) == chainEpoch = e /\ ~ctxDone

LEMMA CalmEndpoint ==
  ASSUME TypeOK, FeedInv, NEW e \in Epochs, Calm(e), Calm(e)', NEW n \in Endpoints, [Next]_vars
  PROVE  /\ view[n] < chainEpoch \/ view[n] = e
         /\ view[n] < chainEpoch => (view[n] < chainEpoch)' \/ (view[n] = e)'
         /\ view[n] = e => (view[n] = e)'
         /\ view[n] < chainEpoch /\ CatchUp(n) => (view[n] = e)'
<1>1. view[n] \in Nat /\ view[n] <= e /\ chainEpoch = e /\ chainEpoch' = e /\ e \in Nat
  BY DEF TypeOK, FeedInv, BehindChain, Calm, Epochs
<1>2. view' = view \/ \E m \in Endpoints : CatchUp(m)
  BY DEF Next, FeedNext, ChainAdvance, Cancel, MonitorTick, MonitorTickFails, MonitorSend,
     MonitorReturn, Receive, StartReturn, RecheckAnswered, RecheckFails, WorkOn, LicensesFail,
     LicensesFound, FinishRun, Stopped, vars, chainVars
<1>3. ASSUME NEW m \in Endpoints, CatchUp(m)
      PROVE  /\ m = n => view'[n] = e
             /\ m # n => view'[n] = view[n]
  BY <1>1, <1>3 DEF CatchUp, TypeOK
<1> QED BY <1>1, <1>2, <1>3

\* An endpoint comes to the epoch the chain rests in.
Arrives(n, e) == <>[]Calm(e) => <>[](view[n] = e)

\* An endpoint that keeps up arrives at the epoch the chain has come to rest in.
LEMMA EndpointArrives ==
  ASSUME NEW e \in Epochs, NEW p \in Endpoints
  PROVE  FairSpec /\ []NeverStuck => Arrives(p, e)
<1> DEFINE C == Calm(e)  B == view[p] < chainEpoch  A == view[p] = e
<1>1. TypeOK /\ FeedInv /\ C /\ C' /\ [Next]_vars
        => /\ B \/ A
           /\ B => B' \/ A'
           /\ A => A'
           /\ B /\ CatchUp(p) => A'
  BY CalmEndpoint
<1>2. NeverStuck => (B => ENABLED <<CatchUp(p)>>_vars)
  <2>1. NeverStuck => CanCatchUp(p)
    BY DEF NeverStuck
  <2> QED BY <2>1 DEF CanCatchUp
<1>3. FairSpec => KeepsUp(p)
  <2>1. AllKeepUp => KeepsUp(p)
    BY DEF AllKeepUp
  <2> QED BY <2>1, PTL DEF FairSpec, NetworkFairness
<1>4. (C <=> Calm(e)) /\ (A <=> view[p] = e)
  OBVIOUS
<1> HIDE DEF C, B, A
<1>5. FairSpec /\ []NeverStuck => []([]C => <>A)
  BY <1>1, <1>2, <1>3, TypeCorrect, FeedInvariant, PTL DEF FairSpec, Spec, KeepsUp
<1>6. FairSpec => []([]C /\ A => []A)
  BY <1>1, TypeCorrect, FeedInvariant, PTL DEF FairSpec, Spec
<1> QED BY <1>4, <1>5, <1>6, PTL DEF Arrives

\* The operator named one endpoint or two.
OneOrTwoEndpoints == \E m, n \in Endpoints : Endpoints = {m, n}

\* With one or two endpoints that keep up: the epoch the chain stays in is taken
\* up in the end and no older one replaces it (queries.go:337-353,
\* manager.go:166-182).  RestIsTakenUp holds for any number of them; what needs
\* the bound here is only that all have caught up at some one moment.
THEOREM FinalEpochIsTakenUp ==
  FairSpec /\ []NeverStuck /\ OneOrTwoEndpoints => FinalEpochTakenUp
<1> DEFINE G(e) == <>[](chainEpoch = e /\ ~ctxDone) => <>[](epochInfo = e)
<1> SUFFICES ASSUME OneOrTwoEndpoints
             PROVE  FairSpec /\ []NeverStuck => FinalEpochTakenUp
  OBVIOUS
<1>1. PICK m \in Endpoints, n \in Endpoints : Endpoints = {m, n}
  BY DEF OneOrTwoEndpoints
<1>2. ASSUME NEW e \in Epochs
      PROVE  FairSpec /\ []NeverStuck => G(e)
  <2>1. FairSpec /\ []NeverStuck => Arrives(m, e) /\ Arrives(n, e)
    BY EndpointArrives
  <2>2. Calm(e) /\ view[m] = e /\ view[n] = e => Resting(e)
    BY <1>1 DEF Calm, Resting
  <2>3. FairSpec /\ []NeverStuck /\ <>[]Resting(e) => <>[](epochInfo = e)
    BY RestIsTakenUp
  <2>4. Calm(e) <=> chainEpoch = e /\ ~ctxDone
    BY DEF Calm
  <2> QED BY <2>1, <2>2, <2>3, <2>4, PTL DEF Arrives
<1> HIDE DEF G
<1>3. FairSpec /\ []NeverStuck => \A e \in Epochs : G(e)
  BY <1>2
<1> QED BY <1>3 DEF G, FinalEpochTakenUp
=============================================================================
