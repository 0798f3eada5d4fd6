--------------------------- MODULE TxSenderProofs ---------------------------
(***************************************************************************)
(* Theorems about TxSender, for any clients, batches, faults and bounds.   *)
(***************************************************************************)
EXTENDS TxSender, SequenceTheorems, TLAPS

-----------------------------------------------------------------------------
(* The chain's part *)

LEMMA MempoolTyped ==
  ASSUME ChainTypeOK
  PROVE  Len(mempool) \in Nat /\ CheckSeq \in Nat /\ chainSeq <= CheckSeq /\ InMempool \subseteq Transactions
<1>1. Len(mempool) \in Nat /\ \A i \in 1 .. Len(mempool) : mempool[i] \in Transactions
  BY LenProperties, ElementOfSeq DEF ChainTypeOK
<1>2. CheckSeq \in Nat /\ chainSeq <= CheckSeq
  BY <1>1 DEF ChainTypeOK, CheckSeq
<1> QED
  BY <1>1, <1>2 DEF InMempool

LEMMA ChainKept ==
  ASSUME ChainTypeOK, UNCHANGED chainVars, UNCHANGED late
  PROVE  ChainTypeOK'
BY DEF ChainTypeOK, chainVars

\* A transaction that CheckTx accepts continues the mempool's sequence.
LEMMA AcceptedTyped ==
  ASSUME ChainTypeOK, NEW t \in Transactions, Accepts(t),
         mempool' = Append(mempool, t), UNCHANGED <<chainSeq, delivered, credited>>,
         late' \subseteq Transactions
  PROVE  ChainTypeOK' /\ CheckSeq' = CheckSeq + 1
<1> DEFINE n == Len(mempool)
<1>1. n \in Nat /\ t.seq = chainSeq + n /\ chainSeq \in Nat
  BY MempoolTyped DEF Accepts, CheckSeq, ChainTypeOK
<1>2. /\ mempool' \in Seq(Transactions)
      /\ Len(mempool') = n + 1
      /\ \A i \in 1 .. n : mempool'[i] = mempool[i]
      /\ mempool'[n + 1] = t
  BY AppendProperties DEF ChainTypeOK
<1>3. \A i \in 1 .. n + 1 : mempool'[i].seq = chainSeq + i - 1
  <2> SUFFICES ASSUME NEW i \in 1 .. n + 1 PROVE mempool'[i].seq = chainSeq + i - 1
    OBVIOUS
  <2>1. CASE i \in 1 .. n
    BY <2>1, <1>2 DEF ChainTypeOK
  <2>2. CASE i = n + 1
    BY <2>2, <1>1, <1>2
  <2> QED
    BY <1>1, <2>1, <2>2
<1>4. CheckSeq' = CheckSeq + 1
  BY <1>1, <1>2 DEF CheckSeq
<1> QED
  BY <1>2, <1>3, <1>4 DEF ChainTypeOK

LEMMA ArrivesTyped ==
  ASSUME ChainTypeOK, NEW t \in Transactions, Arrives(t), late' \subseteq Transactions
  PROVE  ChainTypeOK' /\ CheckSeq' >= CheckSeq /\ chainSeq' = chainSeq
<1>1. CASE Accepts(t) /\ mempool' = Append(mempool, t)
  BY <1>1, AcceptedTyped, MempoolTyped DEF Arrives
<1>2. CASE UNCHANGED mempool
  <2>1. ChainTypeOK'
    BY <1>2 DEF Arrives, ChainTypeOK
  <2>2. CheckSeq' = CheckSeq /\ chainSeq' = chainSeq
    BY <1>2 DEF Arrives, CheckSeq
  <2> QED
    BY <2>1, <2>2, MempoolTyped
<1> QED
  BY <1>1, <1>2 DEF Arrives

LEMMA DeliverTyped ==
  ASSUME ChainTypeOK, NEW ok \in BOOLEAN, Deliver(ok)
  PROVE  ChainTypeOK' /\ CheckSeq' = CheckSeq
<1> DEFINE t == Head(mempool)
<1>1. /\ mempool # <<>>
      /\ delivered' = delivered \union {[tx |-> t, ok |-> ok]}
      /\ credited' = IF ok THEN credited \union t.batch ELSE credited
      /\ mempool' = Tail(mempool)
      /\ chainSeq' = chainSeq + 1
      /\ late' = late
  BY DEF Deliver
<1>2. Len(mempool) \in Nat \ {0} /\ chainSeq \in Nat
  BY <1>1, EmptySeq DEF ChainTypeOK
<1>3. /\ t \in Transactions
      /\ mempool' \in Seq(Transactions)
      /\ Len(mempool') = Len(mempool) - 1
      /\ \A i \in 1 .. Len(mempool') : mempool'[i] = mempool[i + 1]
  BY <1>1, HeadTailProperties DEF ChainTypeOK
<1>4. t.seq = chainSeq
  <2>1. t = mempool[1]
    BY <1>1 DEF ChainTypeOK
  <2> QED
    BY <2>1, <1>2 DEF ChainTypeOK
<1>5. \A i \in 1 .. Len(mempool') : mempool'[i].seq = chainSeq' + i - 1
  <2> SUFFICES ASSUME NEW i \in 1 .. Len(mempool') PROVE mempool'[i].seq = chainSeq' + i - 1
    OBVIOUS
  <2>1. i + 1 \in 1 .. Len(mempool)
    BY <1>2, <1>3
  <2>2. mempool[i + 1].seq = chainSeq + (i + 1) - 1
    BY <2>1 DEF ChainTypeOK
  <2> QED
    BY <2>2, <1>1, <1>2, <1>3
<1>6. \A d \in delivered' : d \in [tx : Transactions, ok : BOOLEAN] /\ d.tx.seq < chainSeq'
  <2> SUFFICES ASSUME NEW d \in delivered'
               PROVE  d \in [tx : Transactions, ok : BOOLEAN] /\ d.tx.seq < chainSeq'
    OBVIOUS
  <2>1. CASE d \in delivered
    <3>1. d \in [tx : Transactions, ok : BOOLEAN] /\ d.tx.seq < chainSeq
      BY <2>1 DEF ChainTypeOK
    <3>2. d.tx.seq \in Nat
      BY <3>1 DEF Transactions
    <3> QED
      BY <3>1, <3>2, <1>1, <1>2
  <2>2. CASE d = [tx |-> t, ok |-> ok]
    BY <2>2, <1>1, <1>2, <1>3, <1>4
  <2> QED
    BY <1>1, <2>1, <2>2
<1>7. credited' \subseteq Licenses
  BY <1>1, <1>3 DEF ChainTypeOK, Transactions
<1>8. CheckSeq' = CheckSeq
  BY <1>1, <1>2, <1>3 DEF CheckSeq
<1> HIDE DEF t
<1>9. chainSeq' \in Nat /\ delivered' \subseteq [tx : Transactions, ok : BOOLEAN]
  BY <1>1, <1>2, <1>6
<1> QED
  BY <1>1, <1>3, <1>5, <1>6, <1>7, <1>8, <1>9 DEF ChainTypeOK

LEMMA EvictTyped ==
  ASSUME ChainTypeOK, NEW i \in 1 .. Len(mempool), Evict(i)
  PROVE  ChainTypeOK'
<1>1. mempool' = SubSeq(mempool, 1, i - 1) /\ UNCHANGED <<chainSeq, delivered, credited, late>>
  BY DEF Evict
<1>2. Len(mempool) \in Nat /\ \A j \in 1 .. Len(mempool) : mempool[j] \in Transactions
  BY LenProperties, ElementOfSeq DEF ChainTypeOK
<1>3. i - 1 \in Int /\ 1 .. i - 1 \subseteq 1 .. Len(mempool)
  BY <1>2
<1>4. /\ mempool' \in Seq(Transactions)
      /\ Len(mempool') = IF 1 <= i - 1 THEN (i - 1) - 1 + 1 ELSE 0
      /\ \A j \in 1 .. (i - 1) - 1 + 1 : mempool'[j] = mempool[1 + j - 1]
  BY <1>1, <1>2, <1>3, SubSeqProperties
<1>5. Len(mempool') = i - 1 /\ \A j \in 1 .. i - 1 : mempool'[j] = mempool[j]
  BY <1>2, <1>4
<1>6. \A j \in 1 .. Len(mempool') : mempool'[j].seq = chainSeq' + j - 1
  BY <1>1, <1>3, <1>5 DEF ChainTypeOK
<1> QED
  BY <1>1, <1>4, <1>6 DEF ChainTypeOK

LEMMA LateArrivalTyped ==
  ASSUME ChainTypeOK, NEW t \in late, LateArrival(t)
  PROVE  ChainTypeOK' /\ CheckSeq' >= CheckSeq
<1>1. t \in Transactions /\ late' \subseteq Transactions /\ Arrives(t)
  BY DEF ChainTypeOK, LateArrival
<1> QED
  BY <1>1, ArrivesTyped

-----------------------------------------------------------------------------
(* The clients' part *)

Calls == \A c \in Clients : CallOK(c)

LEMMA BatchTyped ==
  ASSUME ClientTypeOK, NEW c \in Clients, Pending(c)
  PROVE  CurrentBatch(c) \subseteq Licenses
<1>1. Batches[c] \in Seq(SUBSET Licenses) /\ reports[c] \in Seq(Verdicts)
  BY BatchesAssumption DEF ClientTypeOK, BatchesAssumption
<1>2. Len(reports[c]) \in Nat /\ Len(Batches[c]) \in Nat
  BY <1>1, LenProperties
<1>3. Len(reports[c]) + 1 \in 1 .. Len(Batches[c])
  BY <1>2 DEF Pending
<1> QED
  BY <1>1, <1>3, ElementOfSeq DEF CurrentBatch

\* A step of one client leaves the calls of the others as they are.
LEMMA OthersKept ==
  ASSUME Calls, NEW c \in Clients, CallOK(c)',
         \A d \in Clients \ {c} : /\ pc'[d] = pc[d]
                                   /\ tx'[d] = tx[d]
                                   /\ nextSeq'[d] = nextSeq[d]
                                   /\ reports'[d] = reports[d]
  PROVE  Calls'
BY DEF Calls, CallOK, Pending, CurrentBatch

\* A call that returns leaves a client without one.
LEMMA FinishTyped ==
  ASSUME ClientTypeOK, Calls, NEW c \in Clients, NEW verdict \in Verdicts,
         Finish(c, verdict),
         seqInit' \in [Clients -> BOOLEAN],
         nextSeq' \in [Clients -> Nat],
         \A d \in Clients \ {c} : nextSeq'[d] = nextSeq[d]
  PROVE  ClientTypeOK' /\ Calls'
<1>1. Append(reports[c], verdict) \in Seq(Verdicts)
  BY AppendProperties DEF ClientTypeOK
<1>2. reports' \in [Clients -> Seq(Verdicts)]
  BY <1>1 DEF ClientTypeOK, Finish
<1>3. NoTx \in Transactions
  BY DEF NoTx, Transactions
<1>4. ClientTypeOK'
  BY <1>2, <1>3, RetriesAssumption DEF ClientTypeOK, Finish, Goes, RetriesAssumption
<1>5. CallOK(c)'
  BY DEF CallOK, Finish, Goes, ClientTypeOK
<1>6. Calls'
  BY <1>5, OthersKept DEF Finish, Goes, ClientTypeOK
<1> QED
  BY <1>4, <1>6

LEMMA SeqsTyped ==
  ASSUME ChainTypeOK, ClientTypeOK, NEW c \in Clients, NEW s \in AccountSeqs
  PROVE  s \in Nat /\ s <= chainSeq /\ Refreshed(c, s) \in Nat
BY DEF AccountSeqs, ChainTypeOK, ClientTypeOK, Refreshed

LEMMA SignTyped ==
  ASSUME ChainTypeOK, ClientTypeOK, Calls, NEW c \in Clients, Sign(c)
  PROVE  ClientTypeOK' /\ Calls'
<1>1. PICK s \in {nextSeq[c]} \union {Refreshed(c, q) : q \in AccountSeqs}, g \in Estimates(c) :
        /\ nextSeq' = [nextSeq EXCEPT ![c] = s]
        /\ tx' = [tx EXCEPT ![c] = [seq |-> s, batch |-> CurrentBatch(c), gas |-> g]]
  BY DEF Sign
<1>2. s \in Nat /\ g \in Nat
  BY SeqsTyped DEF ClientTypeOK, Estimates
<1>3. CurrentBatch(c) \subseteq Licenses /\ Pending(c)
  BY BatchTyped DEF Sign, Calls, CallOK
<1>4. [seq |-> s, batch |-> CurrentBatch(c), gas |-> g] \in Transactions
  BY <1>2, <1>3 DEF Transactions
<1>5. ClientTypeOK'
  BY <1>1, <1>2, <1>4 DEF Sign, Goes, ClientTypeOK, callVars
<1>6. CallOK(c)'
  BY <1>1, <1>3 DEF Sign, Goes, ClientTypeOK, CallOK, Pending, CurrentBatch
<1>7. Calls'
  BY <1>1, <1>6, OthersKept DEF Sign, Goes, ClientTypeOK
<1> QED
  BY <1>5, <1>7

LEMMA CallTyped ==
  ASSUME ChainTypeOK, ClientTypeOK, Calls, NEW c \in Clients,
         Call(c) \/ AwaitCancelled(c)
  PROVE  ClientTypeOK' /\ Calls'
<1> USE RetriesAssumption DEF RetriesAssumption
<1>1. CASE StartRefreshed(c) \/ StartFresh(c)
  <2>a. nextSeq' \in [Clients -> Nat] /\ seqInit' \in [Clients -> BOOLEAN]
    <3>1. CASE StartRefreshed(c)
      <4>1. PICK s \in AccountSeqs : nextSeq' = [nextSeq EXCEPT ![c] = Refreshed(c, s)]
        BY <3>1 DEF StartRefreshed
      <4> QED
        BY <3>1, <4>1, SeqsTyped DEF StartRefreshed, ClientTypeOK
    <3>2. CASE StartFresh(c)
      BY <3>2 DEF StartFresh, seqVars, ClientTypeOK
    <3> QED
      BY <1>1, <3>1, <3>2
  <2>1. ClientTypeOK'
    BY <1>1, <2>a DEF StartRefreshed, StartFresh, ClientTypeOK, Goes, callVars
  <2>2. CallOK(c)'
    BY <1>1 DEF StartRefreshed, StartFresh, ClientTypeOK, Goes, CallOK, Pending
  <2>3. Calls'
    BY <1>1, <2>2, OthersKept DEF StartRefreshed, StartFresh, ClientTypeOK, Goes, seqVars
  <2> QED
    BY <2>1, <2>3
<1>2. CASE Sign(c)
  BY <1>2, SignTyped
<1>3. CASE BroadcastAccepted(c)
  <2>1. ClientTypeOK'
    BY <1>3 DEF BroadcastAccepted, ClientTypeOK, Goes, callVars
  <2>2. CallOK(c)'
    BY <1>3 DEF BroadcastAccepted, ClientTypeOK, Calls, Goes, CallOK, Pending, CurrentBatch
  <2>3. Calls'
    BY <1>3, <2>2, OthersKept DEF BroadcastAccepted, ClientTypeOK, Goes
  <2> QED
    BY <2>1, <2>3
<1>4. CASE CachedConfirmed(c)
  <2>1. ClientTypeOK'
    BY <1>4 DEF CachedConfirmed, ClientTypeOK, Goes, callVars
  <2>2. CallOK(c)'
    BY <1>4 DEF CachedConfirmed, ClientTypeOK, Calls, Goes, CallOK, Pending, CurrentBatch
  <2>3. Calls'
    BY <1>4, <2>2, OthersKept DEF CachedConfirmed, ClientTypeOK, Goes
  <2> QED
    BY <2>1, <2>3
<1>5. CASE BroadcastMismatch(c)
  BY <1>5, FinishTyped, MempoolTyped DEF BroadcastMismatch, ClientTypeOK, Verdicts
<1>6. CASE NotSent(c) \/ BroadcastDuplicate(c) \/ GiveUp(c) \/ AwaitConfirmed(c)
             \/ AwaitRefused(c) \/ AwaitTimesOut(c) \/ AwaitCancelled(c)
  BY <1>6, FinishTyped DEF NotSent, BroadcastDuplicate, GiveUp, AwaitConfirmed, AwaitRefused,
       AwaitTimesOut, AwaitCancelled, seqVars, ClientTypeOK, Verdicts
<1>7. CASE Retry(c)
  <2>a. nextSeq' \in [Clients -> Nat]
    BY <1>7, SeqsTyped DEF Retry, ClientTypeOK
  <2>b. attempt[c] + 1 \in 0 .. MaxRetries
    BY <1>7 DEF Retry, ClientTypeOK
  <2>1. ClientTypeOK'
    BY <1>7, <2>a, <2>b DEF Retry, ClientTypeOK, Goes
  <2>2. CallOK(c)'
    BY <1>7 DEF Retry, ClientTypeOK, Calls, Goes, CallOK, Pending
  <2>3. Calls'
    BY <1>7, <2>2, OthersKept DEF Retry, ClientTypeOK, Goes
  <2> QED
    BY <2>1, <2>3
<1>8. CASE BroadcastOutOfGas(c) \/ NextEndpoint(c)
  <2>a. ASSUME BroadcastOutOfGas(c) PROVE ClientTypeOK'
    <3>1. tx[c].gas + 1 \in Nat
      BY DEF ClientTypeOK, Transactions
    <3>2. gas' \in [Clients -> Nat]
      BY <2>a, <3>1 DEF BroadcastOutOfGas, ClientTypeOK
    <3>3. pc' = [pc EXCEPT ![c] = "retry"] /\ UNCHANGED <<seqInit, nextSeq, attempt, endpoint, tx, reports>>
      BY <2>a DEF BroadcastOutOfGas, Goes, seqVars
    <3> QED
      BY <3>2, <3>3 DEF ClientTypeOK
  <2>b. ASSUME NextEndpoint(c) PROVE ClientTypeOK'
    <3>1. endpoint[c] + 1 \in 0 .. NumEndpoints - 1 /\ 0 \in 0 .. MaxRetries
      BY <2>b DEF NextEndpoint, ClientTypeOK
    <3>2. attempt' \in [Clients -> 0 .. MaxRetries] /\ endpoint' \in [Clients -> 0 .. NumEndpoints - 1]
      BY <2>b, <3>1 DEF NextEndpoint, ClientTypeOK
    <3>3. pc' = [pc EXCEPT ![c] = "sign"] /\ UNCHANGED <<seqInit, nextSeq, gas, tx, reports>>
      BY <2>b DEF NextEndpoint, Goes, seqVars
    <3> QED
      BY <3>2, <3>3 DEF ClientTypeOK
  <2>1. ClientTypeOK'
    BY <1>8, <2>a, <2>b
  <2>2. CallOK(c)'
    BY <1>8 DEF BroadcastOutOfGas, NextEndpoint, ClientTypeOK, Calls, Goes, CallOK, Pending
  <2>3. Calls'
    BY <1>8, <2>2, OthersKept DEF BroadcastOutOfGas, NextEndpoint, ClientTypeOK, Goes, seqVars
  <2> QED
    BY <2>1, <2>3
<1>9. CASE BroadcastCached(c) \/ BroadcastRejected(c) \/ BroadcastUnanswered(c)
             \/ DetectDelivered(c) \/ DetectNothing(c) \/ CachedNotConfirmed(c)
  <2>1. /\ UNCHANGED <<seqInit, nextSeq, gas, attempt, endpoint, tx, reports>>
        /\ \E place \in {"awaitCached", "retry", "detect", "await"} :
             /\ pc' = [pc EXCEPT ![c] = place]
             /\ place = "awaitCached" => pc[c] = "broadcast"
             /\ pc[c] = "broadcast" \/ pc[c] = "detect" \/ pc[c] = "awaitCached"
    BY <1>9 DEF BroadcastCached, BroadcastRejected, BroadcastUnanswered, DetectDelivered,
         DetectNothing, CachedNotConfirmed, Goes, seqVars, callVars
  <2>2. ClientTypeOK'
    BY <2>1 DEF ClientTypeOK
  <2>3. CallOK(c)'
    BY <2>1 DEF ClientTypeOK, Calls, CallOK, Pending, CurrentBatch
  <2>4. Calls'
    BY <2>1, <2>3, OthersKept DEF ClientTypeOK
  <2> QED
    BY <2>2, <2>4
<1> QED
  BY <1>1, <1>2, <1>3, <1>4, <1>5, <1>6, <1>7, <1>8, <1>9 DEF Call

-----------------------------------------------------------------------------
(* Types *)

LEMMA CallChain ==
  ASSUME TxTypeOK, NEW c \in Clients, Call(c) \/ AwaitCancelled(c)
  PROVE  ChainTypeOK' /\ CheckSeq' >= CheckSeq
<1> USE DEF TxTypeOK
<1>0. tx[c] \in Transactions
  BY DEF ClientTypeOK
<1>1. CASE BroadcastAccepted(c)
  BY <1>0, <1>1, AcceptedTyped, MempoolTyped DEF BroadcastAccepted, ChainTypeOK
<1>2. CASE BroadcastUnanswered(c)
  <2>1. CASE UNCHANGED chainVars /\ late' \subseteq Transactions
    BY <2>1, MempoolTyped DEF ChainTypeOK, chainVars, CheckSeq
  <2>2. CASE Arrives(tx[c]) /\ UNCHANGED late
    BY <2>2, <1>0, ArrivesTyped DEF ChainTypeOK
  <2> QED
    BY <1>0, <1>2, <2>1, <2>2 DEF BroadcastUnanswered, ChainTypeOK
<1>3. CASE UNCHANGED chainVars /\ UNCHANGED late
  BY <1>3, ChainKept, MempoolTyped DEF chainVars, CheckSeq
<1> QED
  BY <1>1, <1>2, <1>3 DEF Call, StartRefreshed, StartFresh, NotSent, Sign, BroadcastMismatch,
     BroadcastDuplicate, BroadcastCached, BroadcastOutOfGas, BroadcastRejected, DetectDelivered,
     DetectNothing, Retry, NextEndpoint, GiveUp, CachedConfirmed, CachedNotConfirmed,
     AwaitConfirmed, AwaitRefused, AwaitTimesOut, AwaitCancelled

\* A step of the chain or of the network touches no client.
LEMMA ClientsKept ==
  ASSUME ClientTypeOK, Calls, UNCHANGED <<pc, seqVars, callVars, tx, reports>>
  PROVE  ClientTypeOK' /\ Calls'
BY DEF ClientTypeOK, Calls, CallOK, Pending, CurrentBatch, seqVars, callVars

LEMMA StepTyped ==
  ASSUME TxTypeOK, [Next]_vars
  PROVE  TxTypeOK'
<1> USE DEF TxTypeOK, Calls
<1>1. CASE \E ok \in BOOLEAN : Deliver(ok)
  BY <1>1, DeliverTyped, ClientsKept DEF Deliver
<1>2. CASE \E i \in 1 .. Len(mempool) : Evict(i)
  BY <1>2, EvictTyped, ClientsKept DEF Evict
<1>3. CASE \E t \in late : LateArrival(t)
  BY <1>3, LateArrivalTyped, ClientsKept DEF LateArrival
<1>4. CASE \E c \in Clients : Call(c) \/ AwaitCancelled(c)
  BY <1>4, CallTyped, CallChain
<1>5. CASE UNCHANGED vars
  BY <1>5, ClientsKept, ChainKept DEF vars
<1> QED
  BY <1>1, <1>2, <1>3, <1>4, <1>5 DEF Next, Done

LEMMA InitTyped ==
  ASSUME Init
  PROVE  TxTypeOK
<1>1. ChainTypeOK
  BY EmptySeq DEF Init, ChainTypeOK
<1>2. NoTx \in Transactions
  BY DEF NoTx, Transactions
<1>3. ClientTypeOK
  BY <1>2, EmptySeq, RetriesAssumption DEF Init, ClientTypeOK, RetriesAssumption
<1>4. \A c \in Clients : CallOK(c)
  BY DEF Init, CallOK
<1> QED
  BY <1>1, <1>3, <1>4 DEF TxTypeOK

\* All variables keep their types, the mempool continues the committed sequence
\* without gaps, and what a client has signed carries the batch it was called
\* with and the sequence it holds (transactions.go:149-281).
THEOREM TxTypeCorrect == Spec => []TxTypeOK
<1>1. Init => TxTypeOK
  BY InitTyped
<1>2. TxTypeOK /\ [Next]_vars => TxTypeOK'
  BY StepTyped
<1> QED
  BY <1>1, <1>2, PTL DEF Spec

-----------------------------------------------------------------------------
(* No client is ahead of the chain *)

Kept == "evicted" \notin Faults
Behind == \A c \in Clients : nextSeq[c] <= CheckSeq

\* What a step of client c may make of its own sequence.
LEMMA OwnSequence ==
  ASSUME TxTypeOK, Behind, NEW c \in Clients, Call(c) \/ AwaitCancelled(c)
  PROVE  nextSeq'[c] <= CheckSeq' /\ \A d \in Clients \ {c} : nextSeq'[d] = nextSeq[d]
<1> USE DEF TxTypeOK
<1>0. /\ nextSeq \in [Clients -> Nat] /\ nextSeq[c] <= CheckSeq
      /\ CheckSeq \in Nat /\ chainSeq \in Nat /\ chainSeq <= CheckSeq
      /\ CheckSeq' \in Nat /\ CheckSeq' >= CheckSeq
      /\ \A s \in AccountSeqs : s \in Nat /\ s <= chainSeq
  <2>1. ChainTypeOK' /\ CheckSeq' >= CheckSeq
    BY CallChain
  <2>2. CheckSeq' \in Nat
    BY <2>1 DEF ChainTypeOK, CheckSeq
  <2> QED
    BY <2>1, <2>2, MempoolTyped DEF ClientTypeOK, Behind, ChainTypeOK, AccountSeqs
<1>1. CASE StartRefreshed(c) \/ Sign(c)
  <2>1. PICK s \in {nextSeq[c]} \union {Refreshed(c, q) : q \in AccountSeqs} :
           nextSeq' = [nextSeq EXCEPT ![c] = s]
    BY <1>1 DEF StartRefreshed, Sign
  <2>2. s <= CheckSeq /\ s \in Nat
    BY <1>0 DEF Refreshed
  <2> QED
    BY <1>0, <2>1, <2>2
<1>2. CASE BroadcastAccepted(c)
  <2>1. tx[c].seq = nextSeq[c] /\ tx[c].seq = CheckSeq /\ tx[c] \in Transactions
    BY <1>2 DEF BroadcastAccepted, CallOK, Accepts, ClientTypeOK
  <2>2. CheckSeq' = CheckSeq + 1
    BY <1>2, <2>1, AcceptedTyped DEF BroadcastAccepted, ChainTypeOK
  <2> QED
    BY <1>0, <1>2, <2>1, <2>2 DEF BroadcastAccepted
<1>3. CASE BroadcastMismatch(c)
  BY <1>0, <1>3 DEF BroadcastMismatch
<1>4. CASE Retry(c)
  BY <1>0, <1>4 DEF Retry
<1>5. CASE CachedConfirmed(c)
  <2>1. [tx |-> tx[c], ok |-> TRUE] \in delivered /\ tx[c].seq = nextSeq[c]
    BY <1>5 DEF CachedConfirmed, Delivered, CallOK
  <2>2. nextSeq[c] < chainSeq
    BY <2>1 DEF ChainTypeOK
  <2> QED
    BY <1>0, <1>5, <2>2 DEF CachedConfirmed
<1>6. CASE UNCHANGED nextSeq
  BY <1>0, <1>6
<1> QED
  BY <1>1, <1>2, <1>3, <1>4, <1>5, <1>6 DEF Call, StartFresh, NotSent, BroadcastDuplicate,
     BroadcastCached, BroadcastOutOfGas, BroadcastRejected, BroadcastUnanswered, DetectDelivered,
     DetectNothing, NextEndpoint, GiveUp, CachedNotConfirmed, AwaitConfirmed, AwaitRefused,
     AwaitTimesOut, AwaitCancelled, seqVars

LEMMA StepBehind ==
  ASSUME Kept, TxTypeOK, Behind, [Next]_vars
  PROVE  Behind'
<1> USE DEF TxTypeOK
<1>0. nextSeq \in [Clients -> Nat] /\ CheckSeq \in Nat /\ CheckSeq' \in Nat
  <2>1. ChainTypeOK'
    BY StepTyped
  <2>2. CheckSeq' \in Nat
    BY <2>1 DEF ChainTypeOK, CheckSeq
  <2> QED
    BY <2>2, MempoolTyped DEF ClientTypeOK
<1>1. CASE \E ok \in BOOLEAN : Deliver(ok)
  BY <1>1, DeliverTyped DEF Deliver, Behind, seqVars
<1>2. CASE \E i \in 1 .. Len(mempool) : Evict(i)
  BY <1>2 DEF Evict, Kept
<1>3. CASE \E t \in late : LateArrival(t)
  BY <1>0, <1>3, LateArrivalTyped DEF LateArrival, Behind, seqVars
<1>4. CASE \E c \in Clients : Call(c) \/ AwaitCancelled(c)
  <2>1. PICK c \in Clients : Call(c) \/ AwaitCancelled(c)
    BY <1>4
  <2>2. nextSeq'[c] <= CheckSeq' /\ CheckSeq' >= CheckSeq
        /\ \A d \in Clients \ {c} : nextSeq'[d] = nextSeq[d]
    BY <2>1, OwnSequence, CallChain
  <2> QED
    BY <1>0, <2>2 DEF Behind
<1>5. CASE UNCHANGED vars
  BY <1>5 DEF vars, chainVars, seqVars, Behind, CheckSeq
<1> QED
  BY <1>1, <1>2, <1>3, <1>4, <1>5 DEF Next, Done

\* Whatever is lost, answered late, or retried, and however many replicas share
\* the key: as long as the mempool keeps what it admits no client signs with a
\* sequence ahead of the one the chain expects (chain.go:302-313,
\* transactions.go:231, 239, 254).
THEOREM NobodyIsAhead == Spec => []NeverAhead
<1>1. Init => NeverAhead
  BY EmptySeq DEF Init, NeverAhead, CheckSeq
<1>2. TxTypeOK /\ NeverAhead /\ [Next]_vars => NeverAhead'
  BY StepBehind DEF NeverAhead, Behind, Kept
<1> QED
  BY <1>1, <1>2, TxTypeCorrect, PTL DEF Spec

-----------------------------------------------------------------------------
(* What is reported confirmed is credited *)

\* The chain credits what it delivers with success.
CreditedIsDelivered == \A d \in delivered : d.ok => d.tx.batch \subseteq credited

LEMMA CreditGrows ==
  ASSUME CreditedIsDelivered, [Next]_vars
  PROVE  CreditedIsDelivered' /\ credited \subseteq credited'
<1>1. CASE \E ok \in BOOLEAN : Deliver(ok)
  <2>1. PICK ok \in BOOLEAN : Deliver(ok)
    BY <1>1
  <2>2. /\ delivered' = delivered \union {[tx |-> Head(mempool), ok |-> ok]}
        /\ credited' = IF ok THEN credited \union Head(mempool).batch ELSE credited
    BY <2>1 DEF Deliver
  <2> QED
    BY <2>2 DEF CreditedIsDelivered
<1>2. CASE UNCHANGED <<delivered, credited>>
  BY <1>2 DEF CreditedIsDelivered
<1> QED
  BY <1>1, <1>2 DEF Next, Done, vars, chainVars, Evict, LateArrival, Arrives, Call, AwaitCancelled,
     StartRefreshed, StartFresh, NotSent, Sign, BroadcastAccepted, BroadcastMismatch,
     BroadcastDuplicate, BroadcastCached, BroadcastOutOfGas, BroadcastRejected,
     BroadcastUnanswered, DetectDelivered, DetectNothing, Retry, NextEndpoint, GiveUp,
     CachedConfirmed, CachedNotConfirmed, AwaitConfirmed, AwaitRefused, AwaitTimesOut

\* A call that returns answers its batch, and only a confirmed one is known to
\* be credited; a step that returns no call answers nothing.
Answers(c, verdict) ==
  /\ Pending(c)
  /\ verdict = "confirmed" => CurrentBatch(c) \subseteq credited
  /\ reports' = [reports EXCEPT ![c] = Append(@, verdict)]
  /\ UNCHANGED credited

LEMMA CallAnswers ==
  ASSUME TxTypeOK, CreditedIsDelivered, NEW c \in Clients, Call(c) \/ AwaitCancelled(c)
  PROVE  /\ UNCHANGED credited
         /\ UNCHANGED reports \/ \E verdict \in Verdicts : Answers(c, verdict)
<1> USE DEF TxTypeOK
<1>1. CASE AwaitConfirmed(c)
  <2>1. [tx |-> tx[c], ok |-> TRUE] \in delivered /\ tx[c].batch = CurrentBatch(c) /\ Pending(c)
    BY <1>1 DEF AwaitConfirmed, Delivered, CallOK
  <2>2. CurrentBatch(c) \subseteq credited
    BY <2>1 DEF CreditedIsDelivered
  <2>3. Answers(c, "confirmed") /\ UNCHANGED credited
    BY <1>1, <2>1, <2>2 DEF AwaitConfirmed, Answers, Finish, chainVars
  <2> QED
    BY <2>3 DEF Verdicts
<1>2. CASE NotSent(c) \/ BroadcastMismatch(c) \/ BroadcastDuplicate(c) \/ GiveUp(c)
             \/ AwaitRefused(c) \/ AwaitTimesOut(c) \/ AwaitCancelled(c)
  <2>1. Pending(c) /\ UNCHANGED credited
    BY <1>2 DEF NotSent, BroadcastMismatch, BroadcastDuplicate, GiveUp, AwaitRefused,
         AwaitTimesOut, AwaitCancelled, CallOK, chainVars
  <2>2. \E verdict \in Verdicts \ {"confirmed"} : Finish(c, verdict)
    BY <1>2 DEF NotSent, BroadcastMismatch, BroadcastDuplicate, GiveUp, AwaitRefused,
         AwaitTimesOut, AwaitCancelled, Verdicts
  <2> QED
    BY <2>1, <2>2 DEF Answers, Finish
<1>3. CASE UNCHANGED <<credited, reports>>
  BY <1>3
<1> QED
  BY <1>1, <1>2, <1>3 DEF Call, StartRefreshed, StartFresh, Sign, BroadcastAccepted,
     BroadcastCached, BroadcastOutOfGas, BroadcastRejected, BroadcastUnanswered, Arrives,
     DetectDelivered, DetectNothing, Retry, NextEndpoint, CachedConfirmed, CachedNotConfirmed,
     chainVars

LEMMA OthersAnswerNothing ==
  ASSUME [Next]_vars, ~ \E c \in Clients : Call(c) \/ AwaitCancelled(c)
  PROVE  UNCHANGED reports
BY DEF Next, Done, vars, Deliver, Evict, LateArrival

\* What a verdict vouches for, and that a new report keeps it.
Vouched(verdict) ==
  \A c \in Clients : \A i \in 1 .. Len(reports[c]) :
    reports[c][i] = verdict => Batches[c][i] \subseteq credited

LEMMA ReportVouched ==
  ASSUME TxTypeOK, credited \subseteq credited', NEW v, Vouched(v),
         NEW c \in Clients, NEW verdict \in Verdicts, Answers(c, verdict),
         verdict = v => CurrentBatch(c) \subseteq credited
  PROVE  Vouched(v)'
<1>1. /\ reports \in [Clients -> Seq(Verdicts)]
      /\ reports[c] \in Seq(Verdicts)
      /\ Len(reports[c]) \in Nat
  BY LenProperties DEF TxTypeOK, ClientTypeOK
<1>2. /\ reports'[c] = Append(reports[c], verdict)
      /\ \A d \in Clients \ {c} : reports'[d] = reports[d]
  BY <1>1 DEF Answers
<1>3. /\ Len(reports'[c]) = Len(reports[c]) + 1
      /\ \A i \in 1 .. Len(reports[c]) : reports'[c][i] = reports[c][i]
      /\ reports'[c][Len(reports[c]) + 1] = verdict
  BY <1>1, <1>2, AppendProperties
<1>4. ASSUME NEW i \in 1 .. Len(reports'[c]), reports'[c][i] = v
      PROVE  Batches[c][i] \subseteq credited'
  <2>1. CASE i \in 1 .. Len(reports[c])
    BY <1>3, <1>4, <2>1 DEF Vouched
  <2>2. CASE i = Len(reports[c]) + 1
    BY <1>3, <1>4, <2>2 DEF CurrentBatch
  <2> QED BY <1>1, <1>3, <2>1, <2>2
<1> QED BY <1>2, <1>4 DEF Vouched

LEMMA StepConfirmed ==
  ASSUME TxTypeOK, CreditedIsDelivered, ConfirmedIsCredited, [Next]_vars
  PROVE  ConfirmedIsCredited'
<1>0. credited \subseteq credited' /\ Vouched("confirmed")
  BY CreditGrows DEF ConfirmedIsCredited, Vouched
<1>1. CASE UNCHANGED reports
  BY <1>0, <1>1 DEF ConfirmedIsCredited
<1>2. CASE \E c \in Clients : \E verdict \in Verdicts : Answers(c, verdict)
  <2>1. PICK c \in Clients, verdict \in Verdicts : Answers(c, verdict)
    BY <1>2
  <2>2. Vouched("confirmed")'
    BY <1>0, <2>1, ReportVouched DEF Answers
  <2> QED BY <2>2 DEF ConfirmedIsCredited, Vouched
<1> QED
  BY <1>1, <1>2, CallAnswers, OthersAnswerNothing

\* A batch that BatchSubmitWork reports as confirmed has been credited by the
\* chain, under every fault and with any number of replicas
\* (transactions.go:57-68, 226-256).
THEOREM ConfirmedHasBeenCredited == Spec => []ConfirmedIsCredited
<1>1. Init => CreditedIsDelivered /\ ConfirmedIsCredited
  BY EmptySeq DEF Init, CreditedIsDelivered, ConfirmedIsCredited
<1>2. TxTypeOK /\ CreditedIsDelivered /\ ConfirmedIsCredited /\ [Next]_vars
        => CreditedIsDelivered' /\ ConfirmedIsCredited'
  BY CreditGrows, StepConfirmed
<1> QED
  BY <1>1, <1>2, TxTypeCorrect, PTL DEF Spec

-----------------------------------------------------------------------------
(* The contract *)

Requested(batch) == \E c \in Clients : \E i \in 1 .. Len(Batches[c]) : batch = Batches[c][i]
OnlyRequested ==
  /\ \A t \in InMempool : Requested(t.batch)
  /\ \A t \in late : Requested(t.batch)

LEMMA CurrentRequested ==
  ASSUME TxTypeOK, NEW c \in Clients, Pending(c)
  PROVE  Requested(CurrentBatch(c))
<1>1. Batches[c] \in Seq(SUBSET Licenses) /\ reports[c] \in Seq(Verdicts)
  BY BatchesAssumption DEF TxTypeOK, ClientTypeOK, BatchesAssumption
<1>2. Len(reports[c]) + 1 \in 1 .. Len(Batches[c])
  BY <1>1, LenProperties DEF Pending
<1> QED
  BY <1>2 DEF Requested, CurrentBatch

\* What the mempool holds after an arrival, a block or a drop.
LEMMA AppendedMempool ==
  ASSUME ChainTypeOK, NEW t \in Transactions, mempool' = Append(mempool, t)
  PROVE  InMempool' \subseteq InMempool \union {t}
BY AppendProperties, LenProperties DEF ChainTypeOK, InMempool

LEMMA TailMempool ==
  ASSUME ChainTypeOK, mempool # <<>>, mempool' = Tail(mempool)
  PROVE  InMempool' \subseteq InMempool /\ Head(mempool) \in InMempool
<1>1. /\ Len(mempool) \in Nat \ {0}
      /\ Len(mempool') = Len(mempool) - 1
      /\ \A i \in 1 .. Len(mempool') : mempool'[i] = mempool[i + 1]
  BY EmptySeq, HeadTailProperties DEF ChainTypeOK
<1>2. \A i \in 1 .. Len(mempool') : i + 1 \in 1 .. Len(mempool)
  BY <1>1
<1>3. Head(mempool) = mempool[1] /\ 1 \in 1 .. Len(mempool)
  BY <1>1 DEF ChainTypeOK
<1> QED
  BY <1>1, <1>2, <1>3 DEF InMempool

LEMMA EvictedMempool ==
  ASSUME ChainTypeOK, NEW i \in 1 .. Len(mempool), mempool' = SubSeq(mempool, 1, i - 1)
  PROVE  InMempool' \subseteq InMempool
<1>1. Len(mempool) \in Nat /\ \A j \in 1 .. Len(mempool) : mempool[j] \in Transactions
  BY LenProperties, ElementOfSeq DEF ChainTypeOK
<1>2. i - 1 \in Int /\ 1 .. i - 1 \subseteq 1 .. Len(mempool)
  BY <1>1
<1>3. /\ Len(mempool') = IF 1 <= i - 1 THEN (i - 1) - 1 + 1 ELSE 0
      /\ \A j \in 1 .. (i - 1) - 1 + 1 : mempool'[j] = mempool[1 + j - 1]
  BY <1>1, <1>2, SubSeqProperties
<1>4. Len(mempool') = i - 1 /\ \A j \in 1 .. i - 1 : mempool'[j] = mempool[j]
  BY <1>1, <1>3
<1> QED
  BY <1>2, <1>4 DEF InMempool

LEMMA StepRequested ==
  ASSUME TxTypeOK, OnlyRequested, [Next]_vars
  PROVE  OnlyRequested'
<1> USE DEF TxTypeOK, OnlyRequested
<1>1. CASE \E ok \in BOOLEAN : Deliver(ok)
  BY <1>1, TailMempool DEF Deliver, Requested
<1>2. CASE \E i \in 1 .. Len(mempool) : Evict(i)
  BY <1>2, EvictedMempool DEF Evict, Requested
<1>3. ASSUME NEW t \in Transactions, Requested(t.batch), Arrives(t), late' \subseteq late
      PROVE  OnlyRequested'
  <2>1. CASE mempool' = Append(mempool, t)
    BY <1>3, <2>1, AppendedMempool DEF Requested
  <2>2. CASE UNCHANGED mempool
    BY <1>3, <2>2 DEF InMempool, Requested
  <2> QED BY <1>3, <2>1, <2>2 DEF Arrives
<1>4. CASE \E t \in late : LateArrival(t)
  BY <1>3, <1>4 DEF LateArrival, ChainTypeOK
<1>5. CASE \E c \in Clients : Call(c) \/ AwaitCancelled(c)
  <2>1. PICK c \in Clients : Call(c) \/ AwaitCancelled(c)
    BY <1>5
  <2>2. tx[c] \in Transactions
    BY DEF ClientTypeOK
  <2>3. CASE BroadcastAccepted(c) \/ BroadcastUnanswered(c)
    <3>1. Requested(tx[c].batch)
      BY <2>3, CurrentRequested DEF BroadcastAccepted, BroadcastUnanswered, CallOK
    <3>2. CASE BroadcastAccepted(c)
      BY <2>2, <3>1, <3>2, AppendedMempool DEF BroadcastAccepted, Requested
    <3>3. CASE UNCHANGED chainVars /\ late' \subseteq late \union {tx[c]}
      BY <3>1, <3>3 DEF chainVars, InMempool, Requested
    <3> QED
      BY <1>3, <2>2, <2>3, <3>1, <3>2, <3>3 DEF BroadcastUnanswered
  <2>4. CASE UNCHANGED chainVars /\ UNCHANGED late
    BY <2>4 DEF chainVars, InMempool, Requested
  <2> QED
    BY <2>1, <2>3, <2>4 DEF Call, StartRefreshed, StartFresh, NotSent, Sign, BroadcastMismatch,
       BroadcastDuplicate, BroadcastCached, BroadcastOutOfGas, BroadcastRejected, DetectDelivered,
       DetectNothing, Retry, NextEndpoint, GiveUp, CachedConfirmed, CachedNotConfirmed,
       AwaitConfirmed, AwaitRefused, AwaitTimesOut, AwaitCancelled
<1>6. CASE UNCHANGED vars
  BY <1>6 DEF vars, chainVars, InMempool, Requested
<1> QED
  BY <1>1, <1>2, <1>4, <1>5, <1>6 DEF Next, Done

LEMMA StepKeepsContract ==
  ASSUME TxTypeOK, CreditedIsDelivered, OnlyRequested, [Next]_vars
  PROVE  [Contract!Next]_<<credited, reports>>
<1> USE DEF TxTypeOK
<1>1. CASE \E ok \in BOOLEAN : Deliver(ok)
  <2>1. PICK ok \in BOOLEAN : Deliver(ok)
    BY <1>1
  <2>2. CASE ~ok
    BY <2>1, <2>2 DEF Deliver
  <2>3. CASE ok
    <3>1. Head(mempool) \in InMempool
      BY <2>1, TailMempool DEF Deliver
    <3>2. PICK c \in Clients : \E i \in 1 .. Len(Batches[c]) : Head(mempool).batch = Batches[c][i]
      BY <3>1 DEF OnlyRequested, Requested
    <3>3. PICK i \in 1 .. Len(Batches[c]) : Head(mempool).batch = Batches[c][i]
      BY <3>2
    <3>4. Contract!Credit(Batches[c][i])
      BY <2>1, <2>3, <3>3 DEF Deliver, Contract!Credit
    <3> QED
      BY <3>4 DEF Contract!Next
  <2> QED
    BY <2>2, <2>3
<1>2. CASE \E c \in Clients : Call(c) \/ AwaitCancelled(c)
  <2>1. PICK c \in Clients : Call(c) \/ AwaitCancelled(c)
    BY <1>2
  <2>2. CASE UNCHANGED <<credited, reports>>
    BY <2>2
  <2>3. CASE \E verdict \in Verdicts : Answers(c, verdict)
    <3>1. PICK verdict \in Verdicts : Answers(c, verdict)
      BY <2>3
    <3>2. Len(reports[c]) \in Nat /\ Len(Batches[c]) \in Nat
      BY BatchesAssumption, LenProperties DEF BatchesAssumption, ClientTypeOK
    <3>3. Contract!Report(c, verdict)
      BY <3>1, <3>2 DEF Answers, Pending, CurrentBatch, Contract!Report
    <3> QED
      BY <3>3 DEF Contract!Next, Contract!Verdicts, Verdicts
  <2> QED
    BY <2>1, <2>2, <2>3, CallAnswers
<1>3. CASE UNCHANGED <<credited, reports>>
  BY <1>3
<1> QED
  BY <1>1, <1>2, <1>3 DEF Next, Done, vars, chainVars, Evict, LateArrival, Arrives

\* BatchSubmitWork keeps its contract: it answers each call once, credits only
\* what was submitted, and confirms only what is credited
\* (transactions.go:39-69).
THEOREM SenderImplementsContract == Spec => ImplementsContract
<1>1. Init => Contract!Init /\ CreditedIsDelivered /\ OnlyRequested
  BY EmptySeq DEF Init, Contract!Init, CreditedIsDelivered, OnlyRequested, InMempool
<1>2. TxTypeOK /\ OnlyRequested /\ [Next]_vars => OnlyRequested'
  BY StepRequested
<1>3. CreditedIsDelivered /\ [Next]_vars => CreditedIsDelivered'
  BY CreditGrows
<1>4. TxTypeOK /\ CreditedIsDelivered /\ OnlyRequested /\ [Next]_vars
        => [Contract!Next]_<<credited, reports>>
  BY StepKeepsContract
<1> QED
  BY <1>1, <1>2, <1>3, <1>4, TxTypeCorrect, PTL DEF Spec, ImplementsContract, Contract!Spec

-----------------------------------------------------------------------------
(* A call that is turned down leaves no gap *)

Resyncing == "query" \notin Faults /\ MaxRetries > 0

\* After a forced refresh, and until the next transaction is admitted, the
\* sequence is not ahead of the committed one.
Trying == {"sign", "broadcast", "detect", "retry", "awaitCached"}
RetryBehindOf(c) ==
  /\ pc[c] = "idle" => attempt[c] = 0 /\ endpoint[c] = 0
  /\ pc[c] \in Trying /\ (attempt[c] > 0 \/ endpoint[c] > 0) => nextSeq[c] <= chainSeq
RetryBehind == Resyncing => \A c \in Clients : RetryBehindOf(c)

LEMMA OwnRetryBehind ==
  ASSUME Resyncing, TxTypeOK, NEW c \in Clients, RetryBehindOf(c), Call(c) \/ AwaitCancelled(c)
  PROVE  RetryBehindOf(c)' /\ chainSeq' = chainSeq
<1> USE RetriesAssumption DEF RetriesAssumption
<1>0. /\ ChainTypeOK /\ ClientTypeOK
      /\ nextSeq[c] \in Nat /\ chainSeq \in Nat /\ attempt[c] \in Nat /\ endpoint[c] \in Nat
  <2>1. ChainTypeOK /\ ClientTypeOK
    BY DEF TxTypeOK
  <2>2. attempt[c] \in 0 .. MaxRetries /\ endpoint[c] \in 0 .. NumEndpoints - 1 /\ nextSeq[c] \in Nat
    BY <2>1 DEF ClientTypeOK
  <2> QED BY <2>1, <2>2 DEF ChainTypeOK
<1>c. chainSeq' = chainSeq
  BY DEF Call, StartRefreshed, StartFresh, NotSent, Sign, BroadcastAccepted, BroadcastMismatch,
     BroadcastDuplicate, BroadcastCached, BroadcastOutOfGas, BroadcastRejected,
     BroadcastUnanswered, Arrives, DetectDelivered, DetectNothing, Retry, NextEndpoint, GiveUp,
     CachedConfirmed, CachedNotConfirmed, AwaitConfirmed, AwaitRefused, AwaitTimesOut,
     AwaitCancelled, chainVars
<1>1. ASSUME NEW verdict, Finish(c, verdict) PROVE RetryBehindOf(c)'
  BY <1>0, <1>1 DEF Finish, Goes, RetryBehindOf, Trying, ClientTypeOK
<1>2. CASE StartRefreshed(c) \/ StartFresh(c)
  BY <1>0, <1>c, <1>2 DEF StartRefreshed, StartFresh, Goes, callVars, RetryBehindOf, ClientTypeOK
<1>3. CASE Sign(c)
  <2>1. PICK s \in {nextSeq[c]} \union {Refreshed(c, q) : q \in AccountSeqs} :
          nextSeq' = [nextSeq EXCEPT ![c] = s]
    BY <1>3 DEF Sign
  <2>2. nextSeq'[c] = s /\ UNCHANGED <<attempt, endpoint>> /\ pc'[c] = "broadcast" /\ pc[c] = "sign"
    BY <1>0, <1>3, <2>1 DEF Sign, Goes, callVars, ClientTypeOK
  <2>3. nextSeq[c] <= chainSeq => s <= chainSeq
    BY <1>0, <2>1, SeqsTyped DEF Refreshed
  <2> QED BY <1>c, <2>2, <2>3 DEF RetryBehindOf, Trying
<1>4. CASE BroadcastAccepted(c) \/ CachedConfirmed(c) \/ DetectDelivered(c)
  <2>1. pc'[c] = "await"
    BY <1>0, <1>4 DEF BroadcastAccepted, CachedConfirmed, DetectDelivered, Goes, ClientTypeOK
  <2>2. pc'[c] # "idle" /\ pc'[c] \notin Trying
    BY <2>1 DEF Trying
  <2> QED BY <1>c, <2>2 DEF RetryBehindOf
<1>5. CASE BroadcastCached(c) \/ BroadcastOutOfGas(c) \/ BroadcastRejected(c)
           \/ BroadcastUnanswered(c) \/ DetectNothing(c) \/ CachedNotConfirmed(c)
  BY <1>0, <1>c, <1>5
     DEF BroadcastCached, BroadcastOutOfGas, BroadcastRejected, BroadcastUnanswered, DetectNothing,
         CachedNotConfirmed, Goes, ClientTypeOK, callVars, seqVars, RetryBehindOf, Trying
<1>6. CASE Retry(c)
  <2>1. PICK s \in AccountSeqs : nextSeq' = [nextSeq EXCEPT ![c] = s]
    BY <1>6 DEF Retry, Resyncing
  <2>2. nextSeq'[c] <= chainSeq /\ pc'[c] = "sign"
    BY <1>0, <1>6, <2>1, SeqsTyped DEF Retry, Goes, ClientTypeOK
  <2> QED BY <1>c, <2>2 DEF RetryBehindOf
<1>7. CASE NextEndpoint(c)
  <2>1. attempt[c] > 0 /\ pc[c] = "retry"
    BY <1>7, <1>0 DEF NextEndpoint, Resyncing
  <2>2. nextSeq[c] <= chainSeq
    BY <2>1 DEF RetryBehindOf, Trying
  <2> QED BY <1>0, <1>c, <1>7, <2>2 DEF NextEndpoint, Goes, ClientTypeOK, seqVars, RetryBehindOf
<1>8. CASE NotSent(c) \/ BroadcastMismatch(c) \/ BroadcastDuplicate(c) \/ GiveUp(c)
           \/ AwaitConfirmed(c) \/ AwaitRefused(c) \/ AwaitTimesOut(c) \/ AwaitCancelled(c)
  <2>1. \E verdict \in Verdicts : Finish(c, verdict)
    BY <1>8 DEF NotSent, BroadcastMismatch, BroadcastDuplicate, GiveUp, AwaitConfirmed,
                AwaitRefused, AwaitTimesOut, AwaitCancelled, Verdicts
  <2> QED BY <1>1, <1>c, <2>1
<1> QED BY <1>c, <1>2, <1>3, <1>4, <1>5, <1>6, <1>7, <1>8 DEF Call

\* A step of client c changes nothing of the others.
LEMMA OthersUntouched ==
  ASSUME TxTypeOK, NEW c \in Clients, Call(c) \/ AwaitCancelled(c), NEW d \in Clients \ {c}
  PROVE  /\ pc'[d] = pc[d] /\ nextSeq'[d] = nextSeq[d] /\ attempt'[d] = attempt[d]
         /\ endpoint'[d] = endpoint[d] /\ tx'[d] = tx[d] /\ reports'[d] = reports[d]
BY DEF TxTypeOK, ClientTypeOK, Call, StartRefreshed, StartFresh, NotSent, Sign, BroadcastAccepted,
     BroadcastMismatch, BroadcastDuplicate, BroadcastCached, BroadcastOutOfGas, BroadcastRejected,
     BroadcastUnanswered, DetectDelivered, DetectNothing, Retry, NextEndpoint, GiveUp,
     CachedConfirmed, CachedNotConfirmed, AwaitConfirmed, AwaitRefused, AwaitTimesOut,
     AwaitCancelled, Finish, Goes, callVars, seqVars

LEMMA StepRetryBehind ==
  ASSUME TxTypeOK, RetryBehind, [Next]_vars
  PROVE  RetryBehind'
<1> SUFFICES ASSUME Resyncing, NEW d \in Clients PROVE RetryBehindOf(d)'
  BY DEF RetryBehind, Resyncing
<1>0. RetryBehindOf(d) /\ nextSeq[d] \in Nat /\ chainSeq \in Nat
  BY DEF RetryBehind, TxTypeOK, ChainTypeOK, ClientTypeOK
<1>1. CASE \E c \in Clients : Call(c) \/ AwaitCancelled(c)
  <2>1. PICK c \in Clients : Call(c) \/ AwaitCancelled(c)
    BY <1>1
  <2>2. RetryBehindOf(c)' /\ chainSeq' = chainSeq
    BY <2>1, OwnRetryBehind DEF RetryBehind
  <2> QED BY <1>0, <2>1, <2>2, OthersUntouched DEF RetryBehindOf
<1>2. CASE UNCHANGED <<pc, nextSeq, attempt, endpoint>> /\ chainSeq' \in {chainSeq, chainSeq + 1}
  BY <1>0, <1>2 DEF RetryBehindOf
<1> QED
  BY <1>1, <1>2 DEF Next, Done, vars, chainVars, seqVars, callVars, Deliver, Evict, LateArrival,
                    Arrives

\* Whatever the mempool drops, and with any number of replicas, retries and
\* endpoints, a call that the chain turns down ends with a sequence that is not
\* ahead of it (transactions.go:231-270).
THEOREM RejectedCallsResync == Spec => RejectedCallResyncs
<1>1. Init => RetryBehind
  BY DEF Init, RetryBehind, RetryBehindOf, Trying
<1>2. TxTypeOK /\ RetryBehind /\ [Next]_vars => RetryBehind'
  BY StepRetryBehind
<1>3. ASSUME Resyncing, TxTypeOK, RetryBehind, Next, NEW d \in Clients,
             pc[d] \in {"broadcast", "retry"}, pc'[d] = "idle"
      PROVE  nextSeq'[d] <= CheckSeq' \/ reports'[d] = Append(reports[d], "duplicate")
  <2>1. PICK c \in Clients : Call(c) \/ AwaitCancelled(c)
    BY <1>3 DEF Next, Done, vars, Deliver, Evict, LateArrival
  <2>2. c = d
    BY <1>3, <2>1, OthersUntouched
  <2>3. BroadcastMismatch(d) \/ BroadcastDuplicate(d) \/ GiveUp(d)
    BY <1>3, <2>1, <2>2
    DEF TxTypeOK, ClientTypeOK, Call, StartRefreshed, StartFresh, NotSent, Sign, BroadcastAccepted,
        BroadcastCached, BroadcastOutOfGas, BroadcastRejected, BroadcastUnanswered, DetectDelivered,
        DetectNothing, Retry, NextEndpoint, CachedConfirmed, CachedNotConfirmed, AwaitConfirmed,
        AwaitRefused, AwaitTimesOut, AwaitCancelled, Goes
  <2>4. CheckSeq \in Nat /\ chainSeq <= CheckSeq /\ nextSeq \in [Clients -> Nat]
        /\ chainSeq \in Nat /\ attempt[d] \in Nat /\ reports \in [Clients -> Seq(Verdicts)]
    <3>1. ChainTypeOK /\ attempt[d] \in 0 .. MaxRetries /\ reports \in [Clients -> Seq(Verdicts)]
          /\ nextSeq \in [Clients -> Nat]
      BY <1>3 DEF TxTypeOK, ClientTypeOK
    <3>2. CheckSeq \in Nat /\ chainSeq <= CheckSeq
      BY <3>1, MempoolTyped
    <3>3. chainSeq \in Nat
      BY <3>1 DEF ChainTypeOK
    <3>4. attempt[d] \in Nat
      BY <3>1, RetriesAssumption DEF RetriesAssumption
    <3> QED BY <3>1, <3>2, <3>3, <3>4
  <2>5. CheckSeq' = CheckSeq
    BY <2>3 DEF BroadcastMismatch, BroadcastDuplicate, GiveUp, chainVars, CheckSeq
  <2>6. CASE BroadcastMismatch(d)
    BY <2>4, <2>5, <2>6 DEF BroadcastMismatch
  <2>7. CASE BroadcastDuplicate(d)
    BY <2>4, <2>7 DEF BroadcastDuplicate, Finish
  <2>8. CASE GiveUp(d)
    <3>1. attempt[d] > 0 /\ pc[d] = "retry"
      BY <1>3, <2>4, <2>8, RetriesAssumption DEF GiveUp, Resyncing, RetriesAssumption
    <3>2. nextSeq[d] <= chainSeq
      BY <1>3, <3>1 DEF RetryBehind, RetryBehindOf, Trying
    <3> QED BY <2>4, <2>5, <2>8, <3>2 DEF GiveUp, seqVars
  <2> QED BY <2>3, <2>6, <2>7, <2>8
<1>4. ASSUME TxTypeOK, RetryBehind, [Next]_vars
      PROVE  [ "query" \notin Faults /\ MaxRetries > 0 =>
                 \A c \in Clients :
                   pc[c] \in {"broadcast", "retry"} /\ pc'[c] = "idle"
                     => \/ nextSeq'[c] <= CheckSeq'
                        \/ reports'[c] = Append(reports[c], "duplicate") ]_vars
  BY <1>3, <1>4 DEF Resyncing
<1> QED BY <1>1, <1>2, <1>4, TxTypeCorrect, PTL DEF Spec, RejectedCallResyncs

-----------------------------------------------------------------------------
(* What becomes of an admitted transaction *)

Admitted(t) == t \in InMempool \/ \E d \in delivered : d.tx = t

\* A client waits for what has been admitted.
AwaitsAdmitted == Kept => \A c \in Clients : pc[c] = "await" => Admitted(tx[c])

LEMMA AppendKeeps ==
  ASSUME ChainTypeOK, NEW t \in Transactions, mempool' = Append(mempool, t)
  PROVE  InMempool' = InMempool \union {t}
<1>1. /\ Len(mempool) \in Nat
      /\ Len(mempool') = Len(mempool) + 1
      /\ \A i \in 1 .. Len(mempool) : mempool'[i] = mempool[i]
      /\ mempool'[Len(mempool) + 1] = t
  BY AppendProperties, LenProperties DEF ChainTypeOK
<1>2. InMempool \subseteq InMempool'
  BY <1>1 DEF InMempool
<1>3. t \in InMempool'
  BY <1>1 DEF InMempool
<1> QED BY <1>2, <1>3, AppendedMempool

LEMMA TailKeeps ==
  ASSUME ChainTypeOK, mempool # <<>>, mempool' = Tail(mempool)
  PROVE  InMempool \subseteq InMempool' \union {Head(mempool)}
<1>1. /\ Len(mempool) \in Nat \ {0}
      /\ Len(mempool') = Len(mempool) - 1
      /\ \A i \in 1 .. Len(mempool') : mempool'[i] = mempool[i + 1]
      /\ Head(mempool) = mempool[1]
  BY EmptySeq, HeadTailProperties DEF ChainTypeOK
<1>2. ASSUME NEW i \in 1 .. Len(mempool), i # 1
      PROVE  mempool[i] \in InMempool'
  <2>1. i - 1 \in 1 .. Len(mempool') /\ mempool'[i - 1] = mempool[i]
    BY <1>1, <1>2
  <2> QED BY <2>1 DEF InMempool
<1> QED BY <1>1, <1>2 DEF InMempool

LEMMA StaysAdmitted ==
  ASSUME Kept, TxTypeOK, [Next]_vars, NEW t, Admitted(t)
  PROVE  Admitted(t)'
<1>1. CASE \E ok \in BOOLEAN : Deliver(ok)
  <2>1. PICK ok \in BOOLEAN : Deliver(ok)
    BY <1>1
  <2>2. /\ InMempool \subseteq InMempool' \union {Head(mempool)}
        /\ [tx |-> Head(mempool), ok |-> ok] \in delivered' /\ delivered \subseteq delivered'
    BY <2>1, TailKeeps DEF Deliver, TxTypeOK
  <2> QED BY <2>2 DEF Admitted
<1>2. ASSUME NEW u \in Transactions, mempool' = Append(mempool, u), UNCHANGED delivered
      PROVE  Admitted(t)'
  BY <1>2, AppendKeeps DEF Admitted, TxTypeOK
<1>3. CASE UNCHANGED <<mempool, delivered>>
  BY <1>3 DEF Admitted, InMempool
<1>4. CASE \E u \in late : LateArrival(u)
  BY <1>2, <1>3, <1>4 DEF LateArrival, Arrives, TxTypeOK, ChainTypeOK
<1>5. CASE \E c \in Clients : Call(c) \/ AwaitCancelled(c)
  <2>1. PICK c \in Clients : Call(c) \/ AwaitCancelled(c)
    BY <1>5
  <2>2. tx[c] \in Transactions
    BY DEF TxTypeOK, ClientTypeOK
  <2>3. \/ UNCHANGED <<mempool, delivered>>
        \/ mempool' = Append(mempool, tx[c]) /\ UNCHANGED delivered
    BY <2>1 DEF Call, StartRefreshed, StartFresh, NotSent, Sign, BroadcastAccepted,
       BroadcastMismatch, BroadcastDuplicate, BroadcastCached, BroadcastOutOfGas,
       BroadcastRejected, BroadcastUnanswered, Arrives, DetectDelivered, DetectNothing, Retry,
       NextEndpoint, GiveUp, CachedConfirmed, CachedNotConfirmed, AwaitConfirmed, AwaitRefused,
       AwaitTimesOut, AwaitCancelled, chainVars
  <2> QED BY <1>2, <1>3, <2>2, <2>3
<1> QED
  BY <1>1, <1>3, <1>4, <1>5 DEF Next, Done, vars, chainVars, Evict, Kept

LEMMA StepAwaits ==
  ASSUME TxTypeOK, AwaitsAdmitted, [Next]_vars
  PROVE  AwaitsAdmitted'
<1> SUFFICES ASSUME Kept, NEW d \in Clients, pc'[d] = "await" PROVE Admitted(tx[d])'
  BY DEF AwaitsAdmitted, Kept
<1>1. ASSUME pc[d] = "await", tx'[d] = tx[d] PROVE Admitted(tx[d])'
  <2>1. PICK t : t = tx[d]
    OBVIOUS
  <2>2. Admitted(t)
    BY <1>1, <2>1 DEF AwaitsAdmitted
  <2>3. Admitted(t)'
    BY <2>2, StaysAdmitted
  <2>4. tx'[d] = t
    BY <1>1, <2>1
  <2> QED BY <2>3, <2>4 DEF Admitted
<1>2. CASE \E c \in Clients : Call(c) \/ AwaitCancelled(c)
  <2>1. PICK c \in Clients : Call(c) \/ AwaitCancelled(c)
    BY <1>2
  <2>2. CASE c # d
    BY <1>1, <2>1, <2>2, OthersUntouched
  <2>3. CASE c = d
    <3>1. BroadcastAccepted(d) \/ DetectDelivered(d) \/ CachedConfirmed(d)
      BY <2>1, <2>3
      DEF TxTypeOK, ClientTypeOK, Call, StartRefreshed, StartFresh, NotSent, Sign,
          BroadcastMismatch, BroadcastDuplicate, BroadcastCached, BroadcastOutOfGas,
          BroadcastRejected, BroadcastUnanswered, DetectNothing, Retry, NextEndpoint, GiveUp,
          CachedNotConfirmed, AwaitConfirmed, AwaitRefused, AwaitTimesOut, AwaitCancelled, Finish,
          Goes
    <3>2. tx[d] \in Transactions /\ ChainTypeOK
      BY DEF TxTypeOK, ClientTypeOK
    <3>3. CASE BroadcastAccepted(d)
      <4>1. tx[d] \in InMempool' /\ tx'[d] = tx[d]
        BY <3>2, <3>3, AppendKeeps DEF BroadcastAccepted
      <4> QED BY <4>1 DEF Admitted
    <3>4. CASE DetectDelivered(d) \/ CachedConfirmed(d)
      BY <3>4 DEF DetectDelivered, CachedConfirmed, Delivered, Admitted, chainVars
    <3> QED BY <3>1, <3>3, <3>4
  <2> QED BY <2>2, <2>3
<1>3. CASE UNCHANGED <<pc, tx>>
  BY <1>1, <1>3
<1> QED BY <1>2, <1>3 DEF Next, Done, vars, Deliver, Evict, LateArrival

AdmittedBatch(b) ==
  \/ \E t \in InMempool : t.batch = b
  \/ \E d \in delivered : d.tx.batch = b

LEMMA StepUnconfirmed ==
  ASSUME TxTypeOK, AwaitsAdmitted, UnconfirmedWasAdmitted, [Next]_vars
  PROVE  UnconfirmedWasAdmitted'
<1> SUFFICES ASSUME Kept, NEW c \in Clients, NEW i \in 1 .. Len(reports'[c]),
                    reports'[c][i] = "unconfirmed"
             PROVE  AdmittedBatch(Batches[c][i])'
  BY DEF UnconfirmedWasAdmitted, AdmittedBatch, Kept
<1>1. ASSUME NEW b, AdmittedBatch(b) PROVE AdmittedBatch(b)'
  <2>1. \A t : Admitted(t) => Admitted(t)'
    BY StaysAdmitted
  <2>2. PICK t : Admitted(t) /\ t.batch = b
    BY <1>1 DEF AdmittedBatch, Admitted
  <2>3. Admitted(t)'
    BY <2>1, <2>2
  <2> QED BY <2>2, <2>3 DEF AdmittedBatch, Admitted
<1>2. CASE i \in 1 .. Len(reports[c]) /\ reports[c][i] = "unconfirmed"
  BY <1>1, <1>2 DEF UnconfirmedWasAdmitted, AdmittedBatch, Kept
<1>3. CASE ~(i \in 1 .. Len(reports[c]) /\ reports[c][i] = "unconfirmed")
  <2>1. reports'[c] # reports[c]
    BY <1>3
  <2>2. PICK d \in Clients : Call(d) \/ AwaitCancelled(d)
    BY <2>1 DEF Next, Done, vars, Deliver, Evict, LateArrival
  <2>3. c = d
    BY <2>1, <2>2, OthersUntouched
  <2>4. PICK verdict \in Verdicts : Finish(c, verdict) /\ (verdict = "unconfirmed" => AwaitTimesOut(c))
    BY <2>1, <2>2, <2>3
    DEF Call, StartRefreshed, StartFresh, NotSent, Sign, BroadcastAccepted, BroadcastMismatch,
        BroadcastDuplicate, BroadcastCached, BroadcastOutOfGas, BroadcastRejected,
        BroadcastUnanswered, DetectDelivered, DetectNothing, Retry, NextEndpoint, GiveUp,
        CachedConfirmed, CachedNotConfirmed, AwaitConfirmed, AwaitRefused, AwaitTimesOut,
        AwaitCancelled, Verdicts
  <2>5. reports[c] \in Seq(Verdicts) /\ Len(reports[c]) \in Nat
        /\ reports'[c] = Append(reports[c], verdict)
    BY <2>4, LenProperties DEF Finish, TxTypeOK, ClientTypeOK
  <2>6. i = Len(reports[c]) + 1 /\ verdict = "unconfirmed"
    BY <1>3, <2>5, AppendProperties
  <2>7. AwaitTimesOut(c)
    BY <2>4, <2>6
  <2>8. pc[c] = "await" /\ tx[c].batch = Batches[c][i]
    BY <2>6, <2>7 DEF AwaitTimesOut, TxTypeOK, CallOK, CurrentBatch
  <2>9. AdmittedBatch(Batches[c][i])
    BY <2>8 DEF AwaitsAdmitted, Admitted, AdmittedBatch
  <2> QED BY <1>1, <2>9
<1> QED BY <1>2, <1>3

\* A batch counted as submitted although its confirmation timed out has been
\* admitted, and is still in the mempool or delivered, under every fault but a
\* mempool that drops it (transactions.go:226-256, manager.go:417-426).
THEOREM UnconfirmedHasBeenAdmitted == Spec => []UnconfirmedWasAdmitted
<1>1. Init => AwaitsAdmitted /\ UnconfirmedWasAdmitted
  BY EmptySeq DEF Init, AwaitsAdmitted, UnconfirmedWasAdmitted
<1>2. TxTypeOK /\ AwaitsAdmitted /\ UnconfirmedWasAdmitted /\ [Next]_vars
        => AwaitsAdmitted' /\ UnconfirmedWasAdmitted'
  BY StepAwaits, StepUnconfirmed
<1> QED BY <1>1, <1>2, TxTypeCorrect, PTL DEF Spec

-----------------------------------------------------------------------------
(* A batch is pending once *)

\* What OnePendingTransaction assumes, and the assumptions of its proof that other
\* theorems provide.
OwnWork == BatchesDiffer /\ Kept
SenderInv == TxTypeOK /\ Behind

\* How many of its batches a client has begun to submit.
Begun(c) == IF pc[c] = "idle" THEN Len(reports[c]) ELSE Len(reports[c]) + 1
IsBegun(batch) ==
  \E c \in Clients : \E i \in 1 .. Len(Batches[c]) : i <= Begun(c) /\ batch = Batches[c][i]

\* Only batches that have been begun are under way; a batch has one pending
\* transaction; while a call may still sign, its sequence is not above that of
\* a transaction it has in the mempool; and neither is one that arrives late.
OnlyBegun ==
  /\ \A t \in InMempool : IsBegun(t.batch)
  /\ \A t \in late : IsBegun(t.batch)
OnePending == \A t, u \in InMempool : t.batch = u.batch => t = u
SignsBelow ==
  \A c \in Clients : pc[c] \in Trying =>
    \A t \in InMempool : t.batch = CurrentBatch(c) => nextSeq[c] <= t.seq
LateBelow ==
  \A t \in late :
    /\ t.seq <= CheckSeq
    /\ \A u \in InMempool : t.batch = u.batch => t.seq <= u.seq
OnePendingInv == OnlyBegun /\ OnePending /\ SignsBelow /\ LateBelow

LEMMA MempoolSeqs ==
  ASSUME ChainTypeOK, NEW t \in InMempool
  PROVE  t \in Transactions /\ t.seq \in Nat /\ chainSeq <= t.seq /\ t.seq < CheckSeq
<1>1. PICK i \in 1 .. Len(mempool) : t = mempool[i]
  BY DEF InMempool
<1>2. t \in Transactions
  BY MempoolTyped
<1>3. Len(mempool) \in Nat /\ chainSeq \in Nat /\ t.seq = chainSeq + i - 1
  BY <1>1, LenProperties DEF ChainTypeOK
<1> QED BY <1>2, <1>3 DEF CheckSeq, Transactions

\* A transaction that is admitted is the only pending one for its batch.
LEMMA AdmittedIsOnly ==
  ASSUME OwnWork, SenderInv, OnePendingInv, NEW t \in Transactions, Accepts(t), IsBegun(t.batch),
         \A u \in InMempool : t.batch = u.batch => t.seq <= u.seq,
         mempool' = Append(mempool, t)
  PROVE  /\ OnePending'
         /\ InMempool' = InMempool \union {t}
<1>0. ChainTypeOK
  BY DEF SenderInv, TxTypeOK
<1>1. InMempool' = InMempool \union {t}
  BY <1>0, AppendKeeps
<1>2. ASSUME NEW u \in InMempool, u.batch = t.batch PROVE FALSE
  <2>1. t.seq <= u.seq /\ u.seq < CheckSeq /\ t.seq = CheckSeq /\ u.seq \in Nat
    BY <1>0, <1>2, MempoolSeqs DEF Accepts
  <2>2. CheckSeq \in Nat
    BY <1>0, MempoolTyped
  <2> QED BY <2>1, <2>2
<1>3. ASSUME NEW x \in InMempool', NEW y \in InMempool', x.batch = y.batch PROVE x = y
  BY <1>1, <1>2, <1>3 DEF OnePendingInv, OnePending
<1> QED BY <1>1, <1>3 DEF OnePending

\* Begun batches stay begun.
LEMMA StayBegun ==
  ASSUME TxTypeOK, NEW c \in Clients, Call(c) \/ AwaitCancelled(c), NEW batch, IsBegun(batch)
  PROVE  IsBegun(batch)'
<1>0. /\ pc \in [Clients -> {"idle", "sign", "broadcast", "detect", "retry", "awaitCached", "await"}]
      /\ reports \in [Clients -> Seq(Verdicts)]
      /\ \A d \in Clients : Len(reports[d]) \in Nat
  BY LenProperties DEF TxTypeOK, ClientTypeOK
<1>1. \/ Len(reports'[c]) = Len(reports[c]) /\ pc'[c] # "idle"
      \/ Len(reports'[c]) = Len(reports[c]) + 1 /\ pc'[c] = "idle"
  <2>1. CASE \E verdict \in Verdicts : Finish(c, verdict)
    <3>1. PICK verdict \in Verdicts : Finish(c, verdict)
      BY <2>1
    <3>2. reports'[c] = Append(reports[c], verdict) /\ pc'[c] = "idle"
      BY <1>0, <3>1 DEF Finish, Goes
    <3> QED BY <1>0, <3>2, AppendProperties
  <2>2. CASE NotSent(c) \/ BroadcastMismatch(c) \/ BroadcastDuplicate(c) \/ GiveUp(c)
             \/ AwaitConfirmed(c) \/ AwaitRefused(c) \/ AwaitTimesOut(c) \/ AwaitCancelled(c)
    BY <2>1, <2>2 DEF NotSent, BroadcastMismatch, BroadcastDuplicate, GiveUp, AwaitConfirmed,
                      AwaitRefused, AwaitTimesOut, AwaitCancelled, Verdicts
  <2>3. CASE UNCHANGED reports /\ pc'[c] # "idle"
    BY <2>3
  <2> QED
    BY <1>0, <2>2, <2>3 DEF Call, StartRefreshed, StartFresh, Sign, BroadcastAccepted,
       BroadcastCached, BroadcastOutOfGas, BroadcastRejected, BroadcastUnanswered,
       DetectDelivered, DetectNothing, Retry, NextEndpoint, CachedConfirmed,
       CachedNotConfirmed, Goes
<1>2. Begun(c) <= Begun(c)' /\ Begun(c) \in Nat /\ Begun(c)' \in Nat
  BY <1>0, <1>1 DEF Begun
<1>3. \A d \in Clients \ {c} : Begun(d)' = Begun(d)
  BY OthersUntouched DEF Begun
<1>4. PICK d \in Clients : \E i \in 1 .. Len(Batches[d]) : i <= Begun(d) /\ batch = Batches[d][i]
  BY DEF IsBegun
<1>5. PICK i \in 1 .. Len(Batches[d]) : i <= Begun(d) /\ batch = Batches[d][i]
  BY <1>4
<1>6. i <= Begun(d)'
  BY <1>2, <1>3, <1>5
<1> QED BY <1>5, <1>6 DEF IsBegun

\* The batch of a call under way is the last one begun.
LEMMA CurrentIsBegun ==
  ASSUME TxTypeOK, NEW c \in Clients, pc[c] # "idle"
  PROVE  IsBegun(CurrentBatch(c))
<1>1. Batches[c] \in Seq(SUBSET Licenses) /\ reports[c] \in Seq(Verdicts) /\ Pending(c)
  BY BatchesAssumption DEF TxTypeOK, ClientTypeOK, CallOK, BatchesAssumption
<1>2. Len(reports[c]) + 1 \in 1 .. Len(Batches[c]) /\ Len(reports[c]) + 1 <= Begun(c)
  BY <1>1, LenProperties DEF Pending, Begun
<1> QED BY <1>2 DEF IsBegun, CurrentBatch

LEMMA CurrentDiffers ==
  ASSUME TxTypeOK, BatchesDiffer, NEW c \in Clients, NEW d \in Clients,
         pc[c] # "idle", pc[d] # "idle", CurrentBatch(c) = CurrentBatch(d)
  PROVE  c = d
<1>1. ASSUME NEW e \in Clients, pc[e] # "idle"
      PROVE  Len(reports[e]) + 1 \in 1 .. Len(Batches[e])
  <2>1. Batches[e] \in Seq(SUBSET Licenses) /\ reports[e] \in Seq(Verdicts) /\ Pending(e)
    BY <1>1, BatchesAssumption DEF TxTypeOK, ClientTypeOK, CallOK, BatchesAssumption
  <2> QED BY <2>1, LenProperties DEF Pending
<1>2. /\ Len(reports[c]) + 1 \in 1 .. Len(Batches[c])
      /\ Len(reports[d]) + 1 \in 1 .. Len(Batches[d])
  BY <1>1
<1> QED BY <1>2 DEF BatchesDiffer, CurrentBatch

\* The batch a client submits next has not been begun.
LEMMA NextIsNotBegun ==
  ASSUME TxTypeOK, BatchesDiffer, NEW c \in Clients, pc[c] = "idle", Pending(c),
         NEW batch, IsBegun(batch)
  PROVE  batch # CurrentBatch(c)
<1>1. reports[c] \in Seq(Verdicts) /\ Batches[c] \in Seq(SUBSET Licenses)
  BY BatchesAssumption DEF TxTypeOK, ClientTypeOK, BatchesAssumption
<1>2. Len(reports[c]) \in Nat /\ Len(reports[c]) + 1 \in 1 .. Len(Batches[c])
  BY <1>1, LenProperties DEF Pending
<1>3. PICK d \in Clients : \E i \in 1 .. Len(Batches[d]) : i <= Begun(d) /\ batch = Batches[d][i]
  BY DEF IsBegun
<1>4. PICK i \in 1 .. Len(Batches[d]) : i <= Begun(d) /\ batch = Batches[d][i]
  BY <1>3
<1>5. SUFFICES ASSUME batch = CurrentBatch(c) PROVE FALSE
  OBVIOUS
<1> DEFINE n == Len(reports[c]) + 1
<1>6. d = c /\ i = n
  <2>1. Batches[d][i] = Batches[c][n] /\ n \in 1 .. Len(Batches[c])
    BY <1>2, <1>4, <1>5 DEF CurrentBatch
  <2> HIDE DEF n
  <2> QED BY <1>4, <2>1 DEF BatchesDiffer
<1>7. Begun(d) = Len(reports[c])
  BY <1>6 DEF Begun
<1> QED BY <1>2, <1>4, <1>6, <1>7

\* A call that signs again has not moved its sequence above what it has sent.
LEMMA OwnSignsBelow ==
  ASSUME OwnWork, SenderInv, OnePendingInv, NEW c \in Clients, Call(c) \/ AwaitCancelled(c),
         pc'[c] \in Trying, NEW t \in InMempool, t.batch = CurrentBatch(c)'
  PROVE  nextSeq'[c] <= t.seq
<1>0. /\ TxTypeOK /\ ChainTypeOK /\ ClientTypeOK
      /\ nextSeq \in [Clients -> Nat] /\ chainSeq \in Nat
      /\ reports[c] \in Seq(Verdicts) /\ Len(reports[c]) \in Nat
      /\ pc \in [Clients -> {"idle", "sign", "broadcast", "detect", "retry", "awaitCached", "await"}]
  BY LenProperties DEF SenderInv, TxTypeOK, ChainTypeOK, ClientTypeOK
<1>1. t.seq \in Nat /\ chainSeq <= t.seq
  BY <1>0, MempoolSeqs
<1>2. \A s \in AccountSeqs : s \in Nat /\ s <= chainSeq
  BY <1>0 DEF AccountSeqs
<1>3. CASE StartRefreshed(c) \/ StartFresh(c)
  <2>1. pc[c] = "idle" /\ Pending(c) /\ reports'[c] = reports[c]
    BY <1>3 DEF StartRefreshed, StartFresh
  <2>2. t.batch = CurrentBatch(c)
    BY <2>1 DEF CurrentBatch
  <2>3. IsBegun(t.batch)
    BY DEF OnePendingInv, OnlyBegun
  <2> QED BY <1>0, <2>1, <2>2, <2>3, NextIsNotBegun DEF OwnWork
<1>4. ASSUME pc[c] \in Trying, reports'[c] = reports[c],
             nextSeq'[c] <= nextSeq[c] \/ nextSeq'[c] <= chainSeq,
             nextSeq'[c] \in Nat
      PROVE  nextSeq'[c] <= t.seq
  <2>1. t.batch = CurrentBatch(c)
    BY <1>4 DEF CurrentBatch
  <2>2. nextSeq[c] <= t.seq
    BY <1>4, <2>1 DEF OnePendingInv, SignsBelow
  <2> QED BY <1>0, <1>1, <1>4, <2>2
<1>5. CASE Sign(c)
  <2>1. PICK s \in {nextSeq[c]} \union {Refreshed(c, q) : q \in AccountSeqs} :
          nextSeq' = [nextSeq EXCEPT ![c] = s]
    BY <1>5 DEF Sign
  <2>2. s \in Nat /\ (s <= nextSeq[c] \/ s <= chainSeq)
    BY <1>0, <1>2, <2>1 DEF Refreshed
  <2>3. nextSeq'[c] = s
    BY <1>0, <2>1
  <2> QED BY <1>4, <1>5, <2>2, <2>3 DEF Sign, Trying
<1>6. CASE Retry(c)
  <2>1. (\E s \in AccountSeqs : nextSeq' = [nextSeq EXCEPT ![c] = s]) \/ UNCHANGED nextSeq
    BY <1>6 DEF Retry
  <2>2. nextSeq'[c] \in Nat /\ (nextSeq'[c] <= nextSeq[c] \/ nextSeq'[c] <= chainSeq)
    BY <1>0, <1>2, <2>1
  <2> QED BY <1>4, <1>6, <2>2 DEF Retry, Trying
<1>7. CASE BroadcastCached(c) \/ BroadcastOutOfGas(c) \/ BroadcastRejected(c)
           \/ BroadcastUnanswered(c) \/ DetectNothing(c) \/ CachedNotConfirmed(c) \/ NextEndpoint(c)
  <2>1. pc[c] \in Trying /\ reports'[c] = reports[c] /\ nextSeq' = nextSeq
    BY <1>7 DEF BroadcastCached, BroadcastOutOfGas, BroadcastRejected, BroadcastUnanswered,
                DetectNothing, CachedNotConfirmed, NextEndpoint, seqVars, Trying
  <2>2. nextSeq'[c] = nextSeq[c] /\ nextSeq[c] \in Nat
    BY <1>0, <2>1
  <2> QED BY <1>4, <2>1, <2>2
<1>8. CASE BroadcastAccepted(c) \/ CachedConfirmed(c) \/ DetectDelivered(c)
  <2>1. pc'[c] = "await"
    BY <1>0, <1>8 DEF BroadcastAccepted, CachedConfirmed, DetectDelivered, Goes
  <2> QED BY <2>1 DEF Trying
<1>9. CASE NotSent(c) \/ BroadcastMismatch(c) \/ BroadcastDuplicate(c) \/ GiveUp(c)
           \/ AwaitConfirmed(c) \/ AwaitRefused(c) \/ AwaitTimesOut(c) \/ AwaitCancelled(c)
  <2>1. pc'[c] = "idle"
    BY <1>0, <1>9 DEF NotSent, BroadcastMismatch, BroadcastDuplicate, GiveUp, AwaitConfirmed,
                      AwaitRefused, AwaitTimesOut, AwaitCancelled, Finish, Goes
  <2> QED BY <2>1 DEF Trying
<1> QED BY <1>3, <1>5, <1>6, <1>7, <1>8, <1>9 DEF Call

LEMMA DeliverOnePending ==
  ASSUME OwnWork, SenderInv, OnePendingInv, NEW ok \in BOOLEAN, Deliver(ok)
  PROVE  OnePendingInv'
<1>0. ChainTypeOK
  BY DEF SenderInv, TxTypeOK
<1>1. /\ mempool # <<>> /\ mempool' = Tail(mempool)
      /\ delivered' = delivered \union {[tx |-> Head(mempool), ok |-> ok]}
      /\ UNCHANGED <<late, pc, nextSeq, reports>>
  BY DEF Deliver, seqVars
<1>2. InMempool' \subseteq InMempool /\ Head(mempool) \in InMempool
  BY <1>0, <1>1, TailMempool
<1>4. CheckSeq' = CheckSeq
  BY <1>0, DeliverTyped
<1>5. \A b : IsBegun(b) => IsBegun(b)'
  BY <1>1 DEF IsBegun, Begun
<1>6. OnlyBegun' /\ OnePending'
  BY <1>1, <1>2, <1>5 DEF OnePendingInv, OnlyBegun, OnePending
<1>7. SignsBelow' /\ LateBelow'
  BY <1>1, <1>2, <1>4 DEF OnePendingInv, SignsBelow, LateBelow, CurrentBatch
<1> QED BY <1>6, <1>7 DEF OnePendingInv

LEMMA LateOnePending ==
  ASSUME OwnWork, SenderInv, OnePendingInv, NEW t \in late, LateArrival(t)
  PROVE  OnePendingInv'
<1>0. /\ ChainTypeOK /\ t \in Transactions /\ t.seq \in Nat /\ CheckSeq \in Nat
      /\ nextSeq \in [Clients -> Nat]
  BY MempoolTyped DEF SenderInv, TxTypeOK, ChainTypeOK, ClientTypeOK, Transactions
<1>1. /\ Arrives(t) /\ late' \subseteq late
      /\ UNCHANGED <<delivered, pc, nextSeq, reports>>
  BY DEF LateArrival, Arrives, seqVars
<1>2. \A b : IsBegun(b) => IsBegun(b)'
  BY <1>1 DEF IsBegun, Begun
<1>3. CASE Accepts(t) /\ mempool' = Append(mempool, t)
  <2>1. mempool' = Append(mempool, t) /\ UNCHANGED <<chainSeq, credited>>
    BY <1>1, <1>3 DEF Arrives
  <2>2. OnePending' /\ InMempool' = InMempool \union {t}
    BY <1>0, <1>1, <1>3, <2>1, AdmittedIsOnly DEF OnePendingInv, OnlyBegun, LateBelow
  <2>3. CheckSeq' = CheckSeq + 1 /\ t.seq = CheckSeq
    <3>1. late' \subseteq Transactions
      BY <1>0, <1>1 DEF ChainTypeOK
    <3> QED BY <1>0, <1>1, <1>3, <2>1, <3>1, AcceptedTyped DEF Accepts
  <2>4. OnlyBegun'
    BY <1>1, <1>2, <2>2 DEF OnePendingInv, OnlyBegun
  <2>5. SignsBelow'
    BY <1>1, <2>2, <2>3 DEF OnePendingInv, SignsBelow, SenderInv, Behind, CurrentBatch
  <2>6. LateBelow'
    <3> SUFFICES ASSUME NEW x \in late'
                 PROVE  x.seq <= CheckSeq' /\ \A u \in InMempool' : x.batch = u.batch => x.seq <= u.seq
      BY DEF LateBelow
    <3>1. x \in late /\ x.seq \in Nat /\ x.seq <= CheckSeq
      BY <1>0, <1>1 DEF OnePendingInv, LateBelow, ChainTypeOK, Transactions
    <3>2. \A u \in InMempool : x.batch = u.batch => x.seq <= u.seq
      BY <3>1 DEF OnePendingInv, LateBelow
    <3> QED BY <1>0, <2>2, <2>3, <3>1, <3>2
  <2> QED BY <2>2, <2>4, <2>5, <2>6 DEF OnePendingInv
<1>4. CASE UNCHANGED mempool
  <2>1. UNCHANGED <<mempool, chainSeq>>
    BY <1>1, <1>4 DEF Arrives
  <2>2. InMempool' = InMempool /\ CheckSeq' = CheckSeq
    BY <1>1, <2>1 DEF InMempool, CheckSeq
  <2>3. OnlyBegun' /\ OnePending'
    BY <1>1, <1>2, <2>2 DEF OnePendingInv, OnlyBegun, OnePending
  <2>4. SignsBelow' /\ LateBelow'
    BY <1>1, <2>2 DEF OnePendingInv, SignsBelow, LateBelow, CurrentBatch
  <2> QED BY <2>3, <2>4 DEF OnePendingInv
<1> QED BY <1>1, <1>3, <1>4 DEF Arrives

\* A step of a call that leaves chain and network alone.
LEMMA QuietOnePending ==
  ASSUME OwnWork, SenderInv, OnePendingInv, NEW c \in Clients, Call(c) \/ AwaitCancelled(c),
         UNCHANGED chainVars, late' \subseteq late \union {tx[c]},
         late' = late \/ BroadcastUnanswered(c)
  PROVE  OnePendingInv'
<1>0. /\ TxTypeOK /\ tx[c] \in Transactions /\ tx[c].seq \in Nat
      /\ nextSeq[c] \in Nat /\ CheckSeq \in Nat
  BY MempoolTyped DEF SenderInv, TxTypeOK, ClientTypeOK, Transactions
<1>1. InMempool' = InMempool /\ CheckSeq' = CheckSeq
  BY DEF chainVars, InMempool, CheckSeq
<1>2. \A b : IsBegun(b) => IsBegun(b)'
  BY <1>0, StayBegun
<1>3. ASSUME NEW x \in late'
      PROVE  /\ IsBegun(x.batch)
             /\ x.seq <= CheckSeq
             /\ \A u \in InMempool : x.batch = u.batch => x.seq <= u.seq
  <2>1. CASE x \in late
    BY <2>1 DEF OnePendingInv, OnlyBegun, LateBelow
  <2>2. CASE x = tx[c] /\ BroadcastUnanswered(c)
    <3>1. pc[c] = "broadcast" /\ tx[c].seq = nextSeq[c] /\ tx[c].batch = CurrentBatch(c)
      BY <1>0, <2>2 DEF BroadcastUnanswered, TxTypeOK, CallOK
    <3>2. IsBegun(CurrentBatch(c))
      BY <1>0, <3>1, CurrentIsBegun
    <3> QED BY <2>2, <3>1, <3>2 DEF SenderInv, Behind, OnePendingInv, SignsBelow, Trying
  <2> QED BY <1>3, <2>1, <2>2
<1>4. OnlyBegun' /\ OnePending' /\ LateBelow'
  BY <1>1, <1>2, <1>3 DEF OnePendingInv, OnlyBegun, OnePending, LateBelow
<1>5. SignsBelow'
  <2> SUFFICES ASSUME NEW d \in Clients, pc'[d] \in Trying,
                      NEW t \in InMempool, t.batch = CurrentBatch(d)'
               PROVE  nextSeq'[d] <= t.seq
    BY <1>1 DEF SignsBelow
  <2>1. CASE d = c
    BY <2>1, OwnSignsBelow
  <2>2. CASE d # c
    <3>1. pc'[d] = pc[d] /\ nextSeq'[d] = nextSeq[d] /\ reports'[d] = reports[d]
      BY <1>0, <2>2, OthersUntouched
    <3>2. pc[d] \in Trying /\ t.batch = CurrentBatch(d)
      BY <3>1 DEF CurrentBatch
    <3> QED BY <3>1, <3>2 DEF OnePendingInv, SignsBelow
  <2> QED BY <2>1, <2>2
<1> QED BY <1>4, <1>5 DEF OnePendingInv

\* A call whose transaction is admitted.
LEMMA AdmitOnePending ==
  ASSUME OwnWork, SenderInv, OnePendingInv, NEW c \in Clients,
         BroadcastAccepted(c) \/ BroadcastUnanswered(c),
         Accepts(tx[c]), mempool' = Append(mempool, tx[c]),
         UNCHANGED <<chainSeq, delivered, credited, late>>
  PROVE  OnePendingInv'
<1> DEFINE t == tx[c]
<1>0. /\ TxTypeOK /\ ChainTypeOK /\ t \in Transactions /\ t.seq \in Nat /\ CheckSeq \in Nat
      /\ pc[c] = "broadcast" /\ t.seq = nextSeq[c] /\ t.batch = CurrentBatch(c)
      /\ nextSeq \in [Clients -> Nat]
  BY MempoolTyped DEF SenderInv, TxTypeOK, ClientTypeOK, Transactions, CallOK, BroadcastAccepted,
                      BroadcastUnanswered
<1>1. IsBegun(t.batch) /\ \A u \in InMempool : t.batch = u.batch => t.seq <= u.seq
  BY <1>0, CurrentIsBegun DEF OnePendingInv, SignsBelow, Trying
<1>2. OnePending' /\ InMempool' = InMempool \union {t}
  BY <1>0, <1>1, AdmittedIsOnly
<1>3. CheckSeq' = CheckSeq + 1 /\ t.seq = CheckSeq
  <2>1. late' \subseteq Transactions
    BY <1>0 DEF ChainTypeOK
  <2> QED BY <1>0, <2>1, AcceptedTyped DEF Accepts
<1>4. OnlyBegun'
  <2>1. \A b : IsBegun(b) => IsBegun(b)'
    BY <1>0, StayBegun DEF Call
  <2> QED BY <1>1, <1>2, <2>1 DEF OnePendingInv, OnlyBegun
<1>5. LateBelow'
  <2> SUFFICES ASSUME NEW x \in late
               PROVE  x.seq <= CheckSeq' /\ \A u \in InMempool' : x.batch = u.batch => x.seq <= u.seq
    BY DEF LateBelow
  <2>1. x.seq \in Nat /\ x.seq <= CheckSeq
    BY <1>0 DEF OnePendingInv, LateBelow, ChainTypeOK, Transactions
  <2>2. \A u \in InMempool : x.batch = u.batch => x.seq <= u.seq
    BY DEF OnePendingInv, LateBelow
  <2> QED BY <1>0, <1>2, <1>3, <2>1, <2>2
<1>6. SignsBelow'
  <2> SUFFICES ASSUME NEW d \in Clients, pc'[d] \in Trying,
                      NEW u \in InMempool', u.batch = CurrentBatch(d)'
               PROVE  nextSeq'[d] <= u.seq
    BY DEF SignsBelow
  <2>1. CASE d # c
    <3>1. pc'[d] = pc[d] /\ nextSeq'[d] = nextSeq[d] /\ reports'[d] = reports[d]
      BY <1>0, <2>1, OthersUntouched DEF Call
    <3>2. pc[d] \in Trying /\ u.batch = CurrentBatch(d)
      BY <3>1 DEF CurrentBatch
    <3>3. u # t
      BY <1>0, <2>1, <3>2, CurrentDiffers DEF OwnWork, Trying
    <3>4. u \in InMempool
      BY <1>2, <3>3
    <3> QED BY <3>1, <3>2, <3>4 DEF OnePendingInv, SignsBelow
  <2>2. CASE d = c /\ BroadcastAccepted(c)
    BY <1>0, <2>2 DEF BroadcastAccepted, Goes, TxTypeOK, ClientTypeOK, Trying
  <2>3. CASE d = c /\ BroadcastUnanswered(c)
    <3>1. nextSeq'[c] = nextSeq[c]
      BY <2>3 DEF BroadcastUnanswered, seqVars
    <3>2. CASE u = t
      BY <1>0, <2>3, <3>1, <3>2
    <3>3. CASE u \in InMempool
      BY <2>3, <3>3, OwnSignsBelow DEF Call
    <3> QED BY <1>2, <3>2, <3>3
  <2> QED BY <2>1, <2>2, <2>3
<1> QED BY <1>2, <1>4, <1>5, <1>6 DEF OnePendingInv

LEMMA StepOnePending ==
  ASSUME OwnWork, SenderInv, OnePendingInv, [Next]_vars
  PROVE  OnePendingInv'
<1>1. CASE \E ok \in BOOLEAN : Deliver(ok)
  BY <1>1, DeliverOnePending
<1>2. CASE \E t \in late : LateArrival(t)
  BY <1>2, LateOnePending
<1>3. CASE \E c \in Clients : Call(c) \/ AwaitCancelled(c)
  <2>1. PICK c \in Clients : Call(c) \/ AwaitCancelled(c)
    BY <1>3
  <2>2. CASE BroadcastAccepted(c)
    BY <2>2, AdmitOnePending DEF BroadcastAccepted
  <2>3. CASE BroadcastUnanswered(c)
    <3>1. CASE Accepts(tx[c]) /\ mempool' = Append(mempool, tx[c])
               /\ UNCHANGED <<chainSeq, delivered, credited, late>>
      BY <2>3, <3>1, AdmitOnePending DEF Arrives
    <3>2. CASE UNCHANGED chainVars /\ late' \subseteq late \union {tx[c]}
      BY <2>1, <2>3, <3>2, QuietOnePending
    <3> QED BY <2>3, <3>1, <3>2 DEF BroadcastUnanswered, Arrives, chainVars
  <2>4. CASE UNCHANGED chainVars /\ UNCHANGED late
    BY <2>1, <2>4, QuietOnePending
  <2> QED
    BY <2>1, <2>2, <2>3, <2>4 DEF Call, StartRefreshed, StartFresh, NotSent, Sign,
       BroadcastMismatch, BroadcastDuplicate, BroadcastCached, BroadcastOutOfGas,
       BroadcastRejected, DetectDelivered, DetectNothing, Retry, NextEndpoint, GiveUp,
       CachedConfirmed, CachedNotConfirmed, AwaitConfirmed, AwaitRefused, AwaitTimesOut,
       AwaitCancelled
<1>4. CASE UNCHANGED vars
  <2>1. /\ InMempool' = InMempool /\ CheckSeq' = CheckSeq
        /\ UNCHANGED <<late, pc, nextSeq, reports>>
    BY <1>4 DEF vars, chainVars, seqVars, InMempool, CheckSeq
  <2>2. \A b : IsBegun(b) => IsBegun(b)'
    BY <2>1 DEF IsBegun, Begun
  <2>3. OnlyBegun' /\ OnePending'
    BY <2>1, <2>2 DEF OnePendingInv, OnlyBegun, OnePending
  <2>4. SignsBelow' /\ LateBelow'
    BY <2>1 DEF OnePendingInv, SignsBelow, LateBelow, CurrentBatch
  <2> QED BY <2>3, <2>4 DEF OnePendingInv
<1> QED
  BY <1>1, <1>2, <1>3, <1>4 DEF Next, Done, Evict, OwnWork, Kept

\* However often clients retry, whatever is lost, arrives late or fails when
\* delivered, and however many replicas use the key, the mempool holds at most
\* one transaction for a batch (transactions.go:226-270).
THEOREM WorkIsPendingOnce == Spec => []OnePendingTransaction
<1>1. Init => OnePendingInv /\ (Kept => Behind)
  <2> SUFFICES ASSUME Init PROVE OnePendingInv /\ (Kept => Behind)
    OBVIOUS
  <2>1. InMempool = {} /\ late = {} /\ CheckSeq = 0
    BY EmptySeq DEF Init, InMempool, CheckSeq
  <2> QED BY <2>1 DEF Init, OnePendingInv, OnlyBegun, OnePending, SignsBelow, LateBelow, Behind
<1>2. (OwnWork => OnePendingInv) /\ (Kept => Behind) /\ TxTypeOK /\ [Next]_vars
        => (OwnWork' => OnePendingInv') /\ (Kept' => Behind')
  BY StepOnePending, StepBehind DEF SenderInv, OwnWork, Kept, BatchesDiffer
<1>3. (OwnWork => OnePendingInv) => OnePendingTransaction
  BY DEF OwnWork, Kept, OnePendingInv, OnePending, OnePendingTransaction
<1> QED BY <1>1, <1>2, <1>3, TxTypeCorrect, PTL DEF Spec

-----------------------------------------------------------------------------
(* Work is paid for once unless an answer was lost *)

\* Batches that share no license, as those of one run do (a license wins at
\* most once in an epoch), and those of replicas that divide the licenses.
BatchesDisjoint ==
  \A c, d \in Clients : \A i \in 1 .. Len(Batches[c]), j \in 1 .. Len(Batches[d]) :
    /\ Batches[c][i] # {}
    /\ Batches[c][i] \intersect Batches[d][j] # {} => c = d /\ i = j

\* As long as no admitted transaction goes unanswered and the chain has no reason
\* of its own to fail one, none fails when it is delivered: one sequence, and one
\* fee, is spent per batch that is credited.
AnswersKept == {"unanswered", "late", "deliver"} \intersect Faults = {}
NothingPaidInVain == BatchesDisjoint /\ AnswersKept => \A d \in delivered : d.ok

\* The transactions that have used up a sequence, or are about to.
Spent == InMempool \union {d.tx : d \in delivered}

\* Each is for a batch of its own that has been begun, and while a call may
\* still sign there is none for its batch: once one is admitted, the call only
\* waits.
SpentInv ==
  /\ late = {}
  /\ \A t \in Spent : IsBegun(t.batch)
  /\ \A t, u \in Spent : t.batch = u.batch => t = u
  /\ \A c \in Clients : pc[c] \in Trying => \A t \in Spent : t.batch # CurrentBatch(c)

\* Only requested batches are delivered, and a license is credited by a
\* transaction that was delivered with success.
CreditsAreTraced ==
  /\ OnlyRequested
  /\ \A d \in delivered : Requested(d.tx.batch)
  /\ \A l \in credited : \E d \in delivered : d.ok /\ l \in d.tx.batch

LEMMA DisjointDiffer == BatchesDisjoint => BatchesDiffer
BY DEF BatchesDisjoint, BatchesDiffer

LEMMA SpentIs ==
  ASSUME NEW t
  PROVE  t \in Spent <=> t \in InMempool \/ \E d \in delivered : t = d.tx
BY DEF Spent

\* Blocks and evictions add nothing to what is spent.
LEMMA ChainSpendsNothing ==
  ASSUME ChainTypeOK, \/ \E ok \in BOOLEAN : Deliver(ok)
                      \/ \E i \in 1 .. Len(mempool) : Evict(i)
  PROVE  \A t \in Spent' : t \in Spent
<1>1. CASE \E ok \in BOOLEAN : Deliver(ok)
  <2>1. PICK ok \in BOOLEAN : Deliver(ok)
    BY <1>1
  <2>2. /\ mempool # <<>> /\ mempool' = Tail(mempool)
        /\ delivered' = delivered \union {[tx |-> Head(mempool), ok |-> ok]}
    BY <2>1 DEF Deliver
  <2>3. InMempool' \subseteq InMempool /\ Head(mempool) \in InMempool
    BY <2>2, TailMempool
  <2> QED BY <2>2, <2>3 DEF Spent
<1>2. CASE \E i \in 1 .. Len(mempool) : Evict(i)
  <2>1. PICK i \in 1 .. Len(mempool) : Evict(i)
    BY <1>2
  <2>2. InMempool' \subseteq InMempool /\ delivered' = delivered
    BY <2>1, EvictedMempool DEF Evict
  <2> QED BY <2>2 DEF Spent
<1> QED BY <1>1, <1>2

\* What a call that may still sign did before.
LEMMA StillTrying ==
  ASSUME TxTypeOK, NEW c \in Clients, Call(c) \/ AwaitCancelled(c), pc'[c] \in Trying
  PROVE  /\ pc[c] \in Trying \/ (pc[c] = "idle" /\ Pending(c))
         /\ reports'[c] = reports[c]
<1>0. pc \in [Clients -> {"idle", "sign", "broadcast", "detect", "retry", "awaitCached", "await"}]
  BY DEF TxTypeOK, ClientTypeOK
<1>1. CASE StartRefreshed(c) \/ StartFresh(c) \/ Sign(c) \/ BroadcastCached(c)
           \/ BroadcastOutOfGas(c) \/ BroadcastRejected(c) \/ BroadcastUnanswered(c)
           \/ DetectNothing(c) \/ Retry(c) \/ NextEndpoint(c) \/ CachedNotConfirmed(c)
  BY <1>1 DEF StartRefreshed, StartFresh, Sign, BroadcastCached, BroadcastOutOfGas,
     BroadcastRejected, BroadcastUnanswered, DetectNothing, Retry, NextEndpoint,
     CachedNotConfirmed, Trying
<1>2. CASE BroadcastAccepted(c) \/ CachedConfirmed(c) \/ DetectDelivered(c)
  <2>1. pc'[c] = "await"
    BY <1>0, <1>2 DEF BroadcastAccepted, CachedConfirmed, DetectDelivered, Goes
  <2> QED BY <2>1 DEF Trying
<1>3. CASE NotSent(c) \/ BroadcastMismatch(c) \/ BroadcastDuplicate(c) \/ GiveUp(c)
           \/ AwaitConfirmed(c) \/ AwaitRefused(c) \/ AwaitTimesOut(c) \/ AwaitCancelled(c)
  <2>1. pc'[c] = "idle"
    BY <1>0, <1>3 DEF NotSent, BroadcastMismatch, BroadcastDuplicate, GiveUp, AwaitConfirmed,
                      AwaitRefused, AwaitTimesOut, AwaitCancelled, Finish, Goes
  <2> QED BY <2>1 DEF Trying
<1> QED BY <1>1, <1>2, <1>3 DEF Call

\* A step that spends nothing.
LEMMA QuietSpent ==
  ASSUME TxTypeOK, BatchesDiffer, SpentInv, NEW c \in Clients, Call(c) \/ AwaitCancelled(c),
         UNCHANGED <<chainVars, late>>
  PROVE  SpentInv'
<1>1. Spent' = Spent /\ late' = {}
  BY DEF chainVars, Spent, InMempool, SpentInv
<1>2. \A t \in Spent : IsBegun(t.batch)'
  BY StayBegun DEF SpentInv
<1>3. ASSUME NEW d \in Clients, pc'[d] \in Trying, NEW t \in Spent
      PROVE  t.batch # CurrentBatch(d)'
  <2>1. CASE d = c
    <3>1. /\ pc[c] \in Trying \/ (pc[c] = "idle" /\ Pending(c))
          /\ CurrentBatch(c)' = CurrentBatch(c)
      BY <1>3, <2>1, StillTrying DEF CurrentBatch
    <3>2. CASE pc[c] \in Trying
      BY <2>1, <3>1, <3>2 DEF SpentInv
    <3>3. CASE pc[c] = "idle" /\ Pending(c)
      BY <2>1, <3>1, <3>3, NextIsNotBegun DEF SpentInv
    <3> QED BY <3>1, <3>2, <3>3
  <2>2. CASE d # c
    <3>1. pc'[d] = pc[d] /\ CurrentBatch(d)' = CurrentBatch(d)
      BY <2>2, OthersUntouched DEF CurrentBatch
    <3> QED BY <1>3, <3>1 DEF SpentInv
  <2> QED BY <2>1, <2>2
<1> QED BY <1>1, <1>2, <1>3 DEF SpentInv

\* A transaction that is admitted is the first for its batch, and its call
\* signs no other.
LEMMA AdmitSpent ==
  ASSUME TxTypeOK, BatchesDiffer, SpentInv, NEW c \in Clients, BroadcastAccepted(c)
  PROVE  SpentInv'
<1> DEFINE t == tx[c]
<1>0. /\ ChainTypeOK /\ t \in Transactions /\ pc[c] = "broadcast" /\ t.batch = CurrentBatch(c)
      /\ pc'[c] = "await"
  BY DEF TxTypeOK, ClientTypeOK, CallOK, BroadcastAccepted, Goes
<1>1. Spent' = Spent \union {t} /\ late' = {}
  <2>1. InMempool' = InMempool \union {t}
    BY <1>0, AppendKeeps DEF BroadcastAccepted
  <2> QED BY <2>1 DEF BroadcastAccepted, Spent, SpentInv
<1>2. IsBegun(t.batch) /\ \A u \in Spent : u.batch # t.batch
  BY <1>0, CurrentIsBegun DEF SpentInv, Trying
<1>3. \A u \in Spent' : IsBegun(u.batch)'
  BY <1>1, <1>2, StayBegun DEF SpentInv, Call
<1>4. \A u, v \in Spent' : u.batch = v.batch => u = v
  BY <1>1, <1>2 DEF SpentInv
<1>5. ASSUME NEW d \in Clients, pc'[d] \in Trying, NEW u \in Spent'
      PROVE  u.batch # CurrentBatch(d)'
  <2>1. d # c
    BY <1>0, <1>5 DEF Trying
  <2>2. pc'[d] = pc[d] /\ CurrentBatch(d)' = CurrentBatch(d)
    BY <2>1, OthersUntouched DEF CurrentBatch, Call
  <2>3. CurrentBatch(d) # t.batch
    BY <1>0, <1>5, <2>1, <2>2, CurrentDiffers DEF Trying
  <2> QED BY <1>1, <1>5, <2>2, <2>3 DEF SpentInv
<1> QED BY <1>1, <1>3, <1>4, <1>5 DEF SpentInv

LEMMA StepSpent ==
  ASSUME TxTypeOK, BatchesDiffer, AnswersKept, SpentInv, [Next]_vars
  PROVE  SpentInv'
<1>1. CASE \/ \E ok \in BOOLEAN : Deliver(ok)
           \/ \E i \in 1 .. Len(mempool) : Evict(i)
  <2>1. \A t \in Spent' : t \in Spent
    BY <1>1, ChainSpendsNothing DEF TxTypeOK
  <2>2. UNCHANGED <<late, pc, reports>>
    BY <1>1 DEF Deliver, Evict
  <2>3. \A b : IsBegun(b) => IsBegun(b)'
    BY <2>2 DEF IsBegun, Begun
  <2> QED BY <2>1, <2>2, <2>3 DEF SpentInv, CurrentBatch
<1>2. ASSUME NEW t \in late, LateArrival(t) PROVE FALSE
  BY <1>2 DEF SpentInv
<1>3. CASE \E c \in Clients : Call(c) \/ AwaitCancelled(c)
  <2>1. PICK c \in Clients : Call(c) \/ AwaitCancelled(c)
    BY <1>3
  <2>2. CASE BroadcastAccepted(c)
    BY <2>2, AdmitSpent
  <2>3. CASE UNCHANGED <<chainVars, late>>
    BY <2>1, <2>3, QuietSpent
  <2> QED
    BY <2>1, <2>2, <2>3 DEF Call, StartRefreshed, StartFresh, NotSent, Sign,
       BroadcastMismatch, BroadcastDuplicate, BroadcastCached, BroadcastOutOfGas,
       BroadcastRejected, BroadcastUnanswered, DetectDelivered, DetectNothing, Retry,
       NextEndpoint, GiveUp, CachedConfirmed, CachedNotConfirmed, AwaitConfirmed,
       AwaitRefused, AwaitTimesOut, AwaitCancelled, AnswersKept
<1>4. CASE UNCHANGED vars
  <2>1. UNCHANGED <<chainVars, late, pc, reports>>
    BY <1>4 DEF vars
  <2> QED
    BY <2>1 DEF SpentInv, Spent, InMempool, IsBegun, Begun, CurrentBatch, chainVars
<1> QED BY <1>1, <1>2, <1>3, <1>4 DEF Next, Done

LEMMA SharingIsSame ==
  ASSUME BatchesDisjoint, NEW a, NEW b, Requested(a), Requested(b), a \intersect b # {}
  PROVE  a = b
<1>1. PICK c \in Clients : \E i \in 1 .. Len(Batches[c]) : a = Batches[c][i]
  BY DEF Requested
<1>2. PICK i \in 1 .. Len(Batches[c]) : a = Batches[c][i]
  BY <1>1
<1>3. PICK d \in Clients : \E j \in 1 .. Len(Batches[d]) : b = Batches[d][j]
  BY DEF Requested
<1>4. PICK j \in 1 .. Len(Batches[d]) : b = Batches[d][j]
  BY <1>3
<1>5. c = d /\ i = j
  BY <1>2, <1>4 DEF BatchesDisjoint
<1> QED BY <1>2, <1>4, <1>5

LEMMA StepTraced ==
  ASSUME TxTypeOK, CreditsAreTraced, [Next]_vars
  PROVE  CreditsAreTraced'
<1>1. OnlyRequested'
  BY StepRequested DEF CreditsAreTraced
<1>2. CASE \E ok \in BOOLEAN : Deliver(ok)
  <2>1. PICK ok \in BOOLEAN : Deliver(ok)
    BY <1>2
  <2> DEFINE h == Head(mempool)
             r == [tx |-> h, ok |-> ok]
  <2>2. /\ delivered' = delivered \union {r}
        /\ credited' = IF ok THEN credited \union h.batch ELSE credited
    BY <2>1 DEF Deliver
  <2>3. Requested(h.batch)
    BY <2>1, TailMempool DEF Deliver, TxTypeOK, CreditsAreTraced, OnlyRequested
  <2>4. r \in delivered' /\ r.tx = h /\ r.ok = ok
    BY <2>2
  <2>5. \A d \in delivered' : Requested(d.tx.batch)'
    BY <2>2, <2>3, <2>4 DEF CreditsAreTraced, Requested
  <2>6. ASSUME NEW l \in credited' PROVE \E d \in delivered' : d.ok /\ l \in d.tx.batch
    <3>1. CASE l \in credited
      BY <2>2, <3>1 DEF CreditsAreTraced
    <3>2. CASE ok /\ l \in h.batch
      BY <2>4, <3>2
    <3> QED BY <2>2, <2>6, <3>1, <3>2
  <2> QED BY <1>1, <2>5, <2>6 DEF CreditsAreTraced
<1>3. CASE UNCHANGED <<delivered, credited>>
  BY <1>1, <1>3 DEF CreditsAreTraced, Requested
<1> QED
  BY <1>2, <1>3 DEF Next, Done, vars, chainVars, Evict, LateArrival, Arrives, Call, AwaitCancelled,
     StartRefreshed, StartFresh, NotSent, Sign, BroadcastAccepted, BroadcastMismatch,
     BroadcastDuplicate, BroadcastCached, BroadcastOutOfGas, BroadcastRejected,
     BroadcastUnanswered, DetectDelivered, DetectNothing, Retry, NextEndpoint, GiveUp,
     CachedConfirmed, CachedNotConfirmed, AwaitConfirmed, AwaitRefused, AwaitTimesOut

\* The transaction a block delivers has no license in common with those that
\* are credited: the one that credited it would be for the same batch, and so
\* the same transaction, whose sequence is used up.
LEMMA HeadIsNew ==
  ASSUME BatchesDisjoint, ChainTypeOK, CreditsAreTraced, SpentInv, mempool # <<>>
  PROVE  Head(mempool).batch \intersect credited = {}
<1> DEFINE h == Head(mempool)
<1>1. h \in InMempool
  <2>1. Len(mempool) \in Nat \ {0} /\ Head(mempool) = mempool[1]
    BY EmptySeq, LenProperties, HeadTailProperties DEF ChainTypeOK
  <2> QED BY <2>1 DEF InMempool
<1>2. h.seq \in Nat /\ chainSeq <= h.seq
  BY <1>1, MempoolSeqs
<1>3. SUFFICES ASSUME NEW l \in h.batch, l \in credited PROVE FALSE
  OBVIOUS
<1>4. PICK d \in delivered : d.ok /\ l \in d.tx.batch
  BY <1>3 DEF CreditsAreTraced
<1>5. h.batch = d.tx.batch
  <2>1. Requested(h.batch) /\ Requested(d.tx.batch)
    BY <1>1 DEF CreditsAreTraced, OnlyRequested
  <2> QED BY <1>3, <1>4, <2>1, SharingIsSame
<1>6. h = d.tx
  <2>1. h \in Spent /\ d.tx \in Spent
    BY <1>1 DEF Spent
  <2> QED BY <1>5, <2>1 DEF SpentInv
<1>7. d.tx.seq < chainSeq /\ chainSeq \in Nat
  BY DEF ChainTypeOK
<1> QED BY <1>2, <1>6, <1>7

\* Only an answer that was lost makes the operator pay for a batch twice.  When
\* no two batches share a license, every admitted transaction is answered, and
\* the chain has no reason of its own to fail one, none fails when it is
\* delivered, however often calls retry for other reasons, whatever nodes lag,
\* whoever cancels, and also when the mempool drops what it has admitted
\* (transactions.go:224-281).  After a lost answer the look-up may miss the
\* transaction, and the work is signed and paid for again.
THEOREM NoRetryPaysInVain == Spec => []NothingPaidInVain
<1> DEFINE Sound == BatchesDisjoint /\ AnswersKept
<1>1. Init => CreditsAreTraced /\ SpentInv /\ NothingPaidInVain
  <2> SUFFICES ASSUME Init PROVE CreditsAreTraced /\ SpentInv /\ NothingPaidInVain
    OBVIOUS
  <2>1. InMempool = {}
    BY EmptySeq DEF Init, InMempool
  <2>2. Spent = {} /\ delivered = {} /\ credited = {} /\ late = {}
    BY <2>1 DEF Init, Spent
  <2> QED BY <2>1, <2>2 DEF CreditsAreTraced, OnlyRequested, SpentInv, NothingPaidInVain
<1>2. TxTypeOK /\ CreditsAreTraced /\ [Next]_vars => CreditsAreTraced'
  BY StepTraced
<1>3. TxTypeOK /\ (Sound => SpentInv) /\ [Next]_vars => (Sound' => SpentInv')
  BY StepSpent, DisjointDiffer DEF BatchesDisjoint, AnswersKept
<1>4. TxTypeOK /\ CreditsAreTraced /\ (Sound => SpentInv) /\ NothingPaidInVain /\ [Next]_vars
        => NothingPaidInVain'
  <2> SUFFICES ASSUME TxTypeOK, CreditsAreTraced, SpentInv, [Next]_vars, Sound,
                      \A d \in delivered : d.ok
               PROVE  \A d \in delivered' : d.ok
    BY DEF NothingPaidInVain, BatchesDisjoint, AnswersKept
  <2>1. CASE \E ok \in BOOLEAN : Deliver(ok)
    <3>1. PICK ok \in BOOLEAN : Deliver(ok)
      BY <2>1
    <3>2. Head(mempool).batch \intersect credited = {}
      BY <3>1, HeadIsNew DEF Deliver, TxTypeOK
    <3>3. ok
      BY <3>1, <3>2 DEF Deliver, AnswersKept
    <3> QED BY <3>1, <3>3 DEF Deliver
  <2>2. CASE UNCHANGED delivered
    BY <2>2
  <2> QED
    BY <2>1, <2>2 DEF Next, Done, vars, chainVars, Evict, LateArrival, Arrives, Call,
       AwaitCancelled, StartRefreshed, StartFresh, NotSent, Sign, BroadcastAccepted,
       BroadcastMismatch, BroadcastDuplicate, BroadcastCached, BroadcastOutOfGas,
       BroadcastRejected, BroadcastUnanswered, DetectDelivered, DetectNothing, Retry,
       NextEndpoint, GiveUp, CachedConfirmed, CachedNotConfirmed, AwaitConfirmed,
       AwaitRefused, AwaitTimesOut
<1> QED BY <1>1, <1>2, <1>3, <1>4, TxTypeCorrect, PTL DEF Spec

-----------------------------------------------------------------------------
(* What a duplicate says *)

\* Batches share all of their licenses or none: batches of one run, or of
\* replicas that collect the same wins in the same portions.
BatchesAlike ==
  \A a, b \in SUBSET Licenses :
    Requested(a) /\ Requested(b) /\ a \intersect b # {} => a = b

\* A batch turned down as a duplicate has been credited as a whole, although
\* the chain names only a license of it.
DuplicateIsCredited ==
  BatchesAlike => \A c \in Clients : \A i \in 1 .. Len(reports[c]) :
    reports[c][i] = "duplicate" => Batches[c][i] \subseteq credited

LEMMA RequestedIsBatch ==
  ASSUME NEW batch, Requested(batch)
  PROVE  batch \in SUBSET Licenses
<1>1. PICK c \in Clients : \E i \in 1 .. Len(Batches[c]) : batch = Batches[c][i]
  BY DEF Requested
<1>2. PICK i \in 1 .. Len(Batches[c]) : batch = Batches[c][i]
  BY <1>1
<1>3. Batches[c] \in Seq(SUBSET Licenses)
  BY BatchesAssumption DEF BatchesAssumption
<1> QED BY <1>2, <1>3, ElementOfSeq

\* So has a batch whose transaction failed when it was delivered, unless the
\* chain had a reason of its own to fail it.
RefusedIsCredited ==
  BatchesAlike /\ "deliver" \notin Faults =>
    \A c \in Clients : \A i \in 1 .. Len(reports[c]) :
      reports[c][i] = "refused" => Batches[c][i] \subseteq credited

\* What fails when it is delivered repeats work that is done.
FailedIsDone == \A d \in delivered : ~d.ok => d.tx.batch \subseteq credited

\* What the chain has credited of a batch was credited with the rest of it.
LEMMA SharedIsDone ==
  ASSUME CreditedIsDelivered, CreditsAreTraced, BatchesAlike,
         NEW batch, Requested(batch), batch \intersect credited # {}
  PROVE  batch \subseteq credited
<1>1. PICK l \in batch : l \in credited
  OBVIOUS
<1>2. PICK d \in delivered : d.ok /\ l \in d.tx.batch
  BY <1>1 DEF CreditsAreTraced
<1>3. Requested(d.tx.batch)
  BY DEF CreditsAreTraced
<1>4. batch = d.tx.batch
  <2>1. batch \in SUBSET Licenses /\ d.tx.batch \in SUBSET Licenses
    BY <1>3, RequestedIsBatch
  <2>2. batch \intersect d.tx.batch # {}
    BY <1>1, <1>2
  <2> QED BY <1>3, <2>1, <2>2 DEF BatchesAlike
<1> QED BY <1>2, <1>4 DEF CreditedIsDelivered

\* Which answers make a call report a duplicate, or a refusal.
LEMMA RefusingAnswer ==
  ASSUME TxTypeOK, NEW c \in Clients, Call(c) \/ AwaitCancelled(c),
         NEW v \in {"duplicate", "refused"}, Answers(c, v)
  PROVE  IF v = "duplicate" THEN BroadcastDuplicate(c) ELSE AwaitRefused(c)
<1>1. /\ reports[c] \in Seq(Verdicts) /\ Len(reports[c]) \in Nat
      /\ reports'[c] = Append(reports[c], v) /\ v \in Verdicts
  BY LenProperties DEF TxTypeOK, ClientTypeOK, Answers, Verdicts
<1>2. /\ Len(reports'[c]) = Len(reports[c]) + 1
      /\ reports'[c][Len(reports[c]) + 1] = v
  BY <1>1, AppendProperties
<1>3. ASSUME NEW verdict \in Verdicts \ {v}, Finish(c, verdict) PROVE FALSE
  <2>1. reports'[c] = Append(reports[c], verdict)
    BY <1>3 DEF Finish, TxTypeOK, ClientTypeOK
  <2>2. reports'[c][Len(reports[c]) + 1] = verdict
    BY <1>1, <2>1, AppendProperties
  <2> QED BY <1>2, <1>3, <2>2
<1>4. CASE NotSent(c) \/ BroadcastMismatch(c) \/ GiveUp(c) \/ AwaitConfirmed(c)
           \/ AwaitTimesOut(c) \/ AwaitCancelled(c)
  BY <1>3, <1>4 DEF NotSent, BroadcastMismatch, GiveUp, AwaitConfirmed, AwaitTimesOut,
                    AwaitCancelled, Verdicts
<1>5. CASE UNCHANGED reports
  BY <1>1, <1>2, <1>5
<1>6. CASE BroadcastDuplicate(c)
  BY <1>3, <1>6 DEF BroadcastDuplicate, Verdicts
<1>7. CASE AwaitRefused(c)
  BY <1>3, <1>7 DEF AwaitRefused, Verdicts
<1> QED
  BY <1>4, <1>5, <1>6, <1>7 DEF Call, StartRefreshed, StartFresh, Sign, BroadcastAccepted,
     BroadcastCached, BroadcastOutOfGas, BroadcastRejected, BroadcastUnanswered,
     DetectDelivered, DetectNothing, Retry, NextEndpoint, CachedConfirmed, CachedNotConfirmed

LEMMA DuplicateAnswer ==
  ASSUME TxTypeOK, CreditedIsDelivered, CreditsAreTraced, BatchesAlike,
         NEW c \in Clients, BroadcastDuplicate(c)
  PROVE  CurrentBatch(c) \subseteq credited
<1>1. tx[c].batch = CurrentBatch(c) /\ Pending(c) /\ tx[c].batch \intersect credited # {}
  BY DEF BroadcastDuplicate, SaysDuplicate, TxTypeOK, CallOK
<1> QED BY <1>1, CurrentRequested, SharedIsDone

LEMMA RefusedAnswer ==
  ASSUME TxTypeOK, FailedIsDone, NEW c \in Clients, AwaitRefused(c)
  PROVE  CurrentBatch(c) \subseteq credited
<1>1. tx[c].batch = CurrentBatch(c) /\ [tx |-> tx[c], ok |-> FALSE] \in delivered
  BY DEF AwaitRefused, Delivered, TxTypeOK, CallOK
<1> QED BY <1>1 DEF FailedIsDone

\* A block fails a transaction only for what is credited already.
LEMMA StepFailed ==
  ASSUME TxTypeOK, CreditedIsDelivered, CreditsAreTraced, BatchesAlike, "deliver" \notin Faults,
         FailedIsDone, [Next]_vars
  PROVE  FailedIsDone'
<1>1. credited \subseteq credited'
  BY CreditGrows
<1>2. CASE \E ok \in BOOLEAN : Deliver(ok)
  <2>1. PICK ok \in BOOLEAN : Deliver(ok)
    BY <1>2
  <2> DEFINE h == Head(mempool)
  <2>2. /\ mempool # <<>> /\ mempool' = Tail(mempool)
        /\ delivered' = delivered \union {[tx |-> h, ok |-> ok]}
        /\ ~ok => h.batch \intersect credited # {}
    BY <2>1 DEF Deliver
  <2>3. Requested(h.batch)
    BY <2>2, TailMempool DEF TxTypeOK, CreditsAreTraced, OnlyRequested
  <2>4. ~ok => h.batch \subseteq credited
    BY <2>2, <2>3, SharedIsDone
  <2> QED BY <1>1, <2>2, <2>4 DEF FailedIsDone
<1>3. CASE UNCHANGED delivered
  BY <1>1, <1>3 DEF FailedIsDone
<1> QED
  BY <1>2, <1>3 DEF Next, Done, vars, chainVars, Evict, LateArrival, Arrives, Call, AwaitCancelled,
     StartRefreshed, StartFresh, NotSent, Sign, BroadcastAccepted, BroadcastMismatch,
     BroadcastDuplicate, BroadcastCached, BroadcastOutOfGas, BroadcastRejected,
     BroadcastUnanswered, DetectDelivered, DetectNothing, Retry, NextEndpoint, GiveUp,
     CachedConfirmed, CachedNotConfirmed, AwaitConfirmed, AwaitRefused, AwaitTimesOut

\* A step adds no verdict of this kind but for a credited batch.
LEMMA StepVouched ==
  ASSUME TxTypeOK, CreditedIsDelivered, [Next]_vars, NEW v \in {"duplicate", "refused"},
         Vouched(v),
         \A c \in Clients :
           (IF v = "duplicate" THEN BroadcastDuplicate(c) ELSE AwaitRefused(c))
             => CurrentBatch(c) \subseteq credited
  PROVE  Vouched(v)'
<1>1. CASE UNCHANGED reports
  BY <1>1, CreditGrows DEF Vouched
<1>2. CASE \E c \in Clients : Call(c) \/ AwaitCancelled(c)
  <2>1. PICK c \in Clients : Call(c) \/ AwaitCancelled(c)
    BY <1>2
  <2>2. ASSUME NEW verdict \in Verdicts, Answers(c, verdict) PROVE Vouched(v)'
    <3>1. verdict = v => CurrentBatch(c) \subseteq credited
      BY <2>1, <2>2, RefusingAnswer
    <3> QED BY <2>2, <3>1, CreditGrows, ReportVouched
  <2> QED BY <1>1, <2>1, <2>2, CallAnswers
<1> QED BY <1>1, <1>2, OthersAnswerNothing

\* A batch that is turned down as a duplicate is not lost but done, under every
\* fault, also when the mempool drops what it has admitted ("Credit already
\* recorded on-chain", transactions.go:245-247); with batches that share some
\* licenses and not all it may be lost in part.
THEOREM DuplicatesAreCredited == Spec => []DuplicateIsCredited
<1>1. Init => CreditedIsDelivered /\ CreditsAreTraced /\ DuplicateIsCredited
  BY EmptySeq DEF Init, CreditedIsDelivered, CreditsAreTraced, OnlyRequested, InMempool,
                  DuplicateIsCredited
<1>2. TxTypeOK /\ CreditedIsDelivered /\ CreditsAreTraced /\ [Next]_vars
        => CreditedIsDelivered' /\ CreditsAreTraced'
  BY CreditGrows, StepTraced
<1>3. TxTypeOK /\ CreditedIsDelivered /\ CreditsAreTraced /\ DuplicateIsCredited /\ [Next]_vars
        => DuplicateIsCredited'
  <2> SUFFICES ASSUME TxTypeOK, CreditedIsDelivered, CreditsAreTraced, [Next]_vars, BatchesAlike,
                      Vouched("duplicate")
               PROVE  Vouched("duplicate")'
    BY DEF DuplicateIsCredited, Vouched, BatchesAlike, Requested
  <2>1. \A c \in Clients : BroadcastDuplicate(c) => CurrentBatch(c) \subseteq credited
    BY DuplicateAnswer
  <2> QED BY <2>1, StepVouched
<1> QED BY <1>1, <1>2, <1>3, TxTypeCorrect, PTL DEF Spec

\* And a batch whose transaction fails when it is delivered is done as well: when
\* CheckTx lets work through that was signed again after a lost answer, the chain
\* refuses it, the caller counts it as failed, and it is credited all the same
\* (transactions.go:60-66).
THEOREM RefusalsAreCredited == Spec => []RefusedIsCredited
<1> DEFINE Sound == BatchesAlike /\ "deliver" \notin Faults
<1>1. Init => CreditedIsDelivered /\ CreditsAreTraced /\ FailedIsDone /\ RefusedIsCredited
  BY EmptySeq DEF Init, CreditedIsDelivered, CreditsAreTraced, OnlyRequested, InMempool,
                  FailedIsDone, RefusedIsCredited
<1>2. TxTypeOK /\ CreditedIsDelivered /\ CreditsAreTraced /\ (Sound => FailedIsDone) /\ [Next]_vars
        => CreditedIsDelivered' /\ CreditsAreTraced' /\ (Sound' => FailedIsDone')
  BY CreditGrows, StepTraced, StepFailed DEF BatchesAlike, Requested
<1>3. TxTypeOK /\ CreditedIsDelivered /\ (Sound => FailedIsDone) /\ RefusedIsCredited /\ [Next]_vars
        => RefusedIsCredited'
  <2> SUFFICES ASSUME TxTypeOK, CreditedIsDelivered, FailedIsDone, [Next]_vars, Vouched("refused")
               PROVE  Vouched("refused")'
    BY DEF RefusedIsCredited, Vouched, BatchesAlike, Requested
  <2>1. \A c \in Clients : AwaitRefused(c) => CurrentBatch(c) \subseteq credited
    BY RefusedAnswer
  <2> QED BY <2>1, StepVouched
<1> QED BY <1>1, <1>2, <1>3, TxTypeCorrect, PTL DEF Spec

-----------------------------------------------------------------------------
(* Running down *)

\* The attempts a call may still make after the one it is in.
AttemptsPerCall == NumEndpoints * (MaxRetries + 1)
AttemptsLeft(c) ==
  (NumEndpoints - 1 - endpoint[c]) * (MaxRetries + 1) + (MaxRetries - attempt[c])

\* How many steps an attempt takes at most from there.
Stage(place) ==
  IF place = "sign" THEN 5
  ELSE IF place = "broadcast" THEN 4
  ELSE IF place \in {"detect", "awaitCached"} THEN 3
  ELSE IF place = "retry" THEN 2 ELSE 1

\* The batches that have no verdict yet, and how many steps a client can take
\* for them: four in an attempt, one more in the first, and the start.
BatchesLeft(c) == Len(Batches[c]) - Len(reports[c])
StepsPerCall == 4 * AttemptsPerCall + 2
StepsInCall(c) == 4 * AttemptsLeft(c) + Stage(pc[c])
StepsLeft(c) ==
  IF pc[c] = "idle" THEN BatchesLeft(c) * StepsPerCall
  ELSE (BatchesLeft(c) - 1) * StepsPerCall + StepsInCall(c)

LEMMA TimesLess ==
  ASSUME NEW k \in Nat, NEW x \in Nat, NEW y \in Nat, x <= y
  PROVE  x * k <= y * k /\ x * k \in Nat
<1>1. y * k = x * k + (y - x) * k
  OBVIOUS
<1>2. (y - x) * k \in Nat /\ x * k \in Nat /\ y * k \in Nat
  OBVIOUS
<1> QED BY <1>1, <1>2

LEMMA TimesNext ==
  ASSUME NEW k \in Nat, NEW x \in Int
  PROVE  x * k = (x - 1) * k + k /\ x * k \in Int
OBVIOUS

LEMMA AttemptsBounded ==
  ASSUME ClientTypeOK, NEW c \in Clients
  PROVE  /\ AttemptsPerCall \in Nat /\ AttemptsLeft(c) \in Nat
         /\ AttemptsLeft(c) < AttemptsPerCall
<1>1. /\ NumEndpoints \in Nat \ {0} /\ MaxRetries + 1 \in Nat
      /\ NumEndpoints - 1 - endpoint[c] \in Nat
      /\ NumEndpoints - 1 - endpoint[c] <= NumEndpoints - 1
      /\ attempt[c] \in 0 .. MaxRetries
  BY RetriesAssumption DEF RetriesAssumption, ClientTypeOK
<1>2. /\ (NumEndpoints - 1 - endpoint[c]) * (MaxRetries + 1)
           <= (NumEndpoints - 1) * (MaxRetries + 1)
      /\ (NumEndpoints - 1 - endpoint[c]) * (MaxRetries + 1) \in Nat
  BY <1>1, TimesLess
<1>3. /\ AttemptsPerCall = (NumEndpoints - 1) * (MaxRetries + 1) + (MaxRetries + 1)
      /\ AttemptsPerCall \in Int
  BY <1>1, TimesNext DEF AttemptsPerCall
<1>4. MaxRetries \in Nat
  BY RetriesAssumption DEF RetriesAssumption
<1> DEFINE u == (NumEndpoints - 1 - endpoint[c]) * (MaxRetries + 1)
           v == (NumEndpoints - 1) * (MaxRetries + 1)
<1>5. v \in Nat
  BY <1>1, TimesLess
<1>6. u \in Nat /\ u <= v /\ AttemptsPerCall = v + (MaxRetries + 1)
      /\ AttemptsLeft(c) = u + (MaxRetries - attempt[c])
  BY <1>2, <1>3 DEF AttemptsLeft
<1> HIDE DEF u, v
<1> QED BY <1>1, <1>4, <1>5, <1>6

\* Another attempt is one attempt fewer left, at this endpoint or the next.
LEMMA AttemptUsed ==
  ASSUME TxTypeOK, NEW c \in Clients, Retry(c) \/ NextEndpoint(c)
  PROVE  AttemptsLeft(c)' = AttemptsLeft(c) - 1
<1>1. /\ MaxRetries \in Nat /\ MaxRetries + 1 \in Nat /\ NumEndpoints \in Nat
      /\ endpoint[c] \in Nat /\ attempt[c] \in Nat
  BY RetriesAssumption DEF RetriesAssumption, TxTypeOK, ClientTypeOK
<1>2. CASE Retry(c)
  BY <1>1, <1>2 DEF Retry, AttemptsLeft, TxTypeOK, ClientTypeOK
<1>3. CASE NextEndpoint(c)
  <2>1. endpoint'[c] = endpoint[c] + 1 /\ attempt'[c] = 0 /\ attempt[c] = MaxRetries
    BY <1>3 DEF NextEndpoint, TxTypeOK, ClientTypeOK
  <2> DEFINE x == NumEndpoints - 1 - endpoint[c]
             y == NumEndpoints - 1 - endpoint'[c]
  <2>2. x \in Int /\ y = x - 1
    BY <1>1, <2>1
  <2>3. x * (MaxRetries + 1) = (x - 1) * (MaxRetries + 1) + (MaxRetries + 1)
    BY <1>1, <2>2, TimesNext
  <2>4. (x - 1) * (MaxRetries + 1) \in Int
    BY <1>1, <2>2, TimesNext
  <2>5. /\ AttemptsLeft(c) = x * (MaxRetries + 1) + (MaxRetries - attempt[c])
        /\ AttemptsLeft(c)' = y * (MaxRetries + 1) + (MaxRetries - attempt'[c])
    BY DEF AttemptsLeft
  <2> HIDE DEF x, y
  <2> QED BY <1>1, <2>1, <2>2, <2>3, <2>4, <2>5
<1> QED BY <1>2, <1>3

LEMMA BatchesCounted ==
  ASSUME ClientTypeOK, NEW c \in Clients
  PROVE  Len(reports[c]) \in Nat /\ Len(Batches[c]) \in Nat /\ BatchesLeft(c) \in Int
<1>1. reports[c] \in Seq(Verdicts) /\ Batches[c] \in Seq(SUBSET Licenses)
  BY BatchesAssumption DEF BatchesAssumption, ClientTypeOK
<1>2. Len(reports[c]) \in Nat /\ Len(Batches[c]) \in Nat
  BY <1>1, LenProperties
<1> QED BY <1>2 DEF BatchesLeft

\* The steps of a call that neither begin nor end it nor start another attempt.
Proceeds(c) ==
  \/ Sign(c) \/ BroadcastAccepted(c) \/ BroadcastCached(c) \/ BroadcastOutOfGas(c)
  \/ BroadcastRejected(c) \/ BroadcastUnanswered(c) \/ DetectDelivered(c)
  \/ DetectNothing(c) \/ CachedConfirmed(c) \/ CachedNotConfirmed(c)

LEMMA ProceedsDown ==
  ASSUME TxTypeOK, NEW c \in Clients, Proceeds(c)
  PROVE  /\ pc[c] # "idle" /\ pc'[c] # "idle" /\ Stage(pc'[c]) < Stage(pc[c])
         /\ attempt'[c] = attempt[c] /\ endpoint'[c] = endpoint[c]
         /\ reports'[c] = reports[c]
<1>1. CASE Sign(c) \/ BroadcastAccepted(c) \/ BroadcastCached(c) \/ BroadcastOutOfGas(c)
           \/ BroadcastRejected(c) \/ BroadcastUnanswered(c)
  BY <1>1 DEF TxTypeOK, ClientTypeOK, Sign, BroadcastAccepted, BroadcastCached,
     BroadcastOutOfGas, BroadcastRejected, BroadcastUnanswered, Goes, callVars, Stage
<1>2. CASE DetectDelivered(c) \/ DetectNothing(c) \/ CachedConfirmed(c) \/ CachedNotConfirmed(c)
  <2>1. /\ UNCHANGED <<attempt, endpoint, reports>>
        /\ \/ pc[c] = "detect" /\ (Goes(c, "await") \/ Goes(c, "retry"))
           \/ pc[c] = "awaitCached" /\ (Goes(c, "await") \/ Goes(c, "retry"))
    BY <1>2 DEF DetectDelivered, DetectNothing, CachedConfirmed, CachedNotConfirmed, callVars
  <2> QED BY <2>1 DEF TxTypeOK, ClientTypeOK, Goes, Stage
<1> QED BY <1>1, <1>2 DEF Proceeds

\* Every step of a client takes it further down, whatever the chain does.
LEMMA CallRunsDown ==
  ASSUME TxTypeOK, NEW c \in Clients, Call(c) \/ AwaitCancelled(c)
  PROVE  StepsLeft(c)' < StepsLeft(c)
<1> DEFINE r == BatchesLeft(c)  k == StepsPerCall  a == AttemptsLeft(c)
<1>1. a \in Nat /\ a < AttemptsPerCall /\ AttemptsPerCall \in Nat
  BY AttemptsBounded DEF TxTypeOK
<1>2. r \in Int /\ k \in Nat /\ k = 4 * AttemptsPerCall + 2
  BY <1>1, BatchesCounted DEF TxTypeOK, StepsPerCall
<1>3. r * k = (r - 1) * k + k /\ (r - 1) * k \in Int
  BY <1>2, TimesNext
<1>4. \A place : Stage(place) \in 1 .. 5
  BY DEF Stage
<1>5. /\ pc[c] = "idle" => StepsLeft(c) = r * k
      /\ pc[c] # "idle" => StepsLeft(c) = (r - 1) * k + (4 * a + Stage(pc[c]))
      /\ pc'[c] = "idle" => StepsLeft(c)' = r' * k
      /\ pc'[c] # "idle" => StepsLeft(c)' = (r' - 1) * k + (4 * a' + Stage(pc'[c]))
  BY DEF StepsLeft, StepsInCall, StepsPerCall
<1>6. /\ reports'[c] = reports[c] => r' = r
      /\ attempt'[c] = attempt[c] /\ endpoint'[c] = endpoint[c] => a' = a
  BY DEF BatchesLeft, AttemptsLeft
<1>7. CASE StartRefreshed(c) \/ StartFresh(c)
  <2>1. /\ pc[c] = "idle" /\ pc'[c] = "sign" /\ reports'[c] = reports[c]
        /\ attempt'[c] = attempt[c] /\ endpoint'[c] = endpoint[c]
    BY <1>7 DEF StartRefreshed, StartFresh, Goes, callVars, TxTypeOK, ClientTypeOK
  <2>2. Stage(pc'[c]) = 5
    BY <2>1 DEF Stage
  <2> HIDE DEF r, k, a
  <2> QED BY <1>1, <1>2, <1>3, <1>5, <1>6, <2>1, <2>2
<1>8. CASE Proceeds(c)
  <2>1. Stage(pc[c]) \in 1 .. 5 /\ Stage(pc'[c]) \in 1 .. 5
    BY <1>4
  <2> HIDE DEF r, k, a
  <2> QED BY <1>1, <1>2, <1>3, <1>5, <1>6, <1>8, <2>1, ProceedsDown
<1>9. CASE Retry(c) \/ NextEndpoint(c)
  <2>1. a' = a - 1
    BY <1>9, AttemptUsed
  <2>2. pc[c] = "retry" /\ pc'[c] = "sign" /\ reports'[c] = reports[c]
    BY <1>9 DEF Retry, NextEndpoint, Goes, TxTypeOK, ClientTypeOK
  <2>3. Stage(pc[c]) = 2 /\ Stage(pc'[c]) = 5
    BY <2>2 DEF Stage
  <2> HIDE DEF r, k, a
  <2> QED BY <1>1, <1>2, <1>3, <1>5, <1>6, <2>1, <2>2, <2>3
<1>10. CASE \E verdict \in Verdicts : Finish(c, verdict)
  <2>1. PICK verdict \in Verdicts : Finish(c, verdict)
    BY <1>10
  <2>2. pc'[c] = "idle" /\ reports'[c] = Append(reports[c], verdict)
    BY <2>1 DEF Finish, Goes, TxTypeOK, ClientTypeOK
  <2>3. reports[c] \in Seq(Verdicts)
    BY DEF TxTypeOK, ClientTypeOK
  <2>4. Len(reports'[c]) = Len(reports[c]) + 1
    BY <2>2, <2>3, AppendProperties
  <2>5. Len(reports[c]) \in Nat /\ Len(Batches[c]) \in Nat
    BY BatchesCounted DEF TxTypeOK
  <2>6. r' = r - 1
    BY <2>4, <2>5 DEF BatchesLeft
  <2>7. Stage(pc[c]) \in 1 .. 5
    BY <1>4
  <2> HIDE DEF r, k, a
  <2>8. StepsLeft(c)' = (r - 1) * k
    BY <1>5, <2>2, <2>6
  <2> QED BY <1>1, <1>2, <1>3, <1>5, <2>7, <2>8
<1>11. CASE NotSent(c) \/ BroadcastMismatch(c) \/ BroadcastDuplicate(c) \/ GiveUp(c)
           \/ AwaitConfirmed(c) \/ AwaitRefused(c) \/ AwaitTimesOut(c) \/ AwaitCancelled(c)
  <2>1. \E verdict \in Verdicts : Finish(c, verdict)
    BY <1>11 DEF NotSent, BroadcastMismatch, BroadcastDuplicate, GiveUp, AwaitConfirmed,
                AwaitRefused, AwaitTimesOut, AwaitCancelled, Verdicts
  <2> QED BY <1>10, <2>1
<1> QED BY <1>7, <1>8, <1>9, <1>11 DEF Call, Proceeds

\* No batch is reported on twice: there are never more verdicts than batches.
ReportsFit == \A c \in Clients : BatchesLeft(c) >= 0

LEMMA CallReports ==
  ASSUME TxTypeOK, NEW c \in Clients, Call(c) \/ AwaitCancelled(c)
  PROVE  \/ reports'[c] = reports[c]
         \/ Pending(c) /\ \E verdict \in Verdicts : reports'[c] = Append(reports[c], verdict)
<1>1. CASE NotSent(c) \/ BroadcastMismatch(c) \/ BroadcastDuplicate(c) \/ GiveUp(c)
           \/ AwaitConfirmed(c) \/ AwaitRefused(c) \/ AwaitTimesOut(c) \/ AwaitCancelled(c)
  <2>1. Pending(c)
    BY <1>1 DEF NotSent, BroadcastMismatch, BroadcastDuplicate, GiveUp, AwaitConfirmed,
       AwaitRefused, AwaitTimesOut, AwaitCancelled, TxTypeOK, CallOK
  <2>2. \E verdict \in Verdicts : Finish(c, verdict)
    BY <1>1 DEF NotSent, BroadcastMismatch, BroadcastDuplicate, GiveUp, AwaitConfirmed,
       AwaitRefused, AwaitTimesOut, AwaitCancelled, Verdicts
  <2> QED BY <2>1, <2>2 DEF Finish, TxTypeOK, ClientTypeOK
<1>2. CASE StartRefreshed(c) \/ StartFresh(c) \/ Retry(c) \/ NextEndpoint(c)
  BY <1>2 DEF StartRefreshed, StartFresh, Retry, NextEndpoint
<1>3. CASE Proceeds(c)
  BY <1>3, ProceedsDown
<1> QED BY <1>1, <1>2, <1>3 DEF Call, Proceeds

LEMMA StepReportsFit ==
  ASSUME TxTypeOK, ReportsFit, [Next]_vars
  PROVE  ReportsFit'
<1> SUFFICES ASSUME NEW d \in Clients PROVE BatchesLeft(d)' >= 0
  BY DEF ReportsFit
<1>1. BatchesLeft(d) >= 0 /\ Len(reports[d]) \in Nat /\ Len(Batches[d]) \in Nat
  BY BatchesCounted DEF ReportsFit, TxTypeOK
<1>2. ASSUME NEW c \in Clients, Call(c) \/ AwaitCancelled(c)
      PROVE  \/ reports'[d] = reports[d]
             \/ Pending(d) /\ Len(reports'[d]) = Len(reports[d]) + 1
  <2>1. CASE c # d
    <3>1. reports'[d] = reports[d]
      BY <1>2, <2>1, OthersUntouched
    <3> QED BY <3>1
  <2>2. CASE c = d
    <3>1. \/ reports'[d] = reports[d]
          \/ Pending(d) /\ \E verdict \in Verdicts : reports'[d] = Append(reports[d], verdict)
      BY <1>2, <2>2, CallReports
    <3>2. ASSUME NEW verdict \in Verdicts, reports'[d] = Append(reports[d], verdict)
          PROVE  Len(reports'[d]) = Len(reports[d]) + 1
      <4>1. reports[d] \in Seq(Verdicts)
        BY DEF TxTypeOK, ClientTypeOK
      <4> QED BY <3>2, <4>1, AppendProperties
    <3> QED BY <3>1, <3>2
  <2> QED BY <2>1, <2>2
<1>3. UNCHANGED reports \/ \E c \in Clients : Call(c) \/ AwaitCancelled(c)
  BY DEF Next, Done, vars, Deliver, Evict, LateArrival
<1> QED BY <1>1, <1>2, <1>3 DEF BatchesLeft, Pending

\* No client reports on more batches than it has, and what its calls can still
\* do is bounded from the start: at most 4 * NumEndpoints * (MaxRetries + 1) + 2
\* steps for a batch (transactions.go:195-270, manager.go:398).
StepsBounded == \A c \in Clients : StepsLeft(c) \in 0 .. Len(Batches[c]) * StepsPerCall

LEMMA StepsWithin ==
  ASSUME TxTypeOK, ReportsFit
  PROVE  StepsBounded
<1> SUFFICES ASSUME NEW c \in Clients
             PROVE  StepsLeft(c) \in 0 .. Len(Batches[c]) * StepsPerCall
  BY DEF StepsBounded
<1> DEFINE r == BatchesLeft(c)  n == Len(Batches[c])  k == StepsPerCall  s == StepsInCall(c)
<1>1. r \in Nat /\ n \in Nat /\ r <= n /\ (pc[c] # "idle" => r - 1 \in Nat)
  <2>1. Len(reports[c]) \in Nat /\ n \in Nat /\ r >= 0
    BY BatchesCounted DEF TxTypeOK, ReportsFit
  <2>2. pc[c] # "idle" => Len(reports[c]) < n
    BY DEF TxTypeOK, CallOK, Pending
  <2>3. r = n - Len(reports[c])
    BY DEF BatchesLeft
  <2> HIDE DEF r, n
  <2> QED BY <2>1, <2>2, <2>3
<1>2. k \in Nat /\ s \in Nat /\ s < k
  <2>1. AttemptsLeft(c) \in Nat /\ AttemptsPerCall \in Nat /\ AttemptsLeft(c) < AttemptsPerCall
    BY AttemptsBounded DEF TxTypeOK
  <2>2. Stage(pc[c]) \in 1 .. 5
    BY DEF Stage
  <2> QED BY <2>1, <2>2 DEF StepsPerCall, StepsInCall
<1>3. r * k <= n * k /\ r * k \in Nat /\ n * k \in Nat
  BY <1>1, <1>2, TimesLess
<1>4. r * k = (r - 1) * k + k /\ (r - 1 \in Nat => (r - 1) * k \in Nat)
  BY <1>1, <1>2, TimesNext, TimesLess
<1>5. StepsLeft(c) = IF pc[c] = "idle" THEN r * k ELSE (r - 1) * k + s
  BY DEF StepsLeft
<1> HIDE DEF r, n, k, s
<1>6. StepsLeft(c) \in 0 .. n * k
  BY <1>1, <1>2, <1>3, <1>4, <1>5
<1> QED BY <1>6 DEF n, k

\* Every step of a client's call brings its end nearer, and nothing that the
\* chain, the network or another client does puts it off.
ClientsRunDown ==
  [][ \A c \in Clients :
        IF Call(c) \/ AwaitCancelled(c) THEN StepsLeft(c)' < StepsLeft(c)
                                       ELSE StepsLeft(c)' = StepsLeft(c) ]_vars

LEMMA OthersKeepSteps ==
  ASSUME TxTypeOK, [Next]_vars, NEW d \in Clients, ~(Call(d) \/ AwaitCancelled(d))
  PROVE  StepsLeft(d)' = StepsLeft(d)
<1>1. /\ pc'[d] = pc[d] /\ attempt'[d] = attempt[d] /\ endpoint'[d] = endpoint[d]
      /\ reports'[d] = reports[d]
  <2>1. CASE UNCHANGED <<pc, attempt, endpoint, reports>>
    BY <2>1
  <2>2. CASE \E c \in Clients : Call(c) \/ AwaitCancelled(c)
    BY <2>2, OthersUntouched
  <2> QED
    BY <2>1, <2>2 DEF Next, Done, vars, callVars, Deliver, Evict, LateArrival
<1> QED BY <1>1 DEF StepsLeft, BatchesLeft, StepsInCall, AttemptsLeft

LEMMA InitReportsFit == Init => ReportsFit
<1> SUFFICES ASSUME Init, NEW c \in Clients PROVE BatchesLeft(c) >= 0
  BY DEF ReportsFit
<1>1. Len(reports[c]) = 0
  BY DEF Init
<1>2. Len(Batches[c]) \in Nat
  BY BatchesAssumption, LenProperties DEF BatchesAssumption
<1> QED BY <1>1, <1>2 DEF BatchesLeft

\* However broadcasts are lost, answers are wrong, nodes lag and the mempool
\* forgets, the steps of a client are bounded by its batches, endpoints and
\* retries: no fault makes a call try for ever (transactions.go:195-270).
THEOREM StepsAreBounded == Spec => []StepsBounded
<1> QED BY InitReportsFit, StepReportsFit, StepsWithin, TxTypeCorrect, PTL DEF Spec

\* Each of those steps uses one of them up, and nothing gives one back: neither
\* the chain nor another replica prolongs a call (transactions.go:195-270).
THEOREM CallsRunDown == Spec => ClientsRunDown
<1>1. TxTypeOK /\ [Next]_vars
        => [ \A c \in Clients :
               IF Call(c) \/ AwaitCancelled(c) THEN StepsLeft(c)' < StepsLeft(c)
                                              ELSE StepsLeft(c)' = StepsLeft(c) ]_vars
  BY CallRunsDown, OthersKeepSteps
<1> QED BY <1>1, TxTypeCorrect, PTL DEF Spec, ClientsRunDown
=============================================================================
