------------------------------ MODULE TxSender ------------------------------
(***************************************************************************)
(* BatchSubmitWork and buildSignAndBroadcast: how a batch of results       *)
(* becomes a transaction, with a locally kept account sequence, retries,   *)
(* and a wait for the delivered result.                                    *)
(*                                                                         *)
(* Each client is one process signing with the operator's key; several     *)
(* clients are the replicas of a high-availability deployment.  A client   *)
(* submits its batches one after the other, as the collector of a run      *)
(* does.  A verdict is the kind of error the call returns.  Time is not     *)
(* modelled: what is bounded by a timeout may always happen.               *)
(*                                                                         *)
(* The chain is external: CheckTx admits a transaction to the mempool, a   *)
(* block delivers the head of the mempool, and account queries see what is *)
(* committed.  A transaction is identified by what is signed: replicas     *)
(* that sign the same batch with the same sequence send the same bytes.    *)
(***************************************************************************)
EXTENDS Naturals, Sequences, FiniteSets

CONSTANTS
  Clients,       \* the processes that sign with the operator's key
  Licenses,      \* the licenses delegated to the operator
  Batches,       \* for each client the batches it submits, in order
  MaxRetries,    \* txMaxRetries
  NumEndpoints,  \* the number of gRPC endpoints
  Faults         \* which of the faults below an instance admits

AllFaults ==
  { "lost",        \* a broadcast does not arrive
    "unanswered",  \* a broadcast arrives, its answer does not
    "late",        \* a broadcast arrives after the client has given up on it
    "query",       \* a query fails
    "lagging",     \* an account query is answered by a node that lags
    "slow",        \* a transaction is not delivered while the client waits
    "cancel",      \* the context ends while the client waits
    "gas",         \* CheckTx finds too little gas, or the estimate varies
    "rejected",    \* CheckTx rejects for another reason
    "unreachable", \* no other endpoint can be dialed
    "deliver",     \* a transaction fails when it is delivered
    "evicted" }    \* the mempool drops transactions it has admitted

ASSUME BatchesAssumption == Batches \in [Clients -> Seq(SUBSET Licenses)]
ASSUME RetriesAssumption == MaxRetries \in Nat /\ NumEndpoints \in Nat \ {0}
ASSUME FaultsAssumption == Faults \subseteq AllFaults

VARIABLES
  chainSeq,   \* the account sequence the chain has committed
  mempool,    \* the transactions admitted and not yet delivered
  delivered,  \* the delivered transactions, with their success
  credited,   \* the licenses credited in this epoch
  late,       \* broadcasts under way that no client waits for any more
  pc,         \* where each client is in its call
  seqInit,    \* the client's seqInit
  nextSeq,    \* the client's nextSeq
  gas,        \* how often gasLimit has been raised in this call
  attempt,    \* attempts at this endpoint
  endpoint,   \* endpointAttempt
  tx,         \* the transaction last signed
  reports     \* the verdicts of the client's calls

chainVars == <<chainSeq, mempool, delivered, credited>>
seqVars == <<seqInit, nextSeq>>
callVars == <<gas, attempt, endpoint>>
vars == <<chainVars, late, pc, seqVars, callVars, tx, reports>>

Pending(c) == Len(reports[c]) < Len(Batches[c])
CurrentBatch(c) == Batches[c][Len(reports[c]) + 1]

NoTx == [seq |-> 0, batch |-> {}, gas |-> 0]

Init ==
  /\ chainSeq = 0
  /\ mempool = <<>>
  /\ delivered = {}
  /\ credited = {}
  /\ late = {}
  /\ pc = [c \in Clients |-> "idle"]
  /\ seqInit = [c \in Clients |-> FALSE]
  /\ nextSeq = [c \in Clients |-> 0]
  /\ gas = [c \in Clients |-> 0]
  /\ attempt = [c \in Clients |-> 0]
  /\ endpoint = [c \in Clients |-> 0]
  /\ tx = [c \in Clients |-> NoTx]
  /\ reports = [c \in Clients |-> <<>>]

-----------------------------------------------------------------------------
(* The chain *)

InMempool == {mempool[i] : i \in 1 .. Len(mempool)}
Delivered(t, ok) == [tx |-> t, ok |-> ok] \in delivered

\* The mempool remembers t; one that failed or was dropped it forgets.
Known(t) == t \in InMempool \/ Delivered(t, TRUE)

\* The sequence CheckTx expects next: transactions in the mempool count.
CheckSeq == chainSeq + Len(mempool)

\* What CheckTx may answer.  It need not look at the work: a duplicate may be
\* named at once (transactions.go:245) or surface when the transaction is
\* delivered (transactions.go:60-63).  When sequence and work are both
\* objectionable, either may be named.
SaysCached(t) == Known(t)
SaysDuplicate(t) == ~Known(t) /\ t.batch \intersect credited # {}
SaysMismatch(t) == ~Known(t) /\ t.seq # CheckSeq
Accepts(t) == ~Known(t) /\ t.seq = CheckSeq

\* A request that nobody hears back from still has its effect.
Arrives(t) ==
  /\ \/ Accepts(t) /\ mempool' = Append(mempool, t)
     \/ (~Accepts(t) \/ SaysDuplicate(t)) /\ UNCHANGED mempool
  /\ UNCHANGED <<chainSeq, delivered, credited>>

\* The next block delivers the head of the mempool; the sequence is used up
\* either way.
Deliver(ok) ==
  /\ mempool # <<>>
  /\ LET t == Head(mempool)
     IN  /\ IF ok THEN t.batch \intersect credited = {}
               ELSE t.batch \intersect credited # {} \/ "deliver" \in Faults
         /\ delivered' = delivered \union {[tx |-> t, ok |-> ok]}
         /\ credited' = IF ok THEN credited \union t.batch ELSE credited
  /\ mempool' = Tail(mempool)
  /\ chainSeq' = chainSeq + 1
  /\ UNCHANGED <<late, pc, seqVars, callVars, tx, reports>>

\* With a transaction that is dropped go those with later sequences.
Evict(i) ==
  /\ "evicted" \in Faults
  /\ mempool' = SubSeq(mempool, 1, i - 1)
  /\ UNCHANGED <<chainSeq, delivered, credited>>
  /\ UNCHANGED <<late, pc, seqVars, callVars, tx, reports>>

LateArrival(t) ==
  /\ t \in late
  /\ late' = late \ {t}
  /\ Arrives(t)
  /\ UNCHANGED <<pc, seqVars, callVars, tx, reports>>

-----------------------------------------------------------------------------
(* A call: refresh, sign, broadcast *)

Goes(c, place) == pc' = [pc EXCEPT ![c] = place]

\* The call returns; its local variables go with it.
Finish(c, verdict) ==
  /\ reports' = [reports EXCEPT ![c] = Append(@, verdict)]
  /\ gas' = [gas EXCEPT ![c] = 0]
  /\ attempt' = [attempt EXCEPT ![c] = 0]
  /\ endpoint' = [endpoint EXCEPT ![c] = 0]
  /\ tx' = [tx EXCEPT ![c] = NoTx]
  /\ Goes(c, "idle")

\* What an account query may answer.
AccountSeqs == IF "lagging" \in Faults THEN 0 .. chainSeq ELSE {chainSeq}

\* A refresh that is not forced never takes the sequence back, so that it can
\* run ahead of what is committed.
Refreshed(c, s) == IF seqInit[c] /\ nextSeq[c] > s THEN nextSeq[c] ELSE s

StartRefreshed(c) ==
  /\ pc[c] = "idle"
  /\ Pending(c)
  /\ \E s \in AccountSeqs : nextSeq' = [nextSeq EXCEPT ![c] = Refreshed(c, s)]
  /\ seqInit' = [seqInit EXCEPT ![c] = TRUE]
  /\ Goes(c, "sign")
  /\ UNCHANGED <<chainVars, late, callVars, tx, reports>>

\* Synchronised within the last 400 ms.
StartFresh(c) ==
  /\ pc[c] = "idle"
  /\ Pending(c)
  /\ seqInit[c]
  /\ Goes(c, "sign")
  /\ UNCHANGED <<chainVars, late, seqVars, callVars, tx, reports>>

\* The account query fails, or later the fees, the signing or the encoding.
NotSent(c) ==
  /\ pc[c] \in {"idle", "sign"}
  /\ Pending(c)
  /\ "query" \in Faults
  /\ Finish(c, "failed")
  /\ UNCHANGED <<chainVars, late, seqVars>>

\* The estimate may come from a simulation, so that it need not be the same in
\* every attempt.
Estimates(c) == {gas[c]} \union (IF "gas" \in Faults THEN {gas[c] + 1} ELSE {})

\* The simulation refreshes the sequence once more.
Sign(c) ==
  /\ pc[c] = "sign"
  /\ \E s \in {nextSeq[c]} \union {Refreshed(c, q) : q \in AccountSeqs}, g \in Estimates(c) :
       /\ nextSeq' = [nextSeq EXCEPT ![c] = s]
       /\ tx' = [tx EXCEPT ![c] = [seq |-> s, batch |-> CurrentBatch(c), gas |-> g]]
  /\ Goes(c, "broadcast")
  /\ UNCHANGED <<chainVars, late, seqInit, callVars, reports>>

BroadcastAccepted_Reports(c) ==
  /\ pc[c] = "broadcast"
  /\ Accepts(tx[c])
  /\ mempool' = Append(mempool, tx[c])
  /\ nextSeq' = [nextSeq EXCEPT ![c] = @ + 1]
  /\ Finish(c, "confirmed")
  /\ UNCHANGED <<chainSeq, delivered, credited, late, seqInit>>
BroadcastAccepted(c) ==
  /\ pc[c] = "broadcast"
  /\ Accepts(tx[c])
  /\ mempool' = Append(mempool, tx[c])
  /\ nextSeq' = [nextSeq EXCEPT ![c] = @ + 1]
  /\ Goes(c, "await")
  /\ UNCHANGED <<chainSeq, delivered, credited, late, seqInit, callVars, tx, reports>>

\* The chain names the sequence it expects; the call gives up at once.
BroadcastMismatch_SkipsExpected(c) ==
  /\ pc[c] = "broadcast"
  /\ SaysMismatch(tx[c])
  /\ nextSeq' = [nextSeq EXCEPT ![c] = CheckSeq + 1]
  /\ Finish(c, "mismatch")
  /\ UNCHANGED <<chainVars, late, seqInit>>
BroadcastMismatch_KeepsSequence(c) ==
  /\ pc[c] = "broadcast"
  /\ SaysMismatch(tx[c])
  /\ Finish(c, "mismatch")
  /\ UNCHANGED <<chainVars, late, seqVars>>
BroadcastMismatch_SignsAgain(c) ==
  /\ pc[c] = "broadcast"
  /\ SaysMismatch(tx[c])
  /\ nextSeq' = [nextSeq EXCEPT ![c] = CheckSeq]
  /\ Goes(c, "sign")
  /\ UNCHANGED <<chainVars, late, seqInit, callVars, tx, reports>>
BroadcastMismatch(c) ==
  /\ pc[c] = "broadcast"
  /\ SaysMismatch(tx[c])
  /\ nextSeq' = [nextSeq EXCEPT ![c] = CheckSeq]
  /\ Finish(c, "mismatch")
  /\ UNCHANGED <<chainVars, late, seqInit>>

BroadcastDuplicate(c) ==
  /\ pc[c] = "broadcast"
  /\ SaysDuplicate(tx[c])
  /\ Finish(c, "duplicate")
  /\ UNCHANGED <<chainVars, late, seqVars>>

\* The same bytes are known to the chain: wait for what becomes of them.
BroadcastCached(c) ==
  /\ pc[c] = "broadcast"
  /\ SaysCached(tx[c])
  /\ Goes(c, "awaitCached")
  /\ UNCHANGED <<chainVars, late, seqVars, callVars, tx, reports>>

BroadcastOutOfGas(c) ==
  /\ pc[c] = "broadcast"
  /\ "gas" \in Faults
  /\ ~Known(tx[c])
  /\ gas' = [gas EXCEPT ![c] = tx[c].gas + 1]
  /\ Goes(c, "retry")
  /\ UNCHANGED <<chainVars, late, seqVars, attempt, endpoint, tx, reports>>

BroadcastRejected(c) ==
  /\ pc[c] = "broadcast"
  /\ "rejected" \in Faults
  /\ ~Known(tx[c])
  /\ Goes(c, "retry")
  /\ UNCHANGED <<chainVars, late, seqVars, callVars, tx, reports>>

\* The broadcast returns a network error: it was lost, or only its answer was,
\* or it is still under way.
BroadcastUnanswered(c) ==
  /\ pc[c] = "broadcast"
  /\ \/ "lost" \in Faults /\ UNCHANGED <<chainVars, late>>
     \/ "unanswered" \in Faults /\ Arrives(tx[c]) /\ UNCHANGED late
     \/ "late" \in Faults /\ late' = late \union {tx[c]} /\ UNCHANGED chainVars
  /\ Goes(c, "detect")
  /\ UNCHANGED <<seqVars, callVars, tx, reports>>

\* After the error the client looks for the transaction among the delivered
\* ones.  nextSeq stays behind it.
DetectDelivered(c) ==
  /\ pc[c] = "detect"
  /\ Delivered(tx[c], TRUE)
  /\ Goes(c, "await")
  /\ UNCHANGED <<chainVars, late, seqVars, callVars, tx, reports>>

\* It is not there, or the look-up fails: it shares the broadcast's deadline,
\* so after a timeout it always does.
DetectNothing_Awaits(c) ==
  /\ pc[c] = "detect"
  /\ Goes(c, "await")
  /\ UNCHANGED <<chainVars, late, seqVars, callVars, tx, reports>>
DetectNothing(c) ==
  /\ pc[c] = "detect"
  /\ Goes(c, "retry")
  /\ UNCHANGED <<chainVars, late, seqVars, callVars, tx, reports>>

-----------------------------------------------------------------------------
(* Retries *)

\* Whether the account query of the forced refresh is answered or not.
Retry_OnceMore(c) ==
  /\ pc[c] = "retry"
  /\ attempt[c] <= MaxRetries
  /\ attempt' = [attempt EXCEPT ![c] = @ + 1]
  /\ nextSeq' = [nextSeq EXCEPT ![c] = chainSeq]
  /\ Goes(c, "sign")
  /\ UNCHANGED <<chainVars, late, seqInit, gas, endpoint, tx, reports>>
Retry_Uncounted(c) ==
  /\ pc[c] = "retry"
  /\ attempt[c] < MaxRetries
  /\ \/ \E s \in AccountSeqs : nextSeq' = [nextSeq EXCEPT ![c] = s]
     \/ "query" \in Faults /\ UNCHANGED nextSeq
  /\ Goes(c, "sign")
  /\ UNCHANGED <<chainVars, late, seqInit, gas, attempt, endpoint, tx, reports>>
Retry(c) ==
  /\ pc[c] = "retry"
  /\ attempt[c] < MaxRetries
  /\ attempt' = [attempt EXCEPT ![c] = @ + 1]
  /\ \/ \E s \in AccountSeqs : nextSeq' = [nextSeq EXCEPT ![c] = s]
     \/ "query" \in Faults /\ UNCHANGED nextSeq
  /\ Goes(c, "sign")
  /\ UNCHANGED <<chainVars, late, seqInit, gas, endpoint, tx, reports>>

\* Another endpoint gets a full round of attempts, without a refresh.
NextEndpoint(c) ==
  /\ pc[c] = "retry"
  /\ attempt[c] = MaxRetries
  /\ endpoint[c] + 1 < NumEndpoints
  /\ endpoint' = [endpoint EXCEPT ![c] = @ + 1]
  /\ attempt' = [attempt EXCEPT ![c] = 0]
  /\ Goes(c, "sign")
  /\ UNCHANGED <<chainVars, late, seqVars, gas, tx, reports>>

\* The rounds are used up, or there is no endpoint to switch to.
GiveUp(c) ==
  /\ pc[c] = "retry"
  /\ attempt[c] = MaxRetries
  /\ endpoint[c] + 1 >= NumEndpoints \/ "unreachable" \in Faults
  /\ Finish(c, "failed")
  /\ UNCHANGED <<chainVars, late, seqVars>>

-----------------------------------------------------------------------------
(* Waiting for the delivered result *)

\* The polls may end without a result, and do when there will be none.
NoResult(t) == "slow" \in Faults \/ ~(Known(t) \/ Delivered(t, FALSE))

CachedConfirmed(c) ==
  /\ pc[c] = "awaitCached"
  /\ Delivered(tx[c], TRUE)
  /\ nextSeq' = [nextSeq EXCEPT ![c] = @ + 1]
  /\ Goes(c, "await")
  /\ UNCHANGED <<chainVars, late, seqInit, callVars, tx, reports>>

CachedNotConfirmed(c) ==
  /\ pc[c] = "awaitCached"
  /\ Delivered(tx[c], FALSE) \/ NoResult(tx[c]) \/ "cancel" \in Faults
  /\ Goes(c, "retry")
  /\ UNCHANGED <<chainVars, late, seqVars, callVars, tx, reports>>

AwaitConfirmed(c) ==
  /\ pc[c] = "await"
  /\ Delivered(tx[c], TRUE)
  /\ Finish(c, "confirmed")
  /\ UNCHANGED <<chainVars, late, seqVars>>

AwaitRefused(c) ==
  /\ pc[c] = "await"
  /\ Delivered(tx[c], FALSE)
  /\ Finish(c, "refused")
  /\ UNCHANGED <<chainVars, late, seqVars>>

AwaitTimesOut_KeepsPolling(c) ==
  /\ pc[c] = "await"
  /\ NoResult(tx[c])
  /\ UNCHANGED vars
AwaitTimesOut(c) ==
  /\ pc[c] = "await"
  /\ NoResult(tx[c])
  /\ Finish(c, "unconfirmed")
  /\ UNCHANGED <<chainVars, late, seqVars>>

\* The miner shuts down: the batch is reported failed whatever becomes of it.
AwaitCancelled(c) ==
  /\ pc[c] = "await"
  /\ "cancel" \in Faults
  /\ Finish(c, "failed")
  /\ UNCHANGED <<chainVars, late, seqVars>>

-----------------------------------------------------------------------------
Call(c) ==
  \/ StartRefreshed(c) \/ StartFresh(c) \/ NotSent(c)
  \/ Sign(c)
  \/ BroadcastAccepted(c) \/ BroadcastMismatch(c) \/ BroadcastDuplicate(c)
  \/ BroadcastCached(c) \/ BroadcastOutOfGas(c) \/ BroadcastRejected(c)
  \/ BroadcastUnanswered(c) \/ DetectDelivered(c) \/ DetectNothing(c)
  \/ Retry(c) \/ NextEndpoint(c) \/ GiveUp(c)
  \/ CachedConfirmed(c) \/ CachedNotConfirmed(c)
  \/ AwaitConfirmed(c) \/ AwaitRefused(c) \/ AwaitTimesOut(c)

\* All calls have returned and nothing is under way to the chain.
Settled ==
  /\ \A c \in Clients : pc[c] = "idle" /\ ~Pending(c)
  /\ mempool = <<>>
  /\ late = {}

Done == Settled /\ UNCHANGED vars

Next ==
  \/ \E ok \in BOOLEAN : Deliver(ok)
  \/ \E i \in 1 .. Len(mempool) : Evict(i)
  \/ \E t \in late : LateArrival(t)
  \/ \E c \in Clients : Call(c) \/ AwaitCancelled(c)
  \/ Done

Spec == Init /\ [][Next]_vars

\* The client's steps are taken: its calls are answered or fail, and its waits
\* are bounded.  Nobody has to shut it down.  The chain delivers what it has
\* admitted.
FairSpec ==
  /\ Spec
  /\ \A c \in Clients : WF_vars(Call(c))
  /\ WF_vars(\E ok \in BOOLEAN : Deliver(ok))

-----------------------------------------------------------------------------
(* Properties *)

Verdicts == {"confirmed", "unconfirmed", "mismatch", "duplicate", "refused", "failed"}
Transactions == [seq : Nat, batch : SUBSET Licenses, gas : Nat]

\* What the chain and the network hold: the mempool has consecutive sequences
\* from the committed one on, what is delivered has lower ones.
ChainTypeOK ==
  /\ chainSeq \in Nat
  /\ mempool \in Seq(Transactions)
  /\ \A i \in 1 .. Len(mempool) : mempool[i].seq = chainSeq + i - 1
  /\ delivered \subseteq [tx : Transactions, ok : BOOLEAN]
  /\ \A d \in delivered : d.tx.seq < chainSeq
  /\ credited \subseteq Licenses
  /\ late \subseteq Transactions

ClientTypeOK ==
  /\ pc \in [Clients -> {"idle", "sign", "broadcast", "detect", "retry",
                         "awaitCached", "await"}]
  /\ seqInit \in [Clients -> BOOLEAN]
  /\ nextSeq \in [Clients -> Nat]
  /\ gas \in [Clients -> Nat]
  /\ attempt \in [Clients -> 0 .. MaxRetries]
  /\ endpoint \in [Clients -> 0 .. NumEndpoints - 1]
  /\ tx \in [Clients -> Transactions]
  /\ reports \in [Clients -> Seq(Verdicts)]

\* A call under way has a batch; what it has signed carries that batch, and,
\* while the answer is open, the sequence the client still holds.
CallOK(c) ==
  /\ pc[c] # "idle" => Pending(c)
  /\ pc[c] \in {"broadcast", "awaitCached"} => tx[c].seq = nextSeq[c]
  /\ pc[c] \in {"broadcast", "detect", "awaitCached", "await"}
       => tx[c].batch = CurrentBatch(c)

\* Types, the order of the mempool, and what a signed transaction carries.
TxTypeOK ==
  /\ ChainTypeOK
  /\ ClientTypeOK
  /\ \A c \in Clients : CallOK(c)

\* The sequence a client would sign with is never ahead of the one the chain
\* expects, whatever is lost or retried, as long as the mempool keeps what it
\* admits (chain.go:302-313, transactions.go:231, 239, 254).
NeverAhead == "evicted" \notin Faults => \A c \in Clients : nextSeq[c] <= CheckSeq

\* A batch reported as confirmed has been credited: CheckTx alone is not taken
\* for success (transactions.go:57-64).
ConfirmedIsCredited ==
  \A c \in Clients : \A i \in 1 .. Len(reports[c]) :
    reports[c][i] = "confirmed" => Batches[c][i] \subseteq credited

\* A batch counted as submitted because its confirmation timed out has at least
\* been admitted to the mempool, and is still there or delivered unless the
\* mempool drops what it admits (manager.go:417-426).
UnconfirmedWasAdmitted ==
  "evicted" \notin Faults => \A c \in Clients : \A i \in 1 .. Len(reports[c]) :
    reports[c][i] = "unconfirmed"
      => \/ \E t \in InMempool : t.batch = Batches[c][i]
         \/ \E d \in delivered : d.tx.batch = Batches[c][i]

\* The batches submitted with the key are not empty and all differ.
BatchesDiffer ==
  \A c, d \in Clients : \A i \in 1 .. Len(Batches[c]), j \in 1 .. Len(Batches[d]) :
    /\ Batches[c][i] # {}
    /\ Batches[c][i] = Batches[d][j] => c = d /\ i = j

\* However often a client signs and sends a batch again, the mempool never holds
\* two of its transactions for it, also when requests arrive late and replicas
\* use up sequences in between: work is signed with a second sequence only when
\* the first transaction for it is off the mempool.  That rests on a mismatch
\* ending the call and on refreshes that see only what is committed
\* (transactions.go:226-270); a mempool that drops what it has admitted breaks
\* it.
OnePendingTransaction ==
  BatchesDiffer /\ "evicted" \notin Faults =>
    \A t, u \in InMempool : t.batch = u.batch => t = u

\* The mempool may drop what it has admitted, and then a client's sequence is
\* ahead.  A call that the chain has turned down does not leave it there: the
\* mismatch that ends it, or the refresh before its last attempt, has taken it
\* back, so that one batch is lost to the gap and not the next one too
\* (transactions.go:231-270).  This rests on account queries that are answered
\* and on at least one retry; the answer "duplicate" names no sequence.
RejectedCallResyncs ==
  [][ "query" \notin Faults /\ MaxRetries > 0 =>
        \A c \in Clients :
          pc[c] \in {"broadcast", "retry"} /\ pc'[c] = "idle"
            => \/ nextSeq'[c] <= CheckSeq'
               \/ reports'[c] = Append(reports[c], "duplicate") ]_vars

\* Every call of BatchSubmitWork returns (manager.go:398): retries, endpoints
\* and waits are all bounded.
EveryCallReturns == \A c \in Clients : pc[c] # "idle" ~> pc[c] = "idle"

\* What the callers are promised.
Contract == INSTANCE SubmitContract WITH
              Clients <- Clients, Licenses <- Licenses, Batches <- Batches,
              credited <- credited, reports <- reports
ImplementsContract == Contract!Spec

=============================================================================
