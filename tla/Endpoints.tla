----------------------------- MODULE Endpoints -----------------------------
(***************************************************************************)
(* The gRPC endpoints of ChainClient: one connection shared by all         *)
(* queries, moved to the next endpoint when one fails, and a pool of       *)
(* further connections over which the highest epoch is asked of all        *)
(* endpoints at once.                                                      *)
(*                                                                         *)
(* A goroutine either runs queryWithEndpointRotation or asks for the       *)
(* highest epoch.  NewMinerManager runs two rotating queries at once;      *)
(* later the processor alone rotates, while it and the monitor ask.  A     *)
(* call under way fails when its connection is closed by somebody else.    *)
(* Whether an endpoint answers is external.                                *)
(***************************************************************************)
EXTENDS Naturals, Sequences

CONSTANTS
  Goroutines,   \* the goroutines that use the client
  Rotating,     \* those that run queries with rotation, and that main waits for
  Asking,       \* those that ask for the current epoch
  Configured,   \* the endpoints in the order of the configuration
  Situations,   \* which endpoints may be flaky, and which undialable
  MaxRetries    \* rpcMaxRetries

Positions == 1 .. Len(Configured)
Endpoint == {Configured[i] : i \in Positions}

ASSUME GoroutinesAssumption == Rotating \subseteq Goroutines /\ Asking \subseteq Goroutines
ASSUME ConfiguredAssumption ==
  /\ Configured \in Seq(Endpoint)
  /\ Len(Configured) > 0
  /\ \A i, j \in Positions : Configured[i] = Configured[j] => i = j
\* NewChainClient returns no client when its first endpoint cannot be dialed.
ASSUME SituationsAssumption ==
  Situations \subseteq [flaky : SUBSET Endpoint, undialable : SUBSET (Endpoint \ {Configured[1]})]
ASSUME MaxRetriesAssumption == MaxRetries \in Nat \ {0}

VARIABLES
  flaky,      \* the endpoints that may fail a call
  undialable, \* the endpoints for which newGRPCConn returns an error
  list,       \* grpcEndpoints, the current endpoint first
  connected,  \* the endpoint grpcConn and the clients on it lead to
  open,       \* how many connections outside the pool are open to each endpoint
  pool,       \* the endpoints with a connection in epochQueryConns
  openPool,   \* how many pooled connections are open to each endpoint
  shutdown,   \* the progress of Close
  ctxDone,    \* the miner's context has been cancelled
  pc,         \* where each goroutine is
  round,      \* the rounds its query has completed
  tries,      \* the calls of this round that have failed
  cut,        \* the connection of its call has been closed by another goroutine
  failedAt,   \* history: the endpoints at which its query has completed a round
  primary,    \* the endpoint primaryQueryClient leads to
  snapshot,   \* the copy of grpcEndpoints an epoch question works on
  part,       \* the goroutine per endpoint of an epoch question
  partTries   \* the calls it has made in vain

faultVars == <<flaky, undialable>>
sharedVars == <<list, connected, open>>
poolVars == <<pool, openPool>>
connVars == <<sharedVars, poolVars>>
phaseVars == <<shutdown, ctxDone>>
queryVars == <<cut, round, tries, failedAt>>
questionVars == <<primary, snapshot>>
outsideParts == <<faultVars, sharedVars, phaseVars, pc, queryVars, questionVars>>
askVars == <<questionVars, part, partTries>>
vars == <<faultVars, connVars, phaseVars, pc, queryVars, askVars>>

NoParts == [i \in Positions |-> "none"]
NoTries == [i \in Positions |-> 0]

Init ==
  /\ \E s \in Situations : flaky = s.flaky /\ undialable = s.undialable
  /\ list = Configured
  /\ connected = Configured[1]
  /\ open = [e \in Endpoint |-> IF e = connected THEN 1 ELSE 0]
  /\ pool = {}
  /\ openPool = [e \in Endpoint |-> 0]
  /\ shutdown = "no"
  /\ ctxDone = FALSE
  /\ pc = [g \in Goroutines |-> "idle"]
  /\ round = [g \in Goroutines |-> 0]
  /\ tries = [g \in Goroutines |-> 0]
  /\ cut = [g \in Goroutines |-> FALSE]
  /\ failedAt = [g \in Goroutines |-> {}]
  /\ primary = [g \in Goroutines |-> Configured[1]]
  /\ snapshot = [g \in Goroutines |-> Configured]
  /\ part = [g \in Goroutines |-> NoParts]
  /\ partTries = [g \in Goroutines |-> NoTries]

Goes(g, place) == pc' = [pc EXCEPT ![g] = place]

\* A query returns; its local variables go with it.
QueryEnds(g) ==
  /\ Goes(g, "idle")
  /\ round' = [round EXCEPT ![g] = 0]
  /\ tries' = [tries EXCEPT ![g] = 0]
  /\ failedAt' = [failedAt EXCEPT ![g] = {}]

MayFail(e) == e \in flaky \/ ctxDone

-----------------------------------------------------------------------------
(* queryWithEndpointRotation *)

\* With a single endpoint the epoch is queried in this way too.
MayRotate(g) == g \in Rotating \/ (g \in Asking /\ Len(Configured) = 1)

QueryBegins(g) ==
  /\ pc[g] = "idle"
  /\ MayRotate(g)
  /\ cut' = [cut EXCEPT ![g] = shutdown # "no"]
  /\ Goes(g, "calling")
  /\ UNCHANGED <<faultVars, connVars, phaseVars, round, tries, failedAt, askVars>>

QueryAnswered(g) ==
  /\ pc[g] = "calling"
  /\ ~cut[g]
  /\ ~ctxDone
  /\ QueryEnds(g)
  /\ UNCHANGED <<faultVars, connVars, phaseVars, cut, askVars>>

\* A call fails; the next one goes over whatever connection is then current.
\* After the last one the endpoint is given up, whether or not it is still the
\* one the calls went to.
CallFails(g) ==
  /\ pc[g] = "calling"
  /\ ~ctxDone
  /\ cut[g] \/ MayFail(connected)
  /\ cut' = [cut EXCEPT ![g] = shutdown # "no"]
  /\ IF tries[g] + 1 < MaxRetries
     THEN /\ tries' = [tries EXCEPT ![g] = @ + 1]
          /\ UNCHANGED <<pc, failedAt>>
     ELSE /\ tries' = [tries EXCEPT ![g] = 0]
          /\ failedAt' = [failedAt EXCEPT ![g] = @ \union {connected}]
          /\ Goes(g, "switching")
  /\ UNCHANGED <<faultVars, connVars, phaseVars, round, askVars>>

QueryCancelled(g) ==
  /\ pc[g] = "calling"
  /\ ctxDone
  /\ cut' = [cut EXCEPT ![g] = FALSE]
  /\ QueryEnds(g)
  /\ UNCHANGED <<faultVars, connVars, phaseVars, askVars>>

-----------------------------------------------------------------------------
(* switchToNextGRPCEndpoint *)

\* The offset of the first endpoint behind the current one that can be dialed.
Offsets == {k \in 1 .. Len(list) - 1 : list[k + 1] \notin undialable}
Least(k, S) == k \in S /\ \A j \in S : k <= j

RotatedBy_Forgets(k) == SubSeq(list, k + 1, Len(list)) \o <<Head(list)>>
RotatedBy(k) == SubSeq(list, k + 1, Len(list)) \o SubSeq(list, 1, k)

\* Everybody whose call is on the shared connection sees it fail: queries, and
\* the primary part of an epoch question.
SharedCut_AllParts ==
  /\ cut' = [g \in Goroutines |-> cut[g] \/ pc[g] = "calling"]
  /\ part' = [g \in Goroutines |-> [i \in Positions |->
                IF part[g][i] = "calling" THEN "cut" ELSE part[g][i]]]
SharedCut ==
  /\ cut' = [g \in Goroutines |-> cut[g] \/ pc[g] = "calling"]
  /\ part' = [g \in Goroutines |->
                [part[g] EXCEPT ![1] = IF @ = "calling" THEN "cut" ELSE @]]

Reconnected(k) ==
  /\ connected' = list[k + 1]
  /\ open' = [e \in Endpoint |-> open[e] + (IF e = list[k + 1] THEN 1 ELSE 0)
                                         - (IF e = connected THEN 1 ELSE 0)]

RoundsLeft_StopsAtSwitch(g) == FALSE
RoundsLeft(g) == round[g] + 1 < Len(list)

\* The switch after a round, the last one included.
Switch(g) ==
  /\ pc[g] = "switching"
  /\ \E k \in Offsets : Least(k, Offsets) /\ list' = RotatedBy(k) /\ Reconnected(k)
  /\ SharedCut
  /\ IF RoundsLeft(g)
     THEN /\ round' = [round EXCEPT ![g] = @ + 1]
          /\ Goes(g, "calling")
          /\ UNCHANGED <<tries, failedAt>>
     ELSE QueryEnds(g)
  /\ UNCHANGED <<faultVars, poolVars, phaseVars, questionVars, partTries>>

\* There is no other endpoint, or none that can be dialed.
SwitchFails(g) ==
  /\ pc[g] = "switching"
  /\ Offsets = {}
  /\ QueryEnds(g)
  /\ UNCHANGED <<faultVars, connVars, phaseVars, cut, askVars>>

-----------------------------------------------------------------------------
(* getHighestCurrentEpoch *)

\* Where part i of the question of g is sent.
Target_Current(g, i) == IF i = 1 THEN connected ELSE snapshot[g][i]
Target(g, i) == IF i = 1 THEN primary[g] ELSE snapshot[g][i]

\* List and primary client are read under one lock.
AskBegins(g) ==
  /\ pc[g] = "idle"
  /\ g \in Asking
  /\ Len(list) > 1
  /\ snapshot' = [snapshot EXCEPT ![g] = list]
  /\ primary' = [primary EXCEPT ![g] = connected]
  /\ part' = [part EXCEPT ![g] = [i \in Positions |->
                 IF i > 1 THEN "dial" ELSE IF shutdown = "no" THEN "calling" ELSE "cut"]]
  /\ partTries' = [partTries EXCEPT ![g] = NoTries]
  /\ Goes(g, "asking")
  /\ UNCHANGED <<faultVars, connVars, phaseVars, queryVars>>

PartGoes(g, i, place) == part' = [part EXCEPT ![g][i] = place]

\* getEpochQueryClient, under epochMu.
MayDial_AfterClose(e) == e \notin undialable
MayDial(e) == shutdown # "closed" /\ e \notin undialable

PartReuses(g, i) ==
  /\ part[g][i] = "dial"
  /\ shutdown # "closed"
  /\ Target(g, i) \in pool
  /\ PartGoes(g, i, "calling")
  /\ UNCHANGED <<outsideParts, poolVars, partTries>>

PartDials(g, i) ==
  /\ part[g][i] = "dial"
  /\ Target(g, i) \notin pool
  /\ MayDial(Target(g, i))
  /\ pool' = pool \union {Target(g, i)}
  /\ openPool' = [openPool EXCEPT ![Target(g, i)] = @ + 1]
  /\ PartGoes(g, i, "calling")
  /\ UNCHANGED <<outsideParts, partTries>>

PartCannotDial_KeepsDialing(g, i) ==
  /\ part[g][i] = "dial"
  /\ Target(g, i) \notin pool
  /\ ~MayDial(Target(g, i))
  /\ UNCHANGED vars
PartCannotDial(g, i) ==
  /\ part[g][i] = "dial"
  /\ Target(g, i) \notin pool
  /\ ~MayDial(Target(g, i))
  /\ PartGoes(g, i, "failed")
  /\ UNCHANGED <<outsideParts, poolVars, partTries>>

PartAnswered(g, i) ==
  /\ part[g][i] = "calling"
  /\ ~ctxDone
  /\ PartGoes(g, i, "answered")
  /\ UNCHANGED <<outsideParts, poolVars, partTries>>

\* All retries of a part go over the connection it began with.
PartFails(g, i) ==
  /\ part[g][i] = "cut" \/ (part[g][i] = "calling" /\ MayFail(Target(g, i)))
  /\ IF ctxDone \/ partTries[g][i] + 1 = MaxRetries
     THEN PartGoes(g, i, "failed") /\ UNCHANGED partTries
     ELSE /\ partTries' = [partTries EXCEPT ![g][i] = @ + 1]
          /\ UNCHANGED part
  /\ UNCHANGED <<outsideParts, poolVars>>

\* The results channel is closed once all parts have sent theirs.
AskEnds(g) ==
  /\ pc[g] = "asking"
  /\ \A i \in Positions : part[g][i] \in {"answered", "failed"}
  /\ Goes(g, "idle")
  /\ part' = [part EXCEPT ![g] = NoParts]
  /\ partTries' = [partTries EXCEPT ![g] = NoTries]
  /\ primary' = [primary EXCEPT ![g] = Configured[1]]
  /\ snapshot' = [snapshot EXCEPT ![g] = Configured]
  /\ UNCHANGED <<faultVars, connVars, phaseVars, queryVars>>

-----------------------------------------------------------------------------
(* Shutdown: main closes the client when Start has returned, which does not
   wait for the monitor. *)

Cancel ==
  /\ ~ctxDone
  /\ ctxDone' = TRUE
  /\ UNCHANGED <<faultVars, connVars, shutdown, pc, queryVars, askVars>>

Return(g) ==
  /\ ctxDone
  /\ pc[g] = "idle"
  /\ Goes(g, "returned")
  /\ UNCHANGED <<faultVars, connVars, phaseVars, queryVars, askVars>>

\* Close releases endpointMu between the shared connection and the pool.
CloseShared ==
  /\ shutdown = "no"
  /\ \A g \in Rotating : pc[g] = "returned"
  /\ ctxDone
  /\ shutdown' = "closing"
  /\ open' = [open EXCEPT ![connected] = @ - 1]
  /\ SharedCut
  /\ UNCHANGED <<faultVars, list, connected, poolVars, ctxDone, pc, round, tries,
                 failedAt, questionVars, partTries>>

ClosePool ==
  /\ shutdown = "closing"
  /\ shutdown' = "closed"
  /\ pool' = {}
  /\ openPool' = [e \in Endpoint |-> openPool[e] - (IF e \in pool THEN 1 ELSE 0)]
  /\ part' = [g \in Goroutines |-> [i \in Positions |->
                IF part[g][i] = "calling" THEN "cut" ELSE part[g][i]]]
  /\ UNCHANGED <<faultVars, sharedVars, ctxDone, pc, queryVars, questionVars,
                 partTries>>

\* main has returned; a goroutine it did not wait for ends with the process.
Exited ==
  /\ shutdown = "closed"
  /\ UNCHANGED vars

-----------------------------------------------------------------------------
Query(g) ==
  \/ QueryAnswered(g) \/ CallFails(g) \/ QueryCancelled(g)
  \/ Switch(g) \/ SwitchFails(g)

Part(g, i) ==
  \/ PartReuses(g, i) \/ PartDials(g, i) \/ PartCannotDial(g, i)
  \/ PartAnswered(g, i) \/ PartFails(g, i)

Next ==
  \/ \E g \in Goroutines :
       \/ QueryBegins(g) \/ Query(g)
       \/ AskBegins(g) \/ (\E i \in Positions : Part(g, i)) \/ AskEnds(g)
       \/ Return(g)
  \/ Cancel \/ CloseShared \/ ClosePool \/ Exited

Spec == Init /\ [][Next]_vars

\* Goroutines run, and every call is answered or fails.
FairSpec ==
  /\ Spec
  /\ \A g \in Goroutines :
       /\ WF_vars(Query(g))
       /\ WF_vars(AskEnds(g))
       /\ \A i \in Positions : WF_vars(Part(g, i))

-----------------------------------------------------------------------------
(* Properties *)

PartStates == {"none", "dial", "calling", "cut", "answered", "failed"}

\* Types; the list keeps every configured endpoint, each once.
EndpointsTypeOK ==
  /\ flaky \subseteq Endpoint
  /\ undialable \subseteq Endpoint
  /\ list \in Seq(Endpoint) /\ Len(list) = Len(Configured)
  /\ {list[i] : i \in Positions} = Endpoint
  /\ \A i, j \in Positions : list[i] = list[j] => i = j
  /\ connected \in Endpoint
  /\ open \in [Endpoint -> Nat]
  /\ pool \subseteq Endpoint
  /\ openPool \in [Endpoint -> Nat]
  /\ shutdown \in {"no", "closing", "closed"}
  /\ ctxDone \in BOOLEAN
  /\ pc \in [Goroutines -> {"idle", "calling", "switching", "asking", "returned"}]
  /\ round \in [Goroutines -> 0 .. Len(Configured) - 1]
  /\ tries \in [Goroutines -> 0 .. MaxRetries - 1]
  /\ cut \in [Goroutines -> BOOLEAN]
  /\ failedAt \in [Goroutines -> SUBSET Endpoint]
  /\ primary \in [Goroutines -> Endpoint]
  /\ snapshot \in [Goroutines -> Seq(Endpoint)]
  /\ part \in [Goroutines -> [Positions -> PartStates]]
  /\ partTries \in [Goroutines -> [Positions -> 0 .. MaxRetries - 1]]

\* Whatever switches, questions and Close do at once, every connection is
\* accounted for: one shared connection, to the endpoint at the head of the
\* list, one pooled connection per endpoint in the pool, and after Close none
\* at all (chain.go:145-163, 529-567, queries.go:155-176).
ConnectionsAccounted ==
  /\ connected = list[1]
  /\ open = [e \in Endpoint |-> IF e = connected /\ shutdown = "no" THEN 1 ELSE 0]
  /\ openPool = [e \in Endpoint |-> IF e \in pool THEN 1 ELSE 0]
  /\ shutdown = "closed" => pool = {}

\* An epoch question is put to every configured endpoint, each once, although
\* the list may rotate before its parts are sent: without that, the highest
\* epoch would be the highest of some (queries.go:94-126).
AsksEveryEndpoint ==
  \A g \in Goroutines : pc[g] = "asking" =>
    {Target(g, i) : i \in Positions} = Endpoint

\* While nobody cancels, an epoch question fails only if no endpoint is
\* healthy, or the only one is that of the shared connection, which a rotation
\* may close under it.
Healthy == Endpoint \ (flaky \union undialable)
FailedAskHadNoChoice ==
  [][ \A g \in Goroutines :
        AskEnds(g) /\ ~ctxDone /\ (\A i \in Positions : part[g][i] = "failed")
          => Healthy \subseteq {primary[g]} ]_vars

\* A query of the only rotating goroutine gives up only when every endpoint
\* that can be dialed has failed it for a whole round (queries.go:21-43).
GivesUp(g) == pc[g] = "switching" /\ pc'[g] = "idle"
SoleRotator == \A g, h \in Goroutines : MayRotate(g) /\ MayRotate(h) => g = h
FailedQueryTriedAll ==
  [][ SoleRotator => \A g \in Goroutines : GivesUp(g)
        => Endpoint \subseteq failedAt[g] \union undialable ]_vars

\* Every query and every question comes to an end (queries.go:26-42, 128-153).
QueriesEnd ==
  \A g \in Goroutines :
    pc[g] \in {"calling", "switching", "asking"} ~> pc[g] \in {"idle", "returned"}

\* "gRPC endpoint(s), comma-separated for fallback" (README.md:70): a query
\* that is not cancelled fails only when no endpoint is healthy.
FallbackIsUsed ==
  [][ \A g \in Goroutines : GivesUp(g) => Healthy = {} ]_vars
=============================================================================
