------------------------------ MODULE Licenses ------------------------------
(***************************************************************************)
(* Which licenses the miner finds.                                         *)
(*                                                                         *)
(* GetDelegatedLicenses fetches page after page, each from the key that    *)
(* the page before it named; the set changes meanwhile, and after an       *)
(* endpoint has failed the next page comes from another one, whose view    *)
(* may be older.  GetOwnedLicenses asks for the balance and then, at most  *)
(* maxConcurrency calls at a time, for the license at each index, each on  *)
(* the endpoint that is current when it is made.  NewMinerManager runs     *)
(* both at once, so the rotation of either moves the other; processEpoch   *)
(* lists the delegated licenses again for every epoch.                     *)
(*                                                                         *)
(* The chain is external.  A page holds the first licenses at or above its *)
(* key; a key is the license it stands for.                                *)
(***************************************************************************)
EXTENDS Naturals, Sequences, FiniteSets

CONSTANTS
  License,         \* license ids
  Endpoints,       \* the gRPC endpoints
  Limit,           \* the page limit, 1000 in the code
  MaxConcurrency,  \* maxConcurrency, 10 in the code
  MaxBalance,      \* bound on the licenses the address owns
  Worlds,          \* what the chain may show at first
  Transfers,       \* what an endpoint's holding may change to
  MaxChanges       \* bound on the changes of the chain

ASSUME LicenseAssumption == License \subseteq Nat \ {0} /\ IsFiniteSet(License)
ASSUME LimitAssumption == Limit \in Nat \ {0}
ASSUME ConcurrencyAssumption == MaxConcurrency \in Nat \ {0}
ASSUME BoundsAssumption == MaxBalance \in Nat /\ MaxChanges \in Nat

Holdings == UNION {[1 .. n -> License] : n \in 0 .. MaxBalance}
ASSUME WorldsAssumption ==
  /\ Worlds \subseteq [view : [Endpoints -> SUBSET License], holding : [Endpoints -> Holdings]]
  /\ Transfers \subseteq Holdings

VARIABLES
  view,        \* per endpoint, the licenses it says are delegated
  holding,     \* per endpoint, the licenses it says the address owns, by index
  changes,     \* how many times the chain has changed
  listPc,      \* where GetDelegatedLicenses is
  nextKey,     \* its nextKey, 0 for none
  listed,      \* its allLicenses: how often it holds each license
  always,      \* history: the licenses all views have shown since it began
  ever,        \* history: the licenses some view has shown since it began
  ownPc,       \* where GetOwnedLicenses is
  call,        \* the goroutine for each index
  resultsChan, \* its results, NoLicense for an error
  owned,       \* the licenses collected
  held,        \* history: what some endpoint has had at each index since it began
  phase,       \* "starting" in NewMinerManager, then "mining"
  known        \* the licenses with statistics, the keys of LicenseStats

chainVars == <<view, holding, changes>>
listVars == <<listPc, nextKey, listed, always, ever>>
ownVars == <<ownPc, call, resultsChan, owned, held>>
startVars == <<phase, known>>
vars == <<chainVars, listVars, ownVars, startVars>>

NoLicense == 0
Index == 1 .. MaxBalance
NoneListed == [l \in License |-> 0]
NoCalls == [i \in Index |-> "none"]

InAll(v) == {l \in License : \A e \in Endpoints : l \in v[e]}
InSome(v) == {l \in License : \E e \in Endpoints : l \in v[e]}

At(e, i) == IF i \in DOMAIN holding[e] THEN holding[e][i] ELSE NoLicense
Shown(i) == {At(e, i) : e \in Endpoints}

Init ==
  /\ \E w \in Worlds : view = w.view /\ holding = w.holding
  /\ changes = 0
  /\ listPc = "paging" /\ nextKey = 0 /\ listed = NoneListed
  /\ always = InAll(view) /\ ever = InSome(view)
  /\ ownPc = "balance"
  /\ call = NoCalls
  /\ resultsChan = <<>>
  /\ owned = {}
  /\ held = [i \in Index |-> Shown(i)]
  /\ phase = "starting"
  /\ known = {}

-----------------------------------------------------------------------------
(* The chain *)

Delegation(e, l) ==
  /\ changes < MaxChanges
  /\ changes' = changes + 1
  /\ view' = [view EXCEPT ![e] = IF l \in @ THEN @ \ {l} ELSE @ \union {l}]
  /\ always' = always \intersect InAll(view')
  /\ ever' = ever \union InSome(view')
  /\ UNCHANGED <<holding, listPc, nextKey, listed, ownVars, startVars>>

\* An endpoint learns of a transfer.
Transfer(e, h) ==
  /\ changes < MaxChanges
  /\ h # holding[e]
  /\ changes' = changes + 1
  /\ holding' = [holding EXCEPT ![e] = h]
  /\ held' = IF phase = "starting" THEN [i \in Index |-> held[i] \union Shown(i)'] ELSE held
  /\ UNCHANGED <<view, listVars, ownPc, call, resultsChan, owned, startVars>>

-----------------------------------------------------------------------------
(* GetDelegatedLicenses *)

\* The licenses of endpoint e from the key on, and those of them that fit on
\* the page.
From(e) == {l \in view[e] : nextKey <= l}
Page(e) == {l \in From(e) : Cardinality({m \in From(e) : m < l}) < Limit}
Rest(e) == From(e) \ Page(e)

\* Paging by position instead: as many licenses are skipped as were listed.
PageAnswered_ByOffset(e) ==
  LET skipped == Cardinality({l \in License : listed[l] > 0})
      page == {l \in view[e] : Cardinality({m \in view[e] : m < l})
                                 \in skipped .. skipped + Limit - 1}
  IN  /\ listPc = "paging"
      /\ listed' = [l \in License |-> listed[l] + (IF l \in page THEN 1 ELSE 0)]
      /\ listPc' = IF page = {} THEN "listed" ELSE "paging"
      /\ UNCHANGED <<nextKey, chainVars, always, ever, ownVars, startVars>>
PageAnswered(e) ==
  /\ listPc = "paging"
  /\ listed' = [l \in License |-> listed[l] + (IF l \in Page(e) THEN 1 ELSE 0)]
  /\ IF Rest(e) = {}
     THEN listPc' = "listed" /\ nextKey' = 0
     ELSE /\ listPc' = "paging"
          /\ \E k \in Rest(e) : (\A l \in Rest(e) : k <= l) /\ nextKey' = k
  /\ UNCHANGED <<chainVars, always, ever, ownVars, startVars>>

\* No endpoint answers: the pages already there are dropped.
PageFails ==
  /\ listPc = "paging"
  /\ listPc' = "failed"
  /\ nextKey' = 0
  /\ listed' = NoneListed
  /\ UNCHANGED <<chainVars, always, ever, ownVars, startVars>>

-----------------------------------------------------------------------------
(* GetOwnedLicenses *)

BalanceAnswered(e) ==
  /\ ownPc = "balance"
  /\ IF holding[e] = <<>>
     THEN ownPc' = "done" /\ UNCHANGED call
     ELSE /\ ownPc' = "collecting"
          /\ call' = [i \in Index |-> IF i <= Len(holding[e]) THEN "waiting" ELSE "none"]
  /\ UNCHANGED <<chainVars, listVars, resultsChan, owned, held, startVars>>

BalanceFails ==
  /\ ownPc = "balance"
  /\ ownPc' = "failed"
  /\ UNCHANGED <<chainVars, listVars, call, resultsChan, owned, held, startVars>>

Asking == {i \in Index : call[i] = "asking"}

Acquire(i) ==
  /\ call[i] = "waiting"
  /\ Cardinality(Asking) < MaxConcurrency
  /\ call' = [call EXCEPT ![i] = "asking"]
  /\ UNCHANGED <<chainVars, listVars, ownPc, resultsChan, owned, held, startVars>>

\* The result is sent before the place is released.
TokenReplied(i, id) ==
  /\ call[i] = "asking"
  /\ resultsChan' = Append(resultsChan, [index |-> i, id |-> id])
  /\ call' = [call EXCEPT ![i] = IF id = NoLicense THEN "failed" ELSE "answered"]
  /\ UNCHANGED <<chainVars, listVars, ownPc, owned, held, startVars>>

\* The call is not repeated and does not rotate; beyond the end of the list it
\* fails.
TokenAnswered(e, i) == At(e, i) # NoLicense /\ TokenReplied(i, At(e, i))
TokenFails(i) == TokenReplied(i, NoLicense)

Collect ==
  /\ ownPc = "collecting"
  /\ resultsChan # <<>>
  /\ owned' = IF Head(resultsChan).id = NoLicense
              THEN owned ELSE owned \union {Head(resultsChan).id}
  /\ resultsChan' = Tail(resultsChan)
  /\ UNCHANGED <<chainVars, listVars, ownPc, call, held, startVars>>

\* The channel is closed once every goroutine has sent its result.
CollectEnds_NeedsAnswers ==
  /\ ownPc = "collecting"
  /\ resultsChan = <<>>
  /\ \A i \in Index : call[i] \notin {"waiting", "asking"}
  /\ IF \E i \in Index : call[i] = "failed" THEN UNCHANGED ownPc ELSE ownPc' = "done"
  /\ UNCHANGED <<chainVars, listVars, call, resultsChan, owned, held, startVars>>
CollectEnds_Early ==
  /\ ownPc = "collecting"
  /\ resultsChan = <<>>
  /\ \A i \in Index : call[i] # "asking"
  /\ ownPc' = "done"
  /\ UNCHANGED <<chainVars, listVars, call, resultsChan, owned, held, startVars>>
CollectEnds ==
  /\ ownPc = "collecting"
  /\ resultsChan = <<>>
  /\ \A i \in Index : call[i] \notin {"waiting", "asking"}
  /\ ownPc' = "done"
  /\ UNCHANGED <<chainVars, listVars, call, resultsChan, owned, held, startVars>>

-----------------------------------------------------------------------------
(* NewMinerManager and processEpoch *)

Listed == {l \in License : listed[l] > 0}

\* wg.Wait; a query that failed only earns a warning.  The local variables of
\* GetOwnedLicenses are gone.
Started ==
  /\ phase = "starting"
  /\ listPc \in {"listed", "failed"}
  /\ ownPc \in {"done", "failed"}
  /\ phase' = "mining"
  /\ known' = owned \union Listed
  /\ ownPc' = "returned"
  /\ call' = NoCalls
  /\ owned' = {}
  /\ held' = [i \in Index |-> {}]
  /\ UNCHANGED <<chainVars, listVars, resultsChan>>

\* The next epoch asks again.
ListBegins ==
  /\ phase = "mining"
  /\ listPc \in {"listed", "failed"}
  /\ listPc' = "paging"
  /\ nextKey' = 0
  /\ listed' = NoneListed
  /\ always' = InAll(view)
  /\ ever' = InSome(view)
  /\ UNCHANGED <<chainVars, ownVars, startVars>>

ListStep == (\E e \in Endpoints : PageAnswered(e)) \/ PageFails
OwnStep ==
  \/ \E e \in Endpoints : BalanceAnswered(e)
  \/ BalanceFails \/ Collect \/ CollectEnds
CallStep(i) == Acquire(i) \/ (\E e \in Endpoints : TokenAnswered(e, i)) \/ TokenFails(i)

Next ==
  \/ \E e \in Endpoints, l \in License : Delegation(e, l)
  \/ \E e \in Endpoints, h \in Transfers : Transfer(e, h)
  \/ ListStep \/ OwnStep
  \/ \E i \in Index : CallStep(i)
  \/ Started \/ ListBegins

Spec == Init /\ [][Next]_vars

\* Goroutines run, and every query is answered or fails.
FairSpec ==
  /\ Spec
  /\ WF_vars(ListStep)
  /\ WF_vars(OwnStep)
  /\ \A i \in Index : WF_vars(CallStep(i))
  /\ WF_vars(Started)

-----------------------------------------------------------------------------
(* Properties *)

Replies == [index : Index, id : License \union {NoLicense}]

LicensesTypeOK ==
  /\ view \in [Endpoints -> SUBSET License]
  /\ holding \in [Endpoints -> Holdings]
  /\ changes \in 0 .. MaxChanges
  /\ listPc \in {"paging", "listed", "failed"}
  /\ nextKey \in License \union {0}
  /\ listed \in [License -> Nat]
  /\ always \subseteq License /\ ever \subseteq License
  /\ ownPc \in {"balance", "collecting", "done", "failed", "returned"}
  /\ call \in [Index -> {"none", "waiting", "asking", "answered", "failed"}]
  /\ resultsChan \in Seq(Replies)
  /\ owned \subseteq License
  /\ held \in [Index -> SUBSET (License \union {NoLicense})]
  /\ phase \in {"starting", "mining"}
  /\ known \subseteq License

\* Although pages come from a changing set and from endpoints that do not
\* agree, no license is listed twice (it would be mined twice), none is missing
\* that was delegated all along, and none is listed that nobody ever delegated
\* (queries.go:297-324).
ListingFaithful ==
  /\ \A l \in License : listed[l] <= 1
  /\ Listed \subseteq ever
  /\ listPc = "listed" => always \subseteq Listed

\* The owned licenses are those of the indices that answered: one that kept its
\* index on every endpoint all along is missing only if its own call failed,
\* even when the balance and the licenses come from endpoints that disagree
\* (queries.go:228-293).
OwnedFaithful ==
  /\ owned \subseteq UNION {held[i] : i \in Index}
  /\ ownPc = "done" =>
       \A i \in Index : \A l \in License :
         held[i] = {l} /\ call[i] # "failed" => l \in owned

\* No more calls at a time than the semaphore lets through (queries.go:247-255).
CallsBounded == Cardinality(Asking) <= MaxConcurrency

\* A listing comes to an end however the set changes, and NewMinerManager
\* returns (queries.go:301-321, manager.go:60-68).
ListingsEnd ==
  /\ listPc = "paging" ~> listPc # "paging"
  /\ phase = "starting" ~> phase = "mining"
=============================================================================
