--------------------------- MODULE LicensesProofs ---------------------------
(* Theorems about the licenses that Licenses finds. *)
EXTENDS Licenses, SequenceTheorems, FiniteSetTheorems, TLAPS

\* What makes ListingFaithful inductive: nextKey parts the licenses that have
\* been listed from those that are still to come, and the histories bound the
\* views.
ListInv ==
  /\ \A l \in License : listed[l] <= 1
  /\ Listed \subseteq ever
  /\ always \subseteq InAll(view)
  /\ InSome(view) \subseteq ever
  /\ listPc = "paging" => \A l \in License :
       /\ l \in always /\ l < nextKey => listed[l] > 0
       /\ listed[l] > 0 => l < nextKey
  /\ listPc = "listed" => always \subseteq Listed

\* What makes OwnedFaithful inductive: an answer is in the channel or collected,
\* and an index beyond the balance has been without a license.
ChanHolds(i, l) ==
  \E n \in 1 .. Len(resultsChan) : resultsChan[n].index = i /\ resultsChan[n].id = l
OwnInv ==
  /\ phase = "starting" <=> ownPc # "returned"
  /\ phase = "starting" => \A i \in Index : Shown(i) \subseteq held[i]
  /\ \A n \in 1 .. Len(resultsChan) :
       resultsChan[n].id # NoLicense => resultsChan[n].id \in held[resultsChan[n].index]
  /\ owned \subseteq UNION {held[i] : i \in Index}
  /\ ownPc \in {"balance", "failed", "returned"} =>
       call = NoCalls /\ resultsChan = <<>> /\ owned = {}
  /\ ownPc \in {"collecting", "done"} => \A i \in Index :
       /\ call[i] = "none" => NoLicense \in held[i]
       /\ call[i] = "answered" => \A l \in License : held[i] = {l} =>
            l \in owned \/ ChanHolds(i, l)
  /\ ownPc = "done" =>
       resultsChan = <<>> /\ \A i \in Index : call[i] \notin {"waiting", "asking"}

-----------------------------------------------------------------------------
(* Types *)

\* The conjuncts of LicensesTypeOK, by the variables they are about.
ChainTypes ==
  /\ view \in [Endpoints -> SUBSET License]
  /\ holding \in [Endpoints -> Holdings]
  /\ changes \in 0 .. MaxChanges
ListTypes ==
  /\ listPc \in {"paging", "listed", "failed"}
  /\ nextKey \in License \union {0}
  /\ listed \in [License -> Nat]
  /\ always \subseteq License /\ ever \subseteq License
OwnTypes ==
  /\ ownPc \in {"balance", "collecting", "done", "failed", "returned"}
  /\ call \in [Index -> {"none", "waiting", "asking", "answered", "failed"}]
  /\ resultsChan \in Seq(Replies)
  /\ owned \subseteq License
  /\ held \in [Index -> SUBSET (License \union {NoLicense})]
StartTypes == phase \in {"starting", "mining"} /\ known \subseteq License

LEMMA AtIsId ==
  ASSUME holding \in [Endpoints -> Holdings], NEW e \in Endpoints, NEW i
  PROVE  At(e, i) \in License \union {NoLicense}
<1>1. PICK n \in 0 .. MaxBalance : holding[e] \in [1 .. n -> License]
  BY DEF Holdings
<1> QED BY <1>1 DEF At

LEMMA TypesInit == Init => LicensesTypeOK
<1> SUFFICES ASSUME Init PROVE LicensesTypeOK
  OBVIOUS
<1>1. ChainTypes
  BY WorldsAssumption, BoundsAssumption DEF Init, ChainTypes
<1>2. \A i \in Index : Shown(i) \subseteq License \union {NoLicense}
  BY <1>1, AtIsId DEF ChainTypes, Shown
<1> QED BY <1>1, <1>2
        DEF Init, LicensesTypeOK, ChainTypes, NoneListed, NoCalls, InAll, InSome

LEMMA TypesStep == LicensesTypeOK /\ [Next]_vars => LicensesTypeOK'
<1> SUFFICES ASSUME LicensesTypeOK, [Next]_vars PROVE LicensesTypeOK'
  OBVIOUS
<1>0. ChainTypes /\ ListTypes /\ OwnTypes /\ StartTypes
  BY DEF LicensesTypeOK, ChainTypes, ListTypes, OwnTypes, StartTypes
<1>g. SUFFICES (ChainTypes /\ ListTypes /\ OwnTypes /\ StartTypes)'
  BY DEF LicensesTypeOK, ChainTypes, ListTypes, OwnTypes, StartTypes
<1>1. ASSUME NEW e \in Endpoints, NEW l \in License, Delegation(e, l)
      PROVE (ChainTypes /\ ListTypes /\ OwnTypes /\ StartTypes)'
  <2>1. ChainTypes'
    BY <1>1, <1>0, BoundsAssumption DEF ChainTypes, Delegation
  <2>2. ListTypes'
    BY <1>1, <1>0 DEF ListTypes, Delegation, InSome
  <2> QED BY <1>1, <1>0, <2>1, <2>2 DEF OwnTypes, StartTypes, Delegation, ownVars, startVars
<1>2. ASSUME NEW e \in Endpoints, NEW h \in Transfers, Transfer(e, h)
      PROVE (ChainTypes /\ ListTypes /\ OwnTypes /\ StartTypes)'
  <2>1. ChainTypes'
    BY <1>2, <1>0, BoundsAssumption, WorldsAssumption DEF ChainTypes, Transfer
  <2>2. \A i \in Index : Shown(i)' \subseteq License \union {NoLicense}
    <3> SUFFICES ASSUME NEW i \in Index, NEW d \in Endpoints
                 PROVE  At(d, i)' \in License \union {NoLicense}
      BY DEF Shown
    <3>1. holding'[d] \in Holdings
      BY <2>1 DEF ChainTypes
    <3>2. PICK n \in 0 .. MaxBalance : holding'[d] \in [1 .. n -> License]
      BY <3>1 DEF Holdings
    <3> QED BY <3>2 DEF At
  <2>3. held' \in [Index -> SUBSET (License \union {NoLicense})]
    BY <1>2, <1>0, <2>2 DEF Transfer, OwnTypes
  <2> QED BY <1>2, <1>0, <2>1, <2>3 DEF ListTypes, OwnTypes, StartTypes, Transfer, listVars, startVars
<1>3. ASSUME NEW e \in Endpoints, PageAnswered(e)
      PROVE (ChainTypes /\ ListTypes /\ OwnTypes /\ StartTypes)'
  <2>1. Rest(e) \subseteq License
    BY <1>0 DEF ChainTypes, Rest, From
  <2>2. listed' \in [License -> Nat]
    BY <1>3, <1>0 DEF ListTypes, PageAnswered
  <2>3. ListTypes'
    BY <1>3, <1>0, <2>1, <2>2 DEF ListTypes, PageAnswered
  <2> QED BY <1>3, <1>0, <2>3
          DEF ChainTypes, OwnTypes, StartTypes, PageAnswered, chainVars, ownVars, startVars
<1>4. ASSUME PageFails \/ ListBegins
      PROVE (ChainTypes /\ ListTypes /\ OwnTypes /\ StartTypes)'
  BY <1>4, <1>0 DEF ChainTypes, ListTypes, OwnTypes, StartTypes, PageFails, ListBegins,
                    NoneListed, InAll, InSome, chainVars, ownVars, startVars
<1>5. ASSUME \/ \E e \in Endpoints : BalanceAnswered(e)
             \/ BalanceFails \/ CollectEnds \/ (\E i \in Index : Acquire(i))
      PROVE (ChainTypes /\ ListTypes /\ OwnTypes /\ StartTypes)'
  <2>1. call' \in [Index -> {"none", "waiting", "asking", "answered", "failed"}]
    BY <1>5, <1>0 DEF OwnTypes, BalanceAnswered, BalanceFails, CollectEnds, Acquire
  <2>2. ownPc' \in {"balance", "collecting", "done", "failed", "returned"}
    BY <1>5, <1>0 DEF OwnTypes, BalanceAnswered, BalanceFails, CollectEnds, Acquire
  <2> QED BY <1>5, <1>0, <2>1, <2>2
          DEF ChainTypes, ListTypes, OwnTypes, StartTypes, BalanceAnswered, BalanceFails,
              CollectEnds, Acquire, chainVars, listVars, startVars
<1>6. ASSUME NEW i \in Index, (\E e \in Endpoints : TokenAnswered(e, i)) \/ TokenFails(i)
      PROVE (ChainTypes /\ ListTypes /\ OwnTypes /\ StartTypes)'
  <2>1. PICK id \in License \union {NoLicense} : TokenReplied(i, id)
    BY <1>6, <1>0, AtIsId DEF TokenAnswered, TokenFails, ChainTypes
  <2>2. resultsChan' \in Seq(Replies)
    BY <2>1, <1>0, AppendProperties DEF TokenReplied, OwnTypes, Replies
  <2>3. call' \in [Index -> {"none", "waiting", "asking", "answered", "failed"}]
    BY <2>1, <1>0 DEF TokenReplied, OwnTypes
  <2> QED BY <1>0, <2>1, <2>2, <2>3
          DEF ChainTypes, ListTypes, OwnTypes, StartTypes, TokenReplied, chainVars, listVars, startVars
<1>7. ASSUME Collect PROVE (ChainTypes /\ ListTypes /\ OwnTypes /\ StartTypes)'
  <2>1. Head(resultsChan) \in Replies /\ Tail(resultsChan) \in Seq(Replies)
    BY <1>7, <1>0, HeadTailProperties DEF Collect, OwnTypes
  <2> QED BY <1>7, <1>0, <2>1
          DEF ChainTypes, ListTypes, OwnTypes, StartTypes, Collect, Replies, chainVars, listVars, startVars
<1>8. ASSUME Started PROVE (ChainTypes /\ ListTypes /\ OwnTypes /\ StartTypes)'
  BY <1>8, <1>0 DEF ChainTypes, ListTypes, OwnTypes, StartTypes, Started, Listed, NoCalls,
                    chainVars, listVars
<1>9. CASE UNCHANGED vars
  BY <1>9, <1>0 DEF ChainTypes, ListTypes, OwnTypes, StartTypes, vars, chainVars, listVars,
                    ownVars, startVars
<1> QED
  BY <1>1, <1>2, <1>3, <1>4, <1>5, <1>6, <1>7, <1>8, <1>9
  DEF Next, ListStep, OwnStep, CallStep

-----------------------------------------------------------------------------
(* The listing *)

\* What is on a page comes before what is left for the next ones.
LEMMA PageBeforeRest ==
  ASSUME ChainTypes, NEW e \in Endpoints, NEW p \in Page(e), NEW r \in Rest(e)
  PROVE  p < r
<1> DEFINE F == From(e)
           Below(l) == {m \in F : m < l}
<1>1. F \subseteq License /\ F \subseteq Nat /\ IsFiniteSet(F)
  <2>1. F \subseteq License
    BY DEF From, ChainTypes
  <2> QED BY <2>1, LicenseAssumption, FS_Subset
<1>2. p \in F /\ r \in F /\ r \notin Page(e)
  BY DEF Page, Rest
<1>3. Cardinality(Below(p)) < Limit /\ ~(Cardinality(Below(r)) < Limit)
  BY <1>2 DEF Page
<1> SUFFICES ASSUME r <= p PROVE FALSE
  BY <1>1, <1>2
<1>4. Below(r) \subseteq Below(p)
  BY <1>1, <1>2
<1>5. IsFiniteSet(Below(p)) /\ IsFiniteSet(Below(r))
  BY <1>1, FS_Subset
<1>6. Cardinality(Below(r)) <= Cardinality(Below(p))
  BY <1>4, <1>5, FS_Subset
<1>7. Cardinality(Below(r)) \in Nat /\ Cardinality(Below(p)) \in Nat
  BY <1>5, FS_CardinalityType
<1> QED BY <1>3, <1>6, <1>7, LimitAssumption

LEMMA ListInit == Init => ListInv
BY LicenseAssumption DEF Init, ListInv, Listed, NoneListed, InAll, InSome

LEMMA ListFrame ==
  ASSUME ListInv, UNCHANGED <<view, listVars>>
  PROVE  ListInv'
BY DEF ListInv, Listed, InAll, InSome, listVars

LEMMA ListInvStep == LicensesTypeOK /\ ListInv /\ [Next]_vars => ListInv'
<1> SUFFICES ASSUME LicensesTypeOK, ListInv, [Next]_vars PROVE ListInv'
  OBVIOUS
<1>0. /\ ChainTypes /\ listed \in [License -> Nat] /\ nextKey \in Nat
      /\ License \subseteq Nat
  BY LicenseAssumption DEF LicensesTypeOK, ChainTypes
<1>1. ASSUME NEW e \in Endpoints, NEW l \in License, Delegation(e, l) PROVE ListInv'
  <2>1. /\ always' = always \intersect InAll(view') /\ ever' = ever \union InSome(view')
        /\ UNCHANGED <<listPc, nextKey, listed>>
    BY <1>1 DEF Delegation
  <2> QED BY <2>1 DEF ListInv, Listed, InAll, InSome
<1>2. ASSUME NEW e \in Endpoints, PageAnswered(e) PROVE ListInv'
  <2>1. /\ listPc = "paging" /\ UNCHANGED <<view, always, ever>>
        /\ \A l \in License : listed'[l] = listed[l] + (IF l \in Page(e) THEN 1 ELSE 0)
    BY <1>2, <1>0 DEF PageAnswered, chainVars
  <2>2. \A l \in Page(e) : l \in License /\ l \in ever /\ nextKey <= l
    BY <1>0 DEF Page, From, ChainTypes, ListInv, InSome
  <2>3. \A l \in License :
          /\ l \in Page(e) => listed[l] = 0 /\ listed'[l] = 1
          /\ l \notin Page(e) => listed'[l] = listed[l]
    BY <1>0, <2>1, <2>2 DEF ListInv
  <2>4. \A l \in License : listed'[l] <= 1
    BY <2>3 DEF ListInv
  <2>5. Listed' \subseteq ever'
    BY <2>1, <2>2, <2>3 DEF ListInv, Listed
  <2>6. always' \subseteq InAll(view)' /\ InSome(view)' \subseteq ever'
    BY <2>1 DEF ListInv, InAll, InSome
  <2>7. \A l \in always : l \in License /\ (l < nextKey \/ l \in Page(e) \/ l \in Rest(e))
    <3> SUFFICES ASSUME NEW l \in always
                 PROVE  l \in License /\ (l < nextKey \/ l \in Page(e) \/ l \in Rest(e))
      OBVIOUS
    <3>1. l \in License /\ l \in view[e]
      BY DEF ListInv, InAll
    <3>2. l < nextKey \/ nextKey <= l
      BY <1>0, <3>1
    <3> QED BY <3>1, <3>2 DEF Rest, From
  <2>8. CASE Rest(e) = {}
    <3>1. listPc' = "listed"
      BY <1>2, <2>8 DEF PageAnswered
    <3>2. always' \subseteq Listed'
      BY <2>1, <2>3, <2>7, <2>8 DEF ListInv, Listed
    <3> QED BY <2>4, <2>5, <2>6, <3>1, <3>2 DEF ListInv
  <2>9. CASE Rest(e) # {}
    <3>1. listPc' = "paging" /\ nextKey' \in Rest(e) /\ \A l \in Rest(e) : nextKey' <= l
      BY <1>2, <2>9 DEF PageAnswered
    <3>2. nextKey' \in Nat /\ nextKey <= nextKey'
      BY <1>0, <3>1 DEF Rest, From, ChainTypes
    <3>3. \A l \in Page(e) : l < nextKey'
      BY <1>0, <3>1, PageBeforeRest
    <3>4. \A l \in License : l \in always' /\ l < nextKey' => listed'[l] > 0
      BY <1>0, <2>1, <2>3, <2>7, <3>1, <3>2 DEF ListInv
    <3>5. \A l \in License : listed'[l] > 0 => l < nextKey'
      BY <1>0, <2>1, <2>3, <3>2, <3>3 DEF ListInv
    <3> QED BY <2>4, <2>5, <2>6, <3>1, <3>4, <3>5 DEF ListInv
  <2> QED BY <2>8, <2>9
<1>3. ASSUME PageFails PROVE ListInv'
  BY <1>3 DEF PageFails, ListInv, Listed, NoneListed, InAll, InSome, chainVars
<1>4. ASSUME ListBegins PROVE ListInv'
  BY <1>4, <1>0 DEF ListBegins, ListInv, Listed, NoneListed, InAll, InSome, chainVars
<1>5. ASSUME \/ OwnStep \/ (\E i \in Index : CallStep(i)) \/ Started
             \/ (\E e \in Endpoints, h \in Transfers : Transfer(e, h)) \/ UNCHANGED vars
      PROVE ListInv'
  <2>1. UNCHANGED <<view, listVars>>
    BY <1>5 DEF OwnStep, BalanceAnswered, BalanceFails, Collect, CollectEnds, CallStep,
                Acquire, TokenAnswered, TokenFails, TokenReplied, Started, Transfer, vars,
                chainVars
  <2> QED BY <2>1, ListFrame
<1> QED BY <1>1, <1>2, <1>3, <1>4, <1>5 DEF Next, ListStep

\* For any number of licenses and endpoints and any page limit, however the
\* views change, a listing is faithful.
THEOREM ListingIsFaithful == Spec => []ListingFaithful
<1>1. Init => LicensesTypeOK /\ ListInv
  BY TypesInit, ListInit
<1>2. LicensesTypeOK /\ ListInv /\ [Next]_vars => (LicensesTypeOK /\ ListInv)'
  BY TypesStep, ListInvStep
<1>3. ListInv => ListingFaithful
  BY DEF ListInv, ListingFaithful
<1> QED BY <1>1, <1>2, <1>3, PTL DEF Spec

\* Every variable keeps its type.
THEOREM LicensesTypeCorrect == Spec => []LicensesTypeOK
BY TypesInit, TypesStep, PTL DEF Spec

-----------------------------------------------------------------------------
(* The owned licenses *)

LEMMA OwnInit == Init => OwnInv
BY DEF Init, OwnInv, NoCalls, ChanHolds

LEMMA OwnFrame ==
  ASSUME OwnInv, UNCHANGED <<holding, ownVars, phase>>
  PROVE  OwnInv'
BY DEF OwnInv, ownVars, At, Shown, ChanHolds

LEMMA OwnInvStep == LicensesTypeOK /\ OwnInv /\ [Next]_vars => OwnInv'
<1> SUFFICES ASSUME LicensesTypeOK, OwnInv, [Next]_vars PROVE OwnInv'
  OBVIOUS
<1>0. OwnTypes /\ holding \in [Endpoints -> Holdings] /\ phase \in {"starting", "mining"}
  BY DEF LicensesTypeOK, OwnTypes
<1>1. ASSUME NEW e \in Endpoints, NEW h \in Transfers, Transfer(e, h) PROVE OwnInv'
  <2>1. UNCHANGED <<ownPc, call, resultsChan, owned, phase>>
    BY <1>1 DEF Transfer, startVars
  <2>2. CASE phase = "starting"
    <3>1. \A i \in Index : held'[i] = held[i] \union Shown(i)'
      BY <1>1, <2>2 DEF Transfer
    <3>2. \A i \in Index, l \in License : held'[i] = {l} => held[i] = {l}
      <4>1. \A i \in Index : At(e, i) \in held[i]
        BY <2>2 DEF OwnInv, Shown
      <4> QED BY <3>1, <4>1
    <3>3. \A n \in 1 .. Len(resultsChan) : resultsChan[n].index \in Index
      <4>1. resultsChan \in Seq(Replies)
        BY <1>0 DEF OwnTypes
      <4>2. \A n \in 1 .. Len(resultsChan) : resultsChan[n] \in Replies
        BY <4>1, ElementOfSeq
      <4> QED BY <4>2 DEF Replies
    <3>4. \A l \in UNION {held[i] : i \in Index} : l \in UNION {held'[i] : i \in Index}
      BY <3>1
    <3> QED BY <2>1, <2>2, <3>1, <3>2, <3>3, <3>4 DEF OwnInv, ChanHolds
  <2>3. CASE phase # "starting"
    <3>1. held' = held
      BY <1>1, <2>3 DEF Transfer
    <3> QED BY <2>1, <2>3, <3>1 DEF OwnInv, ChanHolds
  <2> QED BY <2>2, <2>3
<1>2. ASSUME NEW e \in Endpoints, BalanceAnswered(e) PROVE OwnInv'
  <2>1. /\ ownPc = "balance" /\ ownPc' \in {"done", "collecting"} /\ phase = "starting"
        /\ UNCHANGED <<holding, resultsChan, owned, held, phase>>
        /\ call = NoCalls /\ resultsChan = <<>> /\ owned = {}
    BY <1>2 DEF BalanceAnswered, OwnInv, chainVars, startVars
  <2>2. PICK n \in 0 .. MaxBalance : holding[e] \in [1 .. n -> License]
    BY <1>0 DEF Holdings
  <2>3. n \in Nat /\ Len(holding[e]) = n
    BY <2>2, BoundsAssumption
  <2>4. \A i \in Index : call'[i] \in {"none", "waiting"} /\ (call'[i] = "none" => At(e, i) = NoLicense)
    <3> SUFFICES ASSUME NEW i \in Index
                 PROVE  call'[i] \in {"none", "waiting"} /\ (call'[i] = "none" => At(e, i) = NoLicense)
      OBVIOUS
    <3>1. At(e, i) = IF i \in 1 .. n THEN holding[e][i] ELSE NoLicense
      BY <2>2 DEF At
    <3>2. CASE holding[e] = <<>>
      <4>1. call'[i] = "none"
        BY <1>2, <2>1, <3>2 DEF BalanceAnswered, NoCalls
      <4>2. n = 0
        BY <2>3, <3>2
      <4> QED BY <3>1, <4>1, <4>2
    <3>3. CASE holding[e] # <<>>
      <4>1. call'[i] = IF i <= n THEN "waiting" ELSE "none"
        BY <1>2, <2>3, <3>3 DEF BalanceAnswered
      <4> QED BY <2>3, <3>1, <4>1 DEF Index
    <3> QED BY <3>2, <3>3
  <2>5. ownPc' = "done" => \A i \in Index : call'[i] = "none"
    BY <1>2, <2>1 DEF BalanceAnswered, NoCalls
  <2>6. \A i \in Index : Shown(i)' \subseteq held'[i]
    BY <2>1 DEF OwnInv, Shown, At
  <2>7. \A i \in Index : call'[i] = "none" => NoLicense \in held'[i]
    BY <2>1, <2>4 DEF OwnInv, Shown
  <2> QED BY <2>1, <2>4, <2>5, <2>6, <2>7 DEF OwnInv
<1>3. ASSUME BalanceFails PROVE OwnInv'
  BY <1>3 DEF BalanceFails, OwnInv, At, Shown, ChanHolds, chainVars, startVars
<1>4. ASSUME NEW i \in Index, Acquire(i) PROVE OwnInv'
  <2>1. /\ call[i] = "waiting" /\ call' = [call EXCEPT ![i] = "asking"]
        /\ UNCHANGED <<holding, ownPc, resultsChan, owned, held, phase>>
    BY <1>4 DEF Acquire, chainVars, startVars
  <2>2. ownPc = "collecting"
    BY <2>1, <1>0 DEF OwnInv, OwnTypes, NoCalls
  <2>3. \A j \in Index : call'[j] \in {"none", "answered"} => call'[j] = call[j]
    BY <2>1, <1>0 DEF OwnTypes
  <2>4. \A j \in Index : Shown(j)' = Shown(j)
    BY <2>1 DEF At, Shown
  <2> QED BY <2>1, <2>2, <2>3, <2>4 DEF OwnInv, ChanHolds
<1>5. ASSUME NEW i \in Index, (\E e \in Endpoints : TokenAnswered(e, i)) \/ TokenFails(i)
      PROVE OwnInv'
  <2>1. PICK id \in Shown(i) \union {NoLicense} : TokenReplied(i, id)
    BY <1>5 DEF TokenAnswered, TokenFails, Shown
  <2>2. /\ call[i] = "asking"
        /\ call' = [call EXCEPT ![i] = IF id = NoLicense THEN "failed" ELSE "answered"]
        /\ resultsChan' = Append(resultsChan, [index |-> i, id |-> id])
        /\ UNCHANGED <<holding, ownPc, owned, held, phase>>
    BY <2>1 DEF TokenReplied, chainVars, startVars
  <2>3. ownPc = "collecting" /\ phase = "starting"
    BY <2>2, <1>0 DEF OwnInv, OwnTypes, NoCalls
  <2>4. /\ Len(resultsChan') = Len(resultsChan) + 1 /\ Len(resultsChan) \in Nat
        /\ \A n \in 1 .. Len(resultsChan) : resultsChan'[n] = resultsChan[n]
        /\ resultsChan'[Len(resultsChan) + 1] = [index |-> i, id |-> id]
    BY <2>2, <1>0, AppendProperties, LenProperties DEF OwnTypes
  <2>5. id # NoLicense => id \in held[i]
    BY <2>3 DEF OwnInv
  <2>6. \A n \in 1 .. Len(resultsChan') :
          resultsChan'[n].id # NoLicense => resultsChan'[n].id \in held'[resultsChan'[n].index]
    <3> SUFFICES ASSUME NEW n \in 1 .. Len(resultsChan'), resultsChan'[n].id # NoLicense
                 PROVE  resultsChan'[n].id \in held'[resultsChan'[n].index]
      OBVIOUS
    <3>1. CASE n \in 1 .. Len(resultsChan)
      BY <2>2, <2>4, <3>1 DEF OwnInv
    <3>2. CASE n = Len(resultsChan) + 1
      BY <2>2, <2>4, <2>5, <3>2
    <3> QED BY <2>4, <3>1, <3>2
  <2>7. \A j \in Index, l \in License : ChanHolds(j, l) => ChanHolds(j, l)'
    BY <2>4 DEF ChanHolds
  <2>8. \A l \in License : call'[i] = "answered" /\ held'[i] = {l} => ChanHolds(i, l)'
    <3> SUFFICES ASSUME NEW l \in License, call'[i] = "answered", held'[i] = {l}
                 PROVE  ChanHolds(i, l)'
      OBVIOUS
    <3>1. id # NoLicense
      BY <2>2, <1>0 DEF OwnTypes
    <3>2. id = l
      BY <2>2, <2>5, <3>1
    <3> QED BY <2>4, <3>2 DEF ChanHolds
  <2>9. \A j \in Index \ {i} : call'[j] = call[j]
    BY <2>2, <1>0 DEF OwnTypes
  <2>10. \A j \in Index :
           /\ call'[j] = "none" => NoLicense \in held'[j]
           /\ call'[j] = "answered" => \A l \in License : held'[j] = {l} =>
                l \in owned' \/ ChanHolds(j, l)'
    <3> SUFFICES ASSUME NEW j \in Index
                 PROVE  /\ call'[j] = "none" => NoLicense \in held'[j]
                        /\ call'[j] = "answered" => \A l \in License : held'[j] = {l} =>
                             l \in owned' \/ ChanHolds(j, l)'
      OBVIOUS
    <3>1. CASE j = i
      <4>1. call'[j] # "none"
        BY <2>2, <3>1, <1>0 DEF OwnTypes
      <4> QED BY <4>1, <2>8, <3>1
    <3>2. CASE j # i
      <4>1. call'[j] = call[j]
        BY <3>2, <2>9
      <4> QED BY <4>1, <2>2, <2>3, <2>7 DEF OwnInv
    <3> QED BY <3>1, <3>2
  <2>11. \A j \in Index : Shown(j)' = Shown(j)
    BY <2>2 DEF At, Shown
  <2> QED BY <2>2, <2>3, <2>6, <2>10, <2>11 DEF OwnInv
<1>6. ASSUME Collect PROVE OwnInv'
  <2> DEFINE r == Head(resultsChan)
  <2>1. /\ ownPc = "collecting" /\ resultsChan # <<>> /\ resultsChan' = Tail(resultsChan)
        /\ owned' = IF r.id = NoLicense THEN owned ELSE owned \union {r.id}
        /\ UNCHANGED <<holding, ownPc, call, held, phase>>
    BY <1>6 DEF Collect, chainVars, startVars
  <2>2. /\ Len(resultsChan) \in Nat \ {0} /\ r = resultsChan[1]
        /\ Len(resultsChan') = Len(resultsChan) - 1
        /\ \A n \in 1 .. Len(resultsChan') : resultsChan'[n] = resultsChan[n + 1]
    BY <2>1, <1>0, HeadTailProperties, EmptySeq, LenProperties DEF OwnTypes
  <2>3. r.index \in Index
    <3>1. resultsChan \in Seq(Replies)
      BY <1>0 DEF OwnTypes
    <3>2. r \in Replies
      BY <2>1, <3>1, HeadTailProperties
    <3> QED BY <3>2 DEF Replies
  <2>4. \A n \in 1 .. Len(resultsChan') :
          resultsChan'[n].id # NoLicense => resultsChan'[n].id \in held'[resultsChan'[n].index]
    <3>1. \A n \in 1 .. Len(resultsChan') : n + 1 \in 1 .. Len(resultsChan)
      BY <2>2
    <3> QED BY <2>1, <2>2, <3>1 DEF OwnInv
  <2>5. r.id # NoLicense => r.id \in held[r.index]
    <3>1. 1 \in 1 .. Len(resultsChan)
      BY <2>2
    <3> QED BY <2>2, <3>1 DEF OwnInv
  <2>6. owned' \subseteq UNION {held'[i] : i \in Index}
    BY <2>1, <2>3, <2>5 DEF OwnInv
  <2>7. \A j \in Index, l \in License : ChanHolds(j, l) => l \in owned' \/ ChanHolds(j, l)'
    <3> SUFFICES ASSUME NEW j \in Index, NEW l \in License, ChanHolds(j, l)
                 PROVE  l \in owned' \/ ChanHolds(j, l)'
      OBVIOUS
    <3>1. PICK n \in 1 .. Len(resultsChan) : resultsChan[n].index = j /\ resultsChan[n].id = l
      BY DEF ChanHolds
    <3>2. CASE n = 1
      BY <2>1, <2>2, <3>1, <3>2, LicenseAssumption DEF NoLicense
    <3>3. CASE n # 1
      <4>1. n - 1 \in 1 .. Len(resultsChan') /\ resultsChan'[n - 1] = resultsChan[n]
        BY <2>2, <3>3
      <4> QED BY <3>1, <4>1 DEF ChanHolds
    <3> QED BY <3>2, <3>3
  <2>8. \A l \in owned : l \in owned'
    BY <2>1
  <2>9. \A j \in Index : Shown(j)' = Shown(j)
    BY <2>1 DEF At, Shown
  <2> QED BY <2>1, <2>4, <2>6, <2>7, <2>8, <2>9 DEF OwnInv
<1>7. ASSUME CollectEnds PROVE OwnInv'
  BY <1>7 DEF CollectEnds, OwnInv, At, Shown, ChanHolds, chainVars, startVars
<1>8. ASSUME Started PROVE OwnInv'
  BY <1>8 DEF Started, OwnInv, NoCalls, chainVars
<1>9. ASSUME \/ ListStep \/ ListBegins \/ UNCHANGED vars
             \/ \E e \in Endpoints, l \in License : Delegation(e, l)
      PROVE OwnInv'
  <2>1. UNCHANGED <<holding, ownVars, phase>>
    BY <1>9 DEF ListStep, PageAnswered, PageFails, ListBegins, Delegation, vars, chainVars,
                startVars
  <2> QED BY <2>1, OwnFrame
<1> QED
  BY <1>1, <1>2, <1>3, <1>4, <1>5, <1>6, <1>7, <1>8, <1>9 DEF Next, OwnStep, CallStep

LEMMA CallsInit == Init => CallsBounded
<1> SUFFICES ASSUME Init PROVE CallsBounded
  OBVIOUS
<1>1. Asking = {}
  BY DEF Init, Asking, NoCalls
<1> QED BY <1>1, FS_EmptySet, ConcurrencyAssumption DEF CallsBounded

LEMMA CallsStep == LicensesTypeOK /\ CallsBounded /\ [Next]_vars => CallsBounded'
<1> SUFFICES ASSUME LicensesTypeOK, CallsBounded, [Next]_vars PROVE CallsBounded'
  OBVIOUS
<1>0. call \in [Index -> {"none", "waiting", "asking", "answered", "failed"}]
  BY DEF LicensesTypeOK
<1>1. IsFiniteSet(Index) /\ IsFiniteSet(Asking) /\ Cardinality(Asking) \in Nat
  <2>1. IsFiniteSet(Index)
    BY FS_Interval, BoundsAssumption DEF Index
  <2> QED BY <2>1, FS_Subset, FS_CardinalityType DEF Asking
<1>2. ASSUME NEW i \in Index, Acquire(i) PROVE CallsBounded'
  <2>1. Asking' = Asking \union {i} /\ i \notin Asking
    BY <1>2, <1>0 DEF Acquire, Asking
  <2>2. Cardinality(Asking') = Cardinality(Asking) + 1
    BY <2>1, <1>1, FS_AddElement
  <2> QED BY <2>2, <1>1, <1>2, ConcurrencyAssumption DEF CallsBounded, Acquire
<1>3. ASSUME Asking' \subseteq Asking PROVE CallsBounded'
  <2>1. Cardinality(Asking') <= Cardinality(Asking) /\ Cardinality(Asking') \in Nat
    BY <1>1, <1>3, FS_Subset, FS_CardinalityType
  <2> QED BY <2>1, <1>1, ConcurrencyAssumption DEF CallsBounded
<1>4. ASSUME NEW i \in Index, (\E e \in Endpoints : TokenAnswered(e, i)) \/ TokenFails(i)
      PROVE  Asking' \subseteq Asking
  BY <1>4, <1>0 DEF TokenAnswered, TokenFails, TokenReplied, Asking
<1>5. ASSUME (\E e \in Endpoints : BalanceAnswered(e)) \/ Started PROVE Asking' \subseteq Asking
  BY <1>5, <1>0 DEF BalanceAnswered, Started, NoCalls, Asking
<1>6. ASSUME \/ ListStep \/ ListBegins \/ UNCHANGED vars
             \/ BalanceFails \/ Collect \/ CollectEnds
             \/ (\E e \in Endpoints, l \in License : Delegation(e, l))
             \/ (\E e \in Endpoints, h \in Transfers : Transfer(e, h))
      PROVE  Asking' \subseteq Asking
  BY <1>6 DEF ListStep, PageAnswered, PageFails, ListBegins, Delegation, Transfer,
              BalanceFails, Collect, CollectEnds, vars, ownVars, Asking
<1> QED BY <1>2, <1>3, <1>4, <1>5, <1>6 DEF Next, OwnStep, CallStep

\* However many licenses the address owns and however the calls interleave, an
\* owned license is missing only if it moved or its own call failed.
THEOREM OwnedIsFaithful == Spec => []OwnedFaithful
<1>1. Init => LicensesTypeOK /\ OwnInv
  BY TypesInit, OwnInit
<1>2. LicensesTypeOK /\ OwnInv /\ [Next]_vars => (LicensesTypeOK /\ OwnInv)'
  BY TypesStep, OwnInvStep
<1>3. LicensesTypeOK /\ OwnInv => OwnedFaithful
  <2> SUFFICES ASSUME LicensesTypeOK, OwnInv PROVE OwnedFaithful
    OBVIOUS
  <2>1. call \in [Index -> {"none", "waiting", "asking", "answered", "failed"}]
    BY DEF LicensesTypeOK
  <2>2. ASSUME ownPc = "done", NEW i \in Index, NEW l \in License,
               held[i] = {l}, call[i] # "failed"
        PROVE  l \in owned
    <3>1. resultsChan = <<>> /\ call[i] \in {"none", "answered"}
      BY <2>1, <2>2 DEF OwnInv
    <3>2. call[i] # "none"
      BY <2>2, LicenseAssumption DEF OwnInv, NoLicense
    <3>3. ~ChanHolds(i, l)
      BY <3>1 DEF ChanHolds
    <3> QED BY <2>2, <3>1, <3>2, <3>3 DEF OwnInv
  <2> QED BY <2>2 DEF OwnedFaithful, OwnInv
<1> QED BY <1>1, <1>2, <1>3, PTL DEF Spec

\* The semaphore holds for any number of licenses and any maxConcurrency.
THEOREM CallsAreBounded == Spec => []CallsBounded
<1>1. Init => LicensesTypeOK /\ CallsBounded
  BY TypesInit, CallsInit
<1>2. LicensesTypeOK /\ CallsBounded /\ [Next]_vars => (LicensesTypeOK /\ CallsBounded)'
  BY TypesStep, CallsStep
<1> QED BY <1>1, <1>2, PTL DEF Spec

-----------------------------------------------------------------------------
(* Running down: what a listing and the look-ups may still do. *)

\* The licenses the next pages can hold: each page takes the key past one at
\* least.
Ahead == {l \in License : nextKey <= l}
PagesLeft == IF listPc = "paging" THEN Cardinality(Ahead) + 1 ELSE 0

LEMMA PageGoesOn ==
  ASSUME LicensesTypeOK, NEW e \in Endpoints, PageAnswered(e), Rest(e) # {}
  PROVE  Cardinality(Ahead') < Cardinality(Ahead)
<1>1. /\ License \subseteq Nat /\ IsFiniteSet(License) /\ nextKey \in Nat
      /\ From(e) \subseteq License
  BY LicenseAssumption DEF LicensesTypeOK, From
<1>2. nextKey' \in Rest(e)
  BY DEF PageAnswered
<1>3. nextKey' \in From(e) /\ nextKey' \notin Page(e) /\ nextKey' \in Nat
  BY <1>1, <1>2 DEF Rest
<1>4. PICK m \in From(e) : m < nextKey'
  <2>1. SUFFICES ASSUME {m \in From(e) : m < nextKey'} = {} PROVE FALSE
    OBVIOUS
  <2>2. Cardinality({m \in From(e) : m < nextKey'}) = 0
    BY <2>1, FS_EmptySet
  <2> QED BY <1>3, <2>2, LimitAssumption DEF Page
<1>5. m \in Ahead /\ m \notin Ahead' /\ nextKey <= m
  BY <1>1, <1>3, <1>4 DEF Ahead, From
<1>6. Ahead' \subseteq Ahead
  <2> SUFFICES ASSUME NEW l \in License, nextKey' <= l PROVE nextKey <= l
    BY DEF Ahead
  <2>1. nextKey <= nextKey'
    BY <1>1, <1>3 DEF From
  <2> QED BY <1>1, <1>3, <2>1
<1>7. IsFiniteSet(Ahead)
  BY <1>1, FS_Subset DEF Ahead
<1>8. /\ Cardinality(Ahead') <= Cardinality(Ahead)
      /\ Cardinality(Ahead') # Cardinality(Ahead)
  BY <1>5, <1>6, <1>7, FS_Subset
<1>9. Cardinality(Ahead) \in Nat /\ Cardinality(Ahead') \in Nat
  BY <1>6, <1>7, FS_Subset, FS_CardinalityType
<1> QED BY <1>8, <1>9

LEMMA ListStepDown ==
  ASSUME LicensesTypeOK, ListStep
  PROVE  PagesLeft' < PagesLeft
<1>1. Cardinality(Ahead) \in Nat
  BY LicenseAssumption, FS_Subset, FS_CardinalityType DEF Ahead
<1>2. listPc = "paging" /\ PagesLeft = Cardinality(Ahead) + 1
  BY DEF ListStep, PageAnswered, PageFails, PagesLeft
<1>3. CASE listPc' # "paging"
  BY <1>1, <1>2, <1>3 DEF PagesLeft
<1>4. CASE listPc' = "paging"
  <2>1. PICK e \in Endpoints : PageAnswered(e)
    BY <1>4 DEF ListStep, PageFails
  <2>2. Rest(e) # {}
    BY <1>4, <2>1 DEF PageAnswered
  <2>3. Cardinality(Ahead') < Cardinality(Ahead) /\ Cardinality(Ahead') \in Nat
    <3>1. Ahead' \subseteq License
      BY DEF Ahead
    <3> QED BY <2>1, <2>2, <3>1, PageGoesOn, LicenseAssumption, FS_Subset, FS_CardinalityType
  <2> QED BY <1>1, <1>2, <1>4, <2>3 DEF PagesLeft
<1> QED BY <1>3, <1>4

\* However the set and the endpoint change between two pages, every page brings
\* the listing nearer to its end, and there are never more pages to come than
\* licenses from the key on, and one: paging cannot go round in circles
\* (queries.go:301-321).
PagesRunDown ==
  [][ IF ListStep THEN PagesLeft' < PagesLeft
                  ELSE ListBegins \/ PagesLeft' = PagesLeft ]_vars

THEOREM ListingsRunDown == Spec => PagesRunDown
<1>1. LicensesTypeOK /\ [Next]_vars
        => [ IF ListStep THEN PagesLeft' < PagesLeft
                         ELSE ListBegins \/ PagesLeft' = PagesLeft ]_vars
  <2> SUFFICES ASSUME [Next]_vars, ~ListStep, ~ListBegins PROVE PagesLeft' = PagesLeft
    BY ListStepDown
  <2>1. UNCHANGED <<listPc, nextKey>>
    BY DEF Next, Delegation, Transfer, OwnStep, BalanceAnswered, BalanceFails, Collect,
           CollectEnds, CallStep, Acquire, TokenAnswered, TokenFails, TokenReplied,
           Started, vars, listVars
  <2> QED BY <2>1 DEF PagesLeft, Ahead
<1> QED BY <1>1, LicensesTypeCorrect, PTL DEF Spec, PagesRunDown

-----------------------------------------------------------------------------
Waiting == {i \in Index : call[i] = "waiting"}

\* Each index has a place to wait for, a reply and a result to collect before
\* it, and the balance query and the end of the collection are one step each.
LookupsLeft ==
  CASE ownPc = "balance"    -> 3 * MaxBalance + 2
    [] ownPc = "collecting" -> 3 * Cardinality(Waiting) + 2 * Cardinality(Asking)
                                 + Len(resultsChan) + 1
    [] OTHER                -> 0

LEMMA LookupCounts ==
  ASSUME LicensesTypeOK
  PROVE  /\ IsFiniteSet(Index) /\ Cardinality(Index) = MaxBalance /\ MaxBalance \in Nat
         /\ IsFiniteSet(Waiting) /\ Cardinality(Waiting) \in Nat
         /\ IsFiniteSet(Asking) /\ Cardinality(Asking) \in Nat
         /\ Len(resultsChan) \in Nat
<1>1. IsFiniteSet(Index) /\ Cardinality(Index) = MaxBalance /\ MaxBalance \in Nat
  BY FS_Interval, BoundsAssumption DEF Index
<1>2. Waiting \subseteq Index /\ Asking \subseteq Index
  BY DEF Waiting, Asking
<1>3. Len(resultsChan) \in Nat
  BY LenProperties DEF LicensesTypeOK
<1> QED BY <1>1, <1>2, <1>3, FS_Subset, FS_CardinalityType

\* A call is only under way while its results are collected.
LEMMA CallsWhileCollecting ==
  ASSUME LicensesTypeOK, OwnInv, NEW i \in Index, call[i] \in {"waiting", "asking"}
  PROVE  ownPc = "collecting"
BY DEF LicensesTypeOK, OwnInv, NoCalls

LEMMA CallStepDown ==
  ASSUME LicensesTypeOK, OwnInv, NEW i \in Index, CallStep(i)
  PROVE  LookupsLeft' < LookupsLeft
<1> DEFINE w == Cardinality(Waiting)  a == Cardinality(Asking)  n == Len(resultsChan)
<1>0. call \in [Index -> {"none", "waiting", "asking", "answered", "failed"}]
  BY DEF LicensesTypeOK
<1>1. w \in Nat /\ a \in Nat /\ n \in Nat /\ IsFiniteSet(Waiting) /\ IsFiniteSet(Asking)
  BY LookupCounts
<1>2. ownPc = "collecting" /\ ownPc' = "collecting"
  BY CallsWhileCollecting DEF CallStep, Acquire, TokenAnswered, TokenFails, TokenReplied
<1>3. LookupsLeft = 3 * w + 2 * a + n + 1
  BY <1>2 DEF LookupsLeft
<1>4. LookupsLeft' = 3 * Cardinality(Waiting') + 2 * Cardinality(Asking')
                       + Len(resultsChan') + 1
  BY <1>2 DEF LookupsLeft
<1> HIDE DEF w, a, n
<1>5. CASE Acquire(i)
  <2>1. /\ Waiting' = Waiting \ {i} /\ i \in Waiting
        /\ Asking' = Asking \union {i} /\ i \notin Asking
        /\ resultsChan' = resultsChan
    BY <1>0, <1>5 DEF Acquire, Waiting, Asking
  <2>2. Cardinality(Waiting') = w - 1 /\ Cardinality(Asking') = a + 1 /\ Len(resultsChan') = n
    BY <1>1, <2>1, FS_AddElement, FS_RemoveElement DEF w, a, n
  <2> QED BY <1>1, <1>3, <1>4, <2>2
<1>6. CASE (\E e \in Endpoints : TokenAnswered(e, i)) \/ TokenFails(i)
  <2>1. PICK id \in License \union {NoLicense} : TokenReplied(i, id)
    BY <1>6, AtIsId DEF TokenAnswered, TokenFails, LicensesTypeOK
  <2>2. /\ Waiting' = Waiting
        /\ Asking' = Asking \ {i} /\ i \in Asking
    BY <1>0, <2>1 DEF TokenReplied, Waiting, Asking
  <2>3. Len(resultsChan') = n + 1
    <3>1. resultsChan \in Seq(Replies) /\ [index |-> i, id |-> id] \in Replies
      BY DEF LicensesTypeOK, Replies
    <3> QED BY <2>1, <3>1, AppendProperties DEF TokenReplied, n
  <2>4. Cardinality(Waiting') = w /\ Cardinality(Asking') = a - 1
    BY <1>1, <2>2, FS_RemoveElement DEF w, a
  <2> QED BY <1>1, <1>3, <1>4, <2>3, <2>4
<1> QED BY <1>5, <1>6 DEF CallStep

LEMMA OwnStepDown ==
  ASSUME LicensesTypeOK, OwnInv, OwnStep
  PROVE  LookupsLeft' < LookupsLeft
<1> DEFINE w == Cardinality(Waiting)  a == Cardinality(Asking)  n == Len(resultsChan)
<1>0. call \in [Index -> {"none", "waiting", "asking", "answered", "failed"}]
  BY DEF LicensesTypeOK
<1>1. w \in Nat /\ a \in Nat /\ n \in Nat /\ MaxBalance \in Nat
  BY LookupCounts
<1>2. /\ ownPc = "balance" => LookupsLeft = 3 * MaxBalance + 2
      /\ ownPc = "collecting" => LookupsLeft = 3 * w + 2 * a + n + 1
  BY DEF LookupsLeft
<1>3. ownPc' \notin {"balance", "collecting"} => LookupsLeft' = 0
  BY DEF LookupsLeft
<1> HIDE DEF w, a, n
<1>4. CASE \/ BalanceFails \/ CollectEnds
           \/ \E e \in Endpoints : BalanceAnswered(e) /\ holding[e] = <<>>
  <2>1. ownPc \in {"balance", "collecting"} /\ ownPc' \notin {"balance", "collecting"}
    BY <1>4 DEF BalanceFails, CollectEnds, BalanceAnswered
  <2> QED BY <1>1, <1>2, <1>3, <2>1
<1>5. CASE \E e \in Endpoints : BalanceAnswered(e) /\ holding[e] # <<>>
  <2>1. /\ ownPc = "balance" /\ ownPc' = "collecting"
        /\ resultsChan' = resultsChan /\ resultsChan = <<>>
        /\ \A i \in Index : call'[i] \in {"waiting", "none"}
    BY <1>5 DEF BalanceAnswered, OwnInv
  <2>2. Asking' = {} /\ Waiting' \subseteq Index
    BY <2>1 DEF Asking, Waiting
  <2>3. /\ Cardinality(Asking') = 0 /\ Len(resultsChan') = 0
        /\ Cardinality(Waiting') \in Nat /\ Cardinality(Waiting') <= MaxBalance
    BY <2>1, <2>2, LookupCounts, FS_EmptySet, FS_Subset, FS_CardinalityType
  <2>4. LookupsLeft' = 3 * Cardinality(Waiting') + 1
    BY <2>1, <2>3 DEF LookupsLeft
  <2> QED BY <1>1, <1>2, <2>1, <2>3, <2>4
<1>6. CASE Collect
  <2>1. /\ ownPc = "collecting" /\ ownPc' = "collecting" /\ call' = call
        /\ resultsChan # <<>> /\ resultsChan' = Tail(resultsChan)
    BY <1>6 DEF Collect
  <2>2. Len(resultsChan') = n - 1
    BY <2>1, HeadTailProperties DEF LicensesTypeOK, n
  <2>3. Cardinality(Waiting') = w /\ Cardinality(Asking') = a
    BY <2>1 DEF Waiting, Asking, w, a
  <2>4. LookupsLeft' = 3 * w + 2 * a + (n - 1) + 1
    BY <2>1, <2>2, <2>3 DEF LookupsLeft
  <2> QED BY <1>1, <1>2, <2>1, <2>4
<1> QED BY <1>4, <1>5, <1>6 DEF OwnStep

\* Every step of GetOwnedLicenses and of its goroutines uses one of at most
\* three per license and two: no order of acquiring, failing and collecting
\* keeps NewMinerManager waiting for ever (queries.go:227-294).
LookupsRunDown ==
  [][ IF OwnStep \/ \E i \in Index : CallStep(i)
      THEN LookupsLeft' < LookupsLeft
      ELSE LookupsLeft' = LookupsLeft ]_vars

THEOREM OwnedLookupsRunDown == Spec => LookupsRunDown
<1>1. LicensesTypeOK /\ OwnInv /\ [Next]_vars
        => [ IF OwnStep \/ \E i \in Index : CallStep(i)
             THEN LookupsLeft' < LookupsLeft
             ELSE LookupsLeft' = LookupsLeft ]_vars
  <2> SUFFICES ASSUME [Next]_vars, ~OwnStep, \A i \in Index : ~CallStep(i)
               PROVE  LookupsLeft' = LookupsLeft
    BY OwnStepDown, CallStepDown
  <2>1. CASE Started
    BY <2>1 DEF Started, LookupsLeft
  <2>2. CASE ~Started
    <3>1. UNCHANGED <<ownPc, call, resultsChan>>
      BY <2>2 DEF Next, Delegation, Transfer, ListStep, PageAnswered, PageFails,
             ListBegins, vars, ownVars
    <3> QED BY <3>1 DEF LookupsLeft, Waiting, Asking
  <2> QED BY <2>1, <2>2
<1>2. Init => LicensesTypeOK /\ OwnInv
  BY TypesInit, OwnInit
<1>3. LicensesTypeOK /\ OwnInv /\ [Next]_vars => (LicensesTypeOK /\ OwnInv)'
  BY TypesStep, OwnInvStep
<1> QED BY <1>1, <1>2, <1>3, PTL DEF Spec, LookupsRunDown
=============================================================================
