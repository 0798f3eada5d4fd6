-------------------------- MODULE EndpointsProofs --------------------------
(* Theorems about the connections and queries of Endpoints. *)
EXTENDS Endpoints, SequenceTheorems, TLAPS

\* A list of all endpoints, each once.
NamesAllOnce(l) ==
  /\ l \in Seq(Endpoint) /\ Len(l) = Len(Configured)
  /\ {l[i] : i \in Positions} = Endpoint
  /\ \A i, j \in Positions : l[i] = l[j] => i = j

\* Only goroutines that may rotate run queries, a question needs a second
\* endpoint, and the client is closed when nobody rotates any more.
PhasesOK ==
  /\ \A g \in Goroutines :
       /\ pc[g] \in {"calling", "switching"} => MayRotate(g)
       /\ pc[g] = "asking" => Len(Configured) > 1
  /\ shutdown # "no" => ctxDone /\ \A g \in Rotating : pc[g] = "returned"

\* The copy an epoch question works on names every endpoint, the primary first.
SnapshotsOK ==
  \A g \in Goroutines : NamesAllOnce(snapshot[g]) /\ primary[g] = snapshot[g][1]

\* What makes FailedQueryTriedAll inductive: the endpoints that have failed a
\* sole query are those that its rotations have moved to the end of the list.
TriedLast(g) ==
  /\ pc[g] \in {"calling", "switching"} =>
       \A i \in Positions :
         i > Len(Configured) - round[g] => list[i] \in failedAt[g] \union undialable
  /\ pc[g] = "switching" => list[1] \in failedAt[g]
  /\ pc[g] \notin {"calling", "switching"} => round[g] = 0
TriedAreLast == SoleRotator => \A g \in Goroutines : TriedLast(g)

\* Behind the first part, a healthy endpoint fails no question before the
\* context ends.
HealthyPartsHold ==
  ctxDone \/ \A g \in Goroutines : pc[g] = "asking" =>
    \A i \in Positions : i > 1 /\ Target(g, i) \in Healthy
      => part[g][i] \notin {"cut", "failed"}

-----------------------------------------------------------------------------
LEMMA SomePositions ==
  /\ Len(Configured) \in Nat /\ Len(Configured) > 0
  /\ Positions = 1 .. Len(Configured)
  /\ 1 \in Positions
BY ConfiguredAssumption, LenProperties DEF Positions

\* The position from which rotation by k takes its entry i.
From(n, k, i) == IF i <= n - k THEN i + k ELSE i + k - n

LEMMA FromIsOnto ==
  ASSUME NEW n \in Nat, NEW k \in 1 .. n - 1
  PROVE  /\ \A i \in 1 .. n : From(n, k, i) \in 1 .. n
         /\ \A i, j \in 1 .. n : From(n, k, i) = From(n, k, j) => i = j
         /\ \A j \in 1 .. n : \E i \in 1 .. n : From(n, k, i) = j
         /\ From(n, k, 1) = k + 1
<1>1. /\ \A i \in 1 .. n : From(n, k, i) \in 1 .. n
      /\ \A i, j \in 1 .. n : From(n, k, i) = From(n, k, j) => i = j
      /\ From(n, k, 1) = k + 1
  BY DEF From
<1>2. ASSUME NEW j \in 1 .. n PROVE \E i \in 1 .. n : From(n, k, i) = j
  <2>1. CASE j > k
    <3> j - k \in 1 .. n /\ From(n, k, j - k) = j
      BY <2>1 DEF From
    <3> QED OBVIOUS
  <2>2. CASE j <= k
    <3> j + n - k \in 1 .. n /\ From(n, k, j + n - k) = j
      BY <2>2 DEF From
    <3> QED OBVIOUS
  <2> QED BY <2>1, <2>2
<1> QED BY <1>1, <1>2

LEMMA RotationIndex ==
  ASSUME NEW S, NEW s \in Seq(S), NEW k \in 1 .. Len(s) - 1
  PROVE  LET r == SubSeq(s, k + 1, Len(s)) \o SubSeq(s, 1, k)
         IN  /\ r \in Seq(S)
             /\ Len(r) = Len(s)
             /\ \A i \in 1 .. Len(s) : r[i] = s[From(Len(s), k, i)]
<1> DEFINE a == SubSeq(s, k + 1, Len(s))
           b == SubSeq(s, 1, k)
<1>1. a \in Seq(S) /\ Len(a) = Len(s) - k /\ \A i \in 1 .. Len(s) - k : a[i] = s[i + k]
  BY SubSeqProperties
<1>2. b \in Seq(S) /\ Len(b) = k /\ \A i \in 1 .. k : b[i] = s[i]
  BY SubSeqProperties
<1> QED BY <1>1, <1>2 DEF From

\* Rotating such a list gives another one.
LEMMA RotationKeepsAll ==
  ASSUME NamesAllOnce(list), NEW k \in 1 .. Len(list) - 1
  PROVE  /\ NamesAllOnce(RotatedBy(k))
         /\ \A i \in Positions : RotatedBy(k)[i] = list[From(Len(Configured), k, i)]
         /\ RotatedBy(k)[1] = list[k + 1]
<1>a. list \in Seq(Endpoint) /\ Len(list) = Len(Configured) /\ k \in 1 .. Len(Configured) - 1
  BY DEF NamesAllOnce
<1>b. LET r == SubSeq(list, k + 1, Len(list)) \o SubSeq(list, 1, k)
      IN  /\ r \in Seq(Endpoint)
          /\ Len(r) = Len(list)
          /\ \A i \in 1 .. Len(list) : r[i] = list[From(Len(list), k, i)]
  BY <1>a, RotationIndex
<1>1. /\ RotatedBy(k) \in Seq(Endpoint) /\ Len(RotatedBy(k)) = Len(Configured)
      /\ \A i \in Positions : RotatedBy(k)[i] = list[From(Len(Configured), k, i)]
  BY <1>a, <1>b, SomePositions DEF RotatedBy
<1> DEFINE r == RotatedBy(k)
           from(i) == From(Len(Configured), k, i)
<1>c. Len(Configured) \in Nat
  BY SomePositions
<1>2. /\ \A i \in Positions : from(i) \in Positions
      /\ \A i, j \in Positions : from(i) = from(j) => i = j
      /\ \A j \in Positions : \E i \in Positions : from(i) = j
      /\ from(1) = k + 1
  BY <1>a, <1>c, FromIsOnto DEF Positions
<1>3. \A i \in Positions : r[i] = list[from(i)]
  BY <1>1
<1> HIDE DEF r, from
<1>4. {r[i] : i \in Positions} = Endpoint
  <2>1. ASSUME NEW e \in Endpoint PROVE \E i \in Positions : r[i] = e
    <3>1. PICK j \in Positions : list[j] = e
      BY DEF NamesAllOnce
    <3>2. PICK i \in Positions : from(i) = j
      BY <1>2
    <3> QED BY <1>3, <3>1, <3>2
  <2>2. \A i \in Positions : r[i] \in Endpoint
    BY <1>2, <1>3 DEF NamesAllOnce
  <2> QED BY <2>1, <2>2
<1>5. \A i, j \in Positions : r[i] = r[j] => i = j
  BY <1>2, <1>3 DEF NamesAllOnce
<1>6. r[1] = list[k + 1]
  BY <1>2, <1>3, SomePositions
<1> QED BY <1>1, <1>4, <1>5, <1>6 DEF NamesAllOnce, r

(* Types, phases and connections *)

\* The conjuncts of EndpointsTypeOK, by the variables they are about.
ConnTypes ==
  /\ flaky \subseteq Endpoint /\ undialable \subseteq Endpoint
  /\ NamesAllOnce(list)
  /\ connected \in Endpoint
  /\ open \in [Endpoint -> Nat]
  /\ pool \subseteq Endpoint
  /\ openPool \in [Endpoint -> Nat]
  /\ shutdown \in {"no", "closing", "closed"}
  /\ ctxDone \in BOOLEAN
PcType == pc \in [Goroutines -> {"idle", "calling", "switching", "asking", "returned"}]
QueryTypes ==
  /\ round \in [Goroutines -> 0 .. Len(Configured) - 1]
  /\ tries \in [Goroutines -> 0 .. MaxRetries - 1]
  /\ cut \in [Goroutines -> BOOLEAN]
  /\ failedAt \in [Goroutines -> SUBSET Endpoint]
QuestionTypes ==
  /\ primary \in [Goroutines -> Endpoint]
  /\ snapshot \in [Goroutines -> Seq(Endpoint)]
PartTypes ==
  /\ part \in [Goroutines -> [Positions -> PartStates]]
  /\ partTries \in [Goroutines -> [Positions -> 0 .. MaxRetries - 1]]

LEMMA TypesSplit ==
  EndpointsTypeOK <=> ConnTypes /\ PcType /\ QueryTypes /\ QuestionTypes /\ PartTypes
BY DEF EndpointsTypeOK, ConnTypes, PcType, QueryTypes, QuestionTypes, PartTypes, NamesAllOnce

ConnOK == ConnTypes /\ ConnectionsAccounted
QuestionOK == QuestionTypes /\ SnapshotsOK
CoreInv ==
  ConnOK /\ PcType /\ QueryTypes /\ QuestionOK /\ PartTypes /\ PhasesOK

LEMMA ConnFrame ==
  ASSUME ConnOK, UNCHANGED <<faultVars, connVars, shutdown>>, ctxDone' \in BOOLEAN
  PROVE  ConnOK'
BY DEF ConnOK, ConnTypes, ConnectionsAccounted, NamesAllOnce, faultVars, connVars,
       sharedVars, poolVars

LEMMA QueryFrame == ASSUME QueryTypes, UNCHANGED queryVars PROVE QueryTypes'
BY DEF QueryTypes, queryVars
LEMMA QuestionFrame == ASSUME QuestionOK, UNCHANGED questionVars PROVE QuestionOK'
BY DEF QuestionOK, QuestionTypes, SnapshotsOK, NamesAllOnce, questionVars
LEMMA PartFrame == ASSUME PartTypes, UNCHANGED <<part, partTries>> PROVE PartTypes'
BY DEF PartTypes

\* A goroutine goes somewhere else.
PcValues == {"idle", "calling", "switching", "asking", "returned"}
LEMMA PcGoes ==
  ASSUME PcType, NEW g \in Goroutines, NEW place \in PcValues, Goes(g, place)
  PROVE  /\ PcType'
         /\ pc'[g] = place
         /\ \A h \in Goroutines \ {g} : pc'[h] = pc[h]
BY DEF PcType, PcValues, Goes

LEMMA PhasesGo ==
  ASSUME PhasesOK, PcType, NEW g \in Goroutines, NEW place \in PcValues, Goes(g, place),
         UNCHANGED phaseVars,
         place \in {"calling", "switching"} => MayRotate(g),
         place = "asking" => Len(Configured) > 1,
         place # "returned" => pc[g] # "returned"
  PROVE  PhasesOK'
<1>1. /\ pc'[g] = place
      /\ \A h \in Goroutines \ {g} : pc'[h] = pc[h]
  BY PcGoes
<1>2. \A h \in Goroutines : MayRotate(h)' <=> MayRotate(h)
  BY DEF MayRotate
<1>3. shutdown' = shutdown /\ ctxDone' = ctxDone
  BY DEF phaseVars
<1>4. \A h \in Goroutines : /\ pc'[h] \in {"calling", "switching"} => MayRotate(h)
                            /\ pc'[h] = "asking" => Len(Configured) > 1
  BY <1>1 DEF PhasesOK
<1>5. \A h \in Rotating : pc[h] = "returned" => pc'[h] = "returned"
  BY <1>1, GoroutinesAssumption
<1> QED BY <1>2, <1>3, <1>4, <1>5 DEF PhasesOK

LEMMA PhasesFrame ==
  ASSUME PhasesOK, UNCHANGED <<pc, shutdown>>, ctxDone => ctxDone'
  PROVE  PhasesOK'
BY DEF PhasesOK, MayRotate

\* The end of a query.
LEMMA EndTypes ==
  ASSUME QueryTypes, PcType, NEW g \in Goroutines, QueryEnds(g),
         cut' \in [Goroutines -> BOOLEAN]
  PROVE  QueryTypes' /\ PcType' /\ Goes(g, "idle")
<1>1. 0 \in 0 .. Len(Configured) - 1 /\ 0 \in 0 .. MaxRetries - 1
  BY SomePositions, MaxRetriesAssumption
<1>2. round' \in [Goroutines -> 0 .. Len(Configured) - 1]
  BY <1>1 DEF QueryTypes, QueryEnds
<1>3. tries' \in [Goroutines -> 0 .. MaxRetries - 1]
  BY <1>1 DEF QueryTypes, QueryEnds
<1>4. failedAt' \in [Goroutines -> SUBSET Endpoint]
  BY DEF QueryTypes, QueryEnds
<1>5. PcType' /\ Goes(g, "idle")
  BY PcGoes DEF QueryEnds, PcValues
<1> QED BY <1>2, <1>3, <1>4, <1>5 DEF QueryTypes

LEMMA PartGoesType ==
  ASSUME PartTypes, NEW g \in Goroutines, NEW i \in Positions, NEW place \in PartStates,
         PartGoes(g, i, place), UNCHANGED partTries
  PROVE  PartTypes'
<1>1. part[g] \in [Positions -> PartStates]
  BY DEF PartTypes
<1>2. [part[g] EXCEPT ![i] = place] \in [Positions -> PartStates]
  BY <1>1
<1>3. part' = [part EXCEPT ![g] = [part[g] EXCEPT ![i] = place]]
  BY DEF PartGoes
<1>4. part' \in [Goroutines -> [Positions -> PartStates]]
  BY <1>2, <1>3 DEF PartTypes
<1> QED BY <1>4 DEF PartTypes

\* Closing the shared connection.
LEMMA CutTypes ==
  ASSUME QueryTypes, PcType, PartTypes, SharedCut
  PROVE  /\ cut' \in [Goroutines -> BOOLEAN]
         /\ part' \in [Goroutines -> [Positions -> PartStates]]
<1>1. cut' \in [Goroutines -> BOOLEAN]
  BY DEF QueryTypes, SharedCut
<1>2. ASSUME NEW g \in Goroutines
      PROVE [part[g] EXCEPT ![1] = IF @ = "calling" THEN "cut" ELSE @] \in [Positions -> PartStates]
  <2>1. part[g] \in [Positions -> PartStates] /\ "cut" \in PartStates
    BY DEF PartTypes, PartStates
  <2> QED BY <2>1
<1> QED BY <1>1, <1>2 DEF SharedCut

LEMMA CoreInit == Init => CoreInv
<1> SUFFICES ASSUME Init PROVE CoreInv
  OBVIOUS
<1>1. Configured[1] \in Endpoint
  BY SomePositions DEF Endpoint
<1>2. flaky \subseteq Endpoint /\ undialable \subseteq Endpoint
  BY SituationsAssumption DEF Init
<1>3. NamesAllOnce(Configured)
  BY ConfiguredAssumption DEF NamesAllOnce, Endpoint
<1>4. ConnTypes
  BY <1>1, <1>2, <1>3 DEF Init, ConnTypes
<1>5. ConnectionsAccounted
  BY <1>1 DEF Init, ConnectionsAccounted
<1>6. PcType /\ PhasesOK
  BY DEF Init, PcType, PhasesOK
<1>7. QueryTypes
  BY SomePositions, MaxRetriesAssumption DEF Init, QueryTypes
<1>8. QuestionOK
  BY <1>1, <1>3, ConfiguredAssumption DEF Init, QuestionOK, QuestionTypes, SnapshotsOK
<1>9. PartTypes
  BY MaxRetriesAssumption DEF Init, PartTypes, NoParts, NoTries, PartStates
<1> QED BY <1>4, <1>5, <1>6, <1>7, <1>8, <1>9 DEF CoreInv, ConnOK

\* The offset a switch takes, and what it does to list and connections.
LEMMA SwitchFacts ==
  ASSUME CoreInv, NEW g \in Goroutines, Switch(g)
  PROVE  \E k \in 1 .. Len(list) - 1 :
           /\ k \in Offsets /\ Least(k, Offsets)
           /\ list' = RotatedBy(k) /\ connected' = list[k + 1]
           /\ NamesAllOnce(list')
           /\ \A i \in Positions : list'[i] = list[From(Len(Configured), k, i)]
           /\ connected' = list'[1] /\ connected' # connected /\ connected' \in Endpoint
           /\ shutdown = "no"
           /\ open' = [e \in Endpoint |-> IF e = connected' THEN 1 ELSE 0]
<1>1. PICK k \in Offsets : Least(k, Offsets) /\ list' = RotatedBy(k) /\ Reconnected(k)
  BY DEF Switch
<1>2. NamesAllOnce(list)
  BY DEF CoreInv, ConnOK, ConnTypes
<1>3. k \in 1 .. Len(list) - 1 /\ Len(list) = Len(Configured) /\ Len(list) \in Nat
  BY <1>2, SomePositions DEF Offsets, NamesAllOnce
<1>4. /\ NamesAllOnce(list') /\ list'[1] = list[k + 1]
      /\ \A i \in Positions : list'[i] = list[From(Len(Configured), k, i)]
  BY <1>1, <1>2, <1>3, RotationKeepsAll
<1>5. connected' = list[k + 1]
  BY <1>1 DEF Reconnected
<1>6. k + 1 \in Positions /\ 1 \in Positions /\ k + 1 # 1
  BY <1>3, SomePositions
<1>7. connected = list[1] /\ connected' # connected
  BY <1>2, <1>5, <1>6 DEF CoreInv, ConnOK, ConnectionsAccounted, NamesAllOnce
<1>8. connected' \in Endpoint
  BY <1>2, <1>5, <1>6 DEF NamesAllOnce
<1>9. shutdown = "no"
  <2>1. MayRotate(g) /\ Len(Configured) # 1
    BY <1>3 DEF CoreInv, PhasesOK, Switch
  <2> QED BY <2>1 DEF MayRotate, CoreInv, PhasesOK, Switch
<1>10. open' = [e \in Endpoint |-> IF e = connected' THEN 1 ELSE 0]
  <2>1. open = [e \in Endpoint |-> IF e = connected THEN 1 ELSE 0]
    BY <1>9 DEF CoreInv, ConnOK, ConnectionsAccounted
  <2>2. \A e \in Endpoint : open[e] + (IF e = list[k + 1] THEN 1 ELSE 0)
                              - (IF e = connected THEN 1 ELSE 0)
                            = IF e = connected' THEN 1 ELSE 0
    BY <2>1, <1>5, <1>7
  <2> QED BY <1>1, <2>2 DEF Reconnected
<1> QED BY <1>1, <1>3, <1>4, <1>5, <1>7, <1>8, <1>9, <1>10

LEMMA CoreStep == CoreInv /\ [Next]_vars => CoreInv'
<1> SUFFICES ASSUME CoreInv, [Next]_vars PROVE CoreInv'
  OBVIOUS
<1>0. ConnOK /\ PcType /\ QueryTypes /\ QuestionOK /\ PartTypes /\ PhasesOK /\ ctxDone \in BOOLEAN
  BY DEF CoreInv, ConnOK, ConnTypes
<1>1. ASSUME NEW g \in Goroutines, QueryBegins(g) PROVE CoreInv'
  <2>a. ConnOK'
    BY <1>1, <1>0, ConnFrame DEF QueryBegins, phaseVars
  <2>b. QuestionOK' /\ PartTypes'
    BY <1>1, <1>0, QuestionFrame, PartFrame DEF QueryBegins, askVars, questionVars
  <2>1. Goes(g, "calling") /\ MayRotate(g) /\ pc[g] = "idle" /\ UNCHANGED phaseVars /\ "calling" \in PcValues
    BY <1>1 DEF QueryBegins, PcValues
  <2>2. PcType' /\ PhasesOK'
    BY <1>0, <2>1, PcGoes, PhasesGo
  <2>3. QueryTypes'
    BY <1>1, <1>0 DEF QueryBegins, QueryTypes
  <2> QED BY <2>a, <2>b, <2>2, <2>3 DEF CoreInv
<1>2. ASSUME NEW g \in Goroutines, QueryAnswered(g) PROVE CoreInv'
  <2>a. ConnOK'
    BY <1>2, <1>0, ConnFrame DEF QueryAnswered, phaseVars
  <2>b. QuestionOK' /\ PartTypes'
    BY <1>2, <1>0, QuestionFrame, PartFrame DEF QueryAnswered, askVars, questionVars
  <2>1. /\ QueryEnds(g) /\ pc[g] # "returned" /\ UNCHANGED phaseVars /\ "idle" \in PcValues
        /\ cut' \in [Goroutines -> BOOLEAN]
    BY <1>2, <1>0 DEF QueryAnswered, queryVars, QueryTypes, PcValues
  <2>2. QueryTypes' /\ PcType' /\ Goes(g, "idle")
    BY <1>0, <2>1, EndTypes
  <2>3. PhasesOK'
    BY <1>0, <2>1, <2>2, PhasesGo
  <2> QED BY <2>a, <2>b, <2>2, <2>3 DEF CoreInv
<1>3. ASSUME NEW g \in Goroutines, CallFails(g) PROVE CoreInv'
  <2>a. ConnOK'
    BY <1>3, <1>0, ConnFrame DEF CallFails, phaseVars
  <2>b. QuestionOK' /\ PartTypes'
    BY <1>3, <1>0, QuestionFrame, PartFrame DEF CallFails, askVars, questionVars
  <2>1. MayRotate(g) /\ pc[g] = "calling" /\ UNCHANGED phaseVars
    BY <1>3, <1>0 DEF CallFails, PhasesOK
  <2>2. PcType' /\ PhasesOK'
    <3>1. CASE tries[g] + 1 < MaxRetries
      <4>1. UNCHANGED <<pc, shutdown, ctxDone>>
        BY <1>3, <3>1 DEF CallFails, phaseVars
      <4> QED BY <4>1, <1>0, PhasesFrame DEF PcType
    <3>2. CASE ~(tries[g] + 1 < MaxRetries)
      <4>1. Goes(g, "switching") /\ "switching" \in PcValues
        BY <1>3, <3>2 DEF CallFails, PcValues
      <4> QED BY <4>1, <2>1, <1>0, PcGoes, PhasesGo
    <3> QED BY <3>1, <3>2
  <2>3. QueryTypes'
    <3>1. round' \in [Goroutines -> 0 .. Len(Configured) - 1] /\ cut' \in [Goroutines -> BOOLEAN]
      BY <1>3, <1>0 DEF CallFails, QueryTypes
    <3>2. tries' \in [Goroutines -> 0 .. MaxRetries - 1]
      BY <1>3, <1>0, MaxRetriesAssumption DEF CallFails, QueryTypes
    <3>3. failedAt' \in [Goroutines -> SUBSET Endpoint]
      <4>1. failedAt[g] \union {connected} \in SUBSET Endpoint
        BY <1>0 DEF ConnOK, ConnTypes, QueryTypes
      <4>2. failedAt' = failedAt \/ failedAt' = [failedAt EXCEPT ![g] = failedAt[g] \union {connected}]
        BY <1>3 DEF CallFails
      <4> QED BY <4>1, <4>2, <1>0 DEF QueryTypes
    <3> QED BY <3>1, <3>2, <3>3 DEF QueryTypes
  <2> QED BY <2>a, <2>b, <2>2, <2>3 DEF CoreInv
<1>4. ASSUME NEW g \in Goroutines, QueryCancelled(g) PROVE CoreInv'
  <2>a. ConnOK'
    BY <1>4, <1>0, ConnFrame DEF QueryCancelled, phaseVars
  <2>b. QuestionOK' /\ PartTypes'
    BY <1>4, <1>0, QuestionFrame, PartFrame DEF QueryCancelled, askVars, questionVars
  <2>1. /\ QueryEnds(g) /\ pc[g] # "returned" /\ UNCHANGED phaseVars /\ "idle" \in PcValues
        /\ cut' \in [Goroutines -> BOOLEAN]
    BY <1>4, <1>0 DEF QueryCancelled, queryVars, QueryTypes, PcValues
  <2>2. QueryTypes' /\ PcType' /\ Goes(g, "idle")
    BY <1>0, <2>1, EndTypes
  <2>3. PhasesOK'
    BY <1>0, <2>1, <2>2, PhasesGo
  <2> QED BY <2>a, <2>b, <2>2, <2>3 DEF CoreInv
<1>5. ASSUME NEW g \in Goroutines, SwitchFails(g) PROVE CoreInv'
  <2>a. ConnOK'
    BY <1>5, <1>0, ConnFrame DEF SwitchFails, phaseVars
  <2>b. QuestionOK' /\ PartTypes'
    BY <1>5, <1>0, QuestionFrame, PartFrame DEF SwitchFails, askVars, questionVars
  <2>1. /\ QueryEnds(g) /\ pc[g] # "returned" /\ UNCHANGED phaseVars /\ "idle" \in PcValues
        /\ cut' \in [Goroutines -> BOOLEAN]
    BY <1>5, <1>0 DEF SwitchFails, queryVars, QueryTypes, PcValues
  <2>2. QueryTypes' /\ PcType' /\ Goes(g, "idle")
    BY <1>0, <2>1, EndTypes
  <2>3. PhasesOK'
    BY <1>0, <2>1, <2>2, PhasesGo
  <2> QED BY <2>a, <2>b, <2>2, <2>3 DEF CoreInv
<1>6. ASSUME NEW g \in Goroutines, Return(g) PROVE CoreInv'
  <2>a. ConnOK'
    BY <1>6, <1>0, ConnFrame DEF Return, phaseVars
  <2>b. QuestionOK' /\ PartTypes'
    BY <1>6, <1>0, QuestionFrame, PartFrame DEF Return, askVars, questionVars
  <2>1. Goes(g, "returned") /\ UNCHANGED phaseVars /\ "returned" \in PcValues
    BY <1>6 DEF Return, PcValues
  <2>2. PcType' /\ PhasesOK'
    BY <1>0, <2>1, PcGoes, PhasesGo
  <2>3. QueryTypes'
    BY <1>6, <1>0, QueryFrame DEF Return
  <2> QED BY <2>a, <2>b, <2>2, <2>3 DEF CoreInv
<1>7. ASSUME NEW g \in Goroutines, AskBegins(g) PROVE CoreInv'
  <2>a. ConnOK' /\ QueryTypes'
    BY <1>7, <1>0, ConnFrame, QueryFrame DEF AskBegins, phaseVars
  <2>1. /\ NamesAllOnce(list) /\ connected \in Endpoint
    BY <1>0 DEF ConnOK, ConnTypes
  <2>2. Goes(g, "asking") /\ Len(Configured) > 1 /\ pc[g] = "idle" /\ UNCHANGED phaseVars /\ "asking" \in PcValues
    BY <1>7, <2>1 DEF AskBegins, PcValues, NamesAllOnce
  <2>3. PcType' /\ PhasesOK'
    BY <1>0, <2>2, PcGoes, PhasesGo
  <2>4. QuestionOK'
    <3>1. NamesAllOnce(list) /\ connected = list[1]
      BY <2>1, <1>0 DEF ConnOK, ConnectionsAccounted
    <3>2. /\ snapshot' = [snapshot EXCEPT ![g] = list] /\ primary' = [primary EXCEPT ![g] = connected]
      BY <1>7 DEF AskBegins
    <3>3. QuestionTypes'
      BY <1>0, <2>1, <3>2 DEF QuestionOK, QuestionTypes, NamesAllOnce
    <3>4. \A h \in Goroutines : NamesAllOnce(snapshot'[h]) /\ primary'[h] = snapshot'[h][1]
      BY <1>0, <3>1, <3>2 DEF QuestionOK, QuestionTypes, SnapshotsOK
    <3> QED BY <3>3, <3>4 DEF QuestionOK, SnapshotsOK, NamesAllOnce
  <2>5. PartTypes'
    <3>1. [i \in Positions |->
             IF i > 1 THEN "dial" ELSE IF shutdown = "no" THEN "calling" ELSE "cut"]
          \in [Positions -> PartStates]
      BY DEF PartStates
    <3>2. NoTries \in [Positions -> 0 .. MaxRetries - 1]
      BY MaxRetriesAssumption DEF NoTries
    <3> QED BY <1>7, <1>0, <3>1, <3>2 DEF AskBegins, PartTypes
  <2> QED BY <2>a, <2>3, <2>4, <2>5 DEF CoreInv
<1>8. ASSUME NEW g \in Goroutines, AskEnds(g) PROVE CoreInv'
  <2>a. ConnOK' /\ QueryTypes'
    BY <1>8, <1>0, ConnFrame, QueryFrame DEF AskEnds, phaseVars
  <2>2. Goes(g, "idle") /\ pc[g] = "asking" /\ UNCHANGED phaseVars /\ "idle" \in PcValues
    BY <1>8 DEF AskEnds, PcValues
  <2>3. PcType' /\ PhasesOK'
    BY <1>0, <2>2, PcGoes, PhasesGo
  <2>4. QuestionOK'
    <3>1. Configured[1] \in Endpoint
      BY SomePositions DEF Endpoint
    <3>2. NamesAllOnce(Configured)
      BY ConfiguredAssumption DEF NamesAllOnce, Endpoint
    <3>3. QuestionTypes'
      BY <1>8, <1>0, <3>1, ConfiguredAssumption DEF AskEnds, QuestionOK, QuestionTypes
    <3>4. \A h \in Goroutines : NamesAllOnce(snapshot'[h]) /\ primary'[h] = snapshot'[h][1]
      BY <1>8, <1>0, <3>2 DEF AskEnds, QuestionOK, QuestionTypes, SnapshotsOK
    <3> QED BY <3>3, <3>4 DEF QuestionOK, SnapshotsOK, NamesAllOnce
  <2>5. PartTypes'
    <3>1. NoParts \in [Positions -> PartStates]
      BY DEF PartStates, NoParts
    <3>2. NoTries \in [Positions -> 0 .. MaxRetries - 1]
      BY MaxRetriesAssumption DEF NoTries
    <3> QED BY <1>8, <1>0, <3>1, <3>2 DEF AskEnds, PartTypes
  <2> QED BY <2>a, <2>3, <2>4, <2>5 DEF CoreInv
<1>9. ASSUME NEW g \in Goroutines, NEW i \in Positions, PartReuses(g, i) PROVE CoreInv'
  <2>a. QueryTypes' /\ QuestionOK' /\ PcType' /\ PhasesOK'
    <3>1. UNCHANGED <<pc, shutdown, ctxDone, queryVars, questionVars>>
      BY <1>9 DEF PartReuses, outsideParts, phaseVars
    <3> QED BY <3>1, <1>0, QueryFrame, QuestionFrame, PhasesFrame DEF PcType
  <2>b. ConnOK'
    <3>1. UNCHANGED <<faultVars, connVars, shutdown, ctxDone>>
      BY <1>9 DEF PartReuses, outsideParts, phaseVars, connVars
    <3> QED BY <3>1, <1>0, ConnFrame
  <2>1. PartGoes(g, i, "calling") /\ "calling" \in PartStates /\ UNCHANGED partTries
    BY <1>9 DEF PartReuses, PartStates
  <2>2. PartTypes'
    BY <1>0, <2>1, PartGoesType
  <2> QED BY <2>a, <2>b, <2>2 DEF CoreInv
<1>10. ASSUME NEW g \in Goroutines, NEW i \in Positions, PartCannotDial(g, i) PROVE CoreInv'
  <2>a. QueryTypes' /\ QuestionOK' /\ PcType' /\ PhasesOK'
    <3>1. UNCHANGED <<pc, shutdown, ctxDone, queryVars, questionVars>>
      BY <1>10 DEF PartCannotDial, outsideParts, phaseVars
    <3> QED BY <3>1, <1>0, QueryFrame, QuestionFrame, PhasesFrame DEF PcType
  <2>b. ConnOK'
    <3>1. UNCHANGED <<faultVars, connVars, shutdown, ctxDone>>
      BY <1>10 DEF PartCannotDial, outsideParts, phaseVars, connVars
    <3> QED BY <3>1, <1>0, ConnFrame
  <2>1. PartGoes(g, i, "failed") /\ "failed" \in PartStates /\ UNCHANGED partTries
    BY <1>10 DEF PartCannotDial, PartStates
  <2>2. PartTypes'
    BY <1>0, <2>1, PartGoesType
  <2> QED BY <2>a, <2>b, <2>2 DEF CoreInv
<1>11. ASSUME NEW g \in Goroutines, NEW i \in Positions, PartAnswered(g, i) PROVE CoreInv'
  <2>a. QueryTypes' /\ QuestionOK' /\ PcType' /\ PhasesOK'
    <3>1. UNCHANGED <<pc, shutdown, ctxDone, queryVars, questionVars>>
      BY <1>11 DEF PartAnswered, outsideParts, phaseVars
    <3> QED BY <3>1, <1>0, QueryFrame, QuestionFrame, PhasesFrame DEF PcType
  <2>b. ConnOK'
    <3>1. UNCHANGED <<faultVars, connVars, shutdown, ctxDone>>
      BY <1>11 DEF PartAnswered, outsideParts, phaseVars, connVars
    <3> QED BY <3>1, <1>0, ConnFrame
  <2>1. PartGoes(g, i, "answered") /\ "answered" \in PartStates /\ UNCHANGED partTries
    BY <1>11 DEF PartAnswered, PartStates
  <2>2. PartTypes'
    BY <1>0, <2>1, PartGoesType
  <2> QED BY <2>a, <2>b, <2>2 DEF CoreInv
<1>12. ASSUME NEW g \in Goroutines, NEW i \in Positions, PartDials(g, i) PROVE CoreInv'
  <2>a. QueryTypes' /\ QuestionOK' /\ PcType' /\ PhasesOK'
    <3>1. UNCHANGED <<pc, shutdown, ctxDone, queryVars, questionVars>>
      BY <1>12 DEF PartDials, outsideParts, phaseVars
    <3> QED BY <3>1, <1>0, QueryFrame, QuestionFrame, PhasesFrame DEF PcType
  <2>1. PartGoes(g, i, "calling") /\ "calling" \in PartStates /\ UNCHANGED partTries
    BY <1>12 DEF PartDials, PartStates
  <2>2. PartTypes'
    BY <1>0, <2>1, PartGoesType
  <2>b. ConnOK'
    <3> DEFINE e == Target(g, i)
    <3>1. /\ e \notin pool /\ e \notin undialable /\ shutdown # "closed"
          /\ pool' = pool \union {e} /\ openPool' = [openPool EXCEPT ![e] = openPool[e] + 1]
          /\ UNCHANGED <<faultVars, sharedVars, phaseVars>>
      BY <1>12 DEF PartDials, MayDial, outsideParts
    <3>2. ConnTypes /\ ConnectionsAccounted
      BY <1>0 DEF ConnOK
    <3>3. e \in Endpoint
      BY <1>0 DEF QuestionOK, QuestionTypes, SnapshotsOK, NamesAllOnce, Target
    <3> HIDE DEF e
    <3>4. openPool' = [d \in Endpoint |-> IF d \in pool' THEN 1 ELSE 0]
      BY <3>1, <3>2, <3>3 DEF ConnectionsAccounted
    <3>5. ConnectionsAccounted'
      BY <3>1, <3>2, <3>4 DEF ConnectionsAccounted, sharedVars, phaseVars
    <3>6. ConnTypes'
      BY <3>1, <3>2, <3>3, <3>4 DEF ConnTypes, NamesAllOnce, sharedVars, phaseVars, faultVars
    <3> QED BY <3>5, <3>6 DEF ConnOK
  <2> QED BY <2>a, <2>b, <2>2 DEF CoreInv
<1>13. ASSUME NEW g \in Goroutines, NEW i \in Positions, PartFails(g, i) PROVE CoreInv'
  <2>a. QueryTypes' /\ QuestionOK' /\ PcType' /\ PhasesOK'
    <3>1. UNCHANGED <<pc, shutdown, ctxDone, queryVars, questionVars>>
      BY <1>13 DEF PartFails, outsideParts, phaseVars
    <3> QED BY <3>1, <1>0, QueryFrame, QuestionFrame, PhasesFrame DEF PcType
  <2>b. ConnOK'
    <3>1. UNCHANGED <<faultVars, connVars, shutdown, ctxDone>>
      BY <1>13 DEF PartFails, outsideParts, phaseVars, connVars
    <3> QED BY <3>1, <1>0, ConnFrame
  <2>1. PartTypes'
    <3>1. CASE ctxDone \/ partTries[g][i] + 1 = MaxRetries
      <4>1. PartGoes(g, i, "failed") /\ "failed" \in PartStates /\ UNCHANGED partTries
        BY <1>13, <3>1 DEF PartFails, PartStates
      <4> QED BY <1>0, <4>1, PartGoesType
    <3>2. CASE ~(ctxDone \/ partTries[g][i] + 1 = MaxRetries)
      <4>1. /\ partTries' = [partTries EXCEPT ![g] = [partTries[g] EXCEPT ![i] = partTries[g][i] + 1]]
            /\ UNCHANGED part
        BY <1>13, <3>2 DEF PartFails
      <4>2. partTries[g] \in [Positions -> 0 .. MaxRetries - 1]
        BY <1>0 DEF PartTypes
      <4>3. partTries[g][i] + 1 \in 0 .. MaxRetries - 1
        BY <3>2, <4>2, MaxRetriesAssumption
      <4>4. [partTries[g] EXCEPT ![i] = partTries[g][i] + 1] \in [Positions -> 0 .. MaxRetries - 1]
        BY <4>2, <4>3
      <4> QED BY <1>0, <4>1, <4>4 DEF PartTypes
    <3> QED BY <3>1, <3>2
  <2> QED BY <2>a, <2>b, <2>1 DEF CoreInv
<1>14. ASSUME Cancel PROVE CoreInv'
  <2>1. /\ ctxDone' = TRUE /\ UNCHANGED <<faultVars, connVars, shutdown, pc>>
        /\ UNCHANGED <<queryVars, questionVars, part, partTries>>
    BY <1>14 DEF Cancel, askVars
  <2>2. ConnOK' /\ QueryTypes' /\ QuestionOK' /\ PartTypes'
    BY <1>0, <2>1, ConnFrame, QueryFrame, QuestionFrame, PartFrame
  <2>3. PcType' /\ PhasesOK'
    BY <1>0, <2>1, PhasesFrame DEF PcType
  <2> QED BY <2>2, <2>3 DEF CoreInv
<1>15. ASSUME CloseShared PROVE CoreInv'
  <2>a. PcType' /\ QuestionOK'
    BY <1>15, <1>0, QuestionFrame DEF CloseShared, PcType
  <2>1. QueryTypes' /\ PartTypes'
    <3>1. SharedCut /\ UNCHANGED <<round, tries, failedAt, partTries>>
      BY <1>15 DEF CloseShared
    <3> QED BY <1>0, <3>1, CutTypes DEF QueryTypes, PartTypes
  <2>2. PhasesOK'
    BY <1>15, <1>0 DEF CloseShared, PhasesOK, MayRotate
  <2>3. ConnOK'
    <3>1. /\ shutdown = "no" /\ shutdown' = "closing" /\ open' = [open EXCEPT ![connected] = open[connected] - 1]
          /\ UNCHANGED <<faultVars, list, connected, poolVars, ctxDone>>
      BY <1>15 DEF CloseShared
    <3>2. ConnTypes /\ ConnectionsAccounted
      BY <1>0 DEF ConnOK
    <3>3. open = [e \in Endpoint |-> IF e = connected THEN 1 ELSE 0] /\ connected \in Endpoint
      BY <3>1, <3>2 DEF ConnTypes, ConnectionsAccounted
    <3>4. open' = [e \in Endpoint |-> 0]
      BY <3>1, <3>3
    <3>5. ConnectionsAccounted'
      BY <3>1, <3>2, <3>4 DEF ConnectionsAccounted, poolVars
    <3>6. ConnTypes'
      BY <3>1, <3>2, <3>4 DEF ConnTypes, NamesAllOnce, poolVars, faultVars
    <3> QED BY <3>5, <3>6 DEF ConnOK
  <2> QED BY <2>a, <2>1, <2>2, <2>3 DEF CoreInv
<1>16. ASSUME ClosePool PROVE CoreInv'
  <2>a. PcType' /\ QuestionOK' /\ QueryTypes'
    BY <1>16, <1>0, QuestionFrame, QueryFrame DEF ClosePool, PcType
  <2>1. PartTypes'
    <3>1. ASSUME NEW g \in Goroutines
          PROVE [i \in Positions |-> IF part[g][i] = "calling" THEN "cut" ELSE part[g][i]]
                \in [Positions -> PartStates]
      BY <1>0 DEF PartTypes, PartStates
    <3> QED BY <1>16, <1>0, <3>1 DEF ClosePool, PartTypes
  <2>2. PhasesOK'
    BY <1>16, <1>0 DEF ClosePool, PhasesOK, MayRotate
  <2>3. ConnOK'
    <3>1. /\ shutdown = "closing" /\ shutdown' = "closed" /\ pool' = {}
          /\ openPool' = [e \in Endpoint |-> openPool[e] - (IF e \in pool THEN 1 ELSE 0)]
          /\ UNCHANGED <<faultVars, sharedVars, ctxDone>>
      BY <1>16 DEF ClosePool
    <3>2. ConnTypes /\ ConnectionsAccounted
      BY <1>0 DEF ConnOK
    <3>3. \A e \in Endpoint : openPool[e] - (IF e \in pool THEN 1 ELSE 0) = 0
      BY <3>2 DEF ConnectionsAccounted
    <3>4. openPool' = [e \in Endpoint |-> 0]
      BY <3>1, <3>3
    <3>5. ConnectionsAccounted'
      BY <3>1, <3>2, <3>4 DEF ConnectionsAccounted, sharedVars
    <3>6. ConnTypes'
      BY <3>1, <3>2, <3>4 DEF ConnTypes, NamesAllOnce, sharedVars, faultVars
    <3> QED BY <3>5, <3>6 DEF ConnOK
  <2> QED BY <2>a, <2>1, <2>2, <2>3 DEF CoreInv
<1>17. ASSUME UNCHANGED vars PROVE CoreInv'
  <2>1. UNCHANGED <<faultVars, connVars, shutdown, ctxDone, pc, queryVars, questionVars, part, partTries>>
    BY <1>17 DEF vars, phaseVars, askVars
  <2>2. ConnOK' /\ QueryTypes' /\ QuestionOK' /\ PartTypes'
    BY <1>0, <2>1, ConnFrame, QueryFrame, QuestionFrame, PartFrame
  <2>3. PcType' /\ PhasesOK'
    BY <1>0, <2>1, PhasesFrame DEF PcType
  <2> QED BY <2>2, <2>3 DEF CoreInv
<1>18. ASSUME NEW g \in Goroutines, Switch(g) PROVE CoreInv'
  <2>1. /\ NamesAllOnce(list') /\ connected' = list'[1] /\ connected' \in Endpoint
        /\ shutdown = "no"
        /\ open' = [e \in Endpoint |-> IF e = connected' THEN 1 ELSE 0]
    BY <1>18, SwitchFacts
  <2>2. ConnTypes /\ ConnectionsAccounted /\ UNCHANGED <<faultVars, poolVars, phaseVars>>
    BY <1>18, <1>0 DEF ConnOK, Switch
  <2>3. ConnOK'
    <3>1. ConnTypes'
      BY <2>1, <2>2 DEF ConnTypes, NamesAllOnce, faultVars, poolVars, phaseVars
    <3>2. ConnectionsAccounted'
      BY <2>1, <2>2 DEF ConnectionsAccounted, poolVars, phaseVars
    <3> QED BY <3>1, <3>2 DEF ConnOK
  <2>4. cut' \in [Goroutines -> BOOLEAN] /\ PartTypes' /\ QuestionOK'
    <3>1. SharedCut /\ UNCHANGED <<questionVars, partTries>>
      BY <1>18 DEF Switch
    <3> QED BY <1>0, <3>1, CutTypes, QuestionFrame DEF PartTypes
  <2>5. QueryTypes' /\ PcType' /\ PhasesOK'
    <3>0. /\ pc[g] = "switching" /\ MayRotate(g) /\ Len(list) = Len(Configured)
          /\ "calling" \in PcValues /\ "idle" \in PcValues
      BY <1>18, <1>0, <2>2 DEF Switch, PhasesOK, ConnTypes, NamesAllOnce, PcValues
    <3>1. CASE RoundsLeft(g)
      <4>1. /\ round' = [round EXCEPT ![g] = round[g] + 1] /\ Goes(g, "calling")
            /\ UNCHANGED <<tries, failedAt>>
        BY <1>18, <3>1 DEF Switch
      <4>2. round[g] + 1 \in 0 .. Len(Configured) - 1
        BY <3>0, <3>1, <1>0, SomePositions DEF RoundsLeft, QueryTypes
      <4>3. QueryTypes'
        BY <4>1, <4>2, <2>4, <1>0 DEF QueryTypes
      <4> QED BY <1>0, <2>2, <3>0, <4>1, <4>3, PcGoes, PhasesGo
    <3>2. CASE ~RoundsLeft(g)
      <4>1. QueryEnds(g)
        BY <1>18, <3>2 DEF Switch
      <4>2. QueryTypes' /\ PcType' /\ Goes(g, "idle")
        BY <1>0, <2>4, <4>1, EndTypes
      <4> QED BY <1>0, <2>2, <3>0, <4>2, PhasesGo
    <3> QED BY <3>1, <3>2
  <2> QED BY <2>3, <2>4, <2>5 DEF CoreInv
<1> QED
  BY <1>1, <1>2, <1>3, <1>4, <1>5, <1>6, <1>7, <1>8, <1>9, <1>10, <1>11, <1>12, <1>13, <1>14, <1>15, <1>16, <1>17, <1>18
  DEF Next, Query, Part, Exited

-----------------------------------------------------------------------------
(* What a query has tried *)

LEMMA SoleRotatorConstant == SoleRotator' <=> SoleRotator
BY DEF SoleRotator, MayRotate

\* A goroutine that takes no part in a step keeps what it has tried.
TriedSame(h) ==
  pc'[h] = pc[h] /\ round'[h] = round[h] /\ failedAt'[h] = failedAt[h]

LEMMA TriedFrame ==
  ASSUME TriedAreLast, UNCHANGED <<list, undialable>>,
         SoleRotator => \A h \in Goroutines : TriedSame(h) \/ TriedLast(h)'
  PROVE  TriedAreLast'
BY SoleRotatorConstant DEF TriedAreLast, TriedLast, TriedSame

\* What QueryEnds and the other assignments of one goroutine leave to the rest.
LEMMA EndsLocally ==
  ASSUME PcType, QueryTypes, NEW g \in Goroutines, QueryEnds(g)
  PROVE  /\ \A h \in Goroutines \ {g} : TriedSame(h)
         /\ TriedLast(g)'
BY DEF PcType, QueryTypes, QueryEnds, Goes, TriedSame, TriedLast

LEMMA TriedInit == Init => TriedAreLast
BY SomePositions DEF Init, TriedAreLast, TriedLast

\* The endpoints before the one a switch takes have failed or cannot be dialed.
LEMMA SkippedAreTried ==
  ASSUME NamesAllOnce(list), NEW k \in Offsets, Least(k, Offsets),
         NEW g, list[1] \in failedAt[g], NEW i \in 1 .. k
  PROVE  list[i] \in failedAt[g] \union undialable
<1>1. Len(list) \in Nat /\ k \in 1 .. Len(list) - 1
  BY SomePositions DEF NamesAllOnce, Offsets
<1>2. CASE i = 1
  BY <1>2
<1>3. CASE i > 1
  <2>1. i - 1 \in 1 .. Len(list) - 1 /\ i - 1 < k /\ (i - 1) + 1 = i
    BY <1>1, <1>3
  <2>2. i - 1 \notin Offsets
    BY <1>1, <2>1 DEF Least, Offsets
  <2> QED BY <2>1, <2>2 DEF Offsets
<1> QED BY <1>1, <1>2, <1>3

\* The same for what lies behind, once the list has been rotated.
LEMMA RotatedTried ==
  ASSUME CoreInv, TriedAreLast, SoleRotator, NEW g \in Goroutines, Switch(g),
         NEW i \in Positions, i > Len(Configured) - (round[g] + 1)
  PROVE  list'[i] \in failedAt[g] \union undialable
<1> DEFINE N == Len(Configured)
<1>1. PICK k \in 1 .. Len(list) - 1 :
        /\ k \in Offsets /\ Least(k, Offsets)
        /\ \A j \in Positions : list'[j] = list[From(N, k, j)]
  BY SwitchFacts
<1>2. NamesAllOnce(list) /\ N \in Nat /\ Positions = 1 .. N /\ Len(list) = N
  BY SomePositions DEF CoreInv, ConnOK, ConnTypes, NamesAllOnce
<1>3. pc[g] = "switching" /\ round[g] \in 0 .. N - 1
  BY DEF Switch, CoreInv, QueryTypes
<1>4. /\ list[1] \in failedAt[g]
      /\ \A j \in Positions : j > N - round[g] => list[j] \in failedAt[g] \union undialable
  BY <1>3 DEF TriedAreLast, TriedLast
<1> HIDE DEF N
<1>5. CASE i > N - k
  <2>1. list'[i] = list[i + k - N] /\ i + k - N \in 1 .. k
    BY <1>1, <1>2, <1>5 DEF From
  <2> QED BY <1>1, <1>2, <1>4, <2>1, SkippedAreTried
<1>6. CASE i <= N - k
  <2>1. list'[i] = list[i + k] /\ i + k \in Positions
    BY <1>1, <1>2, <1>6 DEF From
  <2>2. i + k > N - round[g]
    BY <1>1, <1>2, <1>3 DEF N
  <2> QED BY <1>4, <2>1, <2>2
<1> QED BY <1>1, <1>2, <1>5, <1>6

LEMMA TriedStep == CoreInv /\ TriedAreLast /\ [Next]_vars => TriedAreLast'
<1> SUFFICES ASSUME CoreInv, TriedAreLast, [Next]_vars PROVE TriedAreLast'
  OBVIOUS
<1>0. /\ PcType /\ QueryTypes /\ ConnTypes /\ ConnectionsAccounted
      /\ SoleRotator => \A g \in Goroutines : TriedLast(g)
  BY DEF CoreInv, ConnOK, TriedAreLast
<1>1. ASSUME NEW g \in Goroutines, QueryBegins(g) PROVE TriedAreLast'
  <2>1. UNCHANGED <<list, undialable>>
    BY <1>1 DEF QueryBegins, faultVars, connVars, sharedVars, outsideParts
  <2>2. \A h \in Goroutines \ {g} : TriedSame(h)
    BY <1>1, <1>0 DEF QueryBegins, Goes, PcType, TriedSame
  <2>3. pc'[g] = "calling" /\ pc[g] = "idle" /\ round'[g] = round[g]
    BY <1>1, <1>0 DEF QueryBegins, Goes, PcType
  <2>4. SoleRotator => TriedLast(g)'
    BY <1>0, <2>3, SomePositions DEF TriedLast
  <2> QED BY <2>1, <2>2, <2>4, TriedFrame
<1>2. ASSUME NEW g \in Goroutines, CallFails(g) PROVE TriedAreLast'
  <2>1. UNCHANGED <<list, undialable>>
    BY <1>2 DEF CallFails, faultVars, connVars, sharedVars, outsideParts
  <2>2. \A h \in Goroutines \ {g} : TriedSame(h)
    BY <1>2, <1>0 DEF CallFails, Goes, PcType, QueryTypes, TriedSame
  <2>3. /\ pc[g] = "calling" /\ round'[g] = round[g]
        /\ \/ pc'[g] = "calling" /\ failedAt'[g] = failedAt[g]
           \/ pc'[g] = "switching" /\ failedAt'[g] = failedAt[g] \union {connected}
    BY <1>2, <1>0 DEF CallFails, Goes, PcType, QueryTypes
  <2>4. connected = list[1]
    BY <1>0 DEF ConnectionsAccounted
  <2>5. SoleRotator => TriedLast(g)'
    BY <1>0, <2>1, <2>3, <2>4 DEF TriedLast
  <2> QED BY <2>1, <2>2, <2>5, TriedFrame
<1>3. ASSUME NEW g \in Goroutines, QueryAnswered(g) PROVE TriedAreLast'
  <2>1. UNCHANGED <<list, undialable>>
    BY <1>3 DEF QueryAnswered, faultVars, connVars, sharedVars, outsideParts
  <2>2. QueryEnds(g)
    BY <1>3 DEF QueryAnswered
  <2> QED BY <1>0, <2>1, <2>2, EndsLocally, TriedFrame
<1>4. ASSUME NEW g \in Goroutines, QueryCancelled(g) PROVE TriedAreLast'
  <2>1. UNCHANGED <<list, undialable>>
    BY <1>4 DEF QueryCancelled, faultVars, connVars, sharedVars, outsideParts
  <2>2. QueryEnds(g)
    BY <1>4 DEF QueryCancelled
  <2> QED BY <1>0, <2>1, <2>2, EndsLocally, TriedFrame
<1>5. ASSUME NEW g \in Goroutines, SwitchFails(g) PROVE TriedAreLast'
  <2>1. UNCHANGED <<list, undialable>>
    BY <1>5 DEF SwitchFails, faultVars, connVars, sharedVars, outsideParts
  <2>2. QueryEnds(g)
    BY <1>5 DEF SwitchFails
  <2> QED BY <1>0, <2>1, <2>2, EndsLocally, TriedFrame
<1>6. ASSUME NEW g \in Goroutines, Return(g) PROVE TriedAreLast'
  <2>1. UNCHANGED <<list, undialable>>
    BY <1>6 DEF Return, faultVars, connVars, sharedVars, outsideParts
  <2>2. \A h \in Goroutines \ {g} : TriedSame(h)
    BY <1>6, <1>0 DEF Return, Goes, PcType, TriedSame, queryVars
  <2>3. pc[g] = "idle" /\ pc'[g] = "returned" /\ round'[g] = round[g]
    BY <1>6, <1>0 DEF Return, Goes, PcType, queryVars
  <2>4. SoleRotator => TriedLast(g)'
    BY <1>0, <2>3 DEF TriedLast
  <2> QED BY <2>1, <2>2, <2>4, TriedFrame
<1>7. ASSUME NEW g \in Goroutines, AskBegins(g) PROVE TriedAreLast'
  <2>1. UNCHANGED <<list, undialable>>
    BY <1>7 DEF AskBegins, faultVars, connVars, sharedVars, outsideParts
  <2>2. \A h \in Goroutines \ {g} : TriedSame(h)
    BY <1>7, <1>0 DEF AskBegins, Goes, PcType, TriedSame, queryVars
  <2>3. pc[g] = "idle" /\ pc'[g] = "asking" /\ round'[g] = round[g]
    BY <1>7, <1>0 DEF AskBegins, Goes, PcType, queryVars
  <2>4. SoleRotator => TriedLast(g)'
    BY <1>0, <2>3 DEF TriedLast
  <2> QED BY <2>1, <2>2, <2>4, TriedFrame
<1>8. ASSUME NEW g \in Goroutines, AskEnds(g) PROVE TriedAreLast'
  <2>1. UNCHANGED <<list, undialable>>
    BY <1>8 DEF AskEnds, faultVars, connVars, sharedVars, outsideParts
  <2>2. \A h \in Goroutines \ {g} : TriedSame(h)
    BY <1>8, <1>0 DEF AskEnds, Goes, PcType, TriedSame, queryVars
  <2>3. pc[g] = "asking" /\ pc'[g] = "idle" /\ round'[g] = round[g]
    BY <1>8, <1>0 DEF AskEnds, Goes, PcType, queryVars
  <2>4. SoleRotator => TriedLast(g)'
    BY <1>0, <2>3 DEF TriedLast
  <2> QED BY <2>1, <2>2, <2>4, TriedFrame
<1>9. ASSUME NEW g \in Goroutines, NEW i \in Positions, Part(g, i) PROVE TriedAreLast'
  <2>1. UNCHANGED <<list, undialable, pc, round, failedAt>>
    BY <1>9 DEF Part, PartReuses, PartDials, PartCannotDial, PartAnswered, PartFails, faultVars, connVars, sharedVars, outsideParts, queryVars
  <2> QED BY <2>1, TriedFrame DEF TriedSame
<1>10. ASSUME Cancel \/ CloseShared \/ ClosePool PROVE TriedAreLast'
  <2>1. UNCHANGED <<list, undialable, pc, round, failedAt>>
    BY <1>10 DEF Cancel, CloseShared, ClosePool, faultVars, connVars, sharedVars, outsideParts, queryVars
  <2> QED BY <2>1, TriedFrame DEF TriedSame
<1>11. ASSUME UNCHANGED vars PROVE TriedAreLast'
  <2>1. UNCHANGED <<list, undialable, pc, round, failedAt>>
    BY <1>11 DEF vars, faultVars, connVars, sharedVars, outsideParts, queryVars
  <2> QED BY <2>1, TriedFrame DEF TriedSame
<1>12. ASSUME NEW g \in Goroutines, Switch(g) PROVE TriedAreLast'
  <2>1. UNCHANGED undialable /\ pc[g] = "switching"
    BY <1>12 DEF Switch, faultVars
  <2>2. \A h \in Goroutines \ {g} : TriedSame(h)
    <3>1. CASE RoundsLeft(g)
      BY <1>12, <3>1, <1>0 DEF Switch, Goes, PcType, QueryTypes, TriedSame
    <3>2. CASE ~RoundsLeft(g)
      BY <1>12, <3>2, <1>0, EndsLocally DEF Switch
    <3> QED BY <3>1, <3>2
  <2>3. ASSUME SoleRotator, NEW h \in Goroutines \ {g} PROVE TriedLast(h)'
    <3>1. pc[h] \notin {"calling", "switching"}
      BY <2>1, <2>3 DEF CoreInv, PhasesOK, SoleRotator
    <3>2. round[h] = 0
      BY <1>0, <2>3, <3>1 DEF TriedLast
    <3> QED BY <2>2, <3>1, <3>2 DEF TriedSame, TriedLast
  <2>4. ASSUME SoleRotator PROVE TriedLast(g)'
    <3>1. CASE RoundsLeft(g)
      <4>1. round'[g] = round[g] + 1 /\ pc'[g] = "calling" /\ failedAt'[g] = failedAt[g]
        BY <1>12, <3>1, <1>0 DEF Switch, Goes, PcType, QueryTypes
      <4>2. \A i \in Positions : i > Len(Configured) - (round[g] + 1)
              => list'[i] \in failedAt[g] \union undialable
        BY <1>12, <2>4, RotatedTried
      <4> QED BY <2>1, <4>1, <4>2 DEF TriedLast
    <3>2. CASE ~RoundsLeft(g)
      BY <1>12, <3>2, <1>0, EndsLocally DEF Switch
    <3> QED BY <3>1, <3>2
  <2> QED BY <2>3, <2>4, SoleRotatorConstant DEF TriedAreLast
<1> QED
  BY <1>1, <1>2, <1>3, <1>4, <1>5, <1>6, <1>7, <1>8, <1>9, <1>10, <1>11, <1>12
  DEF Next, Query, Exited

-----------------------------------------------------------------------------
(* What a question has heard *)

LEMMA HealthyInit == Init => HealthyPartsHold
BY DEF Init, HealthyPartsHold

\* Behind the first part nothing happens that the whole question would not see.
LEMMA HealthyFrame ==
  ASSUME HealthyPartsHold, UNCHANGED <<faultVars, ctxDone, snapshot>>,
         \A g \in Goroutines : pc'[g] = "asking" =>
           /\ pc[g] = "asking"
           /\ \A i \in Positions : i > 1 => part'[g][i] = part[g][i]
  PROVE  HealthyPartsHold'
<1>1. Healthy' = Healthy
  BY DEF Healthy, faultVars
<1>2. \A g \in Goroutines : \A i \in Positions : i > 1 => Target(g, i)' = Target(g, i)
  BY DEF Target
<1> QED BY <1>1, <1>2 DEF HealthyPartsHold

\* One part goes on, to a place a healthy endpoint may lead it to.
LEMMA HealthyPart ==
  ASSUME HealthyPartsHold, PartTypes, UNCHANGED <<faultVars, ctxDone, snapshot, pc>>,
         NEW g \in Goroutines, NEW i \in Positions, NEW place, PartGoes(g, i, place),
         i > 1 /\ Target(g, i) \in Healthy => place \notin {"cut", "failed"}
  PROVE  HealthyPartsHold'
<1>1. Healthy' = Healthy
  BY DEF Healthy, faultVars
<1>2. \A h \in Goroutines : \A j \in Positions : j > 1 => Target(h, j)' = Target(h, j)
  BY DEF Target
<1>3. \A h \in Goroutines : \A j \in Positions :
        part'[h][j] = IF h = g /\ j = i THEN place ELSE part[h][j]
  <2>1. part[g] \in [Positions -> PartStates]
    BY DEF PartTypes
  <2>2. part' = [part EXCEPT ![g] = [part[g] EXCEPT ![i] = place]]
    BY DEF PartGoes
  <2> QED BY <2>1, <2>2 DEF PartTypes
<1> QED BY <1>1, <1>2, <1>3 DEF HealthyPartsHold

LEMMA HealthyStep == CoreInv /\ HealthyPartsHold /\ [Next]_vars => HealthyPartsHold'
<1> SUFFICES ASSUME CoreInv, HealthyPartsHold, [Next]_vars, ~ctxDone' PROVE HealthyPartsHold'
  BY DEF HealthyPartsHold
<1>0. PcType /\ PartTypes /\ PhasesOK /\ QueryTypes
  BY DEF CoreInv
<1>1. ASSUME NEW g \in Goroutines,
             \/ QueryBegins(g) \/ QueryAnswered(g) \/ CallFails(g) \/ QueryCancelled(g)
             \/ SwitchFails(g) \/ Return(g)
      PROVE HealthyPartsHold'
  <2>1. UNCHANGED <<faultVars, ctxDone, snapshot, part>>
    BY <1>1 DEF QueryBegins, QueryAnswered, CallFails, QueryCancelled, SwitchFails, Return,
                phaseVars, askVars, questionVars
  <2>2. \A h \in Goroutines : pc'[h] = "asking" => pc[h] = "asking"
    BY <1>0, <1>1 DEF QueryBegins, QueryAnswered, CallFails, QueryCancelled, SwitchFails,
                      Return, QueryEnds, Goes, PcType
  <2> QED BY <2>1, <2>2, HealthyFrame
<1>2. ASSUME NEW g \in Goroutines, Switch(g) PROVE HealthyPartsHold'
  <2>1. UNCHANGED <<faultVars, ctxDone, snapshot>> /\ SharedCut
    BY <1>2 DEF Switch, phaseVars, questionVars
  <2>2. \A h \in Goroutines : pc'[h] = "asking" => pc[h] = "asking"
    BY <1>0, <1>2 DEF Switch, QueryEnds, Goes, PcType
  <2>3. \A h \in Goroutines : \A i \in Positions : i > 1 => part'[h][i] = part[h][i]
    BY <1>0, <2>1 DEF SharedCut, PartTypes
  <2> QED BY <2>1, <2>2, <2>3, HealthyFrame
<1>3. ASSUME NEW g \in Goroutines, AskBegins(g) PROVE HealthyPartsHold'
  <2>1. UNCHANGED <<faultVars, ctxDone>>
    BY <1>3 DEF AskBegins, phaseVars
  <2>2. Healthy' = Healthy
    BY <2>1 DEF Healthy, faultVars
  <2>3. \A i \in Positions : i > 1 => part'[g][i] = "dial"
    BY <1>0, <1>3 DEF AskBegins, PartTypes
  <2>4. \A h \in Goroutines \ {g} :
          pc'[h] = pc[h] /\ part'[h] = part[h] /\ snapshot'[h] = snapshot[h]
    BY <1>0, <1>3 DEF AskBegins, Goes, PcType, PartTypes, CoreInv, QuestionOK, QuestionTypes
  <2>5. \A h \in Goroutines \ {g} : \A i \in Positions : i > 1 => Target(h, i)' = Target(h, i)
    BY <2>4 DEF Target
  <2> QED BY <2>1, <2>2, <2>3, <2>4, <2>5 DEF HealthyPartsHold
<1>4. ASSUME NEW g \in Goroutines, AskEnds(g) PROVE HealthyPartsHold'
  <2>1. UNCHANGED <<faultVars, ctxDone>>
    BY <1>4 DEF AskEnds, phaseVars
  <2>2. Healthy' = Healthy
    BY <2>1 DEF Healthy, faultVars
  <2>3. pc'[g] = "idle"
    BY <1>0, <1>4 DEF AskEnds, Goes, PcType
  <2>4. \A h \in Goroutines \ {g} :
          pc'[h] = pc[h] /\ part'[h] = part[h] /\ snapshot'[h] = snapshot[h]
    BY <1>0, <1>4 DEF AskEnds, Goes, PcType, PartTypes, CoreInv, QuestionOK, QuestionTypes
  <2>5. \A h \in Goroutines \ {g} : \A i \in Positions : i > 1 => Target(h, i)' = Target(h, i)
    BY <2>4 DEF Target
  <2> QED BY <2>1, <2>2, <2>3, <2>4, <2>5 DEF HealthyPartsHold
<1>5. ASSUME NEW g \in Goroutines, NEW i \in Positions, Part(g, i) PROVE HealthyPartsHold'
  <2>1. UNCHANGED <<faultVars, ctxDone, snapshot, pc>>
    BY <1>5 DEF Part, PartReuses, PartDials, PartCannotDial, PartAnswered, PartFails,
                outsideParts, phaseVars, questionVars
  <2>2. CASE PartReuses(g, i) \/ PartDials(g, i) \/ PartAnswered(g, i)
    <3>1. PartGoes(g, i, "calling") \/ PartGoes(g, i, "answered")
      BY <2>2 DEF PartReuses, PartDials, PartAnswered
    <3> QED BY <1>0, <2>1, <3>1, HealthyPart
  <2>3. CASE PartCannotDial(g, i)
    <3>1. PartGoes(g, i, "failed") /\ ~MayDial(Target(g, i))
      BY <2>3 DEF PartCannotDial
    <3>2. shutdown = "no"
      BY <1>0, <2>1 DEF PhasesOK
    <3>3. Target(g, i) \notin Healthy
      BY <3>1, <3>2 DEF MayDial, Healthy
    <3> QED BY <1>0, <2>1, <3>1, <3>3, HealthyPart
  <2>4. CASE PartFails(g, i)
    <3>1. CASE PartGoes(g, i, "failed")
      <4>1. i > 1 /\ pc[g] = "asking" /\ Target(g, i) \in Healthy => part[g][i] # "cut"
        BY <2>1 DEF HealthyPartsHold
      <4>2. i > 1 /\ pc[g] = "asking" => Target(g, i) \notin Healthy
        BY <2>1, <2>4, <4>1 DEF PartFails, MayFail, Healthy
      <4>3. CASE pc[g] = "asking"
        BY <1>0, <2>1, <3>1, <4>2, <4>3, HealthyPart
      <4>4. CASE pc[g] # "asking"
        <5>1. \A h \in Goroutines \ {g} : part'[h] = part[h]
          BY <1>0, <3>1 DEF PartGoes, PartTypes
        <5> QED BY <2>1, <4>4, <5>1, HealthyFrame
      <4> QED BY <4>3, <4>4
    <3>2. CASE UNCHANGED part
      BY <2>1, <3>2, HealthyFrame
    <3> QED BY <2>4, <3>1, <3>2 DEF PartFails
  <2> QED BY <1>5, <2>2, <2>3, <2>4 DEF Part
<1>6. ASSUME Cancel \/ CloseShared \/ ClosePool PROVE HealthyPartsHold'
  BY <1>0, <1>6 DEF Cancel, CloseShared, ClosePool, PhasesOK
<1>7. ASSUME UNCHANGED vars PROVE HealthyPartsHold'
  BY <1>7, HealthyFrame DEF vars, phaseVars, askVars, questionVars
<1> QED BY <1>1, <1>2, <1>3, <1>4, <1>5, <1>6, <1>7 DEF Next, Query, Exited

-----------------------------------------------------------------------------
(* Theorems *)

EndpointsInv == CoreInv /\ TriedAreLast /\ HealthyPartsHold

LEMMA EndpointsInvariant == Spec => []EndpointsInv
<1>1. Init => EndpointsInv
  BY CoreInit, TriedInit, HealthyInit DEF EndpointsInv
<1>2. EndpointsInv /\ [Next]_vars => EndpointsInv'
  BY CoreStep, TriedStep, HealthyStep DEF EndpointsInv
<1> QED BY <1>1, <1>2, PTL DEF Spec

\* Every variable keeps its type; the rotated list keeps every endpoint, once.
THEOREM EndpointsTypeCorrect == Spec => []EndpointsTypeOK
<1>1. EndpointsInv => EndpointsTypeOK
  BY TypesSplit DEF EndpointsInv, CoreInv, ConnOK, QuestionOK
<1> QED BY <1>1, EndpointsInvariant, PTL

\* For any number of goroutines and endpoints, no connection is lost or leaked.
THEOREM AccountsBalanced == Spec => []ConnectionsAccounted
<1>1. EndpointsInv => ConnectionsAccounted
  BY DEF EndpointsInv, CoreInv, ConnOK
<1> QED BY <1>1, EndpointsInvariant, PTL

\* For any number of goroutines and endpoints, a question goes to them all.
THEOREM QuestionsCoverAll == Spec => []AsksEveryEndpoint
<1>1. ASSUME EndpointsInv PROVE AsksEveryEndpoint
  <2> SUFFICES ASSUME NEW g \in Goroutines PROVE {Target(g, i) : i \in Positions} = Endpoint
    BY DEF AsksEveryEndpoint
  <2>1. /\ {snapshot[g][i] : i \in Positions} = Endpoint
        /\ primary[g] = snapshot[g][1]
    BY <1>1 DEF EndpointsInv, CoreInv, QuestionOK, SnapshotsOK, NamesAllOnce
  <2>2. \A i \in Positions : Target(g, i) = snapshot[g][i]
    BY <2>1 DEF Target
  <2> QED BY <2>1, <2>2
<1> QED BY <1>1, EndpointsInvariant, PTL

\* Only the two switches take a goroutine from "switching" to "idle".
LEMMA OnlySwitchesGiveUp ==
  ASSUME PcType, [Next]_vars, NEW g \in Goroutines, GivesUp(g)
  PROVE  (Switch(g) /\ ~RoundsLeft(g)) \/ SwitchFails(g)
<1>1. ASSUME NEW h \in Goroutines, Switch(h) \/ SwitchFails(h)
      PROVE h = g
  BY <1>1 DEF PcType, GivesUp, Switch, SwitchFails, QueryEnds, Goes
<1>2. ASSUME Switch(g) PROVE ~RoundsLeft(g)
  BY <1>2 DEF PcType, GivesUp, Switch, Goes
<1>3. ASSUME NEW h \in Goroutines,
             \/ QueryBegins(h) \/ QueryAnswered(h) \/ CallFails(h) \/ QueryCancelled(h)
             \/ AskBegins(h) \/ AskEnds(h) \/ Return(h)
      PROVE FALSE
  BY <1>3 DEF PcType, GivesUp, QueryBegins, QueryAnswered, CallFails, QueryCancelled,
              AskBegins, AskEnds, Return, QueryEnds, Goes
<1>4. ASSUME NEW h \in Goroutines, NEW i \in Positions, Part(h, i) PROVE FALSE
  BY <1>4 DEF GivesUp, Part, PartReuses, PartDials, PartCannotDial, PartAnswered,
              PartFails, outsideParts
<1>5. ASSUME Cancel \/ CloseShared \/ ClosePool \/ UNCHANGED vars PROVE FALSE
  BY <1>5 DEF GivesUp, Cancel, CloseShared, ClosePool, vars
<1> QED BY <1>1, <1>2, <1>3, <1>4, <1>5 DEF Next, Query, Exited

\* For any number of endpoints, the query of a sole rotator gives up only when
\* all endpoints that can be dialed have failed it.
THEOREM SoleQueryTriesAll == Spec => FailedQueryTriedAll
<1>1. ASSUME EndpointsInv, [Next]_vars, SoleRotator, NEW g \in Goroutines, GivesUp(g)
      PROVE  Endpoint \subseteq failedAt[g] \union undialable
  <2>1. /\ PcType /\ QueryTypes /\ NamesAllOnce(list) /\ TriedLast(g)
        /\ pc[g] = "switching"
    BY <1>1 DEF EndpointsInv, CoreInv, ConnOK, ConnTypes, TriedAreLast, GivesUp
  <2>2. list[1] \in failedAt[g] /\ Len(list) = Len(Configured) /\ round[g] \in Nat
    BY <2>1, SomePositions DEF TriedLast, NamesAllOnce, QueryTypes
  <2>3. ASSUME NEW i \in Positions, i > 1 PROVE list[i] \in failedAt[g] \union undialable
    <3>1. CASE Switch(g) /\ ~RoundsLeft(g)
      <4>1. i > Len(Configured) - round[g]
        BY <2>2, <2>3, <3>1, SomePositions DEF RoundsLeft
      <4> QED BY <2>1, <4>1 DEF TriedLast
    <3>2. CASE SwitchFails(g)
      <4>1. i - 1 \in 1 .. Len(list) - 1 /\ (i - 1) + 1 = i
        BY <2>2, <2>3, SomePositions
      <4> QED BY <3>2, <4>1 DEF SwitchFails, Offsets
    <3> QED BY <1>1, <2>1, <3>1, <3>2, OnlySwitchesGiveUp
  <2>4. \A i \in Positions : i = 1 \/ i > 1
    BY SomePositions
  <2>5. \A i \in Positions : list[i] \in failedAt[g] \union undialable
    BY <2>2, <2>3, <2>4
  <2> QED BY <2>1, <2>5 DEF NamesAllOnce
<1>2. EndpointsInv /\ [Next]_vars =>
        [SoleRotator => \A g \in Goroutines : GivesUp(g)
           => Endpoint \subseteq failedAt[g] \union undialable]_vars
  BY <1>1
<1> QED BY <1>2, EndpointsInvariant, PTL DEF Spec, FailedQueryTriedAll

\* For any number of goroutines and endpoints, a question that nobody cancels
\* fails only if no healthy endpoint is behind the first.
THEOREM FailedAskWasForced == Spec => FailedAskHadNoChoice
<1>1. ASSUME EndpointsInv, NEW g \in Goroutines, AskEnds(g), ~ctxDone,
             \A i \in Positions : part[g][i] = "failed"
      PROVE  Healthy \subseteq {primary[g]}
  <2>1. /\ {snapshot[g][i] : i \in Positions} = Endpoint
        /\ primary[g] = snapshot[g][1]
    BY <1>1 DEF EndpointsInv, CoreInv, QuestionOK, SnapshotsOK, NamesAllOnce
  <2>2. \A i \in Positions : i > 1 => snapshot[g][i] \notin Healthy
    BY <1>1 DEF EndpointsInv, HealthyPartsHold, AskEnds, Target
  <2>3. \A i \in Positions : i = 1 \/ i > 1
    BY SomePositions
  <2> QED BY <2>1, <2>2, <2>3 DEF Healthy
<1>2. EndpointsInv /\ [Next]_vars =>
        [ \A g \in Goroutines :
            AskEnds(g) /\ ~ctxDone /\ (\A i \in Positions : part[g][i] = "failed")
              => Healthy \subseteq {primary[g]} ]_vars
  BY <1>1
<1> QED BY <1>2, EndpointsInvariant, PTL DEF Spec, FailedAskHadNoChoice

-----------------------------------------------------------------------------
(* Running down: what a query and a question may still do. *)

RoundsAfter(g) == Len(Configured) - 1 - round[g]
StepsPerRound == MaxRetries + 1

\* The calls of this round, its switch, and as much for each round after it.
QueryLeft(g) ==
  CASE pc[g] = "calling"   -> RoundsAfter(g) * StepsPerRound + StepsPerRound - tries[g]
    [] pc[g] = "switching" -> RoundsAfter(g) * StepsPerRound + 1
    [] OTHER               -> 0

PartLeft(g, i) ==
  CASE part[g][i] = "dial"               -> StepsPerRound - partTries[g][i]
    [] part[g][i] \in {"calling", "cut"} -> MaxRetries - partTries[g][i]
    [] OTHER                             -> 0

LEMMA RoundProducts ==
  ASSUME QueryTypes, NEW g \in Goroutines
  PROVE  /\ RoundsAfter(g) \in Nat /\ StepsPerRound \in Nat \ {0}
         /\ RoundsAfter(g) * StepsPerRound \in Nat
         /\ RoundsAfter(g) * StepsPerRound + StepsPerRound <= Len(Configured) * StepsPerRound
         /\ \A r \in Nat : r + 1 = RoundsAfter(g)
              => r * StepsPerRound + StepsPerRound = RoundsAfter(g) * StepsPerRound
<1>1. round[g] \in 0 .. Len(Configured) - 1 /\ Len(Configured) \in Nat
  BY SomePositions DEF QueryTypes
<1>2. StepsPerRound \in Nat \ {0}
  BY MaxRetriesAssumption DEF StepsPerRound
<1>3. RoundsAfter(g) \in Nat /\ RoundsAfter(g) + 1 <= Len(Configured)
  BY <1>1 DEF RoundsAfter
<1> DEFINE k == StepsPerRound  a == RoundsAfter(g)  n == Len(Configured)
<1> HIDE DEF k, a, n
<1>4. \A r \in Nat : (r + 1) * k = r * k + k /\ r * k \in Nat
  BY <1>2 DEF k
<1>5. (a + 1) * k <= n * k
  BY <1>1, <1>2, <1>3 DEF k, a, n
<1>6. a * k \in Nat /\ a * k + k <= n * k
  BY <1>3, <1>4, <1>5 DEF a
<1> QED BY <1>2, <1>3, <1>4, <1>6 DEF k, a, n

LEMMA QueryStepsDown ==
  ASSUME CoreInv, NEW g \in Goroutines, Query(g)
  PROVE  QueryLeft(g)' < QueryLeft(g)
<1>1. QueryTypes /\ PcType /\ NamesAllOnce(list)
  BY DEF CoreInv, ConnOK, ConnTypes
<1> DEFINE a == RoundsAfter(g)  k == StepsPerRound
<1>2. a \in Nat /\ k \in Nat \ {0} /\ a * k \in Nat /\ k = MaxRetries + 1
  BY <1>1, RoundProducts DEF StepsPerRound
<1>3. tries[g] \in 0 .. MaxRetries - 1 /\ round[g] \in 0 .. Len(Configured) - 1
      /\ MaxRetries \in Nat \ {0} /\ Len(Configured) \in Nat
  BY <1>1, MaxRetriesAssumption, SomePositions DEF QueryTypes
<1>4. /\ pc[g] = "calling" => QueryLeft(g) = a * k + k - tries[g]
      /\ pc[g] = "switching" => QueryLeft(g) = a * k + 1
  BY DEF QueryLeft
<1> HIDE DEF a, k
<1>5. ASSUME QueryEnds(g), pc[g] \in {"calling", "switching"}
      PROVE  QueryLeft(g)' < QueryLeft(g)
  <2>1. pc'[g] = "idle"
    BY <1>1, <1>5 DEF QueryEnds, Goes, PcType
  <2>2. QueryLeft(g)' = 0
    BY <2>1 DEF QueryLeft
  <2> QED BY <1>2, <1>3, <1>4, <1>5, <2>2
<1>6. CASE QueryAnswered(g) \/ QueryCancelled(g) \/ SwitchFails(g)
  BY <1>5, <1>6 DEF QueryAnswered, QueryCancelled, SwitchFails
<1>7. CASE CallFails(g)
  <2>1. pc[g] = "calling" /\ round'[g] = round[g]
    BY <1>7 DEF CallFails
  <2>2. RoundsAfter(g)' = a
    BY <2>1 DEF RoundsAfter, a
  <2>3. CASE tries[g] + 1 < MaxRetries
    <3>1. pc'[g] = "calling" /\ tries'[g] = tries[g] + 1
      BY <1>1, <1>7, <2>1, <2>3 DEF CallFails, QueryTypes
    <3>2. QueryLeft(g)' = a * k + k - (tries[g] + 1)
      BY <2>2, <3>1 DEF QueryLeft, k, StepsPerRound
    <3> QED BY <1>2, <1>3, <1>4, <2>1, <3>2
  <2>4. CASE ~(tries[g] + 1 < MaxRetries)
    <3>1. pc'[g] = "switching"
      BY <1>1, <1>7, <2>4 DEF CallFails, PcType, Goes
    <3>2. QueryLeft(g)' = a * k + 1
      BY <2>2, <3>1 DEF QueryLeft, k, StepsPerRound
    <3> QED BY <1>2, <1>3, <1>4, <2>1, <3>2
  <2> QED BY <2>3, <2>4
<1>8. CASE Switch(g) /\ RoundsLeft(g)
  <2>1. /\ pc[g] = "switching" /\ pc'[g] = "calling"
        /\ round'[g] = round[g] + 1 /\ tries'[g] = tries[g]
    BY <1>1, <1>8 DEF Switch, Goes, PcType, QueryTypes
  <2>2. round[g] + 1 < Len(Configured)
    BY <1>1, <1>8 DEF RoundsLeft, NamesAllOnce
  <2>3. RoundsAfter(g)' + 1 = a /\ RoundsAfter(g)' \in Nat
    BY <1>3, <2>1, <2>2 DEF RoundsAfter, a
  <2>4. RoundsAfter(g)' * k + k = a * k
    BY <1>1, <2>3, RoundProducts DEF a, k
  <2>5. QueryLeft(g)' = RoundsAfter(g)' * k + k - tries[g]
    BY <2>1 DEF QueryLeft, k, StepsPerRound
  <2>6. RoundsAfter(g)' * k \in Nat
    BY <1>2, <2>3
  <2>7. ASSUME NEW p \in Nat, p + k = a * k PROVE p + k - tries[g] < a * k + 1
    BY <1>2, <1>3, <2>7
  <2> QED BY <1>4, <2>1, <2>4, <2>5, <2>6, <2>7
<1>9. CASE Switch(g) /\ ~RoundsLeft(g)
  BY <1>5, <1>9 DEF Switch
<1> QED BY <1>6, <1>7, <1>8, <1>9 DEF Query

\* Other goroutines, the context and Close leave a query where it is.
LEMMA QueryElsewhere ==
  ASSUME CoreInv, [Next]_vars, NEW g \in Goroutines, ~Query(g), ~QueryBegins(g)
  PROVE  QueryLeft(g)' = QueryLeft(g)
<1> DEFINE Same == pc'[g] = pc[g] /\ round'[g] = round[g] /\ tries'[g] = tries[g]
           Out == pc[g] \notin {"calling", "switching"} /\ pc'[g] \notin {"calling", "switching"}
<1>1. PcType /\ QueryTypes
  BY DEF CoreInv
<1>2. ASSUME NEW h \in Goroutines, Query(h) \/ QueryBegins(h) PROVE Same
  <2>1. h # g
    BY <1>2
  <2>2. QueryEnds(h) => Same
    BY <1>1, <2>1 DEF QueryEnds, Goes, PcType, QueryTypes
  <2>3. CASE QueryBegins(h) \/ QueryAnswered(h) \/ QueryCancelled(h) \/ SwitchFails(h)
    BY <1>1, <2>1, <2>2, <2>3 DEF QueryBegins, QueryAnswered, QueryCancelled, SwitchFails,
                                  Goes, PcType
  <2>4. CASE CallFails(h) \/ Switch(h)
    BY <1>1, <2>1, <2>2, <2>4 DEF CallFails, Switch, Goes, PcType, QueryTypes
  <2> QED BY <1>2, <2>3, <2>4 DEF Query
<1>3. ASSUME NEW h \in Goroutines, AskBegins(h) \/ AskEnds(h) \/ Return(h) PROVE Same \/ Out
  <2>1. UNCHANGED queryVars
    BY <1>3 DEF AskBegins, AskEnds, Return
  <2>2. pc[h] \notin {"calling", "switching"} /\ \E place \in {"asking", "idle", "returned"} :
          Goes(h, place)
    BY <1>3 DEF AskBegins, AskEnds, Return
  <2> QED BY <1>1, <2>1, <2>2 DEF queryVars, Goes, PcType
<1>4. ASSUME NEW h \in Goroutines, NEW i \in Positions, Part(h, i) PROVE Same
  BY <1>4 DEF Part, PartReuses, PartDials, PartCannotDial, PartAnswered, PartFails,
              outsideParts, queryVars
<1>5. Cancel \/ CloseShared \/ ClosePool \/ Exited \/ UNCHANGED vars => Same
  BY DEF Cancel, CloseShared, ClosePool, Exited, vars, queryVars
<1>6. Same \/ Out
  BY <1>2, <1>3, <1>4, <1>5 DEF Next
<1> QED BY <1>6 DEF QueryLeft, RoundsAfter, StepsPerRound

LEMMA PartStepsDown ==
  ASSUME CoreInv, NEW g \in Goroutines, NEW i \in Positions, Part(g, i)
  PROVE  PartLeft(g, i)' < PartLeft(g, i)
<1>1. /\ part \in [Goroutines -> [Positions -> PartStates]]
      /\ partTries \in [Goroutines -> [Positions -> 0 .. MaxRetries - 1]]
  BY DEF CoreInv, PartTypes
<1>2. partTries[g][i] \in 0 .. MaxRetries - 1 /\ MaxRetries \in Nat \ {0}
  BY <1>1, MaxRetriesAssumption
<1>3. ASSUME NEW place \in PartStates, PartGoes(g, i, place) PROVE part'[g][i] = place
  BY <1>1, <1>3 DEF PartGoes
<1>4. CASE PartReuses(g, i) \/ PartDials(g, i)
  <2>1. part[g][i] = "dial" /\ partTries' = partTries /\ PartGoes(g, i, "calling")
    BY <1>4 DEF PartReuses, PartDials
  <2>2. part'[g][i] = "calling"
    BY <1>3, <2>1 DEF PartStates
  <2> QED BY <1>2, <2>1, <2>2 DEF PartLeft, StepsPerRound
<1>5. CASE PartCannotDial(g, i) \/ PartAnswered(g, i)
  <2>1. part[g][i] \in {"dial", "calling"} /\ part'[g][i] \in {"failed", "answered"}
    BY <1>3, <1>5 DEF PartCannotDial, PartAnswered, PartStates
  <2> QED BY <1>2, <2>1 DEF PartLeft, StepsPerRound
<1>6. CASE PartFails(g, i)
  <2>1. part[g][i] \in {"calling", "cut"}
    BY <1>6 DEF PartFails
  <2>2. CASE PartGoes(g, i, "failed")
    <3>1. part'[g][i] = "failed"
      BY <1>3, <2>2 DEF PartStates
    <3> QED BY <1>2, <2>1, <3>1 DEF PartLeft
  <2>3. CASE partTries' = [partTries EXCEPT ![g][i] = @ + 1] /\ UNCHANGED part
    <3>1. partTries'[g][i] = partTries[g][i] + 1
      BY <1>1, <2>3
    <3> QED BY <1>2, <2>1, <2>3, <3>1 DEF PartLeft
  <2> QED BY <1>6, <2>2, <2>3 DEF PartFails
<1> QED BY <1>4, <1>5, <1>6 DEF Part

\* A call that is cut still has its retries before it.
LEMMA PartElsewhere ==
  ASSUME CoreInv, [Next]_vars, NEW g \in Goroutines, NEW i \in Positions,
         ~Part(g, i), ~AskBegins(g)
  PROVE  PartLeft(g, i)' = PartLeft(g, i)
<1> DEFINE Waits(s) == s \in {"calling", "cut"}
           Idles(s) == s \in {"none", "answered", "failed"}
           Like == \/ part'[g][i] = part[g][i]
                   \/ Waits(part[g][i]) /\ Waits(part'[g][i])
           Same == Like /\ partTries'[g][i] = partTries[g][i]
           Out == Idles(part[g][i]) /\ Idles(part'[g][i])
<1>1. /\ part \in [Goroutines -> [Positions -> PartStates]]
      /\ partTries \in [Goroutines -> [Positions -> 0 .. MaxRetries - 1]]
  BY DEF CoreInv, PartTypes
<1>2. ASSUME NEW h \in Goroutines, NEW j \in Positions, Part(h, j) PROVE Same
  <2>1. h # g \/ j # i
    BY <1>2
  <2>2. \A place : PartGoes(h, j, place) => part'[g][i] = part[g][i]
    BY <1>1, <2>1 DEF PartGoes
  <2>3. CASE PartReuses(h, j) \/ PartDials(h, j) \/ PartCannotDial(h, j) \/ PartAnswered(h, j)
    BY <2>2, <2>3 DEF PartReuses, PartDials, PartCannotDial, PartAnswered
  <2>4. CASE PartFails(h, j)
    BY <1>1, <2>1, <2>2, <2>4 DEF PartFails
  <2> QED BY <1>2, <2>3, <2>4 DEF Part
<1>3. SharedCut => Like
  BY <1>1 DEF SharedCut
<1>4. ASSUME NEW h \in Goroutines, Query(h) PROVE Same
  <2>1. CASE QueryAnswered(h) \/ CallFails(h) \/ QueryCancelled(h) \/ SwitchFails(h)
    BY <2>1 DEF QueryAnswered, CallFails, QueryCancelled, SwitchFails, askVars
  <2>2. CASE Switch(h)
    BY <1>3, <2>2 DEF Switch
  <2> QED BY <1>4, <2>1, <2>2 DEF Query
<1>5. ASSUME NEW h \in Goroutines, AskBegins(h), h # g PROVE Same
  BY <1>1, <1>5 DEF AskBegins
<1>6. ASSUME NEW h \in Goroutines, AskEnds(h) PROVE Same \/ Out
  BY <1>1, <1>6 DEF AskEnds, NoParts, Positions
<1>7. CloseShared \/ ClosePool => Same
  BY <1>1, <1>3 DEF CloseShared, ClosePool
<1>8. ASSUME NEW h \in Goroutines, QueryBegins(h) \/ Return(h) PROVE Same
  BY <1>8 DEF QueryBegins, Return, askVars
<1>9. Cancel \/ Exited \/ UNCHANGED vars => Same
  BY DEF Cancel, Exited, vars, askVars
<1>10. Same \/ Out
  BY <1>2, <1>4, <1>5, <1>6, <1>7, <1>8, <1>9 DEF Next
<1> QED BY <1>10 DEF PartLeft, StepsPerRound

\* At any time a query has at most MaxRetries calls and a switch before it for
\* each configured endpoint, and a part of a question a dial and MaxRetries
\* calls (queries.go:26-42 and 121-153).
QueriesBounded ==
  \A g \in Goroutines :
    /\ QueryLeft(g) \in 0 .. Len(Configured) * StepsPerRound
    /\ \A i \in Positions : PartLeft(g, i) \in 0 .. StepsPerRound

THEOREM QueriesAreBounded == Spec => []QueriesBounded
<1>1. CoreInv => QueriesBounded
  <2> SUFFICES ASSUME CoreInv, NEW g \in Goroutines
               PROVE  /\ QueryLeft(g) \in 0 .. Len(Configured) * StepsPerRound
                      /\ \A i \in Positions : PartLeft(g, i) \in 0 .. StepsPerRound
    BY DEF QueriesBounded
  <2>1. QueryTypes /\ PartTypes /\ MaxRetries \in Nat \ {0}
    BY MaxRetriesAssumption DEF CoreInv
  <2>2. tries[g] \in 0 .. MaxRetries - 1 /\ Len(Configured) \in Nat
    BY <2>1, SomePositions DEF QueryTypes
  <2> DEFINE p == RoundsAfter(g) * StepsPerRound  q == Len(Configured) * StepsPerRound
  <2>3. p \in Nat /\ StepsPerRound \in Nat /\ p + StepsPerRound <= q /\ q \in Nat
    <3>1. q \in Nat
      BY <2>2, RoundProducts, <2>1
    <3> QED BY <2>1, <3>1, RoundProducts
  <2>4. QueryLeft(g) = CASE pc[g] = "calling"   -> p + StepsPerRound - tries[g]
                         [] pc[g] = "switching" -> p + 1
                         [] OTHER               -> 0
    BY DEF QueryLeft
  <2> HIDE DEF p, q
  <2>5. QueryLeft(g) \in 0 .. q
    BY <2>1, <2>2, <2>3, <2>4 DEF StepsPerRound
  <2>6. ASSUME NEW i \in Positions PROVE PartLeft(g, i) \in 0 .. StepsPerRound
    <3>1. partTries[g][i] \in 0 .. MaxRetries - 1
      BY <2>1 DEF PartTypes
    <3> QED BY <2>1, <3>1 DEF PartLeft, StepsPerRound
  <2> QED BY <2>5, <2>6 DEF q
<1> QED BY <1>1, EndpointsInvariant, PTL DEF EndpointsInv

\* Every step of a query, and of each part of a question, brings its end
\* nearer, whatever is answered; no rotation, cut or shutdown by another
\* goroutine puts it off.  Switching round and round between endpoints that
\* another goroutine rotates back is not possible (queries.go:26-42).
QueriesRunDown ==
  [][ \A g \in Goroutines :
        /\ IF Query(g) THEN QueryLeft(g)' < QueryLeft(g)
                       ELSE QueryBegins(g) \/ QueryLeft(g)' = QueryLeft(g)
        /\ \A i \in Positions :
             IF Part(g, i) THEN PartLeft(g, i)' < PartLeft(g, i)
                           ELSE AskBegins(g) \/ PartLeft(g, i)' = PartLeft(g, i) ]_vars

THEOREM QueriesEndInTime == Spec => QueriesRunDown
<1>1. CoreInv /\ [Next]_vars
        => [ \A g \in Goroutines :
               /\ IF Query(g) THEN QueryLeft(g)' < QueryLeft(g)
                              ELSE QueryBegins(g) \/ QueryLeft(g)' = QueryLeft(g)
               /\ \A i \in Positions :
                    IF Part(g, i) THEN PartLeft(g, i)' < PartLeft(g, i)
                                  ELSE AskBegins(g) \/ PartLeft(g, i)' = PartLeft(g, i) ]_vars
  BY QueryStepsDown, QueryElsewhere, PartStepsDown, PartElsewhere
<1> QED BY <1>1, EndpointsInvariant, PTL DEF Spec, QueriesRunDown, EndpointsInv

-----------------------------------------------------------------------------
(* The fallback that is left *)

\* What FallbackIsUsed promises does hold of a goroutine that rotates alone,
\* as the processor does after the start: its query, cancelled or not, gives up
\* only when no endpoint is healthy (queries.go:21-43, chain.go:529-567).
SoleFallbackIsUsed ==
  [][ SoleRotator => \A g \in Goroutines : GivesUp(g) => Healthy = {} ]_vars

\* What makes it inductive: nobody else closes the connection of a sole
\* rotator before the context ends, so that it is the endpoint that fails.
FailuresOf(g) == failedAt[g] \subseteq flaky /\ (~ctxDone => ~cut[g])
FailuresAreReal == SoleRotator => \A g \in Goroutines : FailuresOf(g)

\* A step that does not close the shared connection.
LEMMA FailuresUncut ==
  ASSUME CoreInv, NEW g \in Goroutines, FailuresOf(g), UNCHANGED faultVars,
         ctxDone => ctxDone',
         failedAt'[g] \subseteq failedAt[g],
         cut'[g] => cut[g] \/ shutdown # "no"
  PROVE  FailuresOf(g)'
BY DEF CoreInv, PhasesOK, FailuresOf, faultVars

LEMMA QueryFailures ==
  ASSUME CoreInv, NEW h \in Goroutines,
         \/ QueryBegins(h) \/ QueryAnswered(h) \/ CallFails(h)
         \/ QueryCancelled(h) \/ SwitchFails(h),
         NEW g \in Goroutines, FailuresOf(g)
  PROVE  FailuresOf(g)'
<1>0. PcType /\ QueryTypes /\ PhasesOK
  BY DEF CoreInv
<1>1. UNCHANGED faultVars /\ UNCHANGED ctxDone
  BY DEF QueryBegins, QueryAnswered, CallFails, QueryCancelled, SwitchFails, phaseVars
<1>2. cut'[g] => cut[g] \/ shutdown # "no"
  BY <1>0 DEF QueryTypes, QueryBegins, QueryAnswered, CallFails, QueryCancelled, SwitchFails
<1>3. ASSUME ~CallFails(h) PROVE failedAt'[g] \subseteq failedAt[g]
  BY <1>0, <1>3 DEF QueryTypes, QueryBegins, QueryAnswered, QueryCancelled, SwitchFails, QueryEnds
<1>4. CASE ~CallFails(h)
  BY <1>1, <1>2, <1>3, <1>4, FailuresUncut
<1>5. CASE CallFails(h)
  <2>1. failedAt'[g] = failedAt[g] \/ (g = h /\ failedAt'[g] = failedAt[g] \union {connected})
    BY <1>0, <1>5 DEF CallFails, QueryTypes
  <2>2. g = h => connected \in flaky
    BY <1>5 DEF CallFails, MayFail, FailuresOf
  <2>3. failedAt'[g] \subseteq flaky
    BY <2>1, <2>2 DEF FailuresOf
  <2> QED BY <1>0, <1>1, <1>2, <2>3 DEF FailuresOf, PhasesOK, faultVars
<1> QED BY <1>4, <1>5

LEMMA FailuresStep == CoreInv /\ FailuresAreReal /\ [Next]_vars => FailuresAreReal'
<1> SUFFICES ASSUME CoreInv, FailuresAreReal, [Next]_vars, SoleRotator, NEW g \in Goroutines
             PROVE  FailuresOf(g)'
  BY SoleRotatorConstant DEF FailuresAreReal
<1>0. PcType /\ QueryTypes /\ PhasesOK /\ FailuresOf(g)
  BY DEF CoreInv, FailuresAreReal
<1>1. ASSUME NEW h \in Goroutines,
             \/ QueryBegins(h) \/ QueryAnswered(h) \/ CallFails(h)
             \/ QueryCancelled(h) \/ SwitchFails(h)
      PROVE  FailuresOf(g)'
  BY <1>0, <1>1, QueryFailures
<1>2. ASSUME NEW h \in Goroutines, Switch(h) PROVE FailuresOf(g)'
  <2>1. UNCHANGED faultVars /\ UNCHANGED ctxDone /\ pc[h] = "switching"
    BY <1>2 DEF Switch, phaseVars
  <2>2. pc[g] # "calling"
    BY <1>0, <2>1 DEF PhasesOK, SoleRotator
  <2>3. cut'[g] = cut[g]
    BY <1>0, <1>2, <2>2 DEF Switch, SharedCut, QueryTypes
  <2>4. failedAt'[g] \subseteq failedAt[g]
    BY <1>0, <1>2 DEF Switch, QueryEnds, QueryTypes
  <2> QED BY <1>0, <2>1, <2>3, <2>4, FailuresUncut
<1>3. ASSUME NEW h \in Goroutines, AskBegins(h) \/ AskEnds(h) \/ Return(h)
      PROVE  FailuresOf(g)'
  <2>1. UNCHANGED <<flaky, undialable, ctxDone, cut, failedAt>>
    BY <1>3 DEF AskBegins, AskEnds, Return, faultVars, phaseVars, queryVars
  <2> QED BY <1>0, <2>1 DEF FailuresOf
<1>4. ASSUME NEW h \in Goroutines, NEW i \in Positions, Part(h, i) PROVE FailuresOf(g)'
  <2>1. UNCHANGED <<flaky, undialable, ctxDone, cut, failedAt>>
    BY <1>4 DEF Part, PartReuses, PartDials, PartCannotDial, PartAnswered, PartFails,
                outsideParts, faultVars, phaseVars, queryVars
  <2> QED BY <1>0, <2>1 DEF FailuresOf
<1>5. CASE Cancel \/ ClosePool
  <2>1. /\ UNCHANGED <<flaky, cut, failedAt>>
        /\ ctxDone => ctxDone'
    BY <1>5 DEF Cancel, ClosePool, faultVars, queryVars
  <2> QED BY <1>0, <2>1 DEF FailuresOf
<1>6. CASE CloseShared
  <2>1. UNCHANGED <<flaky, failedAt, ctxDone>> /\ ctxDone
    BY <1>6 DEF CloseShared, faultVars
  <2> QED BY <1>0, <2>1 DEF FailuresOf
<1>7. CASE UNCHANGED vars
  <2>1. UNCHANGED <<flaky, ctxDone, cut, failedAt>>
    BY <1>7 DEF vars, faultVars, phaseVars, queryVars
  <2> QED BY <1>0, <2>1 DEF FailuresOf
<1> QED BY <1>1, <1>2, <1>3, <1>4, <1>5, <1>6, <1>7 DEF Next, Query, Exited

\* For any number of endpoints: while one goroutine rotates alone, no query of
\* it fails as long as one endpoint answers and can be dialed, whatever the
\* epoch questions, a cancellation and Close do meanwhile.
THEOREM SoleFallbackWorks == Spec => SoleFallbackIsUsed
<1>1. Init => FailuresAreReal
  <2> SUFFICES ASSUME Init PROVE FailuresAreReal
    OBVIOUS
  <2>1. \A g \in Goroutines : failedAt[g] = {} /\ ~cut[g]
    BY Zenon DEF Init
  <2> QED BY <2>1, Zenon DEF FailuresAreReal, FailuresOf
<1>2. EndpointsInv /\ FailuresAreReal /\ [Next]_vars => FailuresAreReal'
  BY FailuresStep DEF EndpointsInv
<1>3. ASSUME FailuresAreReal, SoleRotator, NEW g \in Goroutines,
             Endpoint \subseteq failedAt[g] \union undialable
      PROVE  Healthy = {}
  BY <1>3 DEF FailuresAreReal, FailuresOf, Healthy
<1>4. ASSUME FailuresAreReal,
             SoleRotator => \A g \in Goroutines : GivesUp(g)
               => Endpoint \subseteq failedAt[g] \union undialable
      PROVE  SoleRotator => \A g \in Goroutines : GivesUp(g) => Healthy = {}
  BY <1>3, <1>4
<1>5. /\ FailuresAreReal
      /\ [SoleRotator => \A g \in Goroutines : GivesUp(g)
            => Endpoint \subseteq failedAt[g] \union undialable]_vars
      => [SoleRotator => \A g \in Goroutines : GivesUp(g) => Healthy = {}]_vars
  BY <1>4
<1> QED
  BY <1>1, <1>2, <1>5, EndpointsInvariant, SoleQueryTriesAll, PTL
     DEF Spec, FailedQueryTriedAll, SoleFallbackIsUsed
=============================================================================
