--------------------------- MODULE AutoModeProofs ---------------------------
(***************************************************************************)
(* Theorems of AutoMode and their proofs: for every set of keys and every  *)
(* bound on restarts, keys set by hand and abandoned registrations.        *)
(***************************************************************************)
EXTENDS AutoMode, SequenceTheorems, FiniteSetTheorems, TLAPS

USE NoKeyAssumption, FileStatesAssumption, BoundsAssumption

-----------------------------------------------------------------------------
(* Sequences of transactions *)

LEMMA DisownedTyped ==
  ASSUME NEW t \in Transactions
  PROVE  /\ [t EXCEPT !.mine = FALSE] \in Transactions
         /\ [t EXCEPT !.mine = FALSE].owner = t.owner
         /\ [t EXCEPT !.mine = FALSE].vrf = t.vrf
         /\ [t EXCEPT !.mine = FALSE].nonce = t.nonce
         /\ [t EXCEPT !.mine = FALSE].mine = FALSE
BY DEF Transactions

\* Ending a call changes nothing about the transactions but whose they are.
LEMMA DisownProperties ==
  ASSUME pending \in Seq(Transactions)
  PROVE  /\ Disown(pending) \in Seq(Transactions)
         /\ DOMAIN Disown(pending) = DOMAIN pending
         /\ \A i \in DOMAIN pending :
              /\ Disown(pending)[i].owner = pending[i].owner
              /\ Disown(pending)[i].vrf = pending[i].vrf
              /\ Disown(pending)[i].nonce = pending[i].nonce
              /\ Disown(pending)[i].mine = FALSE
<1> DEFINE n == Len(pending)
<1>1. n \in Nat /\ DOMAIN pending = 1 .. n
  BY LenProperties
<1>2. \A i \in 1 .. n : pending[i] \in Transactions
  BY ElementOfSeq
<1>3. Disown(pending) = [i \in 1 .. n |-> [pending[i] EXCEPT !.mine = FALSE]]
  BY <1>1 DEF Disown
<1>4. ASSUME NEW i \in 1 .. n
      PROVE  /\ [pending[i] EXCEPT !.mine = FALSE] \in Transactions
             /\ Disown(pending)[i].owner = pending[i].owner
             /\ Disown(pending)[i].vrf = pending[i].vrf
             /\ Disown(pending)[i].nonce = pending[i].nonce
             /\ Disown(pending)[i].mine = FALSE
  <2>1. pending[i] \in Transactions
    BY <1>2
  <2>2. Disown(pending)[i] = [pending[i] EXCEPT !.mine = FALSE]
    BY <1>3
  <2> QED
    BY <2>1, <2>2, DisownedTyped
<1>5. Disown(pending) \in Seq(Transactions)
  <2>1. Disown(pending) \in [1 .. n -> Transactions]
    BY <1>3, <1>4
  <2> QED
    BY <1>1, <2>1, SeqDef
<1> QED
  BY <1>1, <1>3, <1>4, <1>5

-----------------------------------------------------------------------------
(* Types *)

LEMMA ExitTyped ==
  ASSUME AutoTypeOK, Exit, stops' \in 0 .. MaxStops
  PROVE  AutoTypeOK'
BY DisownProperties DEF Exit, AutoTypeOK

LEMMA MoveTyped ==
  ASSUME AutoTypeOK, NEW from, NEW to, Move(from, to), from \notin {"down", "load"},
         to \in {"loop", "delegations", "keyInfo", "setKey", "confirming",
                 "manager", "mining"}
  PROVE  AutoTypeOK'
BY DEF AutoTypeOK, Move, chainVars, countVars

LEMMA LoadTyped ==
  ASSUME AutoTypeOK, Boot \/ LoadFinds \/ LoadMissing
  PROVE  AutoTypeOK'
BY DEF AutoTypeOK, Boot, Move, LoadFinds, LoadMissing, chainVars, countVars

LEMMA SaveTyped ==
  ASSUME AutoTypeOK, SaveBegins \/ SaveEnds \/ Connected
  PROVE  AutoTypeOK'
BY DEF AutoTypeOK, SaveBegins, SaveEnds, Connected, chainVars, countVars

LEMMA LoggedDomain ==
  ASSUME AutoTypeOK, NEW k \in Keys
  PROVE  /\ Len(ownerLog[k]) \in Nat
         /\ DOMAIN ownerLog[k] = 1 .. Len(ownerLog[k])
         /\ DOMAIN ownerLog[k] \subseteq Nat
<1>1. ownerLog[k] \in Seq({"own", "other"})
  BY DEF AutoTypeOK
<1> QED
  BY <1>1, LenProperties

LEMMA KeyInfoTyped ==
  ASSUME AutoTypeOK, KeyUnknown \/ \E n : KeyDiffers(n)
  PROVE  AutoTypeOK'
<1>1. nonce' \in Nat
  BY LoggedDomain DEF KeyUnknown, KeyDiffers, AutoTypeOK
<1> QED
  BY <1>1 DEF AutoTypeOK, KeyUnknown, KeyDiffers, chainVars, countVars

LEMMA CallTyped ==
  ASSUME AutoTypeOK, BroadcastSetKey \/ SetKeyFails
  PROVE  AutoTypeOK'
<1>1. CASE BroadcastSetKey
  <2>1. [owner |-> key, vrf |-> "own", nonce |-> nonce, mine |-> TRUE] \in Transactions
    BY <1>1 DEF BroadcastSetKey, AutoTypeOK, Transactions
  <2>2. pending' \in Seq(Transactions)
    BY <1>1, <2>1, AppendProperties DEF BroadcastSetKey, AutoTypeOK
  <2> QED
    BY <1>1, <2>2 DEF AutoTypeOK, BroadcastSetKey, countVars
<1>2. CASE SetKeyFails
  <2>1. abandoned' \in 0 .. MaxAbandoned
    BY <1>2 DEF SetKeyFails, AutoTypeOK
  <2>2. pending' \in Seq(Transactions)
    BY <1>2, DisownProperties DEF SetKeyFails, AutoTypeOK
  <2> QED
    BY <1>2, <2>1, <2>2 DEF AutoTypeOK, SetKeyFails
<1> QED
  BY <1>1, <1>2

LEMMA OutsideTyped ==
  ASSUME AutoTypeOK,
         Cancel \/ (\E k \in Keys : Delegate(k) \/ \E n : OutsideSets(k, n))
  PROVE  AutoTypeOK'
<1>1. CASE Cancel
  BY <1>1 DEF AutoTypeOK, Cancel, chainVars
<1>2. ASSUME NEW k \in Keys, Delegate(k) PROVE AutoTypeOK'
  BY <1>2 DEF AutoTypeOK, Delegate, procVars, countVars
<1>3. ASSUME NEW k \in Keys, NEW n, OutsideSets(k, n) PROVE AutoTypeOK'
  <2>1. n \in Nat
    BY <1>3, LoggedDomain DEF OutsideSets
  <2>2. [owner |-> k, vrf |-> "other", nonce |-> n, mine |-> FALSE] \in Transactions
    BY <2>1 DEF Transactions
  <2>3. pending' \in Seq(Transactions)
    BY <1>3, <2>2, AppendProperties DEF OutsideSets, AutoTypeOK
  <2> QED
    BY <1>3, <2>3 DEF AutoTypeOK, OutsideSets, procVars
<1> QED
  BY <1>1, <1>2, <1>3

LEMMA ChainTyped ==
  ASSUME AutoTypeOK, Apply \/ Drop
  PROVE  AutoTypeOK'
<1>1. pending # <<>> /\ pending' = Tail(pending)
  BY DEF Apply, Drop
<1>2. pending' \in Seq(Transactions) /\ Head(pending) \in Transactions
  BY <1>1, HeadTailProperties DEF AutoTypeOK
<1>3. CASE Apply
  <2> DEFINE tx == Head(pending)
  <2>1. Append(ownerLog[tx.owner], tx.vrf) \in Seq({"own", "other"})
    BY <1>2, AppendProperties DEF AutoTypeOK, Transactions
  <2>2. ownerLog' \in [Keys -> Seq({"own", "other"})]
    BY <1>3, <2>1 DEF Apply, AutoTypeOK
  <2>3. applied' \in BOOLEAN
    BY <1>2, <1>3 DEF Apply, AutoTypeOK, Transactions
  <2> QED
    BY <1>2, <1>3, <2>2, <2>3 DEF Apply, AutoTypeOK, countVars
<1>4. CASE Drop
  BY <1>2, <1>4 DEF Drop, AutoTypeOK, procVars, countVars
<1> QED
  BY <1>3, <1>4

\* The variables keep their types, and the process has keys exactly from the
\* time it loaded or generated them: main.go 271-309.
THEOREM AutoTypeCorrect == Spec => []AutoTypeOK
<1>1. Init => AutoTypeOK
  <2> SUFFICES ASSUME Init PROVE AutoTypeOK
    OBVIOUS
  <2>1. <<>> \in Seq({"own", "other"}) /\ <<>> \in Seq(Transactions)
    BY EmptySeq
  <2>2. ownerLog \in [Keys -> Seq({"own", "other"})] /\ pending \in Seq(Transactions)
    BY <2>1 DEF Init
  <2>3. /\ keysFile \in Keys \cup {"absent", "torn"}
        /\ continuous \in BOOLEAN /\ ctxDone \in BOOLEAN /\ applied \in BOOLEAN
        /\ pc \in {"down", "load"} /\ key = NoKey
        /\ delegated \subseteq told /\ told \subseteq Keys
    BY DEF Init
  <2>4. /\ nonce \in Nat
        /\ stops \in 0 .. MaxStops
        /\ outside \in 0 .. MaxOutside
        /\ abandoned \in 0 .. MaxAbandoned
    BY DEF Init
  <2> QED
    BY <2>2, <2>3, <2>4 DEF AutoTypeOK
<1>2. ASSUME AutoTypeOK, [Next]_vars PROVE AutoTypeOK'
  <2>1. CASE LoadFails \/ SaveFails \/ ConnectFails \/ LoopStops \/ MiningEnds
    BY <1>2, <2>1, ExitTyped
    DEF LoadFails, SaveFails, ConnectFails, LoopStops, MiningEnds, AutoTypeOK
  <2>2. CASE Crash
    <3>1. stops' \in 0 .. MaxStops
      BY <1>2, <2>2 DEF Crash, AutoTypeOK
    <3> QED
      BY <1>2, <2>2, <3>1, ExitTyped DEF Crash
  <2>3. CASE LoopGoesOn \/ NoLicenses \/ LicensesFound \/ SetKeyConfirmed \/ MiningStarts
    BY <1>2, <2>3, MoveTyped
    DEF LoopGoesOn, NoLicenses, LicensesFound, SetKeyConfirmed, MiningStarts
  <2>4. ASSUME NEW n, KeyMatches(n) PROVE AutoTypeOK'
    BY <1>2, <2>4, MoveTyped DEF KeyMatches
  <2>5. CASE UNCHANGED vars
    BY <1>2, <2>5 DEF AutoTypeOK, vars, procVars, chainVars, countVars
  <2> QED
    BY <1>2, <2>1, <2>2, <2>3, <2>4, <2>5, LoadTyped, SaveTyped, KeyInfoTyped,
       CallTyped, OutsideTyped, ChainTyped
    DEF Next, Process, KeyInfo
<1> QED
  BY <1>1, <1>2, PTL DEF Spec

-----------------------------------------------------------------------------
(* Keys *)

\* While the process has its keys only in memory, the file holds no others.
FileFollowsKey ==
  /\ pc = "save" => keysFile = "absent"
  /\ pc = "saving" => keysFile = "torn"
  /\ pc \notin {"down", "load", "save", "saving"} => keysFile = key

KeysInv == KeysPersist /\ FileFollowsKey

\* A key the user was told stays the one in the file, through every kill,
\* failed save and restart: main.go 271-309 and 374, SaveKeys and LoadKeys.
THEOREM KeysArePersistent == Spec => []KeysPersist
<1>1. Init => KeysInv
  BY DEF Init, KeysInv, KeysPersist, FileFollowsKey
<1>2. ASSUME AutoTypeOK, KeysInv, [Next]_vars PROVE KeysInv'
  <2> USE DEF KeysInv, KeysPersist, FileFollowsKey
  <2>1. ASSUME Exit PROVE KeysInv'
    BY <1>2, <2>1 DEF Exit
  <2>2. ASSUME UNCHANGED <<keysFile, told, key>>,
               UNCHANGED pc
               \/ {pc, pc'} \cap {"down", "load", "save", "saving"} = {}
        PROVE  KeysInv'
    BY <1>2, <2>2
  <2>3. CASE Boot \/ LoadFinds \/ LoadMissing
    BY <1>2, <2>3 DEF Boot, Move, LoadFinds, LoadMissing, AutoTypeOK
  <2>4. CASE SaveBegins
    BY <1>2, <2>4 DEF SaveBegins, AutoTypeOK
  <2>5. CASE SaveEnds
    BY <1>2, <2>5 DEF SaveEnds, AutoTypeOK
  <2>6. CASE Connected
    BY <1>2, <2>6 DEF Connected
  <2>7. CASE LoadFails \/ SaveFails \/ ConnectFails \/ LoopStops \/ MiningEnds \/ Crash
    BY <2>1, <2>7 DEF LoadFails, SaveFails, ConnectFails, LoopStops, MiningEnds, Crash
  <2>8. CASE LoopGoesOn \/ NoLicenses \/ LicensesFound \/ KeyUnknown
             \/ \E n : KeyMatches(n) \/ KeyDiffers(n)
    BY <2>2, <2>8
    DEF LoopGoesOn, NoLicenses, LicensesFound, KeyUnknown, KeyMatches, KeyDiffers, Move
  <2>9. CASE BroadcastSetKey \/ SetKeyConfirmed \/ SetKeyFails \/ MiningStarts
    BY <2>2, <2>9
    DEF BroadcastSetKey, SetKeyConfirmed, SetKeyFails, MiningStarts, Move
  <2>10. CASE Cancel \/ Apply \/ Drop
              \/ \E k \in Keys : Delegate(k) \/ \E n : OutsideSets(k, n)
    BY <2>2, <2>10 DEF Cancel, Apply, Drop, Delegate, OutsideSets, procVars
  <2>11. CASE UNCHANGED vars
    BY <2>2, <2>11 DEF vars, procVars
  <2> QED
    BY <1>2, <2>3, <2>4, <2>5, <2>6, <2>7, <2>8, <2>9, <2>10, <2>11
    DEF Next, Process, KeyInfo
<1>3. KeysInv => KeysPersist
  BY DEF KeysInv
<1> QED
  BY <1>1, <1>2, <1>3, AutoTypeCorrect, PTL DEF Spec

-----------------------------------------------------------------------------
(* Registration *)

OwnIsRegistered(k) == \E n \in DOMAIN ownerLog[k] : ownerLog[k][n] = "own"

\* A registration with nonce n is either the first key of the owner or
\* replaces a key that is not the miner's.
Replaces(k, n) ==
  n = 0 \/ (n \in DOMAIN ownerLog[k] /\ ownerLog[k][n] = "other")

PendingFit ==
  \A i \in DOMAIN pending :
    pending[i].vrf = "own" => Replaces(pending[i].owner, pending[i].nonce)

NonceFits == pc = "setKey" => Replaces(key, nonce)

\* Only the transaction a call waits for can tell it that the key is set, and
\* there is one at most.
MineIsAwaited ==
  /\ \A i \in DOMAIN pending :
       pending[i].mine => /\ pc = "confirming"
                          /\ ~applied
                          /\ pending[i].owner = key
                          /\ pending[i].vrf = "own"
  /\ \A i, j \in DOMAIN pending : pending[i].mine /\ pending[j].mine => i = j

AppliedIsRegistered ==
  applied => /\ pc \in {"confirming", "manager", "mining"}
             /\ OwnIsRegistered(key)

RegistrationInv ==
  /\ MinesRegistered
  /\ NeverReplacesItself
  /\ PendingFit
  /\ NonceFits
  /\ MineIsAwaited
  /\ AppliedIsRegistered

\* All but the chain leave the registered keys alone.
LEMMA LogKept ==
  ASSUME UNCHANGED ownerLog
  PROVE  /\ NeverReplacesItself => NeverReplacesItself'
         /\ \A k, n : Replaces(k, n) => Replaces(k, n)'
         /\ \A k : OwnIsRegistered(k) => OwnIsRegistered(k)'
BY DEF NeverReplacesItself, Replaces, OwnIsRegistered

\* Ending a call keeps what is known of the pending transactions.
LEMMA DisownKept ==
  ASSUME AutoTypeOK, PendingFit, UNCHANGED ownerLog, pending' = Disown(pending)
  PROVE  PendingFit' /\ \A i \in DOMAIN pending' : ~pending'[i].mine
<1>1. pending \in Seq(Transactions)
  BY DEF AutoTypeOK
<1> QED
  BY <1>1, DisownProperties, LogKept DEF PendingFit

LEMMA ExitKeepsRegistration ==
  ASSUME AutoTypeOK, RegistrationInv, Exit
  PROVE  RegistrationInv'
<1>1. UNCHANGED ownerLog /\ pending' = Disown(pending) /\ pc' = "down" /\ applied' = FALSE
  BY DEF Exit
<1>2. PendingFit' /\ MineIsAwaited'
  BY <1>1, DisownKept DEF RegistrationInv, MineIsAwaited
<1>3. NeverReplacesItself'
  BY <1>1, LogKept DEF RegistrationInv
<1> QED
  BY <1>1, <1>2, <1>3
  DEF RegistrationInv, MinesRegistered, NonceFits, AppliedIsRegistered

\* A step that leaves chain, keys and outcome alone only has to say where it
\* leads to.
LEMMA StepKeepsRegistration ==
  ASSUME RegistrationInv, UNCHANGED <<ownerLog, pending, applied>>,
         UNCHANGED key \/ (~applied /\ pc # "confirming"),
         UNCHANGED pc \/ (pc # "confirming" /\ ~applied)
           \/ pc' \in {"confirming", "manager", "mining"},
         pc = "confirming" /\ ~applied => pc' = "confirming",
         pc' \in {"manager", "mining"} => OwnIsRegistered(key'),
         pc' = "setKey" => Replaces(key', nonce')
  PROVE  RegistrationInv'
<1>1. NeverReplacesItself' /\ PendingFit'
  BY LogKept DEF RegistrationInv, PendingFit
<1>2. MinesRegistered' /\ NonceFits'
  BY LogKept DEF MinesRegistered, NonceFits, OwnIsRegistered, Replaces
<1>3. MineIsAwaited'
  BY DEF RegistrationInv, MineIsAwaited
<1>4. AppliedIsRegistered'
  BY DEF RegistrationInv, AppliedIsRegistered, OwnIsRegistered
<1> QED
  BY <1>1, <1>2, <1>3, <1>4 DEF RegistrationInv

LEMMA BroadcastKeepsRegistration ==
  ASSUME AutoTypeOK, RegistrationInv, BroadcastSetKey
  PROVE  RegistrationInv'
<1> DEFINE tx == [owner |-> key, vrf |-> "own", nonce |-> nonce, mine |-> TRUE]
           n == Len(pending)
<1>1. tx \in Transactions /\ pending \in Seq(Transactions)
  BY DEF BroadcastSetKey, AutoTypeOK, Transactions
<1>2. /\ n \in Nat /\ DOMAIN pending = 1 .. n
      /\ DOMAIN pending' = 1 .. n + 1
      /\ \A i \in 1 .. n : pending'[i] = pending[i]
      /\ pending'[n + 1] = tx
  BY <1>1, AppendProperties, LenProperties DEF BroadcastSetKey
<1>3. /\ pc = "setKey" /\ pc' = "confirming" /\ applied' = FALSE
      /\ UNCHANGED <<ownerLog, key, nonce>>
  BY DEF BroadcastSetKey
<1>4. PendingFit'
  <2>1. Replaces(key, nonce)'
    BY <1>3, LogKept DEF RegistrationInv, NonceFits
  <2> QED
    BY <1>2, <1>3, <2>1, LogKept DEF RegistrationInv, PendingFit
<1>5. MineIsAwaited'
  <2>1. \A i \in 1 .. n : ~pending'[i].mine
    BY <1>2, <1>3 DEF RegistrationInv, MineIsAwaited
  <2> QED
    BY <1>2, <1>3, <2>1 DEF MineIsAwaited
<1>6. NeverReplacesItself'
  BY <1>3, LogKept DEF RegistrationInv
<1> QED
  BY <1>3, <1>4, <1>5, <1>6
  DEF RegistrationInv, MinesRegistered, NonceFits, AppliedIsRegistered

LEMMA FailureKeepsRegistration ==
  ASSUME AutoTypeOK, RegistrationInv, SetKeyFails
  PROVE  RegistrationInv'
<1>1. UNCHANGED ownerLog /\ pending' = Disown(pending) /\ pc' = "loop" /\ applied' = FALSE
  BY DEF SetKeyFails
<1>2. PendingFit' /\ MineIsAwaited'
  BY <1>1, DisownKept DEF RegistrationInv, MineIsAwaited
<1>3. NeverReplacesItself'
  BY <1>1, LogKept DEF RegistrationInv
<1> QED
  BY <1>1, <1>2, <1>3
  DEF RegistrationInv, MinesRegistered, NonceFits, AppliedIsRegistered

LEMMA OutsideKeepsRegistration ==
  ASSUME AutoTypeOK, RegistrationInv, NEW k \in Keys, NEW x, OutsideSets(k, x)
  PROVE  RegistrationInv'
<1> DEFINE tx == [owner |-> k, vrf |-> "other", nonce |-> x, mine |-> FALSE]
           n == Len(pending)
<1>1. tx \in Transactions /\ pending \in Seq(Transactions)
  BY LoggedDomain DEF OutsideSets, AutoTypeOK, Transactions
<1>2. /\ n \in Nat /\ DOMAIN pending = 1 .. n
      /\ DOMAIN pending' = 1 .. n + 1
      /\ \A i \in 1 .. n : pending'[i] = pending[i]
      /\ pending'[n + 1] = tx
  BY <1>1, AppendProperties, LenProperties DEF OutsideSets
<1>3. UNCHANGED <<ownerLog, key, nonce, pc, applied>>
  BY DEF OutsideSets, procVars
<1>4. PendingFit'
  BY <1>2, <1>3, LogKept DEF RegistrationInv, PendingFit
<1>5. MineIsAwaited'
  BY <1>2, <1>3 DEF RegistrationInv, MineIsAwaited
<1>6. NeverReplacesItself'
  BY <1>3, LogKept DEF RegistrationInv
<1>7. MinesRegistered' /\ NonceFits' /\ AppliedIsRegistered'
  BY <1>3 DEF RegistrationInv, MinesRegistered, NonceFits, AppliedIsRegistered,
              OwnIsRegistered, Replaces
<1> QED
  BY <1>4, <1>5, <1>6, <1>7 DEF RegistrationInv

\* A transaction leaves the mempool; what is left was in it before.
LEMMA TailOfPending ==
  ASSUME AutoTypeOK, pending # <<>>
  PROVE  /\ Head(pending) \in Transactions
         /\ 1 \in DOMAIN pending /\ Head(pending) = pending[1]
         /\ DOMAIN Tail(pending) \subseteq Nat
         /\ \A i \in DOMAIN Tail(pending) :
              i + 1 \in DOMAIN pending /\ i + 1 # 1 /\ Tail(pending)[i] = pending[i + 1]
<1>1. pending \in Seq(Transactions)
  BY DEF AutoTypeOK
<1>2. /\ Head(pending) \in Transactions /\ Tail(pending) \in Seq(Transactions)
      /\ Len(Tail(pending)) = Len(pending) - 1
      /\ \A i \in 1 .. Len(Tail(pending)) : Tail(pending)[i] = pending[i + 1]
  BY <1>1, HeadTailProperties
<1>3. /\ Len(pending) \in Nat /\ Len(pending) >= 1
      /\ DOMAIN pending = 1 .. Len(pending)
      /\ DOMAIN Tail(pending) = 1 .. Len(pending) - 1
  BY <1>1, <1>2, EmptySeq, LenProperties
<1>4. Head(pending) = pending[1]
  BY <1>1, <1>3
<1> QED
  BY <1>2, <1>3, <1>4

LEMMA DropKeepsRegistration ==
  ASSUME AutoTypeOK, RegistrationInv, Drop
  PROVE  RegistrationInv'
<1>1. UNCHANGED <<ownerLog, key, nonce, pc, applied>>
  BY DEF Drop, procVars
<1>2. PendingFit'
  <2>1. \A i \in DOMAIN pending' : i + 1 \in DOMAIN pending /\ pending'[i] = pending[i + 1]
    BY TailOfPending DEF Drop
  <2> QED
    BY <1>1, <2>1 DEF RegistrationInv, PendingFit, Replaces
<1>3. MineIsAwaited'
  BY <1>1, TailOfPending DEF Drop, RegistrationInv, MineIsAwaited
<1>4. NeverReplacesItself'
  BY <1>1, LogKept DEF RegistrationInv
<1>5. MinesRegistered' /\ NonceFits' /\ AppliedIsRegistered'
  BY <1>1 DEF RegistrationInv, MinesRegistered, NonceFits, AppliedIsRegistered,
              OwnIsRegistered, Replaces
<1> QED
  BY <1>2, <1>3, <1>4, <1>5 DEF RegistrationInv

\* What the chain does with a key: it appends it.
LEMMA ApplyExtendsLog ==
  ASSUME AutoTypeOK, Apply
  PROVE  /\ \A k \in Keys : \A n \in DOMAIN ownerLog[k] :
              n \in DOMAIN ownerLog'[k] /\ ownerLog'[k][n] = ownerLog[k][n]
         /\ \A k \in Keys : \A n \in DOMAIN ownerLog'[k] :
              n \notin DOMAIN ownerLog[k] =>
                /\ k = Head(pending).owner
                /\ n = Head(pending).nonce + 1
                /\ ownerLog'[k][n] = Head(pending).vrf
         /\ \E n \in DOMAIN ownerLog'[Head(pending).owner] :
              ownerLog'[Head(pending).owner][n] = Head(pending).vrf
<1> DEFINE tx == Head(pending)
           log == ownerLog[tx.owner]
<1>1. /\ tx \in Transactions /\ tx.nonce = Len(log)
      /\ ownerLog' = [ownerLog EXCEPT ![tx.owner] = Append(log, tx.vrf)]
  BY TailOfPending DEF Apply, NonceIsNext
<1>2. /\ tx.owner \in Keys /\ tx.vrf \in {"own", "other"}
      /\ log \in Seq({"own", "other"})
  BY <1>1 DEF AutoTypeOK, Transactions
<1>3. /\ \A k \in Keys \ {tx.owner} : ownerLog'[k] = ownerLog[k]
      /\ ownerLog'[tx.owner] = Append(log, tx.vrf)
  BY <1>1, <1>2 DEF AutoTypeOK
<1>4. /\ Len(log) \in Nat /\ DOMAIN log = 1 .. Len(log)
      /\ DOMAIN Append(log, tx.vrf) = 1 .. Len(log) + 1
      /\ \A i \in 1 .. Len(log) : Append(log, tx.vrf)[i] = log[i]
      /\ Append(log, tx.vrf)[Len(log) + 1] = tx.vrf
  BY <1>2, AppendProperties, LenProperties
<1> HIDE DEF log
<1>5. ASSUME NEW k \in Keys, NEW n \in DOMAIN ownerLog[k]
      PROVE  n \in DOMAIN ownerLog'[k] /\ ownerLog'[k][n] = ownerLog[k][n]
  <2>1. CASE k = tx.owner
    BY <1>3, <1>4, <1>5, <2>1 DEF log
  <2>2. CASE k # tx.owner
    BY <1>3, <1>5, <2>2
  <2> QED BY <2>1, <2>2
<1>6. ASSUME NEW k \in Keys, NEW n \in DOMAIN ownerLog'[k], n \notin DOMAIN ownerLog[k]
      PROVE  k = tx.owner /\ n = tx.nonce + 1 /\ ownerLog'[k][n] = tx.vrf
  <2>1. k = tx.owner
    BY <1>3, <1>6
  <2>2. n \in 1 .. Len(log) + 1 /\ n \notin 1 .. Len(log)
    BY <1>3, <1>4, <1>6, <2>1 DEF log
  <2>3. n = Len(log) + 1
    BY <1>4, <2>2
  <2> QED BY <1>1, <1>3, <1>4, <2>1, <2>3
<1>7. Len(log) + 1 \in DOMAIN ownerLog'[tx.owner] /\ ownerLog'[tx.owner][Len(log) + 1] = tx.vrf
  BY <1>3, <1>4
<1> QED
  BY <1>2, <1>5, <1>6, <1>7

LEMMA ApplyKeepsRegistration ==
  ASSUME AutoTypeOK, RegistrationInv, Apply
  PROVE  RegistrationInv'
<1> DEFINE tx == Head(pending)
<1>1. /\ tx \in Transactions /\ tx = pending[1] /\ 1 \in DOMAIN pending
      /\ tx.owner \in Keys /\ tx.nonce \in Nat
      /\ pending # <<>> /\ pending' = Tail(pending)
      /\ UNCHANGED <<pc, key, nonce>> /\ applied' = (applied \/ tx.mine)
  BY TailOfPending DEF Apply, Transactions
<1>2. \A k \in Keys : \A n : Replaces(k, n) => Replaces(k, n)'
  BY ApplyExtendsLog DEF Replaces
<1>3. \A k \in Keys : OwnIsRegistered(k) => OwnIsRegistered(k)'
  BY ApplyExtendsLog DEF OwnIsRegistered
<1>4. NeverReplacesItself'
  <2> SUFFICES ASSUME NEW k \in Keys, NEW n \in DOMAIN ownerLog'[k],
                      n > 1, ownerLog'[k][n] = "own"
               PROVE  ownerLog'[k][n - 1] = "other"
    BY DEF NeverReplacesItself
  <2>1. CASE n \in DOMAIN ownerLog[k]
    <3>1. ownerLog[k][n] = "own" /\ n - 1 \in DOMAIN ownerLog[k]
      BY <2>1, ApplyExtendsLog, LoggedDomain
    <3>2. ownerLog[k][n - 1] = "other"
      BY <2>1, <3>1 DEF RegistrationInv, NeverReplacesItself
    <3> QED
      BY <3>1, <3>2, ApplyExtendsLog
  <2>2. CASE n \notin DOMAIN ownerLog[k]
    <3>1. k = tx.owner /\ n = tx.nonce + 1 /\ tx.vrf = "own"
      BY <2>2, ApplyExtendsLog
    <3>2. Replaces(k, tx.nonce)
      BY <1>1, <3>1 DEF RegistrationInv, PendingFit
    <3>3. n - 1 \in DOMAIN ownerLog[k] /\ ownerLog[k][n - 1] = "other"
      BY <1>1, <3>1, <3>2 DEF Replaces
    <3> QED
      BY <3>3, ApplyExtendsLog
  <2> QED
    BY <2>1, <2>2
<1>5. PendingFit'
  <2> SUFFICES ASSUME NEW i \in DOMAIN pending', pending'[i].vrf = "own"
               PROVE  Replaces(pending[i].owner, pending[i].nonce)'
    BY DEF PendingFit
  <2>1. i + 1 \in DOMAIN pending /\ pending'[i] = pending[i + 1]
    BY <1>1, TailOfPending
  <2>2. pending[i + 1] \in Transactions
    BY <2>1, ElementOfSeq, LenProperties DEF AutoTypeOK
  <2>3. PICK o \in Keys, x \in Nat : pending[i + 1].owner = o /\ pending[i + 1].nonce = x
    BY <2>2 DEF Transactions
  <2>4. Replaces(o, x)'
    BY <1>2, <2>1, <2>3 DEF RegistrationInv, PendingFit
  <2> QED
    BY <2>1, <2>3, <2>4 DEF Replaces
<1>6. NonceFits'
  BY <1>1, <1>2 DEF RegistrationInv, NonceFits, AutoTypeOK
<1>7. MineIsAwaited'
  <2>1. \A i \in DOMAIN pending' :
          /\ i \in Nat /\ i + 1 \in DOMAIN pending /\ i + 1 # 1
          /\ pending'[i] = pending[i + 1]
    BY <1>1, TailOfPending
  <2>2. CASE tx.mine
    <3>1. \A i \in DOMAIN pending' : ~pending'[i].mine
      BY <1>1, <2>1, <2>2 DEF RegistrationInv, MineIsAwaited
    <3> QED
      BY <3>1 DEF MineIsAwaited
  <2>3. CASE ~tx.mine
    <3>1. applied' <=> applied
      BY <1>1, <2>3
    <3>2. \A i, j \in DOMAIN pending' : pending'[i].mine /\ pending'[j].mine => i = j
      <4> SUFFICES ASSUME NEW i \in DOMAIN pending', NEW j \in DOMAIN pending',
                          pending'[i].mine, pending'[j].mine
                   PROVE  i = j
        OBVIOUS
      <4>1. i + 1 = j + 1
        BY <2>1 DEF RegistrationInv, MineIsAwaited
      <4> QED
        BY <2>1, <4>1
    <3> QED
      BY <1>1, <2>1, <3>1, <3>2 DEF RegistrationInv, MineIsAwaited
  <2> QED
    BY <2>2, <2>3
<1>8. AppliedIsRegistered'
  <2>1. CASE tx.mine
    <3>1. pc = "confirming" /\ tx.owner = key /\ tx.vrf = "own"
      BY <1>1, <2>1 DEF RegistrationInv, MineIsAwaited
    <3>2. OwnIsRegistered(key)'
      BY <1>1, <3>1, ApplyExtendsLog DEF OwnIsRegistered
    <3> QED
      BY <1>1, <3>1, <3>2 DEF AppliedIsRegistered
  <2>2. CASE ~tx.mine
    BY <1>1, <1>3, <2>2 DEF RegistrationInv, AppliedIsRegistered, AutoTypeOK
  <2> QED
    BY <2>1, <2>2
<1>9. MinesRegistered'
  BY <1>1, <1>3 DEF RegistrationInv, MinesRegistered, OwnIsRegistered, AutoTypeOK
<1> QED
  BY <1>4, <1>5, <1>6, <1>7, <1>8, <1>9 DEF RegistrationInv

LEMMA RegistrationInvariant == Spec => []RegistrationInv
<1>1. Init => RegistrationInv
  BY DEF Init, RegistrationInv, MinesRegistered, NeverReplacesItself, PendingFit,
         NonceFits, MineIsAwaited, AppliedIsRegistered
<1>2. ASSUME AutoTypeOK, RegistrationInv, [Next]_vars PROVE RegistrationInv'
  <2>1. CASE LoadFails \/ SaveFails \/ ConnectFails \/ LoopStops \/ MiningEnds \/ Crash
    BY <1>2, <2>1, ExitKeepsRegistration
    DEF LoadFails, SaveFails, ConnectFails, LoopStops, MiningEnds, Crash
  <2>2. CASE Boot \/ LoadFinds \/ LoadMissing \/ SaveBegins \/ SaveEnds \/ Connected
    BY <1>2, <2>2, StepKeepsRegistration
    DEF RegistrationInv, AppliedIsRegistered, Boot, Move, LoadFinds, LoadMissing,
        SaveBegins, SaveEnds, Connected, chainVars
  <2>3. CASE LoopGoesOn \/ NoLicenses \/ LicensesFound
    BY <1>2, <2>3, StepKeepsRegistration
    DEF RegistrationInv, AppliedIsRegistered, LoopGoesOn, NoLicenses, LicensesFound,
        Move, chainVars
  <2>4. ASSUME NEW n, KeyMatches(n) PROVE RegistrationInv'
    BY <1>2, <2>4, StepKeepsRegistration
    DEF RegistrationInv, AppliedIsRegistered, KeyMatches, Move, chainVars, OwnIsRegistered
  <2>5. ASSUME KeyUnknown \/ \E n : KeyDiffers(n) PROVE RegistrationInv'
    BY <1>2, <2>5, StepKeepsRegistration
    DEF RegistrationInv, AppliedIsRegistered, KeyUnknown, KeyDiffers, chainVars, Replaces
  <2>6. CASE SetKeyConfirmed
    BY <1>2, <2>6, StepKeepsRegistration
    DEF RegistrationInv, AppliedIsRegistered, SetKeyConfirmed, Move, chainVars
  <2>7. CASE MiningStarts
    BY <1>2, <2>7, StepKeepsRegistration
    DEF RegistrationInv, MinesRegistered, MiningStarts, Move, chainVars, OwnIsRegistered
  <2>8. CASE Cancel \/ (\E k \in Keys : Delegate(k)) \/ UNCHANGED vars
    BY <1>2, <2>8, StepKeepsRegistration
    DEF RegistrationInv, MinesRegistered, NonceFits, OwnIsRegistered, Cancel, Delegate,
        vars, chainVars, procVars
  <2> QED
    BY <1>2, <2>1, <2>2, <2>3, <2>4, <2>5, <2>6, <2>7, <2>8,
       BroadcastKeepsRegistration, FailureKeepsRegistration, OutsideKeepsRegistration,
       DropKeepsRegistration, ApplyKeepsRegistration
    DEF Next, Process, KeyInfo
<1> QED
  BY <1>1, <1>2, AutoTypeCorrect, PTL DEF Spec

\* The miner starts mining only with a VRF key that its owner has registered:
\* main.go 403-440 and SetOwnerVRFKey.
THEOREM MiningIsRegistered == Spec => []MinesRegistered
<1>1. RegistrationInv => MinesRegistered
  BY DEF RegistrationInv
<1> QED
  BY <1>1, RegistrationInvariant, PTL

\* No number of retries, restarts and stale queries registers the miner's own
\* key over itself: main.go 411-440, the comparison and the nonce together.
THEOREM OwnKeyIsSetOnce == Spec => []NeverReplacesItself
<1>1. RegistrationInv => NeverReplacesItself
  BY DEF RegistrationInv
<1> QED
  BY <1>1, RegistrationInvariant, PTL

-----------------------------------------------------------------------------
(* How often the key is registered *)

SetAs(k, v) == {n \in DOMAIN ownerLog[k] : ownerLog[k][n] = v}
ToBeSetByHand(k) == {i \in DOMAIN pending : pending[i].owner = k /\ pending[i].vrf = "other"}

\* The own key is registered once, and once more per key set by hand at most.
RegistrationsAreFew == \A k \in Keys : Cardinality(SetAs(k, "own")) <= outside + 1

\* Every key of another hand, set or still to be set, was set by hand.
OthersAreCounted ==
  \A k \in Keys : Cardinality(SetAs(k, "other")) + Cardinality(ToBeSetByHand(k)) <= outside

\* Shifting numbers by d keeps them apart.
LEMMA FitsInto ==
  ASSUME NEW S \in SUBSET Int, NEW T, IsFiniteSet(T), NEW d \in Int, \A x \in S : x + d \in T
  PROVE  IsFiniteSet(S) /\ Cardinality(S) <= Cardinality(T)
<1> DEFINE f == [x \in S |-> x + d]
<1>1. f \in Injection(S, T)
  BY DEF Injection, IsInjective
<1> QED BY <1>1, FS_Injection

LEMMA OneMoreAtMost ==
  ASSUME NEW S, IsFiniteSet(S), NEW x, NEW T \in SUBSET (S \cup {x})
  PROVE  Cardinality(T) \in Nat /\ Cardinality(T) <= Cardinality(S) + 1
<1>1. IsFiniteSet(S \cup {x}) /\ Cardinality(S \cup {x}) <= Cardinality(S) + 1
  <2>1. Cardinality(S) \in Nat
    BY FS_CardinalityType
  <2>2. /\ IsFiniteSet(S \cup {x})
        /\ Cardinality(S \cup {x}) = IF x \in S THEN Cardinality(S) ELSE Cardinality(S) + 1
    BY FS_AddElement
  <2> QED BY <2>1, <2>2
<1>2. IsFiniteSet(T) /\ Cardinality(T) <= Cardinality(S \cup {x})
  BY <1>1, FS_Subset
<1>3. Cardinality(S) \in Nat /\ Cardinality(S \cup {x}) \in Nat /\ Cardinality(T) \in Nat
  BY <1>1, <1>2, FS_CardinalityType
<1> QED BY <1>1, <1>2, <1>3

LEMMA FiniteCounts ==
  ASSUME AutoTypeOK, NEW k \in Keys
  PROVE  /\ \A v : /\ SetAs(k, v) \subseteq DOMAIN ownerLog[k]
                   /\ IsFiniteSet(SetAs(k, v)) /\ Cardinality(SetAs(k, v)) \in Nat
         /\ ToBeSetByHand(k) \subseteq DOMAIN pending
         /\ IsFiniteSet(ToBeSetByHand(k)) /\ Cardinality(ToBeSetByHand(k)) \in Nat
         /\ DOMAIN ownerLog[k] \subseteq Int /\ DOMAIN pending \subseteq Int
<1>1. ownerLog[k] \in Seq({"own", "other"}) /\ pending \in Seq(Transactions)
  BY DEF AutoTypeOK
<1>2. /\ DOMAIN ownerLog[k] = 1 .. Len(ownerLog[k]) /\ Len(ownerLog[k]) \in Nat
      /\ DOMAIN pending = 1 .. Len(pending) /\ Len(pending) \in Nat
  BY <1>1, LenProperties
<1>3. IsFiniteSet(DOMAIN ownerLog[k]) /\ IsFiniteSet(DOMAIN pending)
  BY <1>2, FS_Interval
<1>4. ASSUME NEW v
      PROVE  /\ SetAs(k, v) \subseteq DOMAIN ownerLog[k]
             /\ IsFiniteSet(SetAs(k, v)) /\ Cardinality(SetAs(k, v)) \in Nat
  <2>1. SetAs(k, v) \in SUBSET DOMAIN ownerLog[k]
    BY DEF SetAs
  <2> QED BY <1>3, <2>1, FS_Subset, FS_CardinalityType
<1>5. /\ ToBeSetByHand(k) \subseteq DOMAIN pending
      /\ IsFiniteSet(ToBeSetByHand(k)) /\ Cardinality(ToBeSetByHand(k)) \in Nat
  <2>1. ToBeSetByHand(k) \in SUBSET DOMAIN pending
    BY DEF ToBeSetByHand
  <2> QED BY <1>3, <2>1, FS_Subset, FS_CardinalityType
<1> QED BY <1>2, <1>4, <1>5

\* An own key that is not the first one is the key next to one of another hand.
LEMMA OwnFollowOthers ==
  ASSUME AutoTypeOK, NeverReplacesItself, NEW k \in Keys
  PROVE  Cardinality(SetAs(k, "own")) <= Cardinality(SetAs(k, "other")) + 1
<1> DEFINE own == SetAs(k, "own")
           later == own \ {1}
<1>1. /\ IsFiniteSet(own) /\ IsFiniteSet(SetAs(k, "other"))
      /\ Cardinality(own) \in Nat /\ Cardinality(SetAs(k, "other")) \in Nat
      /\ own \subseteq DOMAIN ownerLog[k]
  BY FiniteCounts
<1>2. IsFiniteSet(later) /\ Cardinality(later) = IF 1 \in own THEN Cardinality(own) - 1 ELSE Cardinality(own)
  BY <1>1, FS_RemoveElement
<1>3. \A n \in later : n \in Int /\ n + (-1) \in SetAs(k, "other")
  <2> SUFFICES ASSUME NEW n \in later PROVE n \in Int /\ n + (-1) \in SetAs(k, "other")
    OBVIOUS
  <2>1. n \in DOMAIN ownerLog[k] /\ ownerLog[k][n] = "own" /\ n # 1
    BY DEF SetAs
  <2>2. n \in Nat /\ n > 1 /\ n - 1 \in DOMAIN ownerLog[k]
    BY <2>1, LoggedDomain
  <2>3. ownerLog[k][n - 1] = "other"
    BY <2>1, <2>2 DEF NeverReplacesItself
  <2> QED BY <2>2, <2>3 DEF SetAs
<1>4. Cardinality(later) <= Cardinality(SetAs(k, "other"))
  <2>1. later \in SUBSET Int
    BY <1>3
  <2> HIDE DEF later
  <2> QED BY <1>1, <1>3, <2>1, FitsInto
<1> QED BY <1>1, <1>2, <1>4

\* What leaves the mempool is no longer to be set.
LEMMA TailIsFewer ==
  ASSUME AutoTypeOK, pending # <<>>, pending' = Tail(pending), NEW k \in Keys
  PROVE  LET h == Head(pending)
         IN  /\ Cardinality(ToBeSetByHand(k)') \in Nat
             /\ Cardinality(ToBeSetByHand(k)')
                  <= Cardinality(ToBeSetByHand(k)) - (IF h.owner = k /\ h.vrf = "other" THEN 1 ELSE 0)
<1> DEFINE h == Head(pending)
           rest == ToBeSetByHand(k) \ {1}
           left == ToBeSetByHand(k)'
<1>1. IsFiniteSet(ToBeSetByHand(k)) /\ Cardinality(ToBeSetByHand(k)) \in Nat
  BY FiniteCounts
<1>2. IsFiniteSet(rest) /\ Cardinality(rest)
        = IF 1 \in ToBeSetByHand(k) THEN Cardinality(ToBeSetByHand(k)) - 1 ELSE Cardinality(ToBeSetByHand(k))
  BY <1>1, FS_RemoveElement
<1>3. h.owner = k /\ h.vrf = "other" <=> 1 \in ToBeSetByHand(k)
  BY TailOfPending DEF ToBeSetByHand
<1>4. left \in SUBSET Int /\ \A i \in left : i + 1 \in rest
  BY TailOfPending DEF ToBeSetByHand
<1>5. IsFiniteSet(left) /\ Cardinality(left) <= Cardinality(rest)
  <2>1. IsFiniteSet(rest)
    BY <1>2
  <2> DEFINE one == 1
  <2>2. one \in Int /\ left \in SUBSET Int /\ \A i \in left : i + one \in rest
    BY <1>4
  <2> HIDE DEF left, rest, one
  <2> QED BY <2>1, <2>2, FitsInto
<1>6. Cardinality(left) \in Nat
  BY <1>5, FS_CardinalityType
<1> QED BY <1>1, <1>2, <1>3, <1>5, <1>6

LEMMA ApplyCounted ==
  ASSUME AutoTypeOK, OthersAreCounted, Apply
  PROVE  OthersAreCounted'
<1> SUFFICES ASSUME NEW k \in Keys
             PROVE  Cardinality(SetAs(k, "other")') + Cardinality(ToBeSetByHand(k)') <= outside'
  BY DEF OthersAreCounted
<1> DEFINE h == Head(pending)
           others == SetAs(k, "other")
<1>1. pending # <<>> /\ pending' = Tail(pending) /\ outside' = outside
  BY DEF Apply, countVars
<1>2. /\ IsFiniteSet(others) /\ Cardinality(others) \in Nat /\ outside \in Nat
      /\ Cardinality(ToBeSetByHand(k)) \in Nat
      /\ Cardinality(others) + Cardinality(ToBeSetByHand(k)) <= outside
  BY FiniteCounts DEF AutoTypeOK, OthersAreCounted
<1>3. CASE h.owner = k /\ h.vrf = "other"
  <2>1. SetAs(k, "other")' \in SUBSET (others \cup {h.nonce + 1})
    BY ApplyExtendsLog DEF SetAs
  <2>2. /\ Cardinality(SetAs(k, "other")') \in Nat
        /\ Cardinality(SetAs(k, "other")') <= Cardinality(others) + 1
    BY <1>2, <2>1, OneMoreAtMost
  <2>3. /\ Cardinality(ToBeSetByHand(k)') \in Nat
        /\ Cardinality(ToBeSetByHand(k)') <= Cardinality(ToBeSetByHand(k)) - 1
    BY <1>1, <1>3, TailIsFewer
  <2> QED BY <1>1, <1>2, <2>2, <2>3
<1>4. CASE ~(h.owner = k /\ h.vrf = "other")
  <2>1. SetAs(k, "other")' \in SUBSET others
    BY <1>4, ApplyExtendsLog DEF SetAs
  <2>2. /\ Cardinality(SetAs(k, "other")') \in Nat
        /\ Cardinality(SetAs(k, "other")') <= Cardinality(others)
    BY <1>2, <2>1, FS_Subset, FS_CardinalityType
  <2>3. /\ Cardinality(ToBeSetByHand(k)') \in Nat
        /\ Cardinality(ToBeSetByHand(k)') <= Cardinality(ToBeSetByHand(k))
    BY <1>1, <1>2, TailIsFewer
  <2> QED BY <1>1, <1>2, <2>2, <2>3
<1> QED BY <1>3, <1>4

\* A transaction that is sent: one more is to be set by hand, or none.
LEMMA SendingCounted ==
  ASSUME AutoTypeOK, OthersAreCounted, UNCHANGED ownerLog, NEW tx \in Transactions,
         pending' = Append(pending, tx), outside' \in Nat, outside' >= outside,
         tx.vrf = "other" => outside' = outside + 1
  PROVE  OthersAreCounted'
<1> SUFFICES ASSUME NEW k \in Keys
             PROVE  Cardinality(SetAs(k, "other")') + Cardinality(ToBeSetByHand(k)') <= outside'
  BY DEF OthersAreCounted
<1> DEFINE last == Len(pending) + 1
           hand == ToBeSetByHand(k)
<1>1. /\ IsFiniteSet(hand) /\ Cardinality(hand) \in Nat
      /\ Cardinality(SetAs(k, "other")) \in Nat /\ outside \in Nat
      /\ Cardinality(SetAs(k, "other")) + Cardinality(hand) <= outside
  BY FiniteCounts DEF AutoTypeOK, OthersAreCounted
<1>2. SetAs(k, "other")' = SetAs(k, "other")
  BY DEF SetAs
<1>3. /\ DOMAIN pending' = DOMAIN pending \cup {last} /\ pending'[last] = tx
      /\ \A i \in DOMAIN pending : pending'[i] = pending[i]
  <2>1. pending \in Seq(Transactions) /\ Len(pending) \in Nat /\ DOMAIN pending = 1 .. Len(pending)
    BY LenProperties DEF AutoTypeOK
  <2>2. /\ Append(pending, tx) \in Seq(Transactions) /\ Len(Append(pending, tx)) = last
        /\ \A i \in 1 .. Len(pending) : Append(pending, tx)[i] = pending[i]
        /\ Append(pending, tx)[last] = tx
    BY <2>1, AppendProperties
  <2>3. DOMAIN Append(pending, tx) = 1 .. last
    BY <2>2, LenProperties
  <2> QED BY <2>1, <2>2, <2>3
<1>4. CASE tx.vrf = "other"
  <2>1. hand' \in SUBSET (hand \cup {last})
    BY <1>3 DEF ToBeSetByHand
  <2>2. Cardinality(hand') \in Nat /\ Cardinality(hand') <= Cardinality(hand) + 1
    BY <1>1, <2>1, OneMoreAtMost
  <2> QED BY <1>1, <1>2, <1>4, <2>2
<1>5. CASE tx.vrf # "other"
  <2>1. hand' = hand
    BY <1>3, <1>5 DEF ToBeSetByHand
  <2> QED BY <1>1, <1>2, <2>1
<1> QED BY <1>4, <1>5

LEMMA DisownCounted ==
  ASSUME AutoTypeOK, OthersAreCounted, UNCHANGED <<ownerLog, outside>>, pending' = Disown(pending)
  PROVE  OthersAreCounted'
<1>1. \A k \in Keys : ToBeSetByHand(k)' = ToBeSetByHand(k)
  BY DisownProperties DEF AutoTypeOK, ToBeSetByHand
<1>2. \A k \in Keys : SetAs(k, "other")' = SetAs(k, "other")
  BY DEF SetAs
<1> QED BY <1>1, <1>2 DEF OthersAreCounted

LEMMA StepCounted ==
  ASSUME AutoTypeOK, OthersAreCounted, [Next]_vars
  PROVE  OthersAreCounted'
<1>1. CASE Apply
  BY <1>1, ApplyCounted
<1>2. CASE Drop
  <2> SUFFICES ASSUME NEW k \in Keys
               PROVE  Cardinality(SetAs(k, "other")') + Cardinality(ToBeSetByHand(k)') <= outside'
    BY DEF OthersAreCounted
  <2>1. pending # <<>> /\ pending' = Tail(pending) /\ UNCHANGED <<ownerLog, outside>>
    BY <1>2 DEF Drop, countVars
  <2>2. SetAs(k, "other")' = SetAs(k, "other")
    BY <2>1 DEF SetAs
  <2>3. /\ Cardinality(SetAs(k, "other")) \in Nat /\ Cardinality(ToBeSetByHand(k)) \in Nat
        /\ outside \in Nat
        /\ Cardinality(SetAs(k, "other")) + Cardinality(ToBeSetByHand(k)) <= outside
    BY FiniteCounts DEF AutoTypeOK, OthersAreCounted
  <2>4. /\ Cardinality(ToBeSetByHand(k)') \in Nat
        /\ Cardinality(ToBeSetByHand(k)') <= Cardinality(ToBeSetByHand(k))
    BY <2>1, <2>3, TailIsFewer
  <2> QED BY <2>1, <2>2, <2>3, <2>4
<1>3. ASSUME NEW k \in Keys, NEW n, OutsideSets(k, n) PROVE OthersAreCounted'
  <2> DEFINE tx == [owner |-> k, vrf |-> "other", nonce |-> n, mine |-> FALSE]
  <2>1. tx \in Transactions /\ outside \in Nat
    <3>1. n \in Nat
      BY <1>3, LoggedDomain DEF OutsideSets
    <3> QED BY <3>1 DEF Transactions, AutoTypeOK
  <2>2. UNCHANGED ownerLog /\ pending' = Append(pending, tx) /\ outside' = outside + 1
    BY <1>3 DEF OutsideSets
  <2> HIDE DEF tx
  <2> QED BY <2>1, <2>2, SendingCounted
<1>4. CASE BroadcastSetKey
  <2> DEFINE tx == [owner |-> key, vrf |-> "own", nonce |-> nonce, mine |-> TRUE]
  <2>1. tx \in Transactions /\ tx.vrf # "other" /\ outside \in Nat
    BY <1>4 DEF BroadcastSetKey, AutoTypeOK, Transactions
  <2>2. UNCHANGED <<ownerLog, outside>> /\ pending' = Append(pending, tx)
    BY <1>4 DEF BroadcastSetKey, countVars
  <2> HIDE DEF tx
  <2> QED BY <2>1, <2>2, SendingCounted
<1>5. CASE Exit \/ SetKeyFails
  BY <1>5, DisownCounted DEF Exit, SetKeyFails
<1>6. CASE UNCHANGED <<ownerLog, pending, outside>>
  BY <1>6 DEF OthersAreCounted, SetAs, ToBeSetByHand
<1> QED
  BY <1>1, <1>2, <1>3, <1>4, <1>5, <1>6
  DEF Next, Process, Boot, Move, LoadFinds, LoadFails, LoadMissing, SaveBegins, SaveFails,
      SaveEnds, Connected, ConnectFails, LoopStops, LoopGoesOn, NoLicenses, LicensesFound,
      KeyInfo, KeyMatches, KeyDiffers, KeyUnknown, SetKeyConfirmed, MiningStarts, MiningEnds,
      Cancel, Crash, Delegate, vars, chainVars, countVars

\* The miner registers its key once, and once more for every key set by hand
\* at most, however often it is killed, calls time out, queries fail or are
\* answered by nodes that lag (main.go:403-440).
THEOREM RegistrationsAreBounded == Spec => []RegistrationsAreFew
<1>1. Init => OthersAreCounted
  <2> SUFFICES ASSUME Init, NEW k \in Keys
               PROVE  Cardinality(SetAs(k, "other")) + Cardinality(ToBeSetByHand(k)) <= outside
    BY Zenon DEF OthersAreCounted
  <2>1. DOMAIN ownerLog[k] = {} /\ DOMAIN pending = {} /\ outside = 0
    BY DEF Init
  <2>2. SetAs(k, "other") = {} /\ ToBeSetByHand(k) = {}
    BY <2>1 DEF SetAs, ToBeSetByHand
  <2> QED BY <2>1, <2>2, FS_EmptySet
<1>2. AutoTypeOK /\ OthersAreCounted /\ [Next]_vars => OthersAreCounted'
  BY StepCounted
<1>3. AutoTypeOK /\ NeverReplacesItself /\ OthersAreCounted => RegistrationsAreFew
  <2> SUFFICES ASSUME AutoTypeOK, NeverReplacesItself, OthersAreCounted, NEW k \in Keys
               PROVE  Cardinality(SetAs(k, "own")) <= outside + 1
    BY Zenon DEF RegistrationsAreFew
  <2>1. /\ Cardinality(SetAs(k, "own")) \in Nat /\ Cardinality(SetAs(k, "other")) \in Nat
        /\ Cardinality(ToBeSetByHand(k)) \in Nat /\ outside \in Nat
        /\ Cardinality(SetAs(k, "other")) + Cardinality(ToBeSetByHand(k)) <= outside
    BY FiniteCounts DEF AutoTypeOK, OthersAreCounted
  <2>2. Cardinality(SetAs(k, "own")) <= Cardinality(SetAs(k, "other")) + 1
    BY OwnFollowOthers
  <2> QED BY <2>1, <2>2
<1> QED BY <1>1, <1>2, <1>3, AutoTypeCorrect, OwnKeyIsSetOnce, PTL DEF Spec

-----------------------------------------------------------------------------
(* Stopping *)

Running(place) == ctxDone /\ pc = place

\* The context is only cancelled by a signal, and until the handler is
\* installed a signal kills.
StopsInLoop ==
  ctxDone => pc \in {"loop", "delegations", "keyInfo", "setKey", "confirming",
                     "manager", "mining"}

\* What a cancelled process may still do.  Each step goes forward on the way
\* through a round of the loop, none begins another round.
LastSteps ==
  \/ pc \in {"loop", "mining"} /\ pc' = "down"
  \/ pc = "delegations" /\ pc' = "loop"
  \/ pc = "keyInfo" /\ pc' = "setKey"
  \/ pc \in {"setKey", "confirming"} /\ pc' = "loop"
  \/ pc = "manager" /\ pc' = "mining"

LEMMA StoppingProcess ==
  ASSUME StopsInLoop, ctxDone, Process
  PROVE  LastSteps /\ (ctxDone' <=> pc' # "down")
<1>1. CASE LoopStops \/ MiningEnds
  BY <1>1 DEF LoopStops, MiningEnds, Exit, LastSteps
<1>2. CASE NoLicenses \/ MiningStarts
  BY <1>2 DEF NoLicenses, MiningStarts, Move, LastSteps
<1>3. CASE KeyUnknown \/ SetKeyFails
  BY <1>3 DEF KeyUnknown, SetKeyFails, LastSteps
<1>4. CASE LoadFinds \/ LoadFails \/ LoadMissing \/ SaveBegins \/ SaveFails \/ SaveEnds
           \/ Connected \/ ConnectFails
  BY <1>4 DEF StopsInLoop, LoadFinds, LoadFails, LoadMissing, SaveBegins, SaveFails,
              SaveEnds, Connected, ConnectFails
<1>5. CASE LoopGoesOn \/ LicensesFound \/ BroadcastSetKey \/ SetKeyConfirmed
           \/ \E n \in LoggedKeys : KeyInfo(n)
  BY <1>5 DEF LoopGoesOn, LicensesFound, BroadcastSetKey, SetKeyConfirmed, KeyInfo,
              KeyMatches, KeyDiffers
<1> QED
  BY <1>1, <1>2, <1>3, <1>4, <1>5 DEF Process

\* Any other step leaves a cancelled process where it is, or kills it.
LEMMA StoppingStep ==
  ASSUME StopsInLoop, ctxDone, [Next]_vars
  PROVE  /\ ctxDone' <=> pc' # "down"
         /\ pc' = "down" \/ pc' = pc \/ LastSteps
<1>1. CASE Process
  BY <1>1, StoppingProcess
<1>2. CASE Boot \/ Crash
  BY <1>2 DEF Boot, Move, Crash, Exit, StopsInLoop
<1>3. CASE Cancel \/ (\E k \in Keys : Delegate(k)) \/ Apply \/ Drop \/ UNCHANGED vars
           \/ (\E k \in Keys : \E n \in 0 .. Len(ownerLog[k]) : OutsideSets(k, n))
  BY <1>3 DEF Cancel, Delegate, Apply, Drop, OutsideSets, vars, procVars, StopsInLoop
<1> QED
  BY <1>1, <1>2, <1>3 DEF Next

LEMMA OnlySignalsCancel ==
  ASSUME AutoTypeOK, ~ctxDone, ctxDone', [Next]_vars
  PROVE  pc' = pc /\ pc \notin {"down", "load", "save", "saving", "connect"}
<1>1. CASE Cancel
  BY <1>1 DEF Cancel
<1>2. CASE Boot \/ Crash \/ LoadFails \/ SaveFails \/ ConnectFails \/ LoopStops \/ MiningEnds
  BY <1>2 DEF Boot, Move, Crash, LoadFails, SaveFails, ConnectFails, LoopStops, MiningEnds, Exit
<1>3. CASE LoopGoesOn \/ NoLicenses \/ LicensesFound \/ SetKeyConfirmed \/ MiningStarts
           \/ \E n \in LoggedKeys : KeyInfo(n)
  BY <1>3 DEF LoopGoesOn, NoLicenses, LicensesFound, SetKeyConfirmed, MiningStarts, Move,
              KeyInfo, KeyMatches, KeyDiffers
<1>4. CASE LoadFinds \/ LoadMissing \/ SaveBegins \/ SaveEnds \/ Connected
           \/ KeyUnknown \/ BroadcastSetKey \/ SetKeyFails
  BY <1>4 DEF LoadFinds, LoadMissing, SaveBegins, SaveEnds, Connected,
              KeyUnknown, BroadcastSetKey, SetKeyFails
<1>5. CASE (\E k \in Keys : Delegate(k)) \/ Apply \/ Drop \/ UNCHANGED vars
           \/ (\E k \in Keys : \E n \in 0 .. Len(ownerLog[k]) : OutsideSets(k, n))
  BY <1>5 DEF Delegate, Apply, Drop, OutsideSets, vars, procVars
<1> QED
  BY <1>1, <1>2, <1>3, <1>4, <1>5 DEF Next, Process

LEMMA StopsInLoopInvariant == Spec => []StopsInLoop
<1>1. Init => StopsInLoop
  BY DEF Init, StopsInLoop
<1>2. ASSUME AutoTypeOK, StopsInLoop, [Next]_vars PROVE StopsInLoop'
  <2>1. CASE ctxDone
    BY <1>2, <2>1, StoppingStep DEF LastSteps, StopsInLoop
  <2>2. CASE ~ctxDone /\ ctxDone'
    BY <1>2, <2>2, OnlySignalsCancel DEF AutoTypeOK, StopsInLoop
  <2> QED
    BY <2>1, <2>2 DEF StopsInLoop
<1> QED
  BY <1>1, <1>2, AutoTypeCorrect, PTL DEF Spec

\* A miner that is told to stop ends, wherever it is in the loop and whatever
\* the chain and the user do meanwhile (main.go 379-384 and 450-452): it
\* finishes the round it is in, with every wait cut short, and looks at the
\* context.  That it always has a way on, which TLC checks as an invariant, is
\* the hypothesis.
THEOREM ToldMinerStops == FairSpec /\ []AlwaysAWayOut => StopsWhenTold
<1> DEFINE L == Running("loop")     D == Running("delegations")  K == Running("keyInfo")
           S == Running("setKey")   C == Running("confirming")   M == Running("manager")
           W == Running("mining")   Down == pc = "down"
<1>1. StopsInLoop /\ ctxDone => L \/ D \/ K \/ S \/ C \/ M \/ W
  BY DEF StopsInLoop, Running
<1>2. StopsInLoop /\ [Next]_vars
        => /\ L => L' \/ Down'
           /\ D => D' \/ L' \/ Down'
           /\ K => K' \/ S' \/ Down'
           /\ S => S' \/ L' \/ Down'
           /\ C => C' \/ L' \/ Down'
           /\ M => M' \/ W' \/ Down'
           /\ W => W' \/ Down'
  BY StoppingStep DEF LastSteps, Running
<1>3. StopsInLoop /\ Process
        => /\ L => Down'
           /\ D => L' \/ Down'
           /\ K => S' \/ Down'
           /\ S => L' \/ Down'
           /\ C => L' \/ Down'
           /\ M => W' \/ Down'
           /\ W => Down'
  BY StoppingProcess DEF LastSteps, Running
<1>4. AlwaysAWayOut /\ (L \/ D \/ K \/ S \/ C \/ M \/ W) => ENABLED <<Process>>_vars
  BY DEF AlwaysAWayOut, Running
<1> HIDE DEF L, D, K, S, C, M, W, Down
<1>5. FairSpec /\ []AlwaysAWayOut => (L ~> Down) /\ (W ~> Down)
  BY <1>2, <1>3, <1>4, StopsInLoopInvariant, PTL DEF FairSpec, Fairness, Spec
<1>6. FairSpec /\ []AlwaysAWayOut
        => (D ~> (L \/ Down)) /\ (S ~> (L \/ Down)) /\ (C ~> (L \/ Down))
  BY <1>2, <1>3, <1>4, StopsInLoopInvariant, PTL DEF FairSpec, Fairness, Spec
<1>7. FairSpec /\ []AlwaysAWayOut => (K ~> (S \/ Down)) /\ (M ~> (W \/ Down))
  BY <1>2, <1>3, <1>4, StopsInLoopInvariant, PTL DEF FairSpec, Fairness, Spec
<1>8. FairSpec /\ []AlwaysAWayOut => (ctxDone ~> Down)
  BY <1>1, <1>5, <1>6, <1>7, StopsInLoopInvariant, PTL DEF FairSpec
<1> QED
  BY <1>8 DEF StopsWhenTold, Down
=============================================================================
