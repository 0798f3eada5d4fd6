------------------------------ MODULE AutoMode ------------------------------
(***************************************************************************)
(* The miner that sets itself up: mineCmd in auto mode.                    *)
(*                                                                         *)
(* With no keys in its environment the process loads an operator key and a *)
(* VRF key from a volume, or generates them and saves them there; waits    *)
(* until licenses are delegated to the operator key; has the VRF key       *)
(* registered on chain; and mines.  It may be killed or told to stop at    *)
(* any point and is started again by the platform, with nothing but the    *)
(* file, and what the chain remembers, to go on from.                      *)
(*                                                                         *)
(* An operator key and the VRF key generated with it are one element of    *)
(* Keys.  The chain is external: it applies a set-key transaction exactly  *)
(* when its nonce is the number of keys the owner has set so far, which is *)
(* how the code uses the nonce that the chain reports.                     *)
(***************************************************************************)
EXTENDS Naturals, Sequences

CONSTANTS
  Keys,          \* the key pairs that may be generated
  NoKey,         \* no key pair
  MaxStops,      \* bound on kills and on requests to stop
  MaxOutside,    \* bound on keys the operator sets by hand
  MaxAbandoned   \* bound on calls given up while their transaction is pending

ASSUME NoKeyAssumption == NoKey \notin Keys \cup {"absent", "torn"}
ASSUME FileStatesAssumption == {"absent", "torn"} \cap Keys = {}
ASSUME BoundsAssumption ==
  MaxStops \in Nat /\ MaxOutside \in Nat /\ MaxAbandoned \in Nat

VARIABLES
  \* the volume
  keysFile,    \* "absent", "torn" (not parseable) or the keys it holds
  \* the process
  continuous,  \* the flag of that name
  pc,          \* where the process is
  key,         \* the keys the process works with
  ctxDone,     \* its context has been cancelled by a signal
  nonce,       \* the nonce given to SetOwnerVRFKey
  applied,     \* the transaction SetOwnerVRFKey waits for has been applied
  \* the chain
  ownerLog,    \* the VRF keys each owner has set: "own" or "other"
  pending,     \* set-key transactions in the mempool, by sequence number
  delegated,   \* operator keys that have licenses
  \* history and bounds
  told,        \* operator keys that were announced to the user
  stops, outside, abandoned

procVars == <<pc, key, ctxDone, nonce, applied>>
chainVars == <<ownerLog, pending, delegated>>
countVars == <<stops, outside, abandoned>>
vars == <<keysFile, continuous, procVars, chainVars, told, countVars>>

Init ==
  /\ keysFile = "absent"
  /\ continuous \in BOOLEAN
  /\ pc = "down"
  /\ key = NoKey
  /\ ctxDone = FALSE
  /\ nonce = 0
  /\ applied = FALSE
  /\ ownerLog = [k \in Keys |-> <<>>]
  /\ pending = <<>>
  /\ delegated = {}
  /\ told = {}
  /\ stops = 0
  /\ outside = 0
  /\ abandoned = 0

\* A transaction outlives the call that waits for it.
Disown(txs) == [i \in DOMAIN txs |-> [txs[i] EXCEPT !.mine = FALSE]]

\* The process goes on and nothing else changes.
Move(from, to) ==
  /\ pc = from
  /\ pc' = to
  /\ UNCHANGED <<keysFile, continuous, key, ctxDone, nonce, applied,
                 chainVars, told, countVars>>

\* The process ends and all it knew is gone.
Exit ==
  /\ pc' = "down"
  /\ key' = NoKey
  /\ ctxDone' = FALSE
  /\ nonce' = 0
  /\ applied' = FALSE
  /\ pending' = Disown(pending)
  /\ UNCHANGED <<keysFile, continuous, ownerLog, delegated, told, outside,
                 abandoned>>

-----------------------------------------------------------------------------
(* Keys: LoadKeys and SaveKeys *)

Boot == Move("down", "load")

\* Mutant: the file is used without being validated.
LoadFinds_Unchecked ==
  /\ pc = "load"
  /\ keysFile # "absent"
  /\ key' = keysFile
  /\ pc' = "connect"
  /\ UNCHANGED <<keysFile, continuous, ctxDone, nonce, applied, chainVars,
                 told, countVars>>

LoadFinds ==
  /\ pc = "load"
  /\ keysFile \in Keys
  /\ key' = keysFile
  /\ pc' = "connect"
  /\ UNCHANGED <<keysFile, continuous, ctxDone, nonce, applied, chainVars,
                 told, countVars>>

\* The file cannot be read, or does not parse, or is not valid.
LoadFails ==
  /\ pc = "load"
  /\ keysFile # "absent"
  /\ Exit
  /\ UNCHANGED stops

\* Generated keys are new.
LoadMissing ==
  /\ pc = "load"
  /\ keysFile = "absent"
  /\ key' \in Keys \ told
  /\ pc' = "save"
  /\ UNCHANGED <<keysFile, continuous, ctxDone, nonce, applied, chainVars,
                 told, countVars>>

\* os.WriteFile truncates the file before it writes to it.
SaveBegins ==
  /\ pc = "save"
  /\ keysFile' = "torn"
  /\ pc' = "saving"
  /\ UNCHANGED <<continuous, key, ctxDone, nonce, applied, chainVars, told,
                 countVars>>

\* Mutant: a failed save is only logged.
SaveFails_Ignored == Move("save", "connect") \/ Move("saving", "connect")

SaveFails ==
  /\ pc \in {"save", "saving"}
  /\ Exit
  /\ UNCHANGED stops

SaveEnds ==
  /\ pc = "saving"
  /\ keysFile' = key
  /\ told' = told \cup {key}
  /\ pc' = "connect"
  /\ UNCHANGED <<continuous, key, ctxDone, nonce, applied, chainVars,
                 countVars>>

-----------------------------------------------------------------------------
(* The loop that waits for delegations *)

Connected ==
  /\ pc = "connect"
  /\ told' = told \cup {key}
  /\ pc' = "loop"
  /\ UNCHANGED <<keysFile, continuous, key, ctxDone, nonce, applied,
                 chainVars, countVars>>

ConnectFails ==
  /\ pc = "connect"
  /\ Exit
  /\ UNCHANGED stops

LoopStops ==
  /\ pc = "loop"
  /\ ctxDone
  /\ Exit
  /\ UNCHANGED stops

\* Mutant: the loop does not look at the context.
LoopGoesOn_Always == Move("loop", "delegations")

LoopGoesOn == ~ctxDone /\ Move("loop", "delegations")

\* The query fails, or its node knows of no delegation, or there is none.
NoLicenses == Move("delegations", "loop")

LicensesFound ==
  /\ ~ctxDone
  /\ key \in delegated
  /\ Move("delegations", "keyInfo")

-----------------------------------------------------------------------------
(* Registration.  GetOwnerKeyInfo answers with the state of a node that may *)
(* lag: the first n of the keys the owner has set.  The flag vrfRegistered  *)
(* is the control state.  Two ways back to the loop do not exist for keys   *)
(* the generator has made, and a file of this program holds no others: a    *)
(* VRF key that is not one (main.go:404-409), and a NewMinerManager that    *)
(* fails (main.go:443-448), which it does for such a key only               *)
(* (manager.go:29-38, chain.go:140-142).                                    *)

KeyMatches(n) ==
  /\ ~ctxDone
  /\ Move("keyInfo", "manager")
  /\ n \in DOMAIN ownerLog[key]
  /\ ownerLog[key][n] = "own"

\* Mutant: any key on chain is rotated, the own one included.
KeyDiffers_AnyKey(n) ==
  /\ pc = "keyInfo"
  /\ ~ctxDone
  /\ n \in DOMAIN ownerLog[key]
  /\ nonce' = n
  /\ pc' = "setKey"
  /\ UNCHANGED <<keysFile, continuous, key, ctxDone, applied, chainVars,
                 told, countVars>>

\* Mutant: the key is rotated with the nonce of a first registration.
KeyDiffers_NonceZero(n) ==
  /\ pc = "keyInfo"
  /\ ~ctxDone
  /\ n \in DOMAIN ownerLog[key]
  /\ ownerLog[key][n] = "other"
  /\ nonce' = 0
  /\ pc' = "setKey"
  /\ UNCHANGED <<keysFile, continuous, key, ctxDone, applied, chainVars,
                 told, countVars>>

KeyDiffers(n) ==
  /\ pc = "keyInfo"
  /\ ~ctxDone
  /\ n \in DOMAIN ownerLog[key]
  /\ ownerLog[key][n] = "other"
  /\ nonce' = n
  /\ pc' = "setKey"
  /\ UNCHANGED <<keysFile, continuous, key, ctxDone, applied, chainVars,
                 told, countVars>>

\* The node knows no key, or the query failed: the error is not looked at.
KeyUnknown ==
  /\ pc = "keyInfo"
  /\ nonce' = 0
  /\ pc' = "setKey"
  /\ UNCHANGED <<keysFile, continuous, key, ctxDone, applied, chainVars,
                 told, countVars>>

\* SetOwnerVRFKey: the transaction is admitted.
BroadcastSetKey ==
  /\ pc = "setKey"
  /\ ~ctxDone
  /\ pending' = Append(pending, [owner |-> key, vrf |-> "own",
                                 nonce |-> nonce, mine |-> TRUE])
  /\ applied' = FALSE
  /\ pc' = "confirming"
  /\ UNCHANGED <<keysFile, continuous, key, ctxDone, nonce, ownerLog,
                 delegated, told, countVars>>

\* Mutant: an admitted transaction counts as a registered key.
SetKeyConfirmed_Admitted == ~ctxDone /\ Move("confirming", "manager")

SetKeyConfirmed == ~ctxDone /\ applied /\ Move("confirming", "manager")

Awaited == \E i \in DOMAIN pending : pending[i].mine

\* Mutant: the wait for the transaction does not watch the context.
SetKeyFails_WaitsOn ==
  /\ pc \in {"setKey", "confirming"}
  /\ IF Awaited
       THEN abandoned < MaxAbandoned /\ abandoned' = abandoned + 1
       ELSE UNCHANGED abandoned
  /\ pending' = Disown(pending)
  /\ nonce' = 0
  /\ applied' = FALSE
  /\ pc' = "loop"
  /\ UNCHANGED <<keysFile, continuous, key, ctxDone, ownerLog, delegated,
                 told, stops, outside>>

\* SetOwnerVRFKey returns an error: a query or the broadcast failed, the
\* transaction was refused or is not confirmed in time, or the context is
\* done.  The transaction may be pending or applied all the same.
SetKeyFails ==
  /\ pc \in {"setKey", "confirming"}
  /\ IF Awaited /\ ~ctxDone
       THEN abandoned < MaxAbandoned /\ abandoned' = abandoned + 1
       ELSE UNCHANGED abandoned
  /\ pending' = Disown(pending)
  /\ nonce' = 0
  /\ applied' = FALSE
  /\ pc' = "loop"
  /\ UNCHANGED <<keysFile, continuous, key, ctxDone, ownerLog, delegated,
                 told, stops, outside>>

-----------------------------------------------------------------------------
(* Mining *)

MiningStarts == Move("manager", "mining")

\* Continuous mining ends with the context, a single epoch by itself.
MiningEnds ==
  /\ pc = "mining"
  /\ continuous => ctxDone
  /\ Exit
  /\ UNCHANGED stops

-----------------------------------------------------------------------------
(* Around the process *)

\* A signal once the handler is installed; before that it kills.
Cancel ==
  /\ stops < MaxStops
  /\ pc \notin {"down", "load", "save", "saving", "connect"}
  /\ ~ctxDone
  /\ ctxDone' = TRUE
  /\ stops' = stops + 1
  /\ UNCHANGED <<keysFile, continuous, pc, key, nonce, applied, chainVars,
                 told, outside, abandoned>>

Crash ==
  /\ stops < MaxStops
  /\ pc # "down"
  /\ stops' = stops + 1
  /\ Exit

\* The user delegates licenses to an address the miner has printed.
Delegate(k) ==
  /\ k \in told \ delegated
  /\ delegated' = delegated \cup {k}
  /\ UNCHANGED <<keysFile, continuous, procVars, ownerLog, pending, told,
                 countVars>>

\* The operator runs the command set-key with a VRF key of its own.  It reads
\* a node that knows the first n keys, and does nothing if the last of them is
\* the key to set.
OutsideSets(k, n) ==
  /\ outside < MaxOutside
  /\ k \in told
  /\ n \in 0 .. Len(ownerLog[k])
  /\ n > 0 => ownerLog[k][n] # "other"
  /\ pending' = Append(pending, [owner |-> k, vrf |-> "other",
                                 nonce |-> n, mine |-> FALSE])
  /\ outside' = outside + 1
  /\ UNCHANGED <<keysFile, continuous, procVars, ownerLog, delegated, told,
                 stops, abandoned>>

NonceIsNext(tx) == tx.nonce = Len(ownerLog[tx.owner])

Apply ==
  /\ pending # <<>>
  /\ LET tx == Head(pending)
     IN /\ NonceIsNext(tx)
        /\ ownerLog' = [ownerLog EXCEPT ![tx.owner] = Append(@, tx.vrf)]
        /\ applied' = (applied \/ tx.mine)
  /\ pending' = Tail(pending)
  /\ UNCHANGED <<keysFile, continuous, pc, key, ctxDone, nonce, delegated,
                 told, countVars>>

\* A transaction is refused for its nonce or for another reason (its proof of
\* possession is of an epoch that has passed), or the mempool loses it.
Drop ==
  /\ pending # <<>>
  /\ pending' = Tail(pending)
  /\ UNCHANGED <<keysFile, continuous, procVars, ownerLog, delegated, told,
                 countVars>>

-----------------------------------------------------------------------------
KeyInfo(n) == KeyMatches(n) \/ KeyDiffers(n)
LoggedKeys == UNION {DOMAIN ownerLog[k] : k \in Keys}

Process ==
  \/ LoadFinds \/ LoadFails \/ LoadMissing
  \/ SaveBegins \/ SaveFails \/ SaveEnds
  \/ Connected \/ ConnectFails
  \/ LoopStops \/ LoopGoesOn \/ NoLicenses \/ LicensesFound
  \/ \E n \in LoggedKeys : KeyInfo(n)
  \/ KeyUnknown
  \/ BroadcastSetKey \/ SetKeyConfirmed \/ SetKeyFails
  \/ MiningStarts \/ MiningEnds

Next ==
  \/ Process
  \/ Boot \/ Cancel \/ Crash
  \/ \E k \in Keys : Delegate(k)
  \/ \E k \in Keys : \E n \in 0 .. Len(ownerLog[k]) : OutsideSets(k, n)
  \/ Apply \/ Drop

Spec == Init /\ [][Next]_vars

\* The node that was asked is up to date.
KeyInfoIsCurrent ==
  LET n == Len(ownerLog[key]) IN IF n = 0 THEN KeyUnknown ELSE KeyInfo(n)

\* The platform starts the process and the process goes on.  What may fail does
\* not fail for ever: a step that is possible again and again is taken.
Fairness ==
  /\ WF_vars(Boot) /\ WF_vars(Process) /\ WF_vars(Apply \/ Drop)
  /\ SF_vars(LoadFinds) /\ SF_vars(Connected) /\ SF_vars(LicensesFound)
  /\ SF_vars(key \in Keys /\ KeyInfoIsCurrent)
  /\ SF_vars(BroadcastSetKey /\ nonce = Len(ownerLog[key]))
  /\ SF_vars(Apply)

FairSpec == Spec /\ Fairness

-----------------------------------------------------------------------------
(* Properties *)

Transactions ==
  [owner : Keys, vrf : {"own", "other"}, nonce : Nat, mine : BOOLEAN]

\* Types; the process has keys from the moment it generated or loaded them.
AutoTypeOK ==
  /\ keysFile \in Keys \cup {"absent", "torn"}
  /\ continuous \in BOOLEAN
  /\ pc \in {"down", "load", "save", "saving", "connect", "loop",
             "delegations", "keyInfo", "setKey", "confirming", "manager",
             "mining"}
  /\ key \in Keys \cup {NoKey}
  /\ key \in Keys <=> pc \notin {"down", "load"}
  /\ ctxDone \in BOOLEAN /\ applied \in BOOLEAN
  /\ nonce \in Nat
  /\ ownerLog \in [Keys -> Seq({"own", "other"})]
  /\ pending \in Seq(Transactions)
  /\ delegated \subseteq told /\ told \subseteq Keys
  /\ stops \in 0 .. MaxStops
  /\ outside \in 0 .. MaxOutside
  /\ abandoned \in 0 .. MaxAbandoned

\* An operator key the user has been told, and may have delegated licenses to,
\* is the one in the file: no kill, failed save or restart makes the miner
\* forget it or announce another one (docs/FLY_DEPLOYMENT.md: keys persist
\* across container restarts and redeploys).
KeysPersist == \A k \in told : keysFile = k

\* Nobody mines with a VRF key that was never registered: a failed key query,
\* a lagging node and a registration whose outcome is not known all lead back
\* to the loop (main.go:402-439).
MinesRegistered ==
  pc \in {"manager", "mining"} =>
    \E n \in DOMAIN ownerLog[key] : ownerLog[key][n] = "own"

\* The miner's key never replaces itself: however often registrations time
\* out, are sent again after a restart, or are prepared from a failed or stale
\* key query, each registration of the own key is the first one or answers a
\* key set by someone else.
NeverReplacesItself ==
  \A k \in Keys : \A n \in DOMAIN ownerLog[k] :
    n > 1 /\ ownerLog[k][n] = "own" => ownerLog[k][n - 1] = "other"

\* Nothing a process waits for keeps it from stopping: wherever a signal finds
\* it, and whatever the chain does, it has a step of its own to take; the wait
\* for a registration and the one for delegations watch the context too
\* (main.go:379-384 and 450-452, chain.go:252-256).
AlwaysAWayOut == ctxDone => ENABLED <<Process>>_vars

\* A miner that is told to stop ends, wherever it is in the loop.
StopsWhenTold == ctxDone ~> pc = "down"

\* Once the keys are saved and licenses delegated to them, the miner gets to
\* mining, whatever restarts, lost registrations and foreign keys come between.
MiningBegins ==
  (\E k \in delegated : keysFile = k) ~> (pc = "mining")
=============================================================================
