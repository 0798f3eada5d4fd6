--------------------------- MODULE SubmitContract ---------------------------
(***************************************************************************)
(* What BatchSubmitWork promises its callers: each call is answered once,  *)
(* with a verdict, and a batch is reported confirmed only if the chain has *)
(* credited every license in it.  Nothing is promised about the other      *)
(* verdicts: a batch reported as failed may have been credited.            *)
(***************************************************************************)
EXTENDS Naturals, Sequences

CONSTANTS
  Clients,   \* the processes that submit work with the operator's key
  Licenses,  \* the licenses delegated to the operator
  Batches    \* for each client the batches it submits, in order

Verdicts == {"confirmed", "unconfirmed", "mismatch", "duplicate", "refused", "failed"}

VARIABLES
  credited,  \* the licenses the chain has credited in this epoch
  reports    \* for each client the verdicts of its calls so far

Init ==
  /\ credited = {}
  /\ reports = [c \in Clients |-> <<>>]

\* The chain credits a batch as a whole, and no license twice.
Credit(batch) ==
  /\ batch \intersect credited = {}
  /\ credited' = credited \union batch
  /\ UNCHANGED reports

Report(c, verdict) ==
  LET call == Len(reports[c]) + 1
  IN  /\ call <= Len(Batches[c])
      /\ verdict = "confirmed" => Batches[c][call] \subseteq credited
      /\ reports' = [reports EXCEPT ![c] = Append(@, verdict)]
      /\ UNCHANGED credited

Next ==
  \/ \E c \in Clients : \E i \in 1 .. Len(Batches[c]) : Credit(Batches[c][i])
  \/ \E c \in Clients, verdict \in Verdicts : Report(c, verdict)

Spec == Init /\ [][Next]_<<credited, reports>>
=============================================================================
