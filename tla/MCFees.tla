------------------------------- MODULE MCFees -------------------------------
(* Fees with small amounts, for model checking. *)
EXTENDS Fees

\* One limit of each kind: per message, per unit, and none at all.
SomeLimits == { [base |-> 9, perUnit |-> 0], [base |-> 4, perUnit |-> 3],
                [base |-> 0, perUnit |-> 0] }
TheFallback == [base |-> 5, perUnit |-> 2]
=============================================================================
