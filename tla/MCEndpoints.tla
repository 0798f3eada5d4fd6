---------------------------- MODULE MCEndpoints ----------------------------
(* Endpoints in their configured order, for model checking. *)
EXTENDS Endpoints

CONSTANTS e1, e2, e3, processor, monitor, owned, delegated

Two == <<e1, e2>>
Three == <<e1, e2, e3>>

\* The first endpoint fails now and then, the second does not.
FirstFlaky == {[flaky |-> {e1}, undialable |-> {}]}

\* Behind the first, which fails now and then, one that must be skipped and one
\* that is healthy; the same without a healthy one; none that can be dialed.
Mixed ==
  { [flaky |-> {e1}, undialable |-> {e2}],
    [flaky |-> {e1, e3}, undialable |-> {e2}],
    [flaky |-> {e1}, undialable |-> {e2, e3}] }
=============================================================================
