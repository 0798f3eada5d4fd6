----------------------------- MODULE MCLicenses -----------------------------
(* Licenses with small sets, for model checking. *)
EXTENDS Licenses, TLC

CONSTANTS e1, e2

Ids == 1 .. 3

\* Two endpoints that agree, and two of which one is behind.
Agreed == [view |-> (e1 :> {1, 2, 3} @@ e2 :> {1, 2, 3}),
           holding |-> (e1 :> <<1, 2>> @@ e2 :> <<1, 2>>)]
Behind == [view |-> (e1 :> {1, 3} @@ e2 :> {2, 3}),
           holding |-> (e1 :> <<3, 1>> @@ e2 :> <<3>>)]
None == [view |-> (e1 :> {} @@ e2 :> {}),
         holding |-> (e1 :> <<>> @@ e2 :> <<>>)]
SomeWorlds == {Agreed, Behind, None}

Moves == {<<2>>, <<2, 1>>}
=============================================================================
