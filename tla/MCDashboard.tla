----------------------------- MODULE MCDashboard -----------------------------
(* A TLC instance of Dashboard: more people than one fetch brings, or fewer. *)
EXTENDS Dashboard, TLC

CONSTANTS all, authed

Person(i, k) == [id |-> i, key |-> k]

Keys == <<5, NoKey, 7, 5, 1, 8, 2, 8, 3, 4>>
SomeRows == (all :> [i \in 1..10 |-> Person(i, Keys[i])])
            @@ (authed :> <<Person(3, 7), Person(5, 1)>>)
SomeCohorts == (all :> 3) @@ (authed :> 1)
SomeMatching == ("" :> 1..10) @@ ("q" :> {1, 2, 4})
===============================================================================
