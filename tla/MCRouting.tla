------------------------------ MODULE MCRouting ------------------------------
(* The constants of Routing that are functions or sequences, for TLC.        *)
EXTENDS Routing
CONSTANTS anthropic, own, a1, c1, c2, l1
MCBuiltin == <<a1>>
MCLists == (anthropic :> {<<a1>>}) @@ (own :> {<<c1>>, <<c1, c2>>})
MCLocals == <<l1>>
MCRank == (a1 :> 2) @@ (c1 :> 1) @@ (c2 :> 3)
MCCustomLists == {<<l1, a1>>}
=============================================================================
