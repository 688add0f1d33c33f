---------------------------- MODULE MCRouteStore ----------------------------
EXTENDS RouteStore

CONSTANTS e1, e2, h1, h2, a, b, w1, w2

Own == [owner |-> e2, host |-> b]
Through(n, h, k) == [next |-> n, host |-> h, key |-> k]

\* e2 is a direct target with a key of its own; e1 jumps to the same node.
Shared == [rev |-> 1,
           nodes |-> (1 :> Through(2, a, None)) @@ (2 :> Through(None, b, Own)),
           entries |-> (e1 :> [start |-> 1, key |-> None]) @@ (e2 :> [start |-> 2, key |-> Own])]
\* One profile and one connection of the past, through the same target: there is
\* room for a new profile, and for an import.
Single == [rev |-> 1,
           nodes |-> (1 :> Through(2, a, None)) @@ (2 :> Through(None, b, None)),
           entries |-> (e1 :> [start |-> 1, key |-> None]) @@ (h1 :> [start |-> 2, key |-> None])]
EditsOf == (w1 :> 2) @@ (w2 :> 0)
Catalogues == {Shared, Single}
\* A file with a profile whose key stayed behind, and with its own history.
Files == {[rev |-> 4, nodes |-> 7 :> Through(None, b, Unset),
           entries |-> (e1 :> [start |-> 7, key |-> None]) @@ (h1 :> [start |-> 7, key |-> None])]}
Connections == {<<[host |-> b, key |-> Unset]>>, <<[host |-> a, key |-> None], [host |-> b, key |-> None]>>}
\* Saved from the connection form: the profile for b, or a new one, with a new key.
Forms == {[host |-> b, key |-> [owner |-> None, host |-> b]]}
=============================================================================
