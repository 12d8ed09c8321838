---------------------------- MODULE MCPolicyDrawer ----------------------------
(***************************************************************************)
(* Values of the constants of PolicyDrawer for TLC.                        *)
(***************************************************************************)
EXTENDS PolicyDrawer, TLC

CONSTANTS n1, n2, n3

ThreeNodes == {n1, n2, n3}

TwoDrawers == {n1, n2}

\* Through the third node to the other drawer's node, and to its own: that
\* only when it is picked in one drawer and used in another.
SomePaths == {<<n3>>, <<n3, n1>>, <<n3, n2>>}

SomeVias == {Local, None}

SomeActs == [load |-> 2, submit |-> 1, path |-> 1, rule |-> 1]

DrawersSymmetric == Permutations(TwoDrawers)
=============================================================================
