----------------------------- MODULE MCTaskLinks -----------------------------
(* Instance of TaskLinks for model checking.                               *)
EXTENDS TaskLinks, TLC

CONSTANTS a, b, c1, c2, x, y, r1, r2

\* Two conversations of one session and, after the first commit, one of another
\* session that writes the same line again.
MCConvs == {1, 2, 4}
MCSessionOf == (1 :> a) @@ (2 :> a) @@ (4 :> b)
MCPrints == (1 :> {x}) @@ (2 :> {y}) @@ (4 :> {x})
MCTime == (c1 :> 3) @@ (c2 :> 5)
MCDiff == (c1 :> {x, y}) @@ (c2 :> {x})

Interchangeable == Permutations(Importers)
=============================================================================
