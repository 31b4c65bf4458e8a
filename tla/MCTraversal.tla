---------------------------- MODULE MCTraversal ----------------------------
(* Small instances of Traversal for TLC. *)
EXTENDS Traversal, TLC

CONSTANTS x, y, z, f, g

At(parent, name) == [parent |-> parent, name |-> name]

\* A folder in a folder, with a document in the one and two in the other.
SeedNested == f :> At(Root, 1) @@ g :> At(f, 1) @@ x :> At(f, 2) @@ y :> At(g, 1) @@ z :> At(g, 2)

\* The patterns "*", "2/1", "1/*" and "1/1/*" over the names 1 and 2; the last
\* one looks at more than four entries.
SomePatterns == {<<{1, 2}>>, <<{2}, {1}>>, <<{1}, {1, 2}>>, <<{1}, {1}, {1, 2}>>}
=============================================================================
