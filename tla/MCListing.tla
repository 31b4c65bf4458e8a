----------------------------- MODULE MCListing -----------------------------
(* Small instances of Listing for TLC. *)
EXTENDS Listing, TLC

CONSTANTS x, y, z

At(parent, name) == [parent |-> parent, name |-> name]

\* Three documents at the root, which take all the names: until one of them is
\* deleted, nothing can be created, renamed or moved.
SeedFull == x :> At(Root, 1) @@ y :> At(Root, 2) @@ z :> At(Root, 3)
=============================================================================
