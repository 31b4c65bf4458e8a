-------------------------- MODULE MCReferenceStore --------------------------
(* Small instances of ReferenceStore for TLC. *)
EXTENDS ReferenceStore, TLC

CONSTANTS t1, t2, s1, s2, d1, d2, d3, bad

\* Two processes with one thread each.
OnePerStore == t1 :> s1 @@ t2 :> s2

Doc(d) == [id |-> d, type |-> "document"]
Dir(d) == [id |-> d, type |-> "folder"]

\* A batch that fails half-way, one that is longer than the numbers that are left, and an object whose type changes.
Mixed == {<<Doc(d2)>>, <<Dir(d1), Doc(d2)>>, <<Doc(d1), Doc(bad)>>, <<Doc(d1), Doc(d3), Doc(d2)>>}
Objects == {<<Doc(d1)>>, <<Doc(d2)>>, <<Doc(d3)>>}
=============================================================================
