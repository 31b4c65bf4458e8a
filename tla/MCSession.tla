------------------------------ MODULE MCSession ------------------------------
(* Small instances of Session for TLC. *)
EXTENDS Session, TLC

CONSTANTS c1, c2, c3, own, other, i1, i2, k1, k2

\* Two callers share a Client; a third one has its own, with another identifier.
TwoClients == c1 :> own @@ c2 :> own @@ c3 :> other
TwoIdentities ==
    own :> [id |-> i1, key |-> k1] @@ other :> [id |-> i2, key |-> k2]
OneRegistered == i1 :> k1 @@ i2 :> None

Cookie(name, value) == [name |-> name, value |-> value]

FourCalls == c1 :> 2 @@ c2 :> 1 @@ c3 :> 1

\* The first client is paired again, or the second for the first time.
SomePairing == {<<i1, k2>>, <<i2, k2>>}

\* The cookie twice beside another one; two values.
Forms == {
    <<Cookie("credentials", 1), Cookie("language", 2), Cookie("credentials", 1)>>,
    <<Cookie("credentials", -1), Cookie("credentials", 1)>> }
=============================================================================
