---------------------------- MODULE MCSafeWrites ----------------------------
(* Small instances of SafeWrites for TLC. *)
EXTENDS SafeWrites, TLC

CONSTANTS c1, c2, alpha, beta, gamma, Alpha

\* One folder and one document beside it.
SeedOneFolder == 1 :> Folder(Root, alpha, <<alpha>>)
SeedOneDocument == 2 :> Document(Root, gamma, <<gamma>>, 1, 1, None)

\* Alpha and alpha are the same name but for the case.
FoldCase == (alpha :> alpha @@ beta :> beta @@ gamma :> gamma @@ Alpha :> alpha)

TreePaths == {<<alpha>>, <<gamma>>, <<alpha, Alpha>>}
OnlyRoot == {Root}

AllOperations ==
    {"resolve", "createFolder", "put", "copy", "replace", "updateFolder", "updateDocument", "delete", "deleteEmpty"}
PutOnly == {"put"}

ClientSymmetry == Permutations(Clients)
=============================================================================
