----------------------------- MODULE MCCommands -----------------------------
(* Small instances of Commands for TLC. *)
EXTENDS Commands, TLC

CONSTANTS c1, c2, alpha, beta, gamma, paper

\* A folder with a document in it, and a document beside it.
SeedFolder == 1 :> Folder(Root, alpha, <<alpha>>)
SeedPair == 2 :> Document(Root, gamma, <<gamma>>, 1, 1, None)
            @@ 3 :> Document(1, beta, <<alpha, beta>>, 1, 1, None)
NoFolding == [n \in {alpha, beta, gamma} |-> n]

\* The digests of the two documents begin alike, and so do those of the next two.
Digits3 == << <<1, 0, 0>>, <<0, 1, 0>>, <<0, 1, 1>>, <<0, 0, 0>>, <<1, 0, 1>>, <<1, 1, 1>> >>

Line(op, path, dest) == [op |-> op, by |-> "path", path |-> path, dest |-> dest, local |-> None]
ByReference(op, dest) == [op |-> op, by |-> "reference", path |-> << >>, dest |-> dest, local |-> None]
Into(line, file) == [line EXCEPT !.local = file]

SomeLines == {
    Line("ls", << >>, << >>), Line("ls", <<gamma>>, << >>),
    ByReference("rm", << >>),
    Line("rmdir", <<alpha>>, << >>),
    Line("mkdir", << >>, <<gamma, beta>>),
    Line("mv", <<gamma>>, <<alpha>>), Line("cp", <<gamma>>, <<beta>>),
    Into(Line("put", << >>, << >>), beta),
    Into(Line("get", <<gamma>>, << >>), paper),
    Line("open", <<gamma>>, << >>) }

OneEach == c1 :> 1 @@ c2 :> 2
AllOperations ==
    {"resolve", "get", "list", "download", "open", "createFolder", "put", "copy", "updateDocument", "delete", "deleteEmpty"}
=============================================================================
