------------------------------- MODULE Device -------------------------------
(***************************************************************************)
(* The device as its clients see it: the store of the simulator            *)
(* (dptest/state.go) behind the HTTP handlers that change or read it       *)
(* (dptest/emulator.go).  The simulator is the only server in the          *)
(* repository, and every integration test of the library runs against it.  *)
(*                                                                         *)
(* A request is handled under the store's mutex, so a handler is one       *)
(* action; the listing takes two critical sections and is two actions.     *)
(* Paths are sequences of names below "Document", which is the root.       *)
(* Stray channels carry requests whose sender has stopped waiting: they    *)
(* may still be handled, but nobody hears the answer.                      *)
(***************************************************************************)
EXTENDS Integers, FiniteSets, Sequences, SequencesExt, Functions

CONSTANTS
    Clients,    \* callers of the library, each with one request at a time
    Strays,     \* slots for requests that outlive their sender's patience
    Names,      \* entry names
    Fold,       \* a name without its case: resolution ignores case
    Contents,   \* PDF bodies; all have the same length, so only the
                \* revision tells them apart
    Blank,      \* the body of a document that was created but not uploaded
    None,       \* "no value"
    SeedFolders, SeedDocuments  \* what the device holds at the start

Root == 0
Channels == Clients \cup Strays
Size(content) == IF content = Blank THEN 0 ELSE 1

VARIABLES
    nextID,     \* next entry number: doc-%06d and folder-%06d share it
    folders,    \* folder id -> metadata
    documents,  \* document id -> metadata
    contents,   \* document id -> body
    request,    \* the request travelling on each channel
    reply,      \* the answer waiting for each client
    versions,   \* history: every <<id, revision, body>> the device ever held
    destroyed   \* history: <<body the caller had seen, body it destroyed>>

store == <<nextID, folders, documents, contents>>
history == <<versions, destroyed>>
deviceVars == <<store, request, reply, history>>

Folder(parent, name, path) == [parent |-> parent, name |-> name, path |-> path]

\* "maker" is history: the call that created the entry.
Document(parent, name, path, size, revision, maker) ==
    [parent |-> parent, name |-> name, path |-> path,
     size |-> size, revision |-> revision, maker |-> maker]

Ids == DOMAIN folders \cup DOMAIN documents

AllNames == DOMAIN Fold
Bodies == Contents \cup {Blank}
Makers == {None} \cup (Clients \X Nat)
FolderMeta == [parent : Nat, name : AllNames, path : Seq(AllNames)]
DocumentMeta == [parent : Nat, name : AllNames, path : Seq(AllNames),
                 size : {0, 1}, revision : Nat, maker : Makers]

Item == [id : Nat, type : {"document", "folder"}]
Request ==
    [op : {"createFolder"}, parent : Nat, name : AllNames]
    \cup [op : {"createDocument"}, parent : Nat, name : AllNames, tag : Makers]
    \cup [op : {"copy"}, id : Nat, parent : Nat, name : AllNames \cup {None}, tag : Makers]
    \cup [op : {"upload"}, id : Nat, body : Contents, target : Nat \cup {None}, seen : Bodies \cup {None}]
    \cup [op : {"updateDocument", "updateFolder"}, id : Nat, parent : Nat \cup {None},
          name : AllNames \cup {None}]
    \cup [op : {"deleteDocument"}, id : Nat, target : Nat \cup {None}, seen : Bodies]
    \cup [op : {"deleteFolder"}, id : Nat, force : {"true", "false", "absent"}]
    \cup [op : {"getDocument", "getFolder", "download", "open", "list"}, id : Nat]
    \cup [op : {"listFolders"}, id : Nat, found : SUBSET Item]
    \cup [op : {"resolve"}, path : Seq(AllNames)]

Codes == {"40007", "40012", "40017", "40018", "40401", "none"}
DocumentReply == [status : {"ok"}, type : {"document"}, id : Nat, name : AllNames, parent : Nat,
                  size : {0, 1}, revision : Nat, body : Bodies]
FolderReply == [status : {"ok"}, type : {"folder"}, id : Nat, name : AllNames \cup {None},
                parent : Nat \cup {None}]
Reply ==
    [status : {"refused", "failed"}, code : Codes]
    \cup [status : {"ok"}] \cup [status : {"ok"}, id : Nat]
    \cup [status : {"ok"}, revision : Nat, size : {0, 1}]
    \cup [status : {"ok"}, body : Bodies] \cup [status : {"ok"}, found : SUBSET Item]
    \cup DocumentReply \cup FolderReply

\* The entries at the start: numbered without gaps, in a tree.
SeedIds == DOMAIN SeedFolders \cup DOMAIN SeedDocuments
SeedEntry(i) == IF i \in DOMAIN SeedFolders THEN SeedFolders[i] ELSE SeedDocuments[i]
SeedPath(f) == IF f = Root THEN << >> ELSE SeedFolders[f].path

SeedAssumption ==
    /\ Clients \cap Strays = {} /\ Names \subseteq AllNames /\ Contents # {}
    /\ Blank \notin Contents /\ None \notin Bodies \cup AllNames \cup Nat \cup Request \cup Reply
    /\ None \notin Clients \X Nat
    /\ SeedFolders \in [DOMAIN SeedFolders -> FolderMeta]
    /\ SeedDocuments \in [DOMAIN SeedDocuments -> DocumentMeta]
    /\ \A i \in DOMAIN SeedDocuments : SeedDocuments[i].size = 1 /\ SeedDocuments[i].maker = None
    /\ DOMAIN SeedFolders \cap DOMAIN SeedDocuments = {}
    /\ IsFiniteSet(SeedIds) /\ SeedIds = 1 .. Cardinality(SeedIds)
    /\ \A i \in SeedIds :
          /\ SeedEntry(i).parent \in DOMAIN SeedFolders \cup {Root}
          /\ SeedEntry(i).path = Append(SeedPath(SeedEntry(i).parent), SeedEntry(i).name)
    /\ \A i, j \in SeedIds : SeedEntry(i).path = SeedEntry(j).path => i = j
ASSUME SeedAssumption

-----------------------------------------------------------------------------
(* Lookups. *)

\* Numbers are handed out once and never again.
FreshID_ByCount == 1 + Cardinality(Ids)
FreshID == nextID

Parents == DOMAIN folders \cup {Root}
PathOf(id) == IF id = Root THEN << >> ELSE folders[id].path
PathTaken_DocumentsOnly(path, except) ==
    \E id \in DOMAIN documents \ {except} : documents[id].path = path
PathTaken(path, except) ==
    \/ \E id \in DOMAIN documents \ {except} : documents[id].path = path
    \/ \E id \in DOMAIN folders \ {except} : folders[id].path = path

FoldPath(path) == [i \in DOMAIN path |-> Fold[path[i]]]
Matching(entries, path) ==
    {id \in DOMAIN entries : FoldPath(entries[id].path) = FoldPath(path)}

Children(entries, id) == {e \in DOMAIN entries : entries[e].parent = id}
IsEmpty(id) == Children(folders, id) \cup Children(documents, id) = {}

-----------------------------------------------------------------------------
(* Answers. *)

Answer(k, r) ==
    /\ request' = [request EXCEPT ![k] = None]
    /\ reply' = [c \in Clients |-> IF c = k THEN r ELSE reply[c]]

Refusal(code) == [status |-> "refused", code |-> code]
Refuse(k, code) == Answer(k, Refusal(code)) /\ UNCHANGED <<store, history>>
Failure == [status |-> "failed", code |-> "none"]
Created(id) == [status |-> "ok", id |-> id]
Done == [status |-> "ok"]

\* "body" is history: what the document held when its metadata was read.
DocumentEntry(id) ==
    [status |-> "ok", type |-> "document", id |-> id, name |-> documents[id].name,
     parent |-> documents[id].parent, size |-> documents[id].size,
     revision |-> documents[id].revision, body |-> contents[id]]
FolderEntry(id) ==
    [status |-> "ok", type |-> "folder", id |-> id,
     name |-> IF id = Root THEN None ELSE folders[id].name,
     parent |-> IF id = Root THEN None ELSE folders[id].parent]

-----------------------------------------------------------------------------
(* Handlers that create. *)

createFolder(k) ==
    LET q == request[k]
        path == Append(PathOf(q.parent), q.name)
    IN  /\ q.op = "createFolder"
        /\ \/ q.parent \notin Parents /\ Refuse(k, "40012")
           \/ q.parent \in Parents /\ PathTaken(path, None) /\ Refuse(k, "40007")
           \/ /\ q.parent \in Parents /\ ~PathTaken(path, None)
              /\ folders' = [i \in DOMAIN folders \cup {FreshID} |->
                    IF i = FreshID THEN Folder(q.parent, q.name, path) ELSE folders[i]]
              /\ nextID' = nextID + 1
              /\ Answer(k, Created(FreshID))
              /\ UNCHANGED <<documents, contents, history>>

\* Enter a new document with the given metadata and body.
AddDocument_NoBody(document, body) ==
    /\ documents' = [i \in DOMAIN documents \cup {FreshID} |->
                        IF i = FreshID THEN document ELSE documents[i]]
    /\ versions' = versions \cup {<<FreshID, document.revision, body>>}
    /\ nextID' = nextID + 1
    /\ UNCHANGED <<folders, contents, destroyed>>
AddDocument(document, body) ==
    /\ documents' = [i \in DOMAIN documents \cup {FreshID} |->
                        IF i = FreshID THEN document ELSE documents[i]]
    /\ contents' = [i \in DOMAIN contents \cup {FreshID} |->
                        IF i = FreshID THEN body ELSE contents[i]]
    /\ versions' = versions \cup {<<FreshID, document.revision, body>>}
    /\ nextID' = nextID + 1
    /\ UNCHANGED <<folders, destroyed>>

createDocument(k) ==
    LET q == request[k]
        path == Append(PathOf(q.parent), q.name)
    IN  /\ q.op = "createDocument"
        /\ \/ q.parent \notin Parents /\ Refuse(k, "40012")
           \/ q.parent \in Parents /\ PathTaken(path, None) /\ Refuse(k, "40007")
           \/ /\ q.parent \in Parents /\ ~PathTaken(path, None)
              /\ AddDocument(Document(q.parent, q.name, path, 0, 0, q.tag), Blank)
              /\ Answer(k, Created(FreshID))

\* The copy keeps the size and the revision of its source.
copyDocument(k) ==
    LET q == request[k]
        source == documents[q.id]
        name == IF q.name = None THEN source.name ELSE q.name
        path == Append(PathOf(q.parent), name)
    IN  /\ q.op = "copy"
        /\ \/ q.id \notin DOMAIN documents /\ Refuse(k, "40401")
           \/ q.id \in DOMAIN documents /\ q.parent \notin Parents /\ Refuse(k, "40012")
           \/ /\ q.id \in DOMAIN documents /\ q.parent \in Parents
              /\ IF PathTaken(path, None)
                 THEN Refuse(k, "40007")
                 ELSE /\ AddDocument(Document(q.parent, name, path, source.size,
                                              source.revision, q.tag), contents[q.id])
                      /\ Answer(k, Created(FreshID))

-----------------------------------------------------------------------------
(* Handlers that change. *)

\* An empty target revision stands for "whatever is there now".
TargetCurrent_Ignored(q) == TRUE
TargetCurrent(q) == q.target \in {None, documents[q.id].revision}

NextRevision(id) == documents[id].revision + 1
Revised(d, body) == Document(d.parent, d.name, d.path, Size(body), d.revision + 1, d.maker)

uploadDocument(k) ==
    LET q == request[k]
        revision == NextRevision(q.id)
    IN  /\ q.op = "upload"
        /\ \/ q.id \notin DOMAIN documents /\ Refuse(k, "40401")
           \/ q.id \in DOMAIN documents /\ ~TargetCurrent(q) /\ Refuse(k, "40017")
           \/ /\ q.id \in DOMAIN documents /\ TargetCurrent(q)
              /\ documents' = [documents EXCEPT ![q.id] = Revised(@, q.body)]
              /\ contents' = [contents EXCEPT ![q.id] = q.body]
              /\ versions' = versions \cup {<<q.id, revision, q.body>>}
              /\ destroyed' = IF q.target = None THEN destroyed
                              ELSE destroyed \cup {<<q.seen, contents[q.id]>>}
              /\ Answer(k, [status |-> "ok", revision |-> revision, size |-> Size(q.body)])
              /\ UNCHANGED <<nextID, folders>>

\* The metadata an update asks for: absent fields stay as they are.
Updated(entry, q) ==
    LET parent == IF q.parent = None THEN entry.parent ELSE q.parent
        name == IF q.name = None THEN entry.name ELSE q.name
    IN  [entry EXCEPT !.parent = parent, !.name = name,
                      !.path = Append(PathOf(parent), name)]

updateDocument(k) ==
    LET q == request[k]
        new == Updated(documents[q.id], q)
    IN  /\ q.op = "updateDocument"
        /\ \/ q.id \notin DOMAIN documents /\ Refuse(k, "40401")
           \/ /\ q.id \in DOMAIN documents
              /\ q.parent \notin Parents \cup {None} /\ Refuse(k, "40012")
           \/ /\ q.id \in DOMAIN documents /\ q.parent \in Parents \cup {None}
              /\ IF new.path # documents[q.id].path /\ PathTaken(new.path, q.id)
                 THEN Refuse(k, "40007")
                 ELSE /\ documents' = [documents EXCEPT ![q.id] = new]
                      /\ Answer(k, Done)
                      /\ UNCHANGED <<nextID, folders, contents, history>>

\* Everything below the old path of a renamed folder moves with it.
Rebase_Nothing(entries, old, new) == entries
Rebase(entries, old, new) ==
    [i \in DOMAIN entries |->
        IF IsStrictPrefix(old, entries[i].path)
        THEN [entries[i] EXCEPT !.path = new \o SubSeq(@, Len(old) + 1, Len(@))]
        ELSE entries[i]]

updateFolder(k) ==
    LET q == request[k]
        old == folders[q.id].path
        new == Updated(folders[q.id], q)
    IN  /\ q.op = "updateFolder"
        /\ \/ q.id \notin DOMAIN folders /\ Refuse(k, "40401")
           \/ /\ q.id \in DOMAIN folders
              /\ q.parent \notin Parents \cup {None} /\ Refuse(k, "40012")
           \/ /\ q.id \in DOMAIN folders /\ q.parent \in Parents \cup {None}
              /\ IF new.path # old /\ PathTaken(new.path, q.id)
                 THEN Refuse(k, "40007")
                 ELSE /\ folders' = Rebase([folders EXCEPT ![q.id] = new], old, new.path)
                      /\ documents' = Rebase(documents, old, new.path)
                      /\ Answer(k, Done)
                      /\ UNCHANGED <<nextID, contents, history>>

-----------------------------------------------------------------------------
(* Handlers that delete. *)

deleteDocument(k) ==
    LET q == request[k] IN
    /\ q.op = "deleteDocument"
    /\ \/ q.id \notin DOMAIN documents /\ Refuse(k, "40401")
       \/ q.id \in DOMAIN documents /\ ~TargetCurrent(q) /\ Refuse(k, "40017")
       \/ /\ q.id \in DOMAIN documents /\ TargetCurrent(q)
          /\ documents' = Restrict(documents, DOMAIN documents \ {q.id})
          /\ contents' = Restrict(contents, DOMAIN contents \ {q.id})
          /\ destroyed' = destroyed \cup {<<q.seen, contents[q.id]>>}
          /\ Answer(k, Done)
          /\ UNCHANGED <<nextID, folders, versions>>

\* A request that does not mention the flag is a forced one.
Forced_Inverted(q) == q.force # "true"
Forced(q) == q.force # "false"

Below(entries, path) == {i \in DOMAIN entries : IsStrictPrefix(path, entries[i].path)}

deleteFolder(k) ==
    LET q == request[k]
        path == folders[q.id].path
        goneFolders == {q.id} \cup (IF Forced(q) THEN Below(folders, path) ELSE {})
        goneDocuments == IF Forced(q) THEN Below(documents, path) ELSE {}
    IN  /\ q.op = "deleteFolder"
        /\ \/ q.id \notin DOMAIN folders /\ Refuse(k, "40401")
           \/ /\ q.id \in DOMAIN folders /\ ~Forced(q)
              /\ ~IsEmpty(q.id) /\ Refuse(k, "40018")
           \/ /\ q.id \in DOMAIN folders
              /\ Forced(q) \/ IsEmpty(q.id)
              /\ folders' = Restrict(folders, DOMAIN folders \ goneFolders)
              /\ documents' = Restrict(documents, DOMAIN documents \ goneDocuments)
              /\ contents' = Restrict(contents, DOMAIN contents \ goneDocuments)
              /\ Answer(k, Done)
              /\ UNCHANGED <<nextID, history>>

-----------------------------------------------------------------------------
(* Handlers that read. *)

getDocument(k) ==
    LET q == request[k] IN
    /\ q.op = "getDocument"
    /\ IF q.id \in DOMAIN documents THEN Answer(k, DocumentEntry(q.id))
                                    ELSE Answer(k, Refusal("40401"))
    /\ UNCHANGED <<store, history>>

getFolder(k) ==
    LET q == request[k] IN
    /\ q.op = "getFolder"
    /\ IF q.id \in Parents THEN Answer(k, FolderEntry(q.id))
                           ELSE Answer(k, Refusal("40401"))
    /\ UNCHANGED <<store, history>>

\* Documents are searched before folders, each in the map's random order.
documentByPath(k) ==
    LET q == request[k] IN
    /\ q.op = "resolve"
    /\ \/ q.path = << >> /\ Answer(k, FolderEntry(Root))
       \/ /\ q.path # << >>
          /\ \E id \in Matching(documents, q.path) : Answer(k, DocumentEntry(id))
       \/ /\ q.path # << >> /\ Matching(documents, q.path) = {}
          /\ \E id \in Matching(folders, q.path) : Answer(k, FolderEntry(id))
       \/ /\ q.path # << >>
          /\ Matching(documents, q.path) \cup Matching(folders, q.path) = {}
          /\ Answer(k, Refusal("40401"))
    /\ UNCHANGED <<store, history>>

downloadDocument(k) ==
    LET q == request[k] IN
    /\ q.op = "download"
    /\ IF q.id \in DOMAIN documents
       THEN Answer(k, [status |-> "ok", body |-> contents[q.id]])
       ELSE Answer(k, Refusal("40401"))
    /\ UNCHANGED <<store, history>>

\* The viewer is told to show a document; nothing is kept.
openDocument(k) ==
    LET q == request[k] IN
    /\ q.op = "open"
    /\ Answer(k, IF q.id \in DOMAIN documents THEN Done ELSE Refusal("40401"))
    /\ UNCHANGED <<store, history>>

Listed(entries, id, type) == {[id |-> e, type |-> type] : e \in Children(entries, id)}

\* The handler copies the documents, lets go of the mutex, and takes it again
\* for the folders.
listDocuments(k) ==
    LET q == request[k] IN
    /\ q.op = "list"
    /\ request' = [request EXCEPT ![k] =
            [op |-> "listFolders", id |-> q.id, found |-> Listed(documents, q.id, "document")]]
    /\ UNCHANGED <<store, history, reply>>

listFolders(k) ==
    LET q == request[k] IN
    /\ q.op = "listFolders"
    /\ Answer(k, [status |-> "ok", found |-> q.found \cup Listed(folders, q.id, "folder")])
    /\ UNCHANGED <<store, history>>

-----------------------------------------------------------------------------

Serve(k) ==
    /\ request[k] # None
    /\ \/ createFolder(k) \/ createDocument(k) \/ copyDocument(k)
       \/ uploadDocument(k) \/ updateDocument(k) \/ updateFolder(k)
       \/ deleteDocument(k) \/ deleteFolder(k)
       \/ getDocument(k) \/ getFolder(k) \/ documentByPath(k)
       \/ downloadDocument(k) \/ openDocument(k)
       \/ listDocuments(k) \/ listFolders(k)

DeviceInit ==
    /\ folders = SeedFolders /\ documents = SeedDocuments
    /\ nextID = 1 + Cardinality(DOMAIN SeedFolders \cup DOMAIN SeedDocuments)
    /\ contents = [i \in DOMAIN SeedDocuments |-> CHOOSE b \in Contents : TRUE]
    /\ request = [k \in Channels |-> None]
    /\ reply = [c \in Clients |-> None]
    /\ versions = {<<i, documents[i].revision, contents[i]>> : i \in DOMAIN documents}
    /\ destroyed = {}

-----------------------------------------------------------------------------
(* What the store must always look like. *)

\* Type correctness of the store, with the numbers below nextID the only ones
\* in use.
StoreOK ==
    /\ nextID \in Nat
    /\ Ids \subseteq 1 .. (nextID - 1)
    /\ DOMAIN folders \cap DOMAIN documents = {}
    /\ DOMAIN contents = DOMAIN documents
    /\ \A i \in DOMAIN documents :
          /\ documents[i].size = Size(contents[i])
          /\ documents[i].revision \in Nat

\* Every entry lies in a folder that exists, and its stored path is that
\* folder's path and its own name: no folder disappears from above an entry
\* that a client is just creating, copying or moving into it, and the prefix
\* rewriting of updateEntry reaches every descendant of a renamed folder.
PathsFollowParents ==
    \A i \in Ids :
        LET e == IF i \in DOMAIN folders THEN folders[i] ELSE documents[i]
        IN  e.parent \in Parents /\ e.path = Append(PathOf(e.parent), e.name)

\* No two entries share a path, so a path names at most one entry (up to
\* case); updateEntry checks only the new path of the entry itself and relies
\* on every descendant landing where nothing is.
PathsAreUnique ==
    \A i, j \in Ids :
        LET PathAt(n) == IF n \in DOMAIN folders THEN folders[n].path ELSE documents[n].path
        IN  PathAt(i) = PathAt(j) => i = j

=============================================================================
