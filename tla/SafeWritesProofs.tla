-------------------------- MODULE SafeWritesProofs --------------------------
(***************************************************************************)
(* Machine-checked theorems about SafeWrites: what the guarded writes and  *)
(* deletions of the library promise, for any number of clients, channels   *)
(* for late requests, calls and failures, and any tree on the device.      *)
(*                                                                         *)
(* The argument: the device takes nothing back (StoreGrows), so what an    *)
(* answer said stays true while it travels and while its client acts on    *)
(* it.  ClientInv says which facts a client holds at each point of its     *)
(* call; a step of somebody else cannot spoil them.                        *)
(*                                                                         *)
(* The first half is about the handlers of Device: what each of them keeps *)
(* in order and what its answer says, for any tree and any requests.       *)
(***************************************************************************)
EXTENDS SafeWrites, FiniteSetTheorems, SequenceTheorems, TLAPS

-----------------------------------------------------------------------------
(* The device: the invariant of its store and its channels.                *)

StoreTypes ==
    /\ nextID \in Nat \ {0}
    /\ folders \in [DOMAIN folders -> FolderMeta]
    /\ documents \in [DOMAIN documents -> DocumentMeta]
    /\ contents \in [DOMAIN documents -> Bodies]
    /\ \A i \in Ids : i \in Nat /\ 0 < i /\ i < nextID
    /\ DOMAIN folders \cap DOMAIN documents = {}
    /\ \A i \in DOMAIN documents : documents[i].size = Size(contents[i])

ChannelTypes ==
    /\ request \in [Channels -> Request \cup {None}]
    /\ reply \in [Clients -> Reply \cup {None}]

ParentsExist ==
    /\ \A i \in DOMAIN folders : folders[i].parent \in Parents
    /\ \A i \in DOMAIN documents : documents[i].parent \in Parents

\* A revision of a document has one body, and the current one is the latest.
VersionsInv ==
    /\ \A v \in versions : v \in Nat \X Nat \X Bodies /\ v[1] < nextID
    /\ \A v, w \in versions : v[1] = w[1] /\ v[2] = w[2] => v[3] = w[3]
    /\ \A i \in DOMAIN documents :
          /\ <<i, documents[i].revision, contents[i]>> \in versions
          /\ \A v \in versions : v[1] = i => v[2] <= documents[i].revision

\* The library sends the revision of a body that its caller has seen, and
\* never asks for a forced deletion.
RequestFits(q) ==
    /\ q.op = "upload" /\ q.target # None => <<q.id, q.target, q.seen>> \in versions
    /\ q.op = "deleteDocument" => q.target # None /\ <<q.id, q.target, q.seen>> \in versions
    /\ q.op = "deleteFolder" => q.force = "false"
RequestOK(k) == request[k] # None => RequestFits(request[k])

DestroyedWasSeen == \A d \in destroyed : d[1] = d[2]

DeviceInv ==
    /\ StoreTypes /\ ChannelTypes /\ ParentsExist /\ VersionsInv
    /\ \A k \in Channels : RequestOK(k)
    /\ DestroyedWasSeen

\* What no handler ever takes back: numbers are not handed out again, and a
\* document keeps its maker.
StoreGrows ==
    /\ nextID <= nextID' /\ versions \subseteq versions'
    /\ \A i \in Nat : i < nextID =>
          /\ i \in DOMAIN folders' => i \in DOMAIN folders
          /\ i \in DOMAIN documents' => i \in DOMAIN documents /\ documents'[i].maker = documents[i].maker

-----------------------------------------------------------------------------
(* Answers.                                                                *)

\* An answer ends one request and reaches at most the client that waits.
LEMMA AnswerSends ==
    ASSUME ChannelTypes, NEW k \in Channels, NEW r \in Reply, Answer(k, r)
    PROVE  /\ ChannelTypes'
           /\ \A j \in Channels : request'[j] = (IF j = k THEN None ELSE request[j])
           /\ \A c \in Clients : reply'[c] = IF c = k THEN r ELSE reply[c]
<1>1. \A j \in Channels : request'[j] = (IF j = k THEN None ELSE request[j])
  BY DEF Answer, ChannelTypes
<1>2. \A c \in Clients : reply'[c] = IF c = k THEN r ELSE reply[c]
  BY DEF Answer
<1>3. request' \in [Channels -> Request \cup {None}]
  BY DEF Answer, ChannelTypes
<1>4. reply' \in [Clients -> Reply \cup {None}]
  BY DEF Answer, ChannelTypes
<1>5. QED
  BY <1>1, <1>2, <1>3, <1>4 DEF ChannelTypes

\* Refusals and plain confirmations are answers.
LEMMA PlainReplies ==
    /\ \A code \in Codes : Refusal(code) \in Reply
    /\ Failure \in Reply /\ Done \in Reply
    /\ \A i \in Nat : Created(i) \in Reply
  BY DEF Refusal, Failure, Done, Created, Reply, Codes

\* Requests that stay what they were, or are over, stay in order.
LEMMA RequestsStayOK ==
    ASSUME DeviceInv, versions \subseteq versions',
           \A j \in Channels : request'[j] \in {request[j], None} \/ request'[j].op = "listFolders"
    PROVE  \A j \in Channels : RequestOK(j)'
  BY DEF DeviceInv, RequestOK, RequestFits

\* The store is untouched, and the requests are in order.
LEMMA SameStoreKeepsInv ==
    ASSUME DeviceInv, UNCHANGED <<store, history>>, ChannelTypes', \A j \in Channels : RequestOK(j)'
    PROVE  DeviceInv' /\ StoreGrows
<1>1. UNCHANGED <<nextID, folders, documents, contents, versions, destroyed>>
  BY DEF store, history
<1>2. StoreTypes' /\ ParentsExist' /\ VersionsInv' /\ DestroyedWasSeen'
  BY <1>1 DEF DeviceInv, StoreTypes, Ids, ParentsExist, Parents, VersionsInv, DestroyedWasSeen
<1>3. StoreGrows
  BY <1>1 DEF StoreGrows, DeviceInv, StoreTypes
<1>4. QED
  BY <1>2, <1>3 DEF DeviceInv

\* A handler that only looks leaves everything in order.
LEMMA LookingKeepsInv ==
    ASSUME DeviceInv, UNCHANGED <<store, history>>, ChannelTypes',
           \A j \in Channels : request'[j] \in {request[j], None} \/ request'[j].op = "listFolders"
    PROVE  DeviceInv' /\ StoreGrows
<1>1. versions' = versions
  BY DEF history
<1>2. \A j \in Channels : RequestOK(j)'
  BY <1>1, RequestsStayOK
<1>3. QED
  BY <1>2, SameStoreKeepsInv

\* So does a refusal.
LEMMA RefusingKeepsInv ==
    ASSUME DeviceInv, NEW k \in Channels, NEW code \in Codes, Refuse(k, code)
    PROVE  DeviceInv' /\ StoreGrows
<1>1. Answer(k, Refusal(code)) /\ Refusal(code) \in Reply /\ UNCHANGED <<store, history>>
  BY PlainReplies DEF Refuse
<1>2. ChannelTypes' /\ \A j \in Channels : request'[j] \in {request[j], None}
  BY <1>1, AnswerSends DEF DeviceInv
<1>3. QED
  BY <1>1, <1>2, LookingKeepsInv

-----------------------------------------------------------------------------
(* Handlers that read.                                                     *)

\* Metadata of what is there: State.document, State.entry.
LEMMA EntriesAreReplies ==
    ASSUME DeviceInv
    PROVE  /\ \A i \in DOMAIN documents : DocumentEntry(i) \in DocumentReply
           /\ \A i \in Parents : FolderEntry(i) \in FolderReply
<1> USE SeedAssumption DEF SeedAssumption
<1>1. ASSUME NEW i \in DOMAIN documents PROVE DocumentEntry(i) \in DocumentReply
  <2>1. documents[i] \in DocumentMeta /\ contents[i] \in Bodies /\ i \in Nat
    BY DEF DeviceInv, StoreTypes, Ids
  <2>2. QED
    BY <2>1 DEF DocumentEntry, DocumentReply, DocumentMeta
<1>2. ASSUME NEW i \in Parents PROVE FolderEntry(i) \in FolderReply
  <2>1. i \in Nat /\ (i # Root => folders[i] \in FolderMeta)
    BY DEF DeviceInv, StoreTypes, Ids, Parents, Root
  <2>2. QED
    BY <2>1 DEF FolderEntry, FolderReply, FolderMeta
<1>3. QED
  BY <1>1, <1>2

\* A listing names what is directly in the folder.
LEMMA ListedIsItems ==
    ASSUME DeviceInv, NEW id
    PROVE  /\ Listed(documents, id, "document") \subseteq Item
           /\ Listed(folders, id, "folder") \subseteq Item
<1>1. \A i \in Ids : i \in Nat
  BY DEF DeviceInv, StoreTypes
<1>2. QED
  BY <1>1 DEF Listed, Children, Ids, Item

\* A request has the fields of its kind.
LEMMA RequestFields ==
    ASSUME ChannelTypes, NEW k \in Channels, request[k] # None
    PROVE  LET q == request[k] IN
           /\ q \in Request
           /\ q.op \in {"createFolder", "createDocument"} => q.parent \in Nat /\ q.name \in AllNames
           /\ q.op = "copy" => q.id \in Nat /\ q.parent \in Nat /\ q.name \in AllNames \cup {None}
           /\ q.op \in {"createDocument", "copy"} => q.tag \in Makers
           /\ q.op = "upload" => q.id \in Nat /\ q.body \in Contents /\ q.target \in Nat \cup {None}
           /\ q.op \in {"updateDocument", "updateFolder"} =>
                 q.id \in Nat /\ q.parent \in Nat \cup {None} /\ q.name \in AllNames \cup {None}
           /\ q.op = "deleteDocument" => q.id \in Nat /\ q.target \in Nat \cup {None}
           /\ q.op \in {"deleteFolder", "getDocument", "getFolder", "list"} => q.id \in Nat
           /\ q.op = "listFolders" => q.found \subseteq Item
<1>1. request[k] \in Request
  BY DEF ChannelTypes
<1>2. QED
  BY <1>1 DEF Request

\* The handlers that read leave everything in order.
LEMMA ReadersKeepInv ==
    ASSUME DeviceInv, NEW k \in Channels, request[k] # None,
           getDocument(k) \/ getFolder(k) \/ documentByPath(k) \/ downloadDocument(k)
              \/ openDocument(k) \/ listDocuments(k) \/ listFolders(k)
    PROVE  DeviceInv' /\ StoreGrows
<1>1. DocumentReply \subseteq Reply /\ FolderReply \subseteq Reply
  BY DEF Reply
<1>2. UNCHANGED <<store, history>>
  BY DEF getDocument, getFolder, documentByPath, downloadDocument, openDocument, listDocuments, listFolders
<1>3. ASSUME NEW r \in Reply, Answer(k, r) PROVE DeviceInv' /\ StoreGrows
  <2>1. ChannelTypes' /\ \A j \in Channels : request'[j] \in {request[j], None}
    BY <1>3, AnswerSends DEF DeviceInv
  <2>2. QED
    BY <1>2, <2>1, LookingKeepsInv
<1>4. CASE getDocument(k)
  BY <1>1, <1>3, <1>4, EntriesAreReplies, PlainReplies DEF getDocument, Codes
<1>5. CASE getFolder(k)
  BY <1>1, <1>3, <1>5, EntriesAreReplies, PlainReplies DEF getFolder, Codes
<1>6. CASE documentByPath(k)
  <2>1. Root \in Parents
    BY DEF Parents
  <2>2. \A id : /\ id \in Matching(documents, request[k].path) => id \in DOMAIN documents
                /\ id \in Matching(folders, request[k].path) => id \in Parents
    BY DEF Matching, Parents
  <2>3. QED
    BY <1>1, <1>3, <1>6, <2>1, <2>2, EntriesAreReplies, PlainReplies DEF documentByPath, Codes
<1>7. CASE downloadDocument(k)
  <2>1. request[k].id \in DOMAIN documents =>
          [status |-> "ok", body |-> contents[request[k].id]] \in Reply
    BY DEF DeviceInv, StoreTypes, Reply
  <2>2. QED
    BY <1>3, <1>7, <2>1, PlainReplies DEF downloadDocument, Codes
<1>8. CASE openDocument(k)
  BY <1>3, <1>8, PlainReplies DEF openDocument, Codes
<1>9. CASE listDocuments(k)
  <2> DEFINE next == [op |-> "listFolders", id |-> request[k].id,
                      found |-> Listed(documents, request[k].id, "document")]
  <2>1. request' = [request EXCEPT ![k] = next] /\ reply' = reply
    BY <1>9 DEF listDocuments
  <2>2. next \in Request
    BY <1>9, RequestFields, ListedIsItems DEF DeviceInv, listDocuments, Request
  <2>3. next.op = "listFolders"
    OBVIOUS
  <2> HIDE DEF next
  <2>4. ChannelTypes'
    BY <2>1, <2>2 DEF DeviceInv, ChannelTypes
  <2>5. \A j \in Channels : request'[j] \in {request[j], None} \/ request'[j].op = "listFolders"
    BY <2>1, <2>3 DEF DeviceInv, ChannelTypes
  <2>6. QED
    BY <1>2, <2>4, <2>5, LookingKeepsInv
<1>10. CASE listFolders(k)
  <2>1. request[k].found \cup Listed(folders, request[k].id, "folder") \subseteq Item
    BY <1>10, RequestFields, ListedIsItems DEF DeviceInv, listFolders
  <2>2. [status |-> "ok", found |-> request[k].found \cup Listed(folders, request[k].id, "folder")]
            \in Reply
    BY <2>1 DEF Reply
  <2>3. QED
    BY <1>3, <1>10, <2>2 DEF listFolders
<1>11. QED
  BY <1>4, <1>5, <1>6, <1>7, <1>8, <1>9, <1>10

-----------------------------------------------------------------------------
(* Handlers that create.                                                   *)

\* The path of a folder, or of the root, is a path: folderPathLocked.
LEMMA PathOfParent ==
    ASSUME DeviceInv, NEW f \in Parents
    PROVE  f \in Nat /\ PathOf(f) \in Seq(AllNames)
<1>1. CASE f = Root
  BY <1>1 DEF PathOf, Root
<1>2. CASE f # Root
  BY <1>2 DEF PathOf, Parents, DeviceInv, StoreTypes, Ids, FolderMeta
<1>3. QED
  BY <1>1, <1>2

\* A new document has a number that none has had, and its first version.
LEMMA AddingKeepsInv ==
    ASSUME DeviceInv, NEW document \in DocumentMeta, NEW body \in Bodies,
           document.parent \in Parents, document.size = Size(body),
           AddDocument(document, body), ChannelTypes',
           \A j \in Channels : request'[j] \in {request[j], None}
    PROVE  DeviceInv' /\ StoreGrows
<1> DEFINE n == nextID
<1>1. /\ DOMAIN documents' = DOMAIN documents \cup {n} /\ UNCHANGED <<folders, destroyed>>
      /\ \A i \in DOMAIN documents' : documents'[i] = IF i = n THEN document ELSE documents[i]
      /\ nextID' = n + 1 /\ versions' = versions \cup {<<n, document.revision, body>>}
  BY DEF AddDocument, FreshID
<1>2. /\ DOMAIN contents' = DOMAIN documents'
      /\ \A i \in DOMAIN documents' : contents'[i] = IF i = n THEN body ELSE contents[i]
  BY DEF AddDocument, FreshID, DeviceInv, StoreTypes
<1>3. n \in Nat /\ 0 < n /\ n \notin Ids /\ document.revision \in Nat
  BY DEF DeviceInv, StoreTypes, DocumentMeta
<1>4. documents' \in [DOMAIN documents' -> DocumentMeta]
  <2>1. documents' = [i \in DOMAIN documents' |-> documents'[i]]
    BY DEF AddDocument
  <2>2. \A i \in DOMAIN documents' : documents'[i] \in DocumentMeta
    BY <1>1 DEF DeviceInv, StoreTypes
  <2>3. QED
    BY <2>1, <2>2
<1>5. contents' \in [DOMAIN documents' -> Bodies]
  <2>1. contents' = [i \in DOMAIN contents' |-> contents'[i]]
    BY DEF AddDocument
  <2>2. \A i \in DOMAIN documents' : contents'[i] \in Bodies
    BY <1>1, <1>2 DEF DeviceInv, StoreTypes
  <2>3. QED
    BY <1>2, <2>1, <2>2
<1>6. StoreTypes'
  <2>1. nextID' \in Nat \ {0} /\ folders' \in [DOMAIN folders' -> FolderMeta]
    BY <1>1, <1>3 DEF DeviceInv, StoreTypes
  <2>2. \A i \in Ids' : i \in Nat /\ 0 < i /\ i < nextID'
    BY <1>1, <1>3 DEF DeviceInv, StoreTypes, Ids
  <2>3. DOMAIN folders' \cap DOMAIN documents' = {}
    BY <1>1, <1>3 DEF DeviceInv, StoreTypes, Ids
  <2>4. \A i \in DOMAIN documents' : documents'[i].size = Size(contents'[i])
    BY <1>1, <1>2 DEF DeviceInv, StoreTypes
  <2>5. QED
    BY <1>4, <1>5, <2>1, <2>2, <2>3, <2>4 DEF StoreTypes
<1>7. ParentsExist'
  BY <1>1 DEF DeviceInv, ParentsExist, Parents
<1>8. VersionsInv'
  <2> DEFINE new == <<n, document.revision, body>>
  <2>1. new \in Nat \X Nat \X Bodies /\ new[1] = n /\ \A v \in versions : v[1] # n
    BY <1>3 DEF DeviceInv, VersionsInv
  <2>2. \A v \in versions' : v \in Nat \X Nat \X Bodies /\ v[1] < nextID'
    BY <1>1, <1>3, <2>1 DEF DeviceInv, VersionsInv
  <2>3. \A v, w \in versions' : v[1] = w[1] /\ v[2] = w[2] => v[3] = w[3]
    BY <1>1, <2>1 DEF DeviceInv, VersionsInv
  <2>4. ASSUME NEW i \in DOMAIN documents'
        PROVE  /\ <<i, documents'[i].revision, contents'[i]>> \in versions'
               /\ \A v \in versions' : v[1] = i => v[2] <= documents'[i].revision
    <3>1. CASE i = n
      BY <1>1, <1>2, <1>3, <2>1, <3>1
    <3>2. CASE i # n
      BY <1>1, <1>2, <2>1, <3>2 DEF DeviceInv, VersionsInv
    <3>3. QED
      BY <3>1, <3>2
  <2>5. QED
    BY <2>2, <2>3, <2>4 DEF VersionsInv
<1>9. (\A j \in Channels : RequestOK(j)') /\ DestroyedWasSeen'
  BY <1>1, RequestsStayOK DEF DeviceInv, DestroyedWasSeen
<1>10. StoreGrows
  BY <1>1, <1>3 DEF StoreGrows
<1>11. QED
  BY <1>6, <1>7, <1>8, <1>9, <1>10 DEF DeviceInv

\* State.createDocument leaves everything in order.
LEMMA CreatingDocumentKeepsInv ==
    ASSUME DeviceInv, NEW k \in Channels, request[k] # None, createDocument(k)
    PROVE  DeviceInv' /\ StoreGrows
<1> DEFINE q == request[k]
           document == Document(q.parent, q.name, Append(PathOf(q.parent), q.name), 0, 0, q.tag)
<1> USE SeedAssumption DEF SeedAssumption
<1>1. CASE \E code \in {"40012", "40007"} : Refuse(k, code)
  BY <1>1, RefusingKeepsInv DEF Codes
<1>2. CASE q.parent \in Parents /\ AddDocument(document, Blank) /\ Answer(k, Created(FreshID))
  <2>1. q.parent \in Nat /\ q.name \in AllNames /\ q.tag \in Makers
    BY RequestFields DEF DeviceInv, createDocument
  <2>2. Append(PathOf(q.parent), q.name) \in Seq(AllNames)
    BY <1>2, <2>1, PathOfParent, AppendProperties
  <2>3. document \in DocumentMeta /\ document.parent = q.parent /\ document.size = Size(Blank)
    BY <2>1, <2>2 DEF Document, DocumentMeta, Size
  <2>4. Created(FreshID) \in Reply
    BY PlainReplies DEF FreshID, DeviceInv, StoreTypes
  <2>5. ChannelTypes' /\ \A j \in Channels : request'[j] \in {request[j], None}
    BY <1>2, <2>4, AnswerSends DEF DeviceInv
  <2> HIDE DEF document
  <2>6. QED
    BY <1>2, <2>3, <2>5, AddingKeepsInv DEF Bodies
<1>3. QED
  BY <1>1, <1>2 DEF createDocument

\* State.copyDocument leaves everything in order.
LEMMA CopyingKeepsInv ==
    ASSUME DeviceInv, NEW k \in Channels, request[k] # None, copyDocument(k)
    PROVE  DeviceInv' /\ StoreGrows
<1> DEFINE q == request[k]
           source == documents[q.id]
           name == IF q.name = None THEN source.name ELSE q.name
           document == Document(q.parent, name, Append(PathOf(q.parent), name), source.size,
                                source.revision, q.tag)
<1>1. CASE \E code \in {"40012", "40007", "40401"} : Refuse(k, code)
  BY <1>1, RefusingKeepsInv DEF Codes
<1>2. CASE /\ q.id \in DOMAIN documents /\ q.parent \in Parents
           /\ AddDocument(document, contents[q.id]) /\ Answer(k, Created(FreshID))
  <2>1. q.parent \in Nat /\ q.name \in AllNames \cup {None} /\ q.tag \in Makers
    BY RequestFields DEF DeviceInv, copyDocument
  <2>2. source \in DocumentMeta /\ contents[q.id] \in Bodies /\ source.size = Size(contents[q.id])
    BY <1>2 DEF DeviceInv, StoreTypes
  <2>3. name \in AllNames
    BY <2>1, <2>2 DEF DocumentMeta
  <2>4. Append(PathOf(q.parent), name) \in Seq(AllNames)
    BY <1>2, <2>3, PathOfParent, AppendProperties
  <2>5. document \in DocumentMeta /\ document.parent = q.parent /\ document.size = source.size
    <3> HIDE DEF name
    <3>1. QED
      BY <2>1, <2>2, <2>3, <2>4 DEF Document, DocumentMeta
  <2>6. Created(FreshID) \in Reply
    BY PlainReplies DEF FreshID, DeviceInv, StoreTypes
  <2>7. ChannelTypes' /\ \A j \in Channels : request'[j] \in {request[j], None}
    BY <1>2, <2>6, AnswerSends DEF DeviceInv
  <2> HIDE DEF document
  <2>8. QED
    BY <1>2, <2>2, <2>5, <2>7, AddingKeepsInv
<1>3. QED
  BY <1>1, <1>2 DEF copyDocument

\* State.createFolder leaves everything in order.
LEMMA CreatingFolderKeepsInv ==
    ASSUME DeviceInv, NEW k \in Channels, request[k] # None, createFolder(k)
    PROVE  DeviceInv' /\ StoreGrows
<1> DEFINE q == request[k]
           n == nextID
           folder == Folder(q.parent, q.name, Append(PathOf(q.parent), q.name))
<1>1. CASE \E code \in {"40012", "40007"} : Refuse(k, code)
  BY <1>1, RefusingKeepsInv DEF Codes
<1>2. CASE ~\E code \in {"40012", "40007"} : Refuse(k, code)
  <2>1. /\ q.parent \in Parents /\ Answer(k, Created(FreshID)) /\ nextID' = n + 1
        /\ folders' = [i \in DOMAIN folders \cup {n} |-> IF i = n THEN folder ELSE folders[i]]
        /\ UNCHANGED <<documents, contents, versions, destroyed>>
    BY <1>2 DEF createFolder, FreshID, history
  <2>2. q.parent \in Nat /\ q.name \in AllNames
    BY RequestFields DEF DeviceInv, createFolder
  <2>3. Append(PathOf(q.parent), q.name) \in Seq(AllNames)
    BY <2>1, <2>2, PathOfParent, AppendProperties
  <2>4. folder \in FolderMeta /\ folder.parent = q.parent
    BY <2>2, <2>3 DEF Folder, FolderMeta
  <2> HIDE DEF folder
  <2>5. n \in Nat /\ 0 < n /\ n \notin Ids
    BY DEF DeviceInv, StoreTypes
  <2>6. /\ DOMAIN folders' = DOMAIN folders \cup {n}
        /\ \A i \in DOMAIN folders' : folders'[i] = IF i = n THEN folder ELSE folders[i]
    BY <2>1
  <2>7. folders' \in [DOMAIN folders' -> FolderMeta]
    BY <2>1, <2>4 DEF DeviceInv, StoreTypes
  <2>8. StoreTypes'
    BY <2>1, <2>5, <2>6, <2>7 DEF DeviceInv, StoreTypes, Ids
  <2>9. ParentsExist'
    BY <2>1, <2>4, <2>6 DEF DeviceInv, ParentsExist, Parents
  <2>10. VersionsInv' /\ DestroyedWasSeen'
    BY <2>1, <2>5 DEF DeviceInv, VersionsInv, DestroyedWasSeen
  <2>11. ChannelTypes' /\ \A j \in Channels : request'[j] \in {request[j], None}
    BY <2>1, AnswerSends, PlainReplies DEF FreshID, DeviceInv, StoreTypes
  <2>12. \A j \in Channels : RequestOK(j)'
    BY <2>1, <2>11, RequestsStayOK
  <2>13. StoreGrows
    BY <2>1, <2>5, <2>6 DEF StoreGrows
  <2>14. QED
    BY <2>8, <2>9, <2>10, <2>11, <2>12, <2>13 DEF DeviceInv
<1>3. QED
  BY <1>1, <1>2
-----------------------------------------------------------------------------
(* Handlers that change.                                                   *)

\* The metadata of a new revision: State.uploadDocument.
LEMMA RevisedIsMeta ==
    ASSUME NEW d \in DocumentMeta, NEW body
    PROVE  /\ Revised(d, body) \in DocumentMeta
           /\ Revised(d, body).parent = d.parent /\ Revised(d, body).maker = d.maker
           /\ Revised(d, body).name = d.name /\ Revised(d, body).path = d.path
           /\ Revised(d, body).revision = d.revision + 1 /\ Revised(d, body).size = Size(body)
<1>1. Size(body) \in {0, 1}
  BY DEF Size
<1>2. QED
  BY <1>1 DEF Revised, Document, DocumentMeta

\* A guarded upload replaces the body whose revision its sender had seen.
LEMMA UploadingKeepsInv ==
    ASSUME DeviceInv, NEW k \in Channels, request[k] # None, uploadDocument(k)
    PROVE  DeviceInv' /\ StoreGrows
<1> DEFINE q == request[k]
           r == documents[q.id].revision
           answer == [status |-> "ok", revision |-> NextRevision(q.id), size |-> Size(q.body)]
<1>1. CASE \E code \in {"40017", "40401"} : Refuse(k, code)
  BY <1>1, RefusingKeepsInv DEF Codes
<1>2. CASE ~\E code \in {"40017", "40401"} : Refuse(k, code)
  <2>1. /\ q.op = "upload" /\ q.id \in DOMAIN documents /\ TargetCurrent(q) /\ Answer(k, answer)
        /\ documents' = [documents EXCEPT ![q.id] = Revised(@, q.body)]
        /\ contents' = [contents EXCEPT ![q.id] = q.body]
        /\ versions' = versions \cup {<<q.id, NextRevision(q.id), q.body>>}
        /\ destroyed' = IF q.target = None THEN destroyed
                        ELSE destroyed \cup {<<q.seen, contents[q.id]>>}
        /\ UNCHANGED <<nextID, folders>>
    BY <1>2 DEF uploadDocument
  <2>2. q.id \in Nat /\ q.body \in Contents /\ q.body \in Bodies
    BY <2>1, RequestFields DEF DeviceInv, Bodies
  <2>3. documents[q.id] \in DocumentMeta /\ r \in Nat /\ NextRevision(q.id) = r + 1
    BY <2>1 DEF DeviceInv, StoreTypes, DocumentMeta, NextRevision
  <2>4. Size(q.body) \in {0, 1}
    BY DEF Size
  <2>5. /\ DOMAIN documents' = DOMAIN documents /\ DOMAIN contents' = DOMAIN documents
        /\ documents' \in [DOMAIN documents -> DocumentMeta]
        /\ contents' \in [DOMAIN documents -> Bodies]
        /\ \A i \in DOMAIN documents :
              /\ documents'[i].parent = documents[i].parent
              /\ documents'[i].maker = documents[i].maker
              /\ contents'[i] = IF i = q.id THEN q.body ELSE contents[i]
              /\ documents'[i].revision = IF i = q.id THEN r + 1 ELSE documents[i].revision
              /\ documents'[i].size = IF i = q.id THEN Size(q.body) ELSE documents[i].size
    <3> DEFINE new == Revised(documents[q.id], q.body)
    <3>1. documents' = [documents EXCEPT ![q.id] = new]
      BY <2>1
    <3>2. /\ new \in DocumentMeta /\ new.parent = documents[q.id].parent
          /\ new.maker = documents[q.id].maker /\ new.revision = r + 1 /\ new.size = Size(q.body)
      BY <2>3, RevisedIsMeta
    <3> HIDE DEF new
    <3>3. documents \in [DOMAIN documents -> DocumentMeta] /\ contents \in [DOMAIN documents -> Bodies]
      BY DEF DeviceInv, StoreTypes
    <3>4. QED
      BY <2>1, <2>2, <3>1, <3>2, <3>3
  <2>6. StoreTypes'
    BY <2>1, <2>5 DEF DeviceInv, StoreTypes, Ids
  <2>7. ParentsExist'
    BY <2>1, <2>5 DEF DeviceInv, ParentsExist, Parents
  <2>8. VersionsInv'
    <3> DEFINE new == <<q.id, r + 1, q.body>>
    <3>1. /\ versions' = versions \cup {new} /\ new \in Nat \X Nat \X Bodies
          /\ new[1] = q.id /\ new[2] = r + 1
      BY <2>1, <2>2, <2>3
    <3>2. q.id < nextID' /\ nextID' = nextID
      BY <2>1 DEF DeviceInv, StoreTypes, Ids
    <3>3. \A v \in versions : v[2] \in Nat /\ (v[1] = q.id => v[2] <= r)
      BY <2>1 DEF DeviceInv, VersionsInv
    <3>4. \A v \in versions' : v \in Nat \X Nat \X Bodies /\ v[1] < nextID'
      BY <3>1, <3>2 DEF DeviceInv, VersionsInv
    <3>5. \A v \in versions : v[1] = q.id => v[2] # r + 1
      BY <2>3, <3>3
    <3>6. \A v, w \in versions' : v[1] = w[1] /\ v[2] = w[2] => v[3] = w[3]
      BY <3>1, <3>5 DEF DeviceInv, VersionsInv
    <3>7. ASSUME NEW i \in DOMAIN documents'
          PROVE  /\ <<i, documents'[i].revision, contents'[i]>> \in versions'
                 /\ \A v \in versions' : v[1] = i => v[2] <= documents'[i].revision
      <4>1. CASE i = q.id
        BY <2>3, <2>5, <3>1, <3>3, <4>1
      <4>2. CASE i # q.id
        BY <2>5, <3>1, <4>2 DEF DeviceInv, VersionsInv
      <4>3. QED
        BY <4>1, <4>2
    <3>8. QED
      BY <3>4, <3>6, <3>7 DEF VersionsInv
  <2>9. DestroyedWasSeen'
    <3>1. CASE q.target = None
      BY <2>1, <3>1 DEF DeviceInv, DestroyedWasSeen
    <3>2. CASE q.target # None
      <4>1. q.target = r /\ <<q.id, q.target, q.seen>> \in versions
        BY <2>1, <3>2 DEF DeviceInv, RequestOK, RequestFits, TargetCurrent
      <4>2. <<q.id, r, contents[q.id]>> \in versions
        BY <2>1 DEF DeviceInv, VersionsInv
      <4>3. q.seen = contents[q.id]
        BY <4>1, <4>2 DEF DeviceInv, VersionsInv
      <4>4. QED
        BY <2>1, <4>3 DEF DeviceInv, DestroyedWasSeen
    <3>3. QED
      BY <3>1, <3>2
  <2>10. answer \in Reply
    BY <2>3, <2>4 DEF Reply
  <2> HIDE DEF answer
  <2>11. ChannelTypes' /\ \A j \in Channels : request'[j] \in {request[j], None}
    BY <2>1, <2>10, AnswerSends DEF DeviceInv
  <2>12. \A j \in Channels : RequestOK(j)'
    BY <2>1, <2>11, RequestsStayOK
  <2>13. StoreGrows
    BY <2>1, <2>5 DEF StoreGrows, DeviceInv, StoreTypes
  <2>14. QED
    BY <2>6, <2>7, <2>8, <2>9, <2>11, <2>12, <2>13 DEF DeviceInv
<1>3. QED
  BY <1>1, <1>2

\* Renaming and moving changes parents, names and paths only.
LEMMA RearrangingKeepsInv ==
    ASSUME DeviceInv, UNCHANGED <<nextID, contents, history>>, ChannelTypes',
           folders' \in [DOMAIN folders -> FolderMeta],
           documents' \in [DOMAIN documents -> DocumentMeta],
           \A i \in DOMAIN folders : folders'[i].parent \in Parents,
           \A i \in DOMAIN documents :
              /\ documents'[i].parent \in Parents /\ documents'[i].size = documents[i].size
              /\ documents'[i].revision = documents[i].revision
              /\ documents'[i].maker = documents[i].maker,
           \A j \in Channels : request'[j] \in {request[j], None}
    PROVE  DeviceInv' /\ StoreGrows
<1>1. /\ DOMAIN folders' = DOMAIN folders /\ DOMAIN documents' = DOMAIN documents
      /\ UNCHANGED <<nextID, contents, versions, destroyed>>
  BY DEF history
<1>2. StoreTypes'
  BY <1>1 DEF DeviceInv, StoreTypes, Ids
<1>3. ParentsExist'
  BY <1>1 DEF ParentsExist, Parents
<1>4. VersionsInv' /\ DestroyedWasSeen'
  BY <1>1 DEF DeviceInv, VersionsInv, DestroyedWasSeen
<1>5. \A j \in Channels : RequestOK(j)'
  BY <1>1, RequestsStayOK
<1>6. StoreGrows
  BY <1>1 DEF StoreGrows, DeviceInv, StoreTypes
<1>7. QED
  BY <1>2, <1>3, <1>4, <1>5, <1>6 DEF DeviceInv

\* What an update makes of an entry: State.updateEntry.
LEMMA UpdatedIsMeta ==
    ASSUME DeviceInv, NEW q, q.parent \in Parents \cup {None}, q.name \in AllNames \cup {None}
    PROVE  /\ \A i \in DOMAIN documents :
                LET new == Updated(documents[i], q) IN
                /\ new \in DocumentMeta /\ new.parent \in Parents
                /\ new.size = documents[i].size /\ new.revision = documents[i].revision
                /\ new.maker = documents[i].maker
           /\ \A i \in DOMAIN folders :
                LET new == Updated(folders[i], q) IN new \in FolderMeta /\ new.parent \in Parents
<1>1. ASSUME NEW entry, entry.parent \in Parents, entry.name \in AllNames
      PROVE  LET parent == IF q.parent = None THEN entry.parent ELSE q.parent
                 name == IF q.name = None THEN entry.name ELSE q.name
             IN  /\ parent \in Parents /\ parent \in Nat /\ name \in AllNames
                 /\ Append(PathOf(parent), name) \in Seq(AllNames)
  <2> DEFINE parent == IF q.parent = None THEN entry.parent ELSE q.parent
             name == IF q.name = None THEN entry.name ELSE q.name
  <2>1. parent \in Parents /\ name \in AllNames
    BY <1>1
  <2> HIDE DEF parent, name
  <2>2. parent \in Nat /\ Append(PathOf(parent), name) \in Seq(AllNames)
    BY <2>1, PathOfParent, AppendProperties
  <2>3. QED
    BY <2>1, <2>2 DEF parent, name
<1>2. ASSUME NEW i \in DOMAIN documents
      PROVE  LET new == Updated(documents[i], q) IN
             /\ new \in DocumentMeta /\ new.parent \in Parents
             /\ new.size = documents[i].size /\ new.revision = documents[i].revision
             /\ new.maker = documents[i].maker
  <2>1. documents[i] \in DocumentMeta /\ documents[i].parent \in Parents
    BY DEF DeviceInv, StoreTypes, ParentsExist
  <2>2. documents[i].name \in AllNames
    BY <2>1 DEF DocumentMeta
  <2>3. QED
    BY <1>1, <2>1, <2>2 DEF Updated, DocumentMeta
<1>3. ASSUME NEW i \in DOMAIN folders
      PROVE  LET new == Updated(folders[i], q) IN new \in FolderMeta /\ new.parent \in Parents
  <2>1. folders[i] \in FolderMeta /\ folders[i].parent \in Parents
    BY DEF DeviceInv, StoreTypes, ParentsExist
  <2>2. folders[i].name \in AllNames
    BY <2>1 DEF FolderMeta
  <2>3. QED
    BY <1>1, <2>1, <2>2 DEF Updated, FolderMeta
<1>4. QED
  BY <1>2, <1>3

\* State.updateEntry for a document.
LEMMA UpdatingDocumentKeepsInv ==
    ASSUME DeviceInv, NEW k \in Channels, request[k] # None, updateDocument(k)
    PROVE  DeviceInv' /\ StoreGrows
<1> DEFINE q == request[k]
           new == Updated(documents[q.id], q)
<1>1. CASE \E code \in {"40012", "40007", "40401"} : Refuse(k, code)
  BY <1>1, RefusingKeepsInv DEF Codes
<1>2. CASE ~\E code \in {"40012", "40007", "40401"} : Refuse(k, code)
  <2>1. /\ q.op = "updateDocument" /\ q.id \in DOMAIN documents /\ q.parent \in Parents \cup {None}
        /\ documents' = [documents EXCEPT ![q.id] = new] /\ Answer(k, Done)
        /\ UNCHANGED <<nextID, folders, contents, history>>
    BY <1>2 DEF updateDocument
  <2>2. q.name \in AllNames \cup {None}
    BY <2>1, RequestFields DEF DeviceInv
  <2>3. /\ new \in DocumentMeta /\ new.parent \in Parents
        /\ new.size = documents[q.id].size /\ new.revision = documents[q.id].revision
        /\ new.maker = documents[q.id].maker
    BY <2>1, <2>2, UpdatedIsMeta
  <2> HIDE DEF new
  <2>4. ChannelTypes' /\ \A j \in Channels : request'[j] \in {request[j], None}
    BY <2>1, AnswerSends, PlainReplies DEF DeviceInv
  <2>5. /\ documents' \in [DOMAIN documents -> DocumentMeta]
        /\ folders' \in [DOMAIN folders -> FolderMeta]
        /\ \A i \in DOMAIN folders : folders'[i].parent \in Parents
        /\ \A i \in DOMAIN documents :
              /\ documents'[i].parent \in Parents /\ documents'[i].size = documents[i].size
              /\ documents'[i].revision = documents[i].revision
              /\ documents'[i].maker = documents[i].maker
    BY <2>1, <2>3 DEF DeviceInv, StoreTypes, ParentsExist
  <2>6. QED
    BY <2>1, <2>4, <2>5, RearrangingKeepsInv
<1>3. QED
  BY <1>1, <1>2

\* The prefix rewriting of a rename changes paths, and to paths.
LEMMA RebaseIsMeta ==
    ASSUME NEW old \in Seq(AllNames), NEW new \in Seq(AllNames)
    PROVE  /\ \A f : f \in [DOMAIN f -> FolderMeta] =>
                LET g == Rebase(f, old, new) IN
                /\ g \in [DOMAIN f -> FolderMeta]
                /\ \A i \in DOMAIN f : g[i].parent = f[i].parent
           /\ \A d : d \in [DOMAIN d -> DocumentMeta] =>
                LET g == Rebase(d, old, new) IN
                /\ g \in [DOMAIN d -> DocumentMeta]
                /\ \A i \in DOMAIN d :
                      /\ g[i].parent = d[i].parent /\ g[i].size = d[i].size
                      /\ g[i].revision = d[i].revision /\ g[i].maker = d[i].maker
<1>1. ASSUME NEW p \in Seq(AllNames), IsStrictPrefix(old, p)
      PROVE  new \o SubSeq(p, Len(old) + 1, Len(p)) \in Seq(AllNames)
  <2>1. Len(old) \in Nat /\ Len(p) \in Nat
    BY LenProperties
  <2>2. \A j \in Len(old) + 1 .. Len(p) : p[j] \in AllNames
    BY <2>1, ElementOfSeq
  <2>3. SubSeq(p, Len(old) + 1, Len(p)) \in Seq(AllNames)
    BY <2>1, <2>2
  <2>4. QED
    BY <2>3, ConcatProperties
<1>2. ASSUME NEW f, f \in [DOMAIN f -> FolderMeta]
      PROVE  LET g == Rebase(f, old, new) IN
             /\ g \in [DOMAIN f -> FolderMeta] /\ \A i \in DOMAIN f : g[i].parent = f[i].parent
  <2>1. \A i \in DOMAIN f : f[i] \in FolderMeta /\ f[i].path \in Seq(AllNames)
    BY <1>2 DEF FolderMeta
  <2>2. QED
    BY <1>1, <2>1 DEF Rebase, FolderMeta
<1>3. ASSUME NEW d, d \in [DOMAIN d -> DocumentMeta]
      PROVE  LET g == Rebase(d, old, new) IN
             /\ g \in [DOMAIN d -> DocumentMeta]
             /\ \A i \in DOMAIN d :
                   /\ g[i].parent = d[i].parent /\ g[i].size = d[i].size
                   /\ g[i].revision = d[i].revision /\ g[i].maker = d[i].maker
  <2>1. \A i \in DOMAIN d : d[i] \in DocumentMeta /\ d[i].path \in Seq(AllNames)
    BY <1>3 DEF DocumentMeta
  <2>2. QED
    BY <1>1, <2>1 DEF Rebase, DocumentMeta
<1>4. QED
  BY <1>2, <1>3

\* State.updateEntry for a folder.
LEMMA UpdatingFolderKeepsInv ==
    ASSUME DeviceInv, NEW k \in Channels, request[k] # None, updateFolder(k)
    PROVE  DeviceInv' /\ StoreGrows
<1> DEFINE q == request[k]
           old == folders[q.id].path
           new == Updated(folders[q.id], q)
           moved == [folders EXCEPT ![q.id] = new]
<1>1. CASE \E code \in {"40012", "40007", "40401"} : Refuse(k, code)
  BY <1>1, RefusingKeepsInv DEF Codes
<1>2. CASE ~\E code \in {"40012", "40007", "40401"} : Refuse(k, code)
  <2>1. /\ q.op = "updateFolder" /\ q.id \in DOMAIN folders /\ q.parent \in Parents \cup {None}
        /\ folders' = Rebase(moved, old, new.path)
        /\ documents' = Rebase(documents, old, new.path)
        /\ Answer(k, Done) /\ UNCHANGED <<nextID, contents, history>>
    BY <1>2 DEF updateFolder
  <2>2. q.name \in AllNames \cup {None}
    BY <2>1, RequestFields DEF DeviceInv
  <2>3. new \in FolderMeta /\ new.parent \in Parents
    BY <2>1, <2>2, UpdatedIsMeta
  <2>4. folders \in [DOMAIN folders -> FolderMeta] /\ documents \in [DOMAIN documents -> DocumentMeta]
    BY DEF DeviceInv, StoreTypes
  <2>5. new.path \in Seq(AllNames) /\ old \in Seq(AllNames)
    BY <2>1, <2>3, <2>4 DEF FolderMeta
  <2> HIDE DEF new, old
  <2>6. DOMAIN moved = DOMAIN folders /\ moved \in [DOMAIN moved -> FolderMeta]
    BY <2>3, <2>4
  <2>7. \A i \in DOMAIN moved : moved[i].parent \in Parents
    BY <2>3, <2>4 DEF DeviceInv, ParentsExist
  <2> HIDE DEF moved
  <2>8. /\ folders' \in [DOMAIN folders -> FolderMeta]
        /\ \A i \in DOMAIN folders : folders'[i].parent \in Parents
    BY <2>1, <2>5, <2>6, <2>7, RebaseIsMeta
  <2>9. /\ documents' \in [DOMAIN documents -> DocumentMeta]
        /\ \A i \in DOMAIN documents :
              /\ documents'[i].parent \in Parents /\ documents'[i].size = documents[i].size
              /\ documents'[i].revision = documents[i].revision
              /\ documents'[i].maker = documents[i].maker
    BY <2>1, <2>4, <2>5, RebaseIsMeta DEF DeviceInv, ParentsExist
  <2>10. ChannelTypes' /\ \A j \in Channels : request'[j] \in {request[j], None}
    BY <2>1, AnswerSends, PlainReplies DEF DeviceInv
  <2>11. QED
    BY <2>1, <2>8, <2>9, <2>10, RearrangingKeepsInv
<1>3. QED
  BY <1>1, <1>2
-----------------------------------------------------------------------------
(* Handlers that delete.                                                   *)

\* Entries go, and nothing that stays lay in one of them.
LEMMA RemovingKeepsInv ==
    ASSUME DeviceInv, NEW gone,
           folders' = Restrict(folders, DOMAIN folders \ gone),
           documents' = Restrict(documents, DOMAIN documents \ gone),
           contents' = Restrict(contents, DOMAIN contents \ gone),
           UNCHANGED <<nextID, versions>>, ChannelTypes', DestroyedWasSeen',
           \A i \in DOMAIN folders \ gone : folders[i].parent \notin gone,
           \A i \in DOMAIN documents \ gone : documents[i].parent \notin gone,
           \A j \in Channels : request'[j] \in {request[j], None}
    PROVE  DeviceInv' /\ StoreGrows
<1>1. /\ DOMAIN folders' = DOMAIN folders \ gone
      /\ \A i \in DOMAIN folders' : folders'[i] = folders[i]
  BY DEF Restrict
<1>2. /\ DOMAIN documents' = DOMAIN documents \ gone
      /\ \A i \in DOMAIN documents' : documents'[i] = documents[i]
  BY DEF Restrict
<1>3. /\ DOMAIN contents' = DOMAIN documents'
      /\ \A i \in DOMAIN documents' : contents'[i] = contents[i]
  BY <1>2 DEF Restrict, DeviceInv, StoreTypes
<1>4. StoreTypes'
  <2>1. folders' \in [DOMAIN folders' -> FolderMeta]
    BY <1>1 DEF Restrict, DeviceInv, StoreTypes
  <2>2. documents' \in [DOMAIN documents' -> DocumentMeta]
    BY <1>2 DEF Restrict, DeviceInv, StoreTypes
  <2>3. contents' \in [DOMAIN documents' -> Bodies]
    BY <1>2, <1>3 DEF Restrict, DeviceInv, StoreTypes
  <2>4. QED
    BY <1>1, <1>2, <1>3, <2>1, <2>2, <2>3 DEF DeviceInv, StoreTypes, Ids
<1>5. ParentsExist'
  BY <1>1, <1>2 DEF DeviceInv, ParentsExist, Parents
<1>6. VersionsInv'
  BY <1>2, <1>3 DEF DeviceInv, VersionsInv
<1>7. \A j \in Channels : RequestOK(j)'
  BY RequestsStayOK
<1>8. StoreGrows
  <2>1. nextID <= nextID' /\ versions \subseteq versions'
    BY DEF DeviceInv, StoreTypes
  <2>2. \A i \in DOMAIN documents' : i \in DOMAIN documents /\ documents'[i].maker = documents[i].maker
    BY <1>2
  <2>3. DOMAIN folders' \subseteq DOMAIN folders
    BY <1>1
  <2>4. QED
    BY <2>1, <2>2, <2>3 DEF StoreGrows
<1>9. QED
  BY <1>4, <1>5, <1>6, <1>7, <1>8 DEF DeviceInv

\* A guarded deletion removes the body its sender had seen.
LEMMA DeletingDocumentKeepsInv ==
    ASSUME DeviceInv, NEW k \in Channels, request[k] # None, deleteDocument(k)
    PROVE  DeviceInv' /\ StoreGrows
<1> DEFINE q == request[k]
<1>1. CASE \E code \in {"40017", "40401"} : Refuse(k, code)
  BY <1>1, RefusingKeepsInv DEF Codes
<1>2. CASE ~\E code \in {"40017", "40401"} : Refuse(k, code)
  <2>1. /\ q.op = "deleteDocument" /\ q.id \in DOMAIN documents /\ TargetCurrent(q) /\ Answer(k, Done)
        /\ documents' = Restrict(documents, DOMAIN documents \ {q.id})
        /\ contents' = Restrict(contents, DOMAIN contents \ {q.id})
        /\ destroyed' = destroyed \cup {<<q.seen, contents[q.id]>>}
        /\ UNCHANGED <<nextID, folders, versions>>
    BY <1>2 DEF deleteDocument
  <2>2. q.id \notin DOMAIN folders /\ q.id # Root
    BY <2>1 DEF DeviceInv, StoreTypes, Ids, Root
  <2>3. DestroyedWasSeen'
    <3>1. q.target = documents[q.id].revision /\ <<q.id, q.target, q.seen>> \in versions
      BY <2>1 DEF DeviceInv, RequestOK, RequestFits, TargetCurrent
    <3>2. <<q.id, documents[q.id].revision, contents[q.id]>> \in versions
      BY <2>1 DEF DeviceInv, VersionsInv
    <3>3. q.seen = contents[q.id]
      BY <3>1, <3>2 DEF DeviceInv, VersionsInv
    <3>4. QED
      BY <2>1, <3>3 DEF DeviceInv, DestroyedWasSeen
  <2>4. folders' = Restrict(folders, DOMAIN folders \ {q.id})
    BY <2>1, <2>2 DEF Restrict, DeviceInv, StoreTypes
  <2>5. ChannelTypes' /\ \A j \in Channels : request'[j] \in {request[j], None}
    BY <2>1, AnswerSends, PlainReplies DEF DeviceInv
  <2>6. /\ \A i \in DOMAIN folders : folders[i].parent \notin {q.id}
        /\ \A i \in DOMAIN documents : documents[i].parent \notin {q.id}
    BY <2>2 DEF DeviceInv, ParentsExist, Parents
  <2>7. QED
    BY <2>1, <2>3, <2>4, <2>5, <2>6, RemovingKeepsInv
<1>3. QED
  BY <1>1, <1>2

\* What an unforced deletion does: nothing is in the folder, and it alone goes.
LEMMA UnforcedDeletion ==
    ASSUME DeviceInv, NEW k \in Channels, request[k] # None, deleteFolder(k),
           ~\E code \in {"40018", "40401"} : Refuse(k, code)
    PROVE  LET q == request[k] IN
           /\ q.op = "deleteFolder" /\ q.id \in DOMAIN folders /\ IsEmpty(q.id) /\ Answer(k, Done)
           /\ folders' = Restrict(folders, DOMAIN folders \ {q.id})
           /\ documents' = Restrict(documents, DOMAIN documents)
           /\ contents' = Restrict(contents, DOMAIN contents)
           /\ UNCHANGED <<nextID, history>>
<1> DEFINE q == request[k]
<1>1. q.op = "deleteFolder" /\ ~Forced(q)
  BY DEF deleteFolder, DeviceInv, RequestOK, RequestFits, Forced
<1>2. QED
  BY <1>1 DEF deleteFolder

\* An empty folder goes alone: State.deleteFolder.
LEMMA DeletingFolderKeepsInv ==
    ASSUME DeviceInv, NEW k \in Channels, request[k] # None, deleteFolder(k)
    PROVE  DeviceInv' /\ StoreGrows
<1> DEFINE q == request[k]
<1>1. CASE \E code \in {"40018", "40401"} : Refuse(k, code)
  BY <1>1, RefusingKeepsInv DEF Codes
<1>2. CASE ~\E code \in {"40018", "40401"} : Refuse(k, code)
  <2>1. /\ q.id \in DOMAIN folders /\ IsEmpty(q.id) /\ Answer(k, Done)
        /\ folders' = Restrict(folders, DOMAIN folders \ {q.id})
        /\ documents' = Restrict(documents, DOMAIN documents)
        /\ contents' = Restrict(contents, DOMAIN contents)
        /\ UNCHANGED <<nextID, history>>
    BY <1>2, UnforcedDeletion
  <2>2. q.id \notin DOMAIN documents /\ DOMAIN contents = DOMAIN documents
    BY <2>1 DEF DeviceInv, StoreTypes
  <2>3. /\ \A i \in DOMAIN folders : folders[i].parent # q.id
        /\ \A i \in DOMAIN documents : documents[i].parent # q.id
    BY <2>1 DEF IsEmpty, Children
  <2>4. DOMAIN documents \ {q.id} = DOMAIN documents /\ DOMAIN contents \ {q.id} = DOMAIN contents
    BY <2>2
  <2>5. ChannelTypes' /\ \A j \in Channels : request'[j] \in {request[j], None}
    BY <2>1, AnswerSends, PlainReplies DEF DeviceInv
  <2>6. UNCHANGED <<nextID, versions>> /\ DestroyedWasSeen'
    BY <2>1 DEF history, DeviceInv, DestroyedWasSeen
  <2>7. QED
    BY <2>1, <2>3, <2>4, <2>5, <2>6, RemovingKeepsInv
<1>3. QED
  BY <1>1, <1>2

-----------------------------------------------------------------------------
(* All handlers.                                                           *)

\* Whatever the device handles, its store stays in order, and it never takes
\* back what it has said: numbers, makers and versions only accumulate.
LEMMA ServingKeepsInv ==
    ASSUME DeviceInv, NEW k \in Channels, Serve(k)
    PROVE  DeviceInv' /\ StoreGrows
<1>1. request[k] # None
  BY DEF Serve
<1>2. QED
  BY <1>1, ReadersKeepInv, CreatingFolderKeepsInv, CreatingDocumentKeepsInv, CopyingKeepsInv,
     UploadingKeepsInv, UpdatingDocumentKeepsInv, UpdatingFolderKeepsInv,
     DeletingDocumentKeepsInv, DeletingFolderKeepsInv
  DEF Serve

\* The seeds are in order: NewState, State.AddFolder, State.AddDocument.
LEMMA DeviceInitInv == DeviceInit => DeviceInv
<1> SUFFICES ASSUME DeviceInit PROVE DeviceInv
  OBVIOUS
<1> USE SeedAssumption DEF SeedAssumption
<1> DEFINE n == Cardinality(SeedIds)
<1>1. SeedIds = 1 .. n /\ n \in Nat /\ nextID = 1 + n
  BY FS_CardinalityType DEF DeviceInit, SeedIds
<1>2. Ids = SeedIds
  BY DEF DeviceInit, Ids, SeedIds
<1>3. \A i \in DOMAIN documents : contents[i] \in Contents
  BY DEF DeviceInit
<1>4. StoreTypes
  <2>1. \A i \in Ids : i \in Nat /\ 0 < i /\ i < nextID
    BY <1>1, <1>2
  <2>2. contents \in [DOMAIN documents -> Bodies]
    BY <1>3 DEF DeviceInit, Bodies
  <2>3. \A i \in DOMAIN documents : documents[i].size = Size(contents[i])
    BY <1>3 DEF DeviceInit, Size
  <2>4. /\ folders \in [DOMAIN folders -> FolderMeta]
        /\ documents \in [DOMAIN documents -> DocumentMeta]
        /\ DOMAIN folders \cap DOMAIN documents = {}
    BY DEF DeviceInit
  <2>5. nextID \in Nat \ {0}
    BY <1>1
  <2>6. QED
    BY <2>1, <2>2, <2>3, <2>4, <2>5 DEF StoreTypes
<1>5. ChannelTypes
  BY DEF DeviceInit, ChannelTypes
<1>6. ParentsExist
  <2>1. \A i \in DOMAIN folders : i \in SeedIds /\ SeedEntry(i) = folders[i]
    BY DEF DeviceInit, SeedIds, SeedEntry
  <2>2. \A i \in DOMAIN documents : i \in SeedIds /\ SeedEntry(i) = documents[i]
    BY DEF DeviceInit, SeedIds, SeedEntry
  <2>3. Parents = DOMAIN SeedFolders \cup {Root}
    BY DEF DeviceInit, Parents
  <2>4. QED
    BY <2>1, <2>2, <2>3 DEF ParentsExist
<1>7. VersionsInv
  <2>1. \A i \in DOMAIN documents :
          i \in Nat /\ i < nextID /\ documents[i].revision \in Nat /\ contents[i] \in Bodies
    BY <1>3, <1>4 DEF StoreTypes, Ids, DocumentMeta, Bodies
  <2>2. versions = {<<i, documents[i].revision, contents[i]>> : i \in DOMAIN documents}
    BY DEF DeviceInit
  <2>3. QED
    BY <2>1, <2>2 DEF VersionsInv
<1>8. (\A k \in Channels : RequestOK(k)) /\ DestroyedWasSeen
  BY DEF DeviceInit, RequestOK, RequestFits, DestroyedWasSeen
<1>9. QED
  BY <1>4, <1>5, <1>6, <1>7, <1>8 DEF DeviceInv

-----------------------------------------------------------------------------
(* The clients: facts that stay true.                                      *)

\* An entry number that was handed out, and not for the other kind.
DocumentOnce(i) == i \in Nat /\ i < nextID /\ i \notin DOMAIN folders
FolderOnce(i) == i \in Nat /\ i < nextID /\ i \notin DOMAIN documents

\* An entry that was made by the current call of c, if it is a document.
OwnEntry(c, i) ==
    /\ i \in Nat /\ i < nextID
    /\ i \in DOMAIN documents => documents[i].maker = <<c, calls[c]>>

\* The metadata of a document, as the device once held it.
TrueMetadata(s) ==
    s \in DocumentReply /\ <<s.id, s.revision, s.body>> \in versions /\ DocumentOnce(s.id)

-----------------------------------------------------------------------------
(* The invariant of the calls.                                             *)

ClientTypes ==
    /\ pc = [c \in Clients |-> pc[c]]
    /\ call \in [Clients -> Call \cup {None}]
    /\ calls \in [Clients -> 0 .. MaxCalls]
    /\ seen = [c \in Clients |-> seen[c]]
    /\ place \in [Clients -> Nat]
    /\ outcome = [c \in Clients |-> outcome[c]]

\* A client waits exactly when it has a call, for one answer to one request.
Waiting(c) ==
    /\ (pc[c] = "idle") <=> (call[c] = None)
    /\ pc[c] = "idle" => request[c] = None /\ reply[c] = None
    /\ pc[c] # "idle" => (request[c] = None) # (reply[c] = None)

\* The steps of a call that is about one entry.
Targeted == {"verifyCreated", "uploaded", "verifyUploaded", "updated", "verifyUpdated",
             "isFolder", "listed", "deleted", "verifyDeleted"}

\* What a call knows at each of its steps.
Knows(c) ==
    LET a == call[c] IN
    /\ pc[c] \in Targeted => a.id \in Nat
    /\ pc[c] \in {"uploaded", "verifyUploaded"} => a.op \in {"put", "replace"}
    /\ pc[c] # "idle" /\ a.op \in {"put", "replace"} => a.body \in Contents
    /\ pc[c] = "verifyCreated" => OwnEntry(c, a.id)
    /\ pc[c] \in {"uploaded", "verifyUploaded"} /\ a.op = "put" => OwnEntry(c, a.id)
    /\ pc[c] = "verifyUploaded" => <<a.id, a.revision, a.body>> \in versions
    /\ pc[c] \in {"isFolder", "listed"} => a.op = "deleteEmpty"
    /\ pc[c] = "listed" => FolderOnce(a.id)
    /\ pc[c] \in {"deleted", "verifyDeleted"} =>
          IF a.op = "delete" THEN DocumentOnce(a.id) ELSE FolderOnce(a.id)

\* The request that a client waits for is the one its step calls for.
Expects(c) ==
    LET q == request[c]
        a == call[c]
    IN  q # None =>
        /\ pc[c] = "resolve" => q.op = "resolve"
        /\ pc[c] = "created" =>
              /\ q.op \in {"createFolder", "createDocument", "copy"}
              /\ q.op # "createFolder" => q.tag = <<c, calls[c]>>
        /\ pc[c] = "uploaded" => q.op = "upload" /\ q.id = a.id /\ q.body = a.body
        /\ pc[c] = "isFolder" => q.op = "getFolder" /\ q.id = a.id
        /\ pc[c] = "verifyDeleted" =>
              q.id = a.id /\ q.op = IF a.op = "delete" THEN "getDocument" ELSE "getFolder"

\* What an answer says is true, and stays true until it is heard.
Hears(c) ==
    LET r == reply[c]
        a == call[c]
    IN  r # None =>
        /\ pc[c] = "resolve" /\ Ok(r) =>
              (r.type = "document" /\ TrueMetadata(r)) \/ (r.type = "folder" /\ r.id \in Nat)
        /\ pc[c] = "created" /\ Ok(r) => OwnEntry(c, r.id)
        /\ pc[c] = "uploaded" /\ Ok(r) =>
              r.revision \in Nat /\ <<a.id, r.revision, a.body>> \in versions
        /\ pc[c] = "isFolder" /\ Ok(r) => r.id = a.id /\ FolderOnce(a.id)
        /\ pc[c] = "verifyDeleted" /\ ~Ok(r) /\ r.code = "40401" => a.id \notin Ids

\* What a client keeps between its calls.
Keeps(c) ==
    /\ seen[c] # None => TrueMetadata(seen[c])
    /\ outcome[c] # None /\ outcome[c].names # None => OwnEntry(c, outcome[c].names)

ClientInv(c) == Waiting(c) /\ Knows(c) /\ Expects(c) /\ Hears(c) /\ Keeps(c)

\* What was reported as a success.
ReportsAreTrue ==
    /\ \A i \in deleted : i \in Nat /\ i < nextID /\ i \notin Ids
    /\ published \subseteq versions

IInv ==
    /\ DeviceInv /\ ClientTypes
    /\ \A c \in Clients : ClientInv(c)
    /\ ReportsAreTrue

-----------------------------------------------------------------------------
(* What stays true whatever the device handles.                            *)

LEMMA FactsStay ==
    ASSUME DeviceInv, DeviceInv', StoreGrows
    PROVE  /\ \A i : DocumentOnce(i) => DocumentOnce(i)'
           /\ \A i : FolderOnce(i) => FolderOnce(i)'
           /\ \A c, i : OwnEntry(c, i) /\ calls'[c] = calls[c] => OwnEntry(c, i)'
           /\ \A s : TrueMetadata(s) => TrueMetadata(s)'
           /\ \A i : i \in Nat /\ i < nextID /\ i \notin Ids => i < nextID' /\ i \notin Ids'
           /\ versions \subseteq versions'
<1>1. nextID \in Nat /\ nextID' \in Nat /\ nextID <= nextID' /\ versions \subseteq versions'
  BY DEF DeviceInv, StoreTypes, StoreGrows
<1>2. \A i \in Nat : i < nextID =>
         /\ i < nextID'
         /\ i \in DOMAIN folders' => i \in DOMAIN folders
         /\ i \in DOMAIN documents' => i \in DOMAIN documents /\ documents'[i].maker = documents[i].maker
  BY <1>1 DEF StoreGrows
<1>3. \A i : DocumentOnce(i) => DocumentOnce(i)'
  BY <1>2 DEF DocumentOnce
<1>4. \A i : FolderOnce(i) => FolderOnce(i)'
  BY <1>2 DEF FolderOnce
<1>5. \A c, i : OwnEntry(c, i) /\ calls'[c] = calls[c] => OwnEntry(c, i)'
  BY <1>2 DEF OwnEntry
<1>6. \A s : TrueMetadata(s) => TrueMetadata(s)'
  BY <1>1, <1>3 DEF TrueMetadata
<1>7. \A i : i \in Nat /\ i < nextID /\ i \notin Ids => i < nextID' /\ i \notin Ids'
  BY <1>2 DEF Ids
<1>8. QED
  BY <1>1, <1>3, <1>4, <1>5, <1>6, <1>7

\* A client that has not moved knows what it knew.
LEMMA BystandersKeepInv ==
    ASSUME DeviceInv, DeviceInv', StoreGrows, NEW c \in Clients, ClientInv(c),
           request'[c] = request[c], reply'[c] = reply[c], pc'[c] = pc[c], call'[c] = call[c],
           calls'[c] = calls[c], seen'[c] = seen[c], outcome'[c] = outcome[c]
    PROVE  ClientInv(c)'
<1>1. Waiting(c)'
  BY DEF ClientInv, Waiting
<1>2. Knows(c)'
  BY FactsStay DEF ClientInv, Knows, Targeted
<1>3. Expects(c)'
  BY DEF ClientInv, Expects
<1>4. Hears(c)'
  <2>1. call[c].id \notin Ids /\ pc[c] = "verifyDeleted" => call[c].id \notin Ids'
    BY FactsStay DEF ClientInv, Knows, Targeted, DocumentOnce, FolderOnce
  <2>2. QED
    BY <2>1, FactsStay DEF ClientInv, Hears
<1>5. Keeps(c)'
  BY FactsStay DEF ClientInv, Keeps
<1>6. QED
  BY <1>1, <1>2, <1>3, <1>4, <1>5 DEF ClientInv

\* One client moves, and the store stays as it is.
LEMMA OneClientMoves ==
    ASSUME IInv, NEW c \in Clients, UNCHANGED <<store, history>>, ChannelTypes', ClientTypes',
           \A j \in Channels : RequestOK(j)',
           \A d \in Clients \ {c} :
              /\ request'[d] = request[d] /\ reply'[d] = reply[d] /\ pc'[d] = pc[d]
              /\ call'[d] = call[d] /\ calls'[d] = calls[d] /\ seen'[d] = seen[d]
              /\ outcome'[d] = outcome[d],
           ClientInv(c)', ReportsAreTrue'
    PROVE  IInv'
<1>1. DeviceInv' /\ StoreGrows
  BY SameStoreKeepsInv DEF IInv
<1>2. \A d \in Clients \ {c} : ClientInv(d)'
  BY <1>1, BystandersKeepInv DEF IInv
<1>3. QED
  BY <1>1, <1>2 DEF IInv

-----------------------------------------------------------------------------
(* Starting a call.                                                        *)

\* What Start and Ask change.
LEMMA StartEffects ==
    ASSUME IInv, NEW c \in Clients, NEW op, NEW args \in Call, NEW step, NEW q \in Request,
           Start(c, op, args, step), Ask(c, q)
    PROVE  /\ pc'[c] = step /\ call'[c] = args /\ request'[c] = q /\ reply'[c] = None
           /\ calls'[c] = calls[c] + 1 /\ outcome'[c] = None /\ pc[c] = "idle"
           /\ UNCHANGED <<nextID, folders, documents, contents, versions, destroyed,
                          seen, place, failures, deleted, published>>
           /\ ChannelTypes' /\ ClientTypes'
           /\ \A k \in Channels \ {c} : request'[k] = request[k]
           /\ \A d \in Clients \ {c} :
                 /\ reply'[d] = reply[d] /\ pc'[d] = pc[d] /\ call'[d] = call[d]
                 /\ calls'[d] = calls[d] /\ outcome'[d] = outcome[d]
<1>1. c \in Channels /\ ChannelTypes /\ ClientTypes
  BY DEF Channels, IInv, DeviceInv
<1>2. UNCHANGED <<nextID, folders, documents, contents, versions, destroyed,
                  seen, place, failures, deleted, published>>
  BY DEF Start, store, history
<1>3. /\ request'[c] = q /\ \A k \in Channels \ {c} : request'[k] = request[k]
      /\ reply'[c] = None /\ \A d \in Clients \ {c} : reply'[d] = reply[d]
      /\ ChannelTypes'
  BY <1>1 DEF Ask, ChannelTypes
<1>4. /\ calls'[c] = calls[c] + 1 /\ \A d \in Clients \ {c} : calls'[d] = calls[d]
      /\ calls' \in [Clients -> 0 .. MaxCalls]
  BY <1>1, SafeWritesAssumption DEF Start, ClientTypes, SafeWritesAssumption
<1>5. /\ pc'[c] = step /\ call'[c] = args /\ outcome'[c] = None /\ pc[c] = "idle"
      /\ \A d \in Clients \ {c} : pc'[d] = pc[d] /\ call'[d] = call[d] /\ outcome'[d] = outcome[d]
  BY <1>1 DEF Start, ClientTypes
<1>6. ClientTypes'
  BY <1>1, <1>2, <1>4 DEF Start, ClientTypes
<1>7. QED
  BY <1>2, <1>3, <1>4, <1>5, <1>6

\* The call, its first request and the step that waits for its answer.
LEMMA StartSets ==
    ASSUME IInv, NEW c \in Clients, NEW op, NEW args, NEW step, NEW q,
           Start(c, op, args, step), Ask(c, q)
    PROVE  pc'[c] = step /\ call'[c] = args /\ request'[c] = q
<1>1. c \in Channels /\ c \in DOMAIN request /\ c \in DOMAIN pc /\ c \in DOMAIN call
  BY DEF Channels, IInv, DeviceInv, ChannelTypes, ClientTypes
<1>2. QED
  BY <1>1 DEF Start, Ask

\* Starting a call whose first request fits keeps everything in order.
LEMMA StartingKeepsInv ==
    ASSUME IInv, NEW c \in Clients, NEW op, NEW args \in Call, NEW step, NEW q \in Request,
           Start(c, op, args, step), Ask(c, q),
           step # "idle", RequestFits(q), Knows(c)', Expects(c)'
    PROVE  IInv'
<1>1. args # None /\ q # None
  BY SeedAssumption, SafeWritesAssumption DEF SeedAssumption, SafeWritesAssumption
<1>2. Waiting(c)' /\ Hears(c)' /\ Keeps(c)'
  <2>1. /\ pc'[c] = step /\ call'[c] = args /\ request'[c] = q /\ reply'[c] = None
        /\ outcome'[c] = None
    BY StartEffects
  <2>2. seen' = seen /\ UNCHANGED <<nextID, folders, versions>>
    BY StartEffects
  <2>3. Waiting(c)'
    BY <1>1, <2>1 DEF Waiting
  <2>4. Hears(c)'
    BY <2>1 DEF Hears
  <2>5. seen[c] # None => TrueMetadata(seen[c])
    BY DEF IInv, ClientInv, Keeps
  <2>6. Keeps(c)'
    BY <2>1, <2>2, <2>5 DEF Keeps, TrueMetadata, DocumentOnce
  <2>7. QED
    BY <2>3, <2>4, <2>6
<1>3. UNCHANGED <<store, history>> /\ ReportsAreTrue'
  BY StartEffects DEF store, history, IInv, ReportsAreTrue, Ids
<1>4. \A j \in Channels : RequestOK(j)'
  <2>1. /\ request'[c] = q /\ versions' = versions
        /\ \A k \in Channels \ {c} : request'[k] = request[k]
    BY StartEffects
  <2>2. QED
    BY <2>1 DEF IInv, DeviceInv, RequestOK, RequestFits
<1>5. ClientInv(c)'
  BY <1>2 DEF ClientInv
<1>6. \A d \in Clients \ {c} :
              /\ request'[d] = request[d] /\ reply'[d] = reply[d] /\ pc'[d] = pc[d]
              /\ call'[d] = call[d] /\ calls'[d] = calls[d] /\ seen'[d] = seen[d]
              /\ outcome'[d] = outcome[d]
  BY StartEffects DEF Channels
<1>7. ChannelTypes' /\ ClientTypes'
  BY StartEffects
<1>8. QED
  BY <1>3, <1>4, <1>5, <1>6, <1>7, OneClientMoves

\* Documents.Resolve.
LEMMA ResolvePathKeepsInv ==
    ASSUME IInv, NEW c \in Clients, NEW path \in Seq(AllNames), ResolvePath(c, path)
    PROVE  IInv'
<1> DEFINE args == Asked("resolve")
           q == [op |-> "resolve", path |-> path]
<1>1. Start(c, "resolve", args, "resolve") /\ Ask(c, q)
  BY DEF ResolvePath
<1>2. args \in Call /\ args.op = "resolve" /\ q \in Request /\ q.op = "resolve"
  BY DEF Asked, Call, Calls, Request
<1> HIDE DEF args, q
<1>3. pc'[c] = "resolve" /\ call'[c] = args /\ request'[c] = q
  BY <1>1, <1>2, StartSets
<1>4. RequestFits(q) /\ Knows(c)' /\ Expects(c)'
  BY <1>2, <1>3 DEF RequestFits, Knows, Targeted, Expects
<1>5. QED
  BY <1>1, <1>2, <1>4, StartingKeepsInv

LEMMA ResolveKeepsInv ==
    ASSUME IInv, NEW c \in Clients, Resolve(c)
    PROVE  IInv'
<1>1. PICK path \in Paths : ResolvePath(c, path)
  BY DEF Resolve
<1>2. path \in Seq(AllNames)
  BY SafeWritesAssumption DEF SafeWritesAssumption
<1>3. QED
  BY <1>1, <1>2, ResolvePathKeepsInv

\* Folders.Create.
LEMMA CreateFolderInKeepsInv ==
    ASSUME IInv, NEW c \in Clients, NEW parent \in Nat, NEW name \in AllNames,
           CreateFolderIn(c, parent, name)
    PROVE  IInv'
<1> DEFINE args == [Asked("createFolder") EXCEPT !.parent = parent, !.name = name]
           q == [op |-> "createFolder", parent |-> parent, name |-> name]
<1>1. Start(c, "createFolder", args, "created") /\ Ask(c, q)
  BY DEF CreateFolderIn
<1>2. args \in Call /\ args.op = "createFolder" /\ q \in Request /\ q.op = "createFolder"
  BY DEF Asked, Call, Calls, Request
<1> HIDE DEF args, q
<1>3. pc'[c] = "created" /\ call'[c] = args /\ request'[c] = q
  BY <1>1, <1>2, StartSets
<1>4. RequestFits(q) /\ Knows(c)' /\ Expects(c)'
  BY <1>2, <1>3 DEF RequestFits, Knows, Targeted, Expects
<1>5. QED
  BY <1>1, <1>2, <1>4, StartingKeepsInv

LEMMA CreateFolderKeepsInv ==
    ASSUME IInv, NEW c \in Clients, CreateFolder(c)
    PROVE  IInv'
<1>1. PICK name \in Names : CreateFolderIn(c, place[c], name)
  BY DEF CreateFolder
<1>2. place[c] \in Nat /\ name \in AllNames
  BY SeedAssumption DEF SeedAssumption, IInv, ClientTypes
<1>3. QED
  BY <1>1, <1>2, CreateFolderInKeepsInv

\* Documents.CreateAndUpload.
LEMMA CreateAndUploadKeepsInv ==
    ASSUME IInv, NEW c \in Clients, CreateAndUpload(c)
    PROVE  IInv'
<1> DEFINE args(name, body) ==
               [Asked("put") EXCEPT !.parent = place[c], !.name = name, !.body = body]
           q(name) == [op |-> "createDocument", parent |-> place[c], name |-> name, tag |-> Tag(c)]
<1>1. PICK name \in Names, body \in Contents :
        Start(c, "put", args(name, body), "created") /\ Ask(c, q(name))
  BY DEF CreateAndUpload
<1>2. place[c] \in Nat /\ name \in AllNames
  BY SeedAssumption DEF SeedAssumption, IInv, ClientTypes
<1>3. Tag(c) = <<c, calls'[c]>> /\ Tag(c) \in Makers
  <2>1. calls'[c] = calls[c] + 1 /\ calls[c] \in Nat
    BY <1>1, SafeWritesAssumption DEF Start, IInv, ClientTypes, SafeWritesAssumption
  <2>2. QED
    BY <2>1 DEF Tag, Makers
<1>4. /\ args(name, body) \in Call /\ args(name, body).op = "put" /\ args(name, body).body = body
      /\ q(name) \in Request /\ q(name).op = "createDocument" /\ q(name).tag = <<c, calls'[c]>>
  BY <1>2, <1>3 DEF Asked, Call, Calls, Request
<1> HIDE DEF args, q
<1>5. pc'[c] = "created" /\ call'[c] = args(name, body) /\ request'[c] = q(name)
  BY <1>1, <1>4, StartSets
<1>6. RequestFits(q(name)) /\ Knows(c)' /\ Expects(c)'
  BY <1>4, <1>5 DEF RequestFits, Knows, Targeted, Expects
<1>7. QED
  BY <1>1, <1>4, <1>6, StartingKeepsInv

\* Documents.Copy.
LEMMA CopyKeepsInv ==
    ASSUME IInv, NEW c \in Clients, Copy(c)
    PROVE  IInv'
<1> DEFINE args(name) == [Asked("copy") EXCEPT !.parent = place[c], !.name = name]
           q(name) == [op |-> "copy", id |-> seen[c].id, parent |-> place[c], name |-> name,
                       tag |-> Tag(c)]
<1>1. PICK name \in Names \cup {None} :
        seen[c] # None /\ Start(c, "copy", args(name), "created") /\ Ask(c, q(name))
  BY DEF Copy
<1>2. place[c] \in Nat /\ name \in AllNames \cup {None} /\ seen[c].id \in Nat
  BY <1>1, SeedAssumption
  DEF SeedAssumption, IInv, ClientTypes, ClientInv, Keeps, TrueMetadata, DocumentOnce
<1>3. Tag(c) = <<c, calls'[c]>> /\ Tag(c) \in Makers
  <2>1. calls'[c] = calls[c] + 1 /\ calls[c] \in Nat
    BY <1>1, SafeWritesAssumption DEF Start, IInv, ClientTypes, SafeWritesAssumption
  <2>2. QED
    BY <2>1 DEF Tag, Makers
<1>4. /\ args(name) \in Call /\ args(name).op = "copy"
      /\ q(name) \in Request /\ q(name).op = "copy" /\ q(name).tag = <<c, calls'[c]>>
  BY <1>2, <1>3 DEF Asked, Call, Calls, Request
<1> HIDE DEF args, q
<1>5. pc'[c] = "created" /\ call'[c] = args(name) /\ request'[c] = q(name)
  BY <1>1, <1>4, StartSets
<1>6. RequestFits(q(name)) /\ Knows(c)' /\ Expects(c)'
  BY <1>4, <1>5 DEF RequestFits, Knows, Targeted, Expects
<1>7. QED
  BY <1>1, <1>4, <1>6, StartingKeepsInv

\* The document that a caller looked at.
LEMMA SeenIsTrue ==
    ASSUME IInv, NEW c \in Clients, seen[c] # None
    PROVE  /\ seen[c].id \in Nat /\ seen[c].revision \in Nat /\ seen[c].body \in Bodies
           /\ <<seen[c].id, seen[c].revision, seen[c].body>> \in versions /\ DocumentOnce(seen[c].id)
  BY DEF IInv, ClientInv, Keeps, TrueMetadata, DocumentOnce, DocumentReply

\* Documents.Replace: the revision is that of the body which the caller saw.
LEMMA ReplaceKeepsInv ==
    ASSUME IInv, NEW c \in Clients, Replace(c)
    PROVE  IInv'
<1> DEFINE args(body) == [Asked("replace") EXCEPT !.id = seen[c].id, !.body = body]
           q(body) == [op |-> "upload", id |-> seen[c].id, body |-> body,
                       target |-> seen[c].revision, seen |-> seen[c].body]
<1>1. PICK body \in Contents :
        seen[c] # None /\ Start(c, "replace", args(body), "uploaded") /\ Ask(c, q(body))
  BY DEF Replace
<1>2. /\ seen[c].id \in Nat /\ seen[c].revision \in Nat /\ seen[c].body \in Bodies
      /\ <<seen[c].id, seen[c].revision, seen[c].body>> \in versions
  BY <1>1, SeenIsTrue
<1>3. /\ args(body) \in Call /\ args(body).op = "replace" /\ args(body).body = body
      /\ args(body).id = seen[c].id
  BY <1>2 DEF Asked, Call, Calls
<1>4. q(body) \in Request /\ RequestFits(q(body))
  BY <1>2 DEF Request, RequestFits
<1>5. q(body).op = "upload" /\ q(body).id = seen[c].id /\ q(body).body = body
  OBVIOUS
<1> HIDE DEF args, q
<1>6. pc'[c] = "uploaded" /\ call'[c] = args(body) /\ request'[c] = q(body)
  BY <1>1, <1>3, StartSets
<1>7. Knows(c)' /\ Expects(c)'
  BY <1>2, <1>3, <1>5, <1>6 DEF Knows, Targeted, Expects
<1>8. QED
  BY <1>1, <1>3, <1>4, <1>7, StartingKeepsInv

\* Documents.Update.
LEMMA UpdateDocumentKeepsInv ==
    ASSUME IInv, NEW c \in Clients, UpdateDocument(c)
    PROVE  IInv'
<1> DEFINE args(parent, name) ==
              [Asked("updateDocument") EXCEPT !.id = seen[c].id, !.parent = parent, !.name = name]
           q(parent, name) == [op |-> "updateDocument", id |-> seen[c].id,
                               parent |-> parent, name |-> name]
<1>1. PICK parent \in {None, place[c]}, name \in Names \cup {None} :
        /\ seen[c] # None /\ Start(c, "updateDocument", args(parent, name), "updated")
        /\ Ask(c, q(parent, name))
  BY DEF UpdateDocument
<1>2. seen[c].id \in Nat /\ parent \in Nat \cup {None} /\ name \in AllNames \cup {None}
  <2>1. place[c] \in Nat
    BY DEF IInv, ClientTypes
  <2>2. seen[c].id \in Nat
    BY <1>1, SeenIsTrue
  <2>3. QED
    BY <2>1, <2>2, SeedAssumption DEF SeedAssumption
<1>3. args(parent, name) \in Call /\ args(parent, name).op = "updateDocument"
      /\ args(parent, name).id = seen[c].id
  BY <1>2 DEF Asked, Call, Calls
<1>4. q(parent, name) \in Request /\ RequestFits(q(parent, name))
  BY <1>2 DEF Request, RequestFits
<1> HIDE DEF args, q
<1>5. pc'[c] = "updated" /\ call'[c] = args(parent, name) /\ request'[c] = q(parent, name)
  BY <1>1, <1>3, StartSets
<1>6. Knows(c)' /\ Expects(c)'
  BY <1>2, <1>3, <1>5 DEF Knows, Targeted, Expects
<1>7. QED
  BY <1>1, <1>3, <1>4, <1>6, StartingKeepsInv

\* Folders.Update.
LEMMA UpdateFolderKeepsInv ==
    ASSUME IInv, NEW c \in Clients, UpdateFolder(c)
    PROVE  IInv'
<1> DEFINE args(parent, name) ==
              [Asked("updateFolder") EXCEPT !.id = place[c], !.parent = parent, !.name = name]
           q(parent, name) == [op |-> "updateFolder", id |-> place[c],
                               parent |-> parent, name |-> name]
<1>1. PICK parent \in MoveTargets \cup {None}, name \in Names \cup {None} :
        Start(c, "updateFolder", args(parent, name), "updated") /\ Ask(c, q(parent, name))
  BY DEF UpdateFolder
<1>2. place[c] \in Nat /\ parent \in Nat \cup {None} /\ name \in AllNames \cup {None}
  BY SeedAssumption, SafeWritesAssumption
  DEF SeedAssumption, SafeWritesAssumption, IInv, ClientTypes
<1>3. args(parent, name) \in Call /\ args(parent, name).op = "updateFolder"
      /\ args(parent, name).id = place[c]
  BY <1>2 DEF Asked, Call, Calls
<1>4. q(parent, name) \in Request /\ RequestFits(q(parent, name))
  BY <1>2 DEF Request, RequestFits
<1> HIDE DEF args, q
<1>5. pc'[c] = "updated" /\ call'[c] = args(parent, name) /\ request'[c] = q(parent, name)
  BY <1>1, <1>3, StartSets
<1>6. Knows(c)' /\ Expects(c)'
  BY <1>2, <1>3, <1>5 DEF Knows, Targeted, Expects
<1>7. QED
  BY <1>1, <1>3, <1>4, <1>6, StartingKeepsInv

\* Documents.Delete.
LEMMA DeleteKeepsInv ==
    ASSUME IInv, NEW c \in Clients, Delete(c)
    PROVE  IInv'
<1> DEFINE args == [Asked("delete") EXCEPT !.id = seen[c].id]
           q == [op |-> "deleteDocument", id |-> seen[c].id,
                 target |-> seen[c].revision, seen |-> seen[c].body]
<1>1. seen[c] # None /\ Start(c, "delete", args, "deleted") /\ Ask(c, q)
  BY DEF Delete
<1>2. /\ seen[c].id \in Nat /\ seen[c].revision \in Nat /\ seen[c].body \in Bodies
      /\ <<seen[c].id, seen[c].revision, seen[c].body>> \in versions /\ DocumentOnce(seen[c].id)
  BY <1>1, SeenIsTrue
<1>3. args \in Call /\ args.op = "delete" /\ args.id = seen[c].id
  BY <1>2 DEF Asked, Call, Calls
<1>4. q \in Request /\ RequestFits(q)
  BY <1>2, SeedAssumption DEF Request, RequestFits, SeedAssumption
<1> HIDE DEF args, q
<1>5. pc'[c] = "deleted" /\ call'[c] = args /\ request'[c] = q
  BY <1>1, <1>3, StartSets
<1>6. UNCHANGED <<nextID, folders>>
  BY <1>1 DEF Start, store
<1>7. Knows(c)' /\ Expects(c)'
  BY <1>2, <1>3, <1>5, <1>6 DEF Knows, Targeted, Expects, DocumentOnce
<1>8. QED
  BY <1>1, <1>3, <1>4, <1>7, StartingKeepsInv

\* Folders.DeleteEmpty.
LEMMA DeleteEmptyKeepsInv ==
    ASSUME IInv, NEW c \in Clients, DeleteEmpty(c)
    PROVE  IInv'
<1> DEFINE args == [Asked("deleteEmpty") EXCEPT !.id = place[c]]
           q == [op |-> "getFolder", id |-> place[c]]
<1>1. Start(c, "deleteEmpty", args, "isFolder") /\ Ask(c, q)
  BY DEF DeleteEmpty
<1>2. place[c] \in Nat
  BY DEF IInv, ClientTypes
<1>3. args \in Call /\ args.op = "deleteEmpty" /\ args.id = place[c]
  BY <1>2 DEF Asked, Call, Calls
<1>4. q \in Request /\ RequestFits(q) /\ q.op = "getFolder" /\ q.id = place[c]
  BY <1>2 DEF Request, RequestFits
<1> HIDE DEF args, q
<1>5. pc'[c] = "isFolder" /\ call'[c] = args /\ request'[c] = q
  BY <1>1, <1>3, StartSets
<1>6. Knows(c)' /\ Expects(c)'
  BY <1>2, <1>3, <1>4, <1>5 DEF Knows, Targeted, Expects
<1>7. QED
  BY <1>1, <1>3, <1>4, <1>6, StartingKeepsInv

-----------------------------------------------------------------------------
(* Going on with a call.                                                   *)

\* The next request, and the step that waits for its answer.
LEMMA ContinueSets ==
    ASSUME IInv, NEW c \in Clients, NEW args, NEW step, NEW q, Continue(c, q, args, step)
    PROVE  pc'[c] = step /\ call'[c] = args /\ request'[c] = q
<1>1. c \in Channels /\ c \in DOMAIN request /\ c \in DOMAIN pc /\ c \in DOMAIN call
  BY DEF Channels, IInv, DeviceInv, ChannelTypes, ClientTypes
<1>2. QED
  BY <1>1 DEF Continue, Ask

\* Going on with a request that fits keeps everything in order.
LEMMA ContinuingKeepsInv ==
    ASSUME IInv, NEW c \in Clients, NEW args \in Call, NEW step, NEW q \in Request,
           Continue(c, q, args, step), step # "idle", RequestFits(q), Knows(c)', Expects(c)'
    PROVE  IInv'
<1>1. args # None /\ q # None /\ c \in Channels
  BY SeedAssumption, SafeWritesAssumption
  DEF SeedAssumption, SafeWritesAssumption, Channels
<1>2. UNCHANGED <<nextID, folders, documents, contents, versions, destroyed,
                  calls, seen, place, outcome, failures, deleted, published>>
  BY DEF Continue, store, history
<1>3. /\ pc'[c] = step /\ call'[c] = args /\ request'[c] = q /\ reply'[c] = None
      /\ \A k \in Channels \ {c} : request'[k] = request[k]
      /\ \A d \in Clients \ {c} : reply'[d] = reply[d] /\ pc'[d] = pc[d] /\ call'[d] = call[d]
  BY <1>1 DEF Continue, Ask, IInv, DeviceInv, ChannelTypes, ClientTypes
<1>4. ChannelTypes'
  BY <1>1 DEF Continue, Ask, IInv, DeviceInv, ChannelTypes
<1>5. ClientTypes'
  BY <1>2 DEF Continue, IInv, ClientTypes
<1>6. \A j \in Channels : RequestOK(j)'
  BY <1>2, <1>3 DEF IInv, DeviceInv, RequestOK, RequestFits
<1>7. Keeps(c)'
  BY <1>2 DEF IInv, ClientInv, Keeps, TrueMetadata, DocumentOnce, OwnEntry
<1>8. Waiting(c)' /\ Hears(c)'
  BY <1>1, <1>3 DEF Waiting, Hears
<1>9. ClientInv(c)'
  BY <1>7, <1>8 DEF ClientInv
<1>10. UNCHANGED <<store, history>> /\ ReportsAreTrue'
  BY <1>2 DEF store, history, IInv, ReportsAreTrue, Ids
<1>11. \A d \in Clients \ {c} :
          /\ request'[d] = request[d] /\ reply'[d] = reply[d] /\ pc'[d] = pc[d]
          /\ call'[d] = call[d] /\ calls'[d] = calls[d] /\ seen'[d] = seen[d]
          /\ outcome'[d] = outcome[d]
  BY <1>2, <1>3 DEF Channels
<1>12. QED
  BY <1>4, <1>5, <1>6, <1>9, <1>10, <1>11, OneClientMoves

-----------------------------------------------------------------------------
(* Ending a call.                                                          *)

\* Ending a call keeps everything in order, if what it leaves is true.
LEMMA EndingKeepsInv ==
    ASSUME IInv, NEW c \in Clients, NEW result, End(c, result), reply[c] # None,
           result.names # None => OwnEntry(c, result.names),
           seen' = [d \in Clients |-> seen'[d]], place' \in [Clients -> Nat],
           \A d \in Clients \ {c} : seen'[d] = seen[d],
           seen'[c] # None => TrueMetadata(seen'[c]), ReportsAreTrue'
    PROVE  IInv'
<1>1. UNCHANGED <<nextID, folders, documents, contents, versions, destroyed, request, calls>>
  BY DEF End, store, history
<1>2. c \in Channels /\ request[c] = None
  BY DEF Channels, IInv, ClientInv, Waiting
<1>3. /\ pc'[c] = "idle" /\ call'[c] = None /\ reply'[c] = None /\ outcome'[c] = result
      /\ \A d \in Clients \ {c} : /\ reply'[d] = reply[d] /\ pc'[d] = pc[d] /\ call'[d] = call[d]
                                  /\ outcome'[d] = outcome[d]
  BY DEF End, IInv, DeviceInv, ChannelTypes, ClientTypes
<1>4. ChannelTypes'
  BY <1>1 DEF End, IInv, DeviceInv, ChannelTypes
<1>5. ClientTypes'
  BY <1>1 DEF End, IInv, ClientTypes
<1>6. \A j \in Channels : RequestOK(j)'
  BY <1>1 DEF IInv, DeviceInv, RequestOK, RequestFits
<1>7. Keeps(c)'
  BY <1>1, <1>3 DEF Keeps, TrueMetadata, DocumentOnce, OwnEntry
<1>8. Waiting(c)' /\ Hears(c)' /\ Expects(c)' /\ Knows(c)'
  BY <1>1, <1>2, <1>3 DEF Waiting, Hears, Expects, Knows, Targeted
<1>9. ClientInv(c)'
  BY <1>7, <1>8 DEF ClientInv
<1>10. UNCHANGED <<store, history>>
  BY <1>1 DEF store, history
<1>11. \A d \in Clients \ {c} :
          /\ request'[d] = request[d] /\ reply'[d] = reply[d] /\ pc'[d] = pc[d]
          /\ call'[d] = call[d] /\ calls'[d] = calls[d] /\ seen'[d] = seen[d]
          /\ outcome'[d] = outcome[d]
  BY <1>1, <1>3
<1>12. QED
  BY <1>4, <1>5, <1>6, <1>9, <1>10, <1>11, OneClientMoves

\* So does ending it with nothing new learned or reported.
LEMMA FailingKeepsInv ==
    ASSUME IInv, NEW c \in Clients, NEW result, Fail(c, result), reply[c] # None,
           result.names # None => OwnEntry(c, result.names)
    PROVE  IInv'
<1>1. End(c, result) /\ UNCHANGED <<seen, place, deleted, published>>
  BY DEF Fail, Learned, Reported
<1>2. UNCHANGED <<nextID, folders, documents, versions>>
  BY <1>1 DEF End, store, history
<1>3. /\ seen' = [d \in Clients |-> seen'[d]] /\ place' \in [Clients -> Nat]
      /\ \A d \in Clients \ {c} : seen'[d] = seen[d]
  BY <1>1 DEF IInv, ClientTypes
<1>4. seen'[c] # None => TrueMetadata(seen'[c])
  BY <1>1 DEF IInv, ClientInv, Keeps
<1>5. ReportsAreTrue'
  BY <1>1, <1>2 DEF IInv, ReportsAreTrue, Ids
<1>6. QED
  BY <1>1, <1>3, <1>4, <1>5, EndingKeepsInv

\* What an operation tells its caller, an entry of its own apart.
LEMMA PlainResults ==
    /\ \A op : Succeeded(op).names = None
    /\ \A op, error : Failed(op, error).names = None
    /\ \A op, id : Partial(op, id).names = id
  BY DEF Succeeded, Failed, Partial

-----------------------------------------------------------------------------
(* The steps of a call.                                                    *)

LEMMA HeardFacts ==
    ASSUME IInv, NEW c \in Clients, NEW step, step # "idle", Heard(c, step)
    PROVE  /\ pc[c] = step /\ reply[c] # None /\ call[c] \in Call
           /\ Knows(c) /\ Hears(c) /\ Keeps(c)
  BY DEF Heard, IInv, ClientInv, Waiting, ClientTypes

\* A failure that names no entry keeps everything in order.
LEMMA PlainFailure ==
    ASSUME IInv, NEW c \in Clients, reply[c] # None, NEW op, NEW error,
           Fail(c, Failed(op, error)) \/ Fail(c, Succeeded(op))
    PROVE  IInv'
<1>1. CASE Fail(c, Failed(op, error))
  BY <1>1, PlainResults, FailingKeepsInv
<1>2. CASE Fail(c, Succeeded(op))
  BY <1>2, PlainResults, FailingKeepsInv
<1>3. QED
  BY <1>1, <1>2

\* A partial failure names an entry of the call's own.
LEMMA PartialFailure ==
    ASSUME IInv, NEW c \in Clients, reply[c] # None, NEW op, NEW id, OwnEntry(c, id),
           Fail(c, Partial(op, id))
    PROVE  IInv'
  BY PlainResults, FailingKeepsInv

\* The answer to Documents.Resolve.
LEMMA ResolvedKeepsInv ==
    ASSUME IInv, NEW c \in Clients, Resolved(c)
    PROVE  IInv'
<1> DEFINE r == reply[c]
<1>1. pc[c] = "resolve" /\ r # None /\ Hears(c) /\ Keeps(c)
  BY HeardFacts DEF Resolved
<1>2. CASE ~Ok(r)
  BY <1>1, <1>2, PlainFailure DEF Resolved
<1>3. CASE Ok(r)
  <2>1. /\ End(c, Succeeded("resolve"))
        /\ seen' = [seen EXCEPT ![c] = IF r.type = "document" THEN r ELSE @]
        /\ place' = [place EXCEPT ![c] = IF r.type = "folder" THEN r.id ELSE @]
        /\ UNCHANGED <<deleted, published>>
    BY <1>3 DEF Resolved, Reported
  <2>2. (r.type = "document" /\ TrueMetadata(r)) \/ (r.type = "folder" /\ r.id \in Nat)
    BY <1>1, <1>3 DEF Hears
  <2>3. UNCHANGED <<nextID, folders, documents, versions>>
    BY <2>1 DEF End, store, history
  <2>4. /\ seen' = [d \in Clients |-> seen'[d]] /\ place' \in [Clients -> Nat]
        /\ \A d \in Clients \ {c} : seen'[d] = seen[d]
        /\ seen'[c] = IF r.type = "document" THEN r ELSE seen[c]
    BY <2>1, <2>2 DEF IInv, ClientTypes
  <2>5. seen'[c] # None => TrueMetadata(seen'[c])
    BY <1>1, <2>2, <2>4 DEF Keeps
  <2>6. ReportsAreTrue'
    BY <2>1, <2>3 DEF IInv, ReportsAreTrue, Ids
  <2>7. QED
    BY <1>1, <2>1, <2>4, <2>5, <2>6, PlainResults, EndingKeepsInv
<1>4. QED
  BY <1>2, <1>3

\* The answer to a creating request.
LEMMA LookAtCreatedKeepsInv ==
    ASSUME IInv, NEW c \in Clients, LookAtCreated(c)
    PROVE  IInv'
<1> DEFINE r == reply[c]
           a == call[c]
           args == [a EXCEPT !.id = r.id]
           q == [op |-> IF a.op = "createFolder" THEN "getFolder" ELSE "getDocument", id |-> r.id]
<1>1. pc[c] = "created" /\ r # None /\ a \in Call /\ Knows(c) /\ Hears(c)
  BY HeardFacts DEF LookAtCreated
<1>2. CASE ~Ok(r)
  BY <1>1, <1>2, PlainFailure DEF LookAtCreated
<1>3. CASE Ok(r)
  <2>1. Continue(c, q, args, "verifyCreated")
    BY <1>3 DEF LookAtCreated
  <2>2. OwnEntry(c, r.id) /\ r.id \in Nat
    BY <1>1, <1>3 DEF Hears, OwnEntry
  <2>3. args \in Call /\ args.id = r.id /\ args.op = a.op /\ args.body = a.body
    BY <1>1, <2>2 DEF Call
  <2>4. q \in Request /\ RequestFits(q)
    BY <2>2 DEF Request, RequestFits
  <2>5. a.op \in {"put", "replace"} => a.body \in Contents
    BY <1>1 DEF Knows, Targeted
  <2> HIDE DEF args, q
  <2>6. pc'[c] = "verifyCreated" /\ call'[c] = args /\ request'[c] = q
    BY <2>1, ContinueSets
  <2>7. UNCHANGED <<nextID, documents, calls>>
    BY <2>1 DEF Continue, store
  <2>8. Knows(c)' /\ Expects(c)'
    BY <2>2, <2>3, <2>5, <2>6, <2>7 DEF Knows, Targeted, Expects, OwnEntry
  <2>9. QED
    BY <2>1, <2>3, <2>4, <2>8, ContinuingKeepsInv
<1>4. QED
  BY <1>2, <1>3

\* CreateMetadata's look, and the upload of a put.
LEMMA VerifyCreatedKeepsInv ==
    ASSUME IInv, NEW c \in Clients, VerifyCreated(c)
    PROVE  IInv'
<1> DEFINE a == call[c]
           q == [op |-> "upload", id |-> a.id, body |-> a.body, target |-> None, seen |-> None]
<1>1. pc[c] = "verifyCreated" /\ reply[c] # None /\ a \in Call /\ Knows(c)
  BY HeardFacts DEF VerifyCreated
<1>2. OwnEntry(c, a.id) /\ a.id \in Nat /\ (a.op \in {"put", "replace"} => a.body \in Contents)
  BY <1>1 DEF Knows, Targeted
<1>3. CASE Fail(c, Partial(a.op, a.id)) \/ Fail(c, Succeeded(a.op))
  BY <1>1, <1>2, <1>3, PlainFailure, PartialFailure
<1>4. CASE a.op = "put" /\ Continue(c, q, a, "uploaded")
  <2>1. q \in Request /\ RequestFits(q) /\ q.op = "upload" /\ q.id = a.id /\ q.body = a.body
    BY <1>2, <1>4 DEF Request, RequestFits
  <2> HIDE DEF q
  <2>2. pc'[c] = "uploaded" /\ call'[c] = a /\ request'[c] = q
    BY <1>4, ContinueSets
  <2>3. UNCHANGED <<nextID, documents, calls>>
    BY <1>4 DEF Continue, store
  <2>4. Knows(c)' /\ Expects(c)'
    BY <1>2, <1>4, <2>1, <2>2, <2>3 DEF Knows, Targeted, Expects, OwnEntry
  <2>5. QED
    BY <1>1, <1>4, <2>1, <2>4, ContinuingKeepsInv
<1>5. QED
  BY <1>3, <1>4 DEF VerifyCreated

\* A failed upload: a put names the entry it made.
LEMMA UploadFailure ==
    ASSUME IInv, NEW c \in Clients, reply[c] # None, Knows(c),
           pc[c] \in {"uploaded", "verifyUploaded"}, NEW error,
           Fail(c, UploadError(call[c], error))
    PROVE  IInv'
<1>1. CASE call[c].op = "put"
  <2>1. OwnEntry(c, call[c].id)
    BY <1>1 DEF Knows, Targeted
  <2>2. QED
    BY <1>1, <2>1, PartialFailure DEF UploadError
<1>2. CASE call[c].op # "put"
  BY <1>2, PlainFailure DEF UploadError
<1>3. QED
  BY <1>1, <1>2

\* The answer to an upload.
LEMMA LookAtUploadedKeepsInv ==
    ASSUME IInv, NEW c \in Clients, LookAtUploaded(c)
    PROVE  IInv'
<1> DEFINE r == reply[c]
           a == call[c]
           args == [a EXCEPT !.revision = r.revision]
           q == [op |-> "getDocument", id |-> a.id]
<1>1. pc[c] = "uploaded" /\ r # None /\ a \in Call /\ Knows(c) /\ Hears(c)
  BY HeardFacts DEF LookAtUploaded
<1>2. CASE \E error : Fail(c, UploadError(a, error))
  BY <1>1, <1>2, UploadFailure
<1>3. CASE Ok(r) /\ Continue(c, q, args, "verifyUploaded")
  <2>1. r.revision \in Nat /\ <<a.id, r.revision, a.body>> \in versions
    BY <1>1, <1>3 DEF Hears
  <2>2. /\ a.id \in Nat /\ a.op \in {"put", "replace"} /\ a.body \in Contents
        /\ a.op = "put" => OwnEntry(c, a.id)
    BY <1>1 DEF Knows, Targeted
  <2>3. /\ args \in Call /\ args.revision = r.revision /\ args.id = a.id /\ args.op = a.op
        /\ args.body = a.body
    BY <1>1, <2>1 DEF Call
  <2>4. q \in Request /\ RequestFits(q)
    BY <2>2 DEF Request, RequestFits
  <2> HIDE DEF args, q
  <2>5. pc'[c] = "verifyUploaded" /\ call'[c] = args /\ request'[c] = q
    BY <1>3, ContinueSets
  <2>6. UNCHANGED <<nextID, documents, calls, versions>>
    BY <1>3 DEF Continue, store, history
  <2>7. Knows(c)' /\ Expects(c)'
    BY <2>1, <2>2, <2>3, <2>5, <2>6 DEF Knows, Targeted, Expects, OwnEntry
  <2>8. QED
    BY <1>3, <2>3, <2>4, <2>7, ContinuingKeepsInv
<1>4. QED
  BY <1>2, <1>3 DEF LookAtUploaded

\* The look after an upload: success reports what the device once held.
LEMMA VerifyUploadedKeepsInv ==
    ASSUME IInv, NEW c \in Clients, VerifyUploaded(c)
    PROVE  IInv'
<1> DEFINE r == reply[c]
           a == call[c]
<1>1. pc[c] = "verifyUploaded" /\ r # None /\ Knows(c) /\ Keeps(c)
  BY HeardFacts DEF VerifyUploaded
<1>2. CASE \E error : Fail(c, UploadError(a, error))
  BY <1>1, <1>2, UploadFailure
<1>3. CASE /\ StillThere(a, r) /\ End(c, Succeeded(a.op))
           /\ published' = published \cup {<<a.id, r.revision, a.body>>}
           /\ UNCHANGED <<Learned, deleted>>
  <2>1. UNCHANGED <<nextID, folders, documents, versions, seen, place, deleted>>
    BY <1>3 DEF End, store, history, Learned
  <2>2. <<a.id, r.revision, a.body>> \in versions
    BY <1>1, <1>3 DEF Knows, Targeted, StillThere
  <2>3. ReportsAreTrue'
    BY <1>3, <2>1, <2>2 DEF IInv, ReportsAreTrue, Ids
  <2>4. /\ seen' = [d \in Clients |-> seen'[d]] /\ place' \in [Clients -> Nat]
        /\ \A d \in Clients \ {c} : seen'[d] = seen[d]
        /\ seen'[c] # None => TrueMetadata(seen'[c])
    BY <1>1, <2>1 DEF IInv, ClientTypes, Keeps
  <2>5. QED
    BY <1>1, <1>3, <2>3, <2>4, PlainResults, EndingKeepsInv
<1>4. QED
  BY <1>2, <1>3 DEF VerifyUploaded

\* The answer to an update.
LEMMA LookAtUpdatedKeepsInv ==
    ASSUME IInv, NEW c \in Clients, LookAtUpdated(c)
    PROVE  IInv'
<1> DEFINE a == call[c]
           q == [op |-> IF a.op = "updateFolder" THEN "getFolder" ELSE "getDocument", id |-> a.id]
<1>1. pc[c] = "updated" /\ reply[c] # None /\ a \in Call /\ Knows(c)
  BY HeardFacts DEF LookAtUpdated
<1>2. CASE \E error : Fail(c, Failed(a.op, error))
  BY <1>1, <1>2, PlainFailure
<1>3. CASE Continue(c, q, a, "verifyUpdated")
  <2>1. a.id \in Nat /\ (a.op \in {"put", "replace"} => a.body \in Contents)
    BY <1>1 DEF Knows, Targeted
  <2>2. q \in Request /\ RequestFits(q)
    BY <2>1 DEF Request, RequestFits
  <2> HIDE DEF q
  <2>3. pc'[c] = "verifyUpdated" /\ call'[c] = a /\ request'[c] = q
    BY <1>3, ContinueSets
  <2>4. Knows(c)' /\ Expects(c)'
    BY <2>1, <2>3 DEF Knows, Targeted, Expects
  <2>5. QED
    BY <1>1, <1>3, <2>2, <2>4, ContinuingKeepsInv
<1>4. QED
  BY <1>2, <1>3 DEF LookAtUpdated

\* The look after an update.
LEMMA VerifyUpdatedKeepsInv ==
    ASSUME IInv, NEW c \in Clients, VerifyUpdated(c)
    PROVE  IInv'
<1>1. reply[c] # None
  BY HeardFacts DEF VerifyUpdated
<1>2. QED
  BY <1>1, PlainFailure DEF VerifyUpdated

\* DeleteEmpty goes on to list a folder only.
LEMMA ListBeforeDeleteKeepsInv ==
    ASSUME IInv, NEW c \in Clients, ListBeforeDelete(c)
    PROVE  IInv'
<1> DEFINE r == reply[c]
           a == call[c]
           q == [op |-> "list", id |-> a.id]
<1>1. pc[c] = "isFolder" /\ r # None /\ a \in Call /\ Knows(c) /\ Hears(c)
  BY HeardFacts DEF ListBeforeDelete
<1>2. CASE \E error : Fail(c, Failed(a.op, error))
  BY <1>1, <1>2, PlainFailure
<1>3. CASE Ok(r) /\ Continue(c, q, a, "listed")
  <2>1. a.id \in Nat /\ a.op = "deleteEmpty" /\ FolderOnce(a.id)
    BY <1>1, <1>3 DEF Knows, Targeted, Hears
  <2>2. q \in Request /\ RequestFits(q)
    BY <2>1 DEF Request, RequestFits
  <2> HIDE DEF q
  <2>3. pc'[c] = "listed" /\ call'[c] = a /\ request'[c] = q
    BY <1>3, ContinueSets
  <2>4. UNCHANGED <<nextID, documents>>
    BY <1>3 DEF Continue, store
  <2>5. Knows(c)' /\ Expects(c)'
    BY <2>1, <2>3, <2>4 DEF Knows, Targeted, Expects, FolderOnce
  <2>6. QED
    BY <1>1, <1>3, <2>2, <2>5, ContinuingKeepsInv
<1>4. QED
  BY <1>2, <1>3 DEF ListBeforeDelete

\* It asks for a deletion that is not forced.
LEMMA DeleteIfEmptyKeepsInv ==
    ASSUME IInv, NEW c \in Clients, DeleteIfEmpty(c)
    PROVE  IInv'
<1> DEFINE a == call[c]
           q == [op |-> "deleteFolder", id |-> a.id, force |-> "false"]
<1>1. pc[c] = "listed" /\ reply[c] # None /\ a \in Call /\ Knows(c)
  BY HeardFacts DEF DeleteIfEmpty
<1>2. CASE \E error : Fail(c, Failed(a.op, error))
  BY <1>1, <1>2, PlainFailure
<1>3. CASE Continue(c, q, a, "deleted")
  <2>1. a.id \in Nat /\ a.op = "deleteEmpty" /\ FolderOnce(a.id)
    BY <1>1 DEF Knows, Targeted
  <2>2. q \in Request /\ RequestFits(q)
    BY <2>1 DEF Request, RequestFits
  <2> HIDE DEF q
  <2>3. pc'[c] = "deleted" /\ call'[c] = a /\ request'[c] = q
    BY <1>3, ContinueSets
  <2>4. UNCHANGED <<nextID, documents>>
    BY <1>3 DEF Continue, store
  <2>5. Knows(c)' /\ Expects(c)'
    BY <2>1, <2>3, <2>4 DEF Knows, Targeted, Expects, FolderOnce
  <2>6. QED
    BY <1>1, <1>3, <2>2, <2>5, ContinuingKeepsInv
<1>4. QED
  BY <1>2, <1>3 DEF DeleteIfEmpty

\* A deletion that was confirmed is looked for.
LEMMA LookForDeletedKeepsInv ==
    ASSUME IInv, NEW c \in Clients, LookForDeleted(c)
    PROVE  IInv'
<1> DEFINE a == call[c]
           q == [op |-> IF a.op = "delete" THEN "getDocument" ELSE "getFolder", id |-> a.id]
<1>1. pc[c] = "deleted" /\ reply[c] # None /\ a \in Call /\ Knows(c)
  BY HeardFacts DEF LookForDeleted
<1>2. CASE \E error : Fail(c, Failed(a.op, error))
  BY <1>1, <1>2, PlainFailure
<1>3. CASE Continue(c, q, a, "verifyDeleted")
  <2>1. /\ a.id \in Nat /\ (a.op \in {"put", "replace"} => a.body \in Contents)
        /\ IF a.op = "delete" THEN DocumentOnce(a.id) ELSE FolderOnce(a.id)
    BY <1>1 DEF Knows, Targeted
  <2>2. /\ q \in Request /\ RequestFits(q) /\ q.id = a.id
        /\ q.op = IF a.op = "delete" THEN "getDocument" ELSE "getFolder"
    BY <2>1 DEF Request, RequestFits
  <2> HIDE DEF q
  <2>3. pc'[c] = "verifyDeleted" /\ call'[c] = a /\ request'[c] = q
    BY <1>3, ContinueSets
  <2>4. UNCHANGED <<nextID, folders, documents>>
    BY <1>3 DEF Continue, store
  <2>5. Knows(c)' /\ Expects(c)'
    BY <2>1, <2>2, <2>3, <2>4 DEF Knows, Targeted, Expects, DocumentOnce, FolderOnce
  <2>6. QED
    BY <1>1, <1>3, <2>2, <2>5, ContinuingKeepsInv
<1>4. QED
  BY <1>2, <1>3 DEF LookForDeleted

\* Only "not found" is reported as a deletion.
LEMMA VerifyDeletedKeepsInv ==
    ASSUME IInv, NEW c \in Clients, VerifyDeleted(c)
    PROVE  IInv'
<1> DEFINE r == reply[c]
           a == call[c]
<1>1. pc[c] = "verifyDeleted" /\ r # None /\ Knows(c) /\ Hears(c) /\ Keeps(c)
  BY HeardFacts DEF VerifyDeleted
<1>2. CASE \E error : Fail(c, Failed(a.op, error))
  BY <1>1, <1>2, PlainFailure
<1>3. CASE /\ ~Ok(r) /\ ErrorOf(r) = "not found" /\ End(c, Succeeded(a.op))
           /\ deleted' = deleted \cup {a.id}
           /\ UNCHANGED <<Learned, published>>
  <2>1. UNCHANGED <<nextID, folders, documents, versions, seen, place, published>>
    BY <1>3 DEF End, store, history, Learned
  <2>2. r.code = "40401"
    BY <1>3 DEF ErrorOf
  <2>3. a.id \in Nat /\ a.id < nextID /\ a.id \notin Ids
    BY <1>1, <1>3, <2>2 DEF Knows, Targeted, Hears, DocumentOnce, FolderOnce
  <2>4. ReportsAreTrue'
    BY <1>3, <2>1, <2>3 DEF IInv, ReportsAreTrue, Ids
  <2>5. /\ seen' = [d \in Clients |-> seen'[d]] /\ place' \in [Clients -> Nat]
        /\ \A d \in Clients \ {c} : seen'[d] = seen[d]
        /\ seen'[c] # None => TrueMetadata(seen'[c])
    BY <1>1, <2>1 DEF IInv, ClientTypes, Keeps
  <2>6. QED
    BY <1>1, <1>3, <2>4, <2>5, PlainResults, EndingKeepsInv
<1>4. QED
  BY <1>2, <1>3 DEF VerifyDeleted

-----------------------------------------------------------------------------
(* The network.                                                            *)

\* A client that is told that its exchange failed learns nothing.
LEMMA FailureKeepsInv ==
    ASSUME IInv, NEW c \in Clients, UNCHANGED <<store, history, clientVars>>, ChannelTypes',
           pc[c] # "idle", request'[c] = None, reply'[c] = Failure,
           \A d \in Clients \ {c} : request'[d] = request[d] /\ reply'[d] = reply[d],
           \A j \in Channels : RequestOK(j)'
    PROVE  IInv'
<1>1. UNCHANGED <<nextID, folders, documents, contents, versions, destroyed,
                  pc, call, calls, seen, place, outcome, deleted, published>>
  BY DEF store, history, clientVars
<1>2. Failure # None /\ ~Ok(Failure) /\ Failure.code # "40401"
  BY PlainReplies, SeedAssumption DEF SeedAssumption, Failure, Ok
<1>3. Waiting(c) /\ Knows(c) /\ Keeps(c)
  BY DEF IInv, ClientInv
<1>4. Waiting(c)' /\ Expects(c)' /\ Hears(c)'
  BY <1>1, <1>2, <1>3 DEF Waiting, Expects, Hears
<1>5. Knows(c)'
  BY <1>1, <1>3 DEF Knows, Targeted, DocumentOnce, FolderOnce, OwnEntry
<1>6. Keeps(c)'
  BY <1>1, <1>3 DEF Keeps, DocumentOnce, TrueMetadata, OwnEntry
<1>7. ClientTypes' /\ ReportsAreTrue'
  BY <1>1 DEF IInv, ClientTypes, ReportsAreTrue, Ids
<1>8. ClientInv(c)'
  BY <1>4, <1>5, <1>6 DEF ClientInv
<1>9. \A d \in Clients \ {c} :
          /\ request'[d] = request[d] /\ reply'[d] = reply[d] /\ pc'[d] = pc[d]
          /\ call'[d] = call[d] /\ calls'[d] = calls[d] /\ seen'[d] = seen[d]
          /\ outcome'[d] = outcome[d]
  BY <1>1
<1>10. QED
  BY <1>7, <1>8, <1>9, OneClientMoves

\* Whatever the network loses, everything stays in order.
LEMMA NetworkKeepsInv ==
    ASSUME IInv, NEW c \in Clients, Network(c)
    PROVE  IInv'
<1>1. c \in Channels /\ ChannelTypes /\ Waiting(c) /\ Failure \in Reply
  BY PlainReplies DEF Channels, IInv, DeviceInv, ClientInv
<1>2. versions' = versions
  BY DEF Network, LoseRequest, LoseReply, Abandon, history
<1>3. CASE LoseRequest(c)
  <2>1. pc[c] # "idle" /\ UNCHANGED <<store, history, clientVars>>
    BY <1>1, <1>3 DEF LoseRequest, Waiting
  <2>2. /\ request'[c] = None /\ \A j \in Channels \ {c} : request'[j] = request[j]
        /\ reply'[c] = Failure /\ \A d \in Clients \ {c} : reply'[d] = reply[d]
        /\ ChannelTypes'
    BY <1>1, <1>3, AnswerSends DEF LoseRequest
  <2>3. \A j \in Channels : RequestOK(j)'
    BY <1>2, <2>2 DEF IInv, DeviceInv, RequestOK, RequestFits
  <2>4. \A d \in Clients \ {c} : request'[d] = request[d]
    BY <2>2 DEF Channels
  <2>5. QED
    BY <2>1, <2>2, <2>3, <2>4, FailureKeepsInv
<1>4. CASE LoseReply(c)
  <2>1. pc[c] # "idle" /\ request[c] = None /\ UNCHANGED <<store, history, clientVars, request>>
    BY <1>1, <1>4 DEF LoseReply, Waiting
  <2>2. /\ reply'[c] = Failure /\ \A d \in Clients \ {c} : reply'[d] = reply[d] /\ ChannelTypes'
        /\ request'[c] = None
    BY <1>1, <1>4, <2>1 DEF LoseReply, ChannelTypes
  <2>3. ChannelTypes'
    BY <1>1, <1>4 DEF LoseReply, ChannelTypes
  <2>4. \A j \in Channels : RequestOK(j)'
    BY <1>2, <2>1 DEF IInv, DeviceInv, RequestOK, RequestFits
  <2>5. QED
    BY <2>1, <2>2, <2>3, <2>4, FailureKeepsInv
<1>5. CASE Abandon(c)
  <2>1. PICK s \in Strays : request' = [request EXCEPT ![c] = None, ![s] = request[c]]
    BY <1>5 DEF Abandon
  <2>2. s \in Channels /\ s \notin Clients /\ s # c
    BY SeedAssumption DEF SeedAssumption, Channels
  <2>3. pc[c] # "idle" /\ UNCHANGED <<store, history, clientVars>>
    BY <1>1, <1>5 DEF Abandon, Waiting
  <2>4. /\ request'[c] = None /\ request'[s] = request[c]
        /\ \A j \in Channels \ {c, s} : request'[j] = request[j]
        /\ request' \in [Channels -> Request \cup {None}]
    BY <1>1, <2>1, <2>2 DEF ChannelTypes
  <2>5. /\ reply'[c] = Failure /\ \A d \in Clients \ {c} : reply'[d] = reply[d]
        /\ reply' \in [Clients -> Reply \cup {None}]
    BY <1>1, <1>5 DEF Abandon, ChannelTypes
  <2>6. \A j \in Channels : RequestOK(j)'
    BY <1>1, <1>2, <2>2, <2>4 DEF IInv, DeviceInv, RequestOK, RequestFits
  <2>7. \A d \in Clients \ {c} : request'[d] = request[d]
    BY <2>2, <2>4 DEF Channels
  <2>8. ChannelTypes'
    BY <2>4, <2>5 DEF ChannelTypes
  <2>9. QED
    BY <2>3, <2>4, <2>5, <2>6, <2>7, <2>8, FailureKeepsInv
<1>6. QED
  BY <1>3, <1>4, <1>5 DEF Network

-----------------------------------------------------------------------------
(* The device.                                                             *)

\* What an answer to a request tells its sender about the device.
Says(q, r) ==
    /\ q.op = "resolve" /\ Ok(r) =>
          (r.type = "document" /\ TrueMetadata(r)) \/ (r.type = "folder" /\ r.id \in Nat)
    /\ q.op \in {"createFolder", "createDocument", "copy"} /\ Ok(r) =>
          /\ r.id \in Nat /\ r.id < nextID
          /\ r.id \in DOMAIN documents => q.op # "createFolder" /\ documents[r.id].maker = q.tag
    /\ q.op = "upload" /\ Ok(r) => r.revision \in Nat /\ <<q.id, r.revision, q.body>> \in versions
    /\ q.op = "getFolder" /\ Ok(r) => r.id = q.id /\ FolderOnce(q.id)
    /\ q.op = "getDocument" /\ ~Ok(r) /\ r.code = "40401" => q.id \notin DOMAIN documents
    /\ q.op = "getFolder" /\ ~Ok(r) /\ r.code = "40401" => q.id \notin DOMAIN folders

\* A refused request is answered, and one that was to change something learns
\* nothing.
LEMMA RefusedTruthfully ==
    ASSUME NEW k \in Channels, NEW q, q.op \notin {"getDocument", "getFolder"},
           NEW code \in Codes, Refuse(k, code)
    PROVE  \E r \in Reply : Answer(k, r) /\ Says(q, r)'
<1>1. Answer(k, Refusal(code)) /\ Refusal(code) \in Reply /\ ~Ok(Refusal(code))
  BY PlainReplies DEF Refuse, Refusal, Ok
<1>2. Says(q, Refusal(code))'
  BY <1>1 DEF Says
<1>3. QED
  BY <1>1, <1>2

\* A confirmation that carries no data says nothing to those who create,
\* upload or look up.
LEMMA ConfirmedTruthfully ==
    ASSUME NEW k \in Channels, NEW q, NEW r \in Reply, Answer(k, r),
           q.op \in {"updateDocument", "updateFolder", "deleteDocument", "deleteFolder",
                     "download", "open", "listFolders"}
    PROVE  \E s \in Reply : Answer(k, s) /\ Says(q, s)'
<1>1. Says(q, r)'
  BY DEF Says
<1>2. QED
  BY <1>1

LEMMA CreatedTruthfully ==
    ASSUME DeviceInv, NEW k \in Channels, request[k] # None, NEW q, q = request[k],
           createFolder(k) \/ createDocument(k) \/ copyDocument(k)
    PROVE  \E r \in Reply : Answer(k, r) /\ Says(q, r)'
<1> DEFINE n == nextID
<1>1. q.op \in {"createFolder", "createDocument", "copy"}
  BY DEF createFolder, createDocument, copyDocument
<1>2. n \in Nat /\ n \notin DOMAIN documents
  BY DEF DeviceInv, StoreTypes, Ids
<1>3. CASE \E code \in {"40012", "40007", "40401"} : Refuse(k, code)
  BY <1>1, <1>3, RefusedTruthfully DEF Codes
<1>4. CASE /\ q.op = "createFolder" /\ nextID' = n + 1 /\ Answer(k, Created(n))
           /\ documents' = documents
  <2>1. PICK r \in Reply : r = Created(n) /\ r.id = n
    BY <1>2, PlainReplies DEF Created
  <2>2. Says(q, r)'
    BY <1>2, <1>4, <2>1 DEF Says
  <2>3. QED
    BY <1>4, <2>1, <2>2
<1>5. ASSUME NEW document, NEW body, document.maker = q.tag, AddDocument(document, body),
             q.op \in {"createDocument", "copy"}, Answer(k, Created(n))
      PROVE  \E r \in Reply : Answer(k, r) /\ Says(q, r)'
  <2>1. PICK r \in Reply : r = Created(n) /\ r.id = n
    BY <1>2, PlainReplies DEF Created
  <2>2. nextID' = n + 1 /\ documents'[n].maker = q.tag
    BY <1>5 DEF AddDocument, FreshID
  <2>3. Says(q, r)'
    BY <1>2, <1>5, <2>1, <2>2 DEF Says
  <2>4. QED
    BY <1>5, <2>1, <2>3
<1>6. CASE createFolder(k)
  BY <1>3, <1>4, <1>6 DEF createFolder, FreshID
<1>7. CASE createDocument(k)
  <2> DEFINE document == Document(q.parent, q.name, Append(PathOf(q.parent), q.name), 0, 0, q.tag)
  <2>1. document.maker = q.tag
    BY DEF Document
  <2>2. \/ \E code \in {"40012", "40007"} : Refuse(k, code)
        \/ q.op = "createDocument" /\ AddDocument(document, Blank) /\ Answer(k, Created(n))
    BY <1>7 DEF createDocument, FreshID
  <2> HIDE DEF document
  <2>3. QED
    BY <1>3, <1>5, <2>1, <2>2
<1>8. CASE copyDocument(k)
  <2> DEFINE source == documents[q.id]
             name == IF q.name = None THEN source.name ELSE q.name
             document == Document(q.parent, name, Append(PathOf(q.parent), name), source.size,
                                  source.revision, q.tag)
  <2>1. document.maker = q.tag
    BY DEF Document
  <2>2. \/ \E code \in {"40012", "40007", "40401"} : Refuse(k, code)
        \/ q.op = "copy" /\ AddDocument(document, contents[q.id]) /\ Answer(k, Created(n))
    BY <1>8 DEF copyDocument, FreshID
  <2> HIDE DEF document
  <2>3. QED
    BY <1>3, <1>5, <2>1, <2>2
<1>9. QED
  BY <1>6, <1>7, <1>8

\* A new revision is answered with its number.
LEMMA UploadedTruthfully ==
    ASSUME DeviceInv, NEW k \in Channels, request[k] # None, NEW q, q = request[k],
           uploadDocument(k)
    PROVE  \E r \in Reply : Answer(k, r) /\ Says(q, r)'
<1> DEFINE answer == [status |-> "ok", revision |-> NextRevision(q.id), size |-> Size(q.body)]
<1>1. q.op = "upload"
  BY DEF uploadDocument
<1>2. CASE \E code \in {"40017", "40401"} : Refuse(k, code)
  BY <1>1, <1>2, RefusedTruthfully DEF Codes
<1>3. CASE /\ q.id \in DOMAIN documents /\ Answer(k, answer)
           /\ versions' = versions \cup {<<q.id, NextRevision(q.id), q.body>>}
  <2>1. NextRevision(q.id) \in Nat /\ Size(q.body) \in {0, 1}
    BY <1>3 DEF DeviceInv, StoreTypes, DocumentMeta, NextRevision, Size
  <2>2. PICK r \in Reply : r = answer /\ r.revision = NextRevision(q.id)
    <3>1. answer \in Reply /\ answer.revision = NextRevision(q.id)
      BY <2>1 DEF Reply
    <3> HIDE DEF answer
    <3>2. QED
      BY <3>1
  <2>3. Says(q, r)'
    <3>1. r.revision \in Nat /\ <<q.id, r.revision, q.body>> \in versions'
      BY <1>3, <2>1, <2>2
    <3>2. QED
      BY <1>1, <3>1 DEF Says
  <2>4. QED
    BY <1>3, <2>2, <2>3
<1>4. QED
  BY <1>2, <1>3 DEF uploadDocument

\* Metadata and absence are told as they are.
LEMMA ReadTruthfully ==
    ASSUME DeviceInv, DeviceInv', StoreGrows, NEW k \in Channels, request[k] # None,
           NEW q, q = request[k],
           getDocument(k) \/ getFolder(k) \/ documentByPath(k)
    PROVE  \E r \in Reply : Answer(k, r) /\ Says(q, r)'
<1>1. UNCHANGED <<nextID, folders, documents, versions>>
  BY DEF getDocument, getFolder, documentByPath, store, history
<1>2. PICK r \in Reply : r = Refusal("40401") /\ ~Ok(r)
  BY PlainReplies DEF Codes, Refusal, Ok
<1>3. ASSUME NEW i \in DOMAIN documents
      PROVE  \E s \in Reply : s = DocumentEntry(i) /\ Ok(s) /\ s.type = "document" /\ TrueMetadata(s)'
  <2>1. PICK s \in DocumentReply : s = DocumentEntry(i)
    BY EntriesAreReplies
  <2>2. /\ s.id = i /\ s.revision = documents[i].revision /\ s.body = contents[i]
        /\ Ok(s) /\ s.type = "document"
    BY <2>1 DEF DocumentEntry, Ok
  <2>3. i \in Nat /\ i < nextID /\ i \notin DOMAIN folders /\ <<i, documents[i].revision, contents[i]>> \in versions
    BY DEF DeviceInv, StoreTypes, Ids, VersionsInv
  <2>4. TrueMetadata(s)'
    BY <1>1, <2>2, <2>3 DEF TrueMetadata, DocumentOnce
  <2>5. QED
    BY <2>1, <2>2, <2>4 DEF Reply
<1>4. ASSUME NEW i \in Parents
      PROVE  \E s \in Reply : s = FolderEntry(i) /\ Ok(s) /\ s.type = "folder" /\ s.id = i /\ FolderOnce(i)'
  <2>1. PICK s \in FolderReply : s = FolderEntry(i)
    BY EntriesAreReplies
  <2>2. s.id = i /\ Ok(s) /\ s.type = "folder"
    BY <2>1 DEF FolderEntry, Ok
  <2>3. i \in Nat /\ i < nextID /\ i \notin DOMAIN documents
    BY DEF DeviceInv, StoreTypes, Ids, Parents, Root
  <2>4. QED
    BY <1>1, <2>1, <2>2, <2>3 DEF Reply, FolderOnce
<1>5. CASE getDocument(k)
  <2>1. q.op = "getDocument"
    BY <1>5 DEF getDocument
  <2>2. CASE q.id \in DOMAIN documents
    <3>1. PICK s \in Reply : s = DocumentEntry(q.id) /\ Ok(s)
      BY <1>3, <2>2
    <3>2. Answer(k, s)
      BY <1>5, <2>2, <3>1 DEF getDocument
    <3>3. QED
      BY <2>1, <3>1, <3>2 DEF Says
  <2>3. CASE q.id \notin DOMAIN documents
    <3>1. Answer(k, r)
      BY <1>2, <1>5, <2>3 DEF getDocument
    <3>2. QED
      BY <1>1, <2>1, <2>3, <3>1, <1>2 DEF Says
  <2>4. QED
    BY <2>2, <2>3
<1>6. CASE getFolder(k)
  <2>1. q.op = "getFolder"
    BY <1>6 DEF getFolder
  <2>2. CASE q.id \in Parents
    <3>1. PICK s \in Reply : s = FolderEntry(q.id) /\ Ok(s) /\ s.id = q.id /\ FolderOnce(q.id)'
      BY <1>4, <2>2
    <3>2. Answer(k, s)
      BY <1>6, <2>2, <3>1 DEF getFolder
    <3>3. QED
      BY <2>1, <3>1, <3>2 DEF Says
  <2>3. CASE q.id \notin Parents
    <3>1. Answer(k, r)
      BY <1>2, <1>6, <2>3 DEF getFolder
    <3>2. QED
      BY <1>1, <1>2, <2>1, <2>3, <3>1 DEF Says, Parents
  <2>4. QED
    BY <2>2, <2>3
<1>7. CASE documentByPath(k)
  <2>1. q.op = "resolve"
    BY <1>7 DEF documentByPath
  <2>2. CASE \E i \in DOMAIN documents : Answer(k, DocumentEntry(i))
    <3>1. PICK i \in DOMAIN documents : Answer(k, DocumentEntry(i))
      BY <2>2
    <3>2. PICK s \in Reply : s = DocumentEntry(i) /\ s.type = "document" /\ TrueMetadata(s)'
      BY <1>3
    <3>3. QED
      BY <2>1, <3>1, <3>2 DEF Says
  <2>3. CASE \E i \in Parents : Answer(k, FolderEntry(i))
    <3>1. PICK i \in Parents : Answer(k, FolderEntry(i))
      BY <2>3
    <3>2. PICK s \in Reply : s = FolderEntry(i) /\ s.type = "folder" /\ s.id = i /\ i \in Nat
      BY <1>4 DEF FolderOnce
    <3>3. QED
      BY <2>1, <3>1, <3>2 DEF Says
  <2>4. CASE Answer(k, Refusal("40401"))
    BY <1>2, <2>1, <2>4 DEF Says
  <2>5. Root \in Parents
    BY DEF Parents
  <2>6. \A i : /\ i \in Matching(documents, q.path) => i \in DOMAIN documents
               /\ i \in Matching(folders, q.path) => i \in Parents
    BY DEF Matching, Parents
  <2>7. QED
    BY <1>7, <2>2, <2>3, <2>4, <2>5, <2>6 DEF documentByPath
<1>8. QED
  BY <1>5, <1>6, <1>7

\* Whatever is served but the first half of a listing is answered truthfully.
LEMMA ServedTruthfully ==
    ASSUME DeviceInv, NEW k \in Channels, Serve(k), NEW q, q = request[k], q.op # "list"
    PROVE  \E r \in Reply : Answer(k, r) /\ Says(q, r)'
<1>1. request[k] # None
  BY DEF Serve
<1>2. DeviceInv' /\ StoreGrows
  BY ServingKeepsInv
<1>3. ~listDocuments(k)
  BY DEF listDocuments
<1>4. CASE createFolder(k) \/ createDocument(k) \/ copyDocument(k)
  BY <1>1, <1>4, CreatedTruthfully
<1>5. CASE uploadDocument(k)
  BY <1>1, <1>5, UploadedTruthfully
<1>6. CASE getDocument(k) \/ getFolder(k) \/ documentByPath(k)
  BY <1>1, <1>2, <1>6, ReadTruthfully
<1>7. CASE updateDocument(k) \/ updateFolder(k) \/ deleteDocument(k) \/ deleteFolder(k)
  <2>1. q.op \in {"updateDocument", "updateFolder", "deleteDocument", "deleteFolder"}
    BY <1>7 DEF updateDocument, updateFolder, deleteDocument, deleteFolder
  <2>2. Answer(k, Done) \/ \E code \in Codes : Refuse(k, code)
    BY <1>7 DEF updateDocument, updateFolder, deleteDocument, deleteFolder, Codes
  <2>3. QED
    BY <2>1, <2>2, RefusedTruthfully, ConfirmedTruthfully, PlainReplies
<1>8. CASE downloadDocument(k)
  <2>1. q.op = "download"
    BY <1>8 DEF downloadDocument
  <2>2. q.id \in DOMAIN documents => [status |-> "ok", body |-> contents[q.id]] \in Reply
    BY DEF DeviceInv, StoreTypes, Reply
  <2>3. Refusal("40401") \in Reply
    BY PlainReplies DEF Codes
  <2>4. \E r \in Reply : Answer(k, r)
    BY <1>8, <2>2, <2>3 DEF downloadDocument
  <2>5. QED
    BY <2>1, <2>4, ConfirmedTruthfully
<1>9. CASE openDocument(k)
  <2>1. q.op = "open"
    BY <1>9 DEF openDocument
  <2>2. \E r \in Reply : Answer(k, r)
    BY <1>9, PlainReplies DEF openDocument, Codes
  <2>3. QED
    BY <2>1, <2>2, ConfirmedTruthfully
<1>10. CASE listFolders(k)
  <2>1. q.op = "listFolders"
    BY <1>10 DEF listFolders
  <2>2. q.found \cup Listed(folders, q.id, "folder") \subseteq Item
    BY <1>1, <2>1, RequestFields, ListedIsItems DEF DeviceInv
  <2>3. [status |-> "ok", found |-> q.found \cup Listed(folders, q.id, "folder")] \in Reply
    BY <2>2 DEF Reply
  <2>4. \E r \in Reply : Answer(k, r)
    BY <1>10, <2>3 DEF listFolders
  <2>5. QED
    BY <2>1, <2>4, ConfirmedTruthfully
<1>11. QED
  BY <1>3, <1>4, <1>5, <1>6, <1>7, <1>8, <1>9, <1>10 DEF Serve

\* The client whose request was answered.
LEMMA AnsweredKeepsInv ==
    ASSUME DeviceInv, DeviceInv', StoreGrows, NEW c \in Clients, ClientInv(c),
           UNCHANGED clientVars, NEW q, q = request[c], q # None, NEW r \in Reply,
           Answer(c, r), Says(q, r)'
    PROVE  ClientInv(c)'
<1>1. /\ UNCHANGED <<pc, call, calls, seen, place, outcome, deleted, published>>
      /\ request'[c] = None /\ reply'[c] = r /\ r # None
  <2>1. c \in Channels
    BY DEF Channels
  <2>2. request'[c] = None /\ reply'[c] = r
    BY <2>1, AnswerSends DEF DeviceInv
  <2>3. QED
    BY <2>2, SeedAssumption DEF clientVars, SeedAssumption
<1>2. Waiting(c) /\ Knows(c) /\ Expects(c) /\ Keeps(c) /\ pc[c] # "idle"
  BY DEF ClientInv, Waiting
<1>3. Waiting(c)' /\ Expects(c)'
  BY <1>1, <1>2 DEF Waiting, Expects
<1>4. Knows(c)'
  BY <1>1, <1>2, FactsStay DEF Knows, Targeted
<1>5. Keeps(c)'
  BY <1>1, <1>2, FactsStay DEF Keeps
<1>6. Hears(c)'
  <2> DEFINE a == call[c]
  <2>1. pc[c] = "resolve" /\ Ok(r) =>
          (r.type = "document" /\ TrueMetadata(r)') \/ (r.type = "folder" /\ r.id \in Nat)
    BY <1>2 DEF Says, Expects
  <2>2. pc[c] = "created" /\ Ok(r) => OwnEntry(c, r.id)'
    BY <1>1, <1>2 DEF Says, Expects, OwnEntry
  <2>3. pc[c] = "uploaded" /\ Ok(r) => r.revision \in Nat /\ <<a.id, r.revision, a.body>> \in versions'
    BY <1>2 DEF Says, Expects
  <2>4. pc[c] = "isFolder" /\ Ok(r) => r.id = a.id /\ FolderOnce(r.id)'
    BY <1>2 DEF Says, Expects
  <2>5. pc[c] = "verifyDeleted" /\ ~Ok(r) /\ r.code = "40401" => a.id \notin Ids'
    BY <1>1, <1>2, <1>4 DEF Says, Expects, Knows, Targeted, DocumentOnce, FolderOnce, Ids
  <2>6. QED
    BY <1>1, <2>1, <2>2, <2>3, <2>4, <2>5 DEF Hears
<1>7. QED
  BY <1>3, <1>4, <1>5, <1>6 DEF ClientInv

\* A device step leaves what every client knows in order.
LEMMA ServingKeepsIInv ==
    ASSUME IInv, NEW k \in Channels, Serve(k), UNCHANGED <<clientVars, failures>>
    PROVE  IInv'
<1>1. DeviceInv /\ DeviceInv' /\ StoreGrows
  BY ServingKeepsInv DEF IInv
<1>2. UNCHANGED <<pc, call, calls, seen, place, outcome, deleted, published>>
  BY DEF clientVars
<1>3. ClientTypes' /\ ReportsAreTrue'
  <2>1. ClientTypes'
    BY <1>2 DEF IInv, ClientTypes
  <2>2. ReportsAreTrue'
    BY <1>1, <1>2, FactsStay DEF IInv, ReportsAreTrue
  <2>3. QED
    BY <2>1, <2>2
<1>4. PICK q : q = request[k] /\ q # None
  BY DEF Serve
<1>5. CASE q.op = "list"
  <2>1. listDocuments(k)
    BY <1>4, <1>5 DEF Serve, createFolder, createDocument, copyDocument, uploadDocument,
      updateDocument, updateFolder, deleteDocument, deleteFolder, getDocument, getFolder,
      documentByPath, downloadDocument, openDocument, listFolders
  <2> DEFINE next == [op |-> "listFolders", id |-> request[k].id,
                      found |-> Listed(documents, request[k].id, "document")]
  <2>2. reply' = reply /\ request' = [request EXCEPT ![k] = next]
    BY <2>1 DEF listDocuments
  <2>3. next \in Request /\ next # None /\ next.op = "listFolders"
    <3>1. q.id \in Nat
      BY <1>1, <1>4, <1>5, RequestFields DEF DeviceInv
    <3>2. Listed(documents, request[k].id, "document") \subseteq Item
      BY <1>1, ListedIsItems
    <3>3. next \in Request
      BY <1>4, <3>1, <3>2 DEF Request
    <3>4. QED
      BY <3>3, SeedAssumption DEF SeedAssumption
  <2> HIDE DEF next
  <2>4. request'[k] = next /\ \A j \in Channels \ {k} : request'[j] = request[j]
    BY <1>1, <2>2 DEF DeviceInv, ChannelTypes
  <2>5. ASSUME NEW c \in Clients PROVE ClientInv(c)'
    <3>1. CASE c # k
      <4>1. request'[c] = request[c]
        BY <2>4, <3>1 DEF Channels
      <4>2. QED
        BY <1>1, <1>2, <2>2, <4>1, BystandersKeepInv DEF IInv
    <3>2. CASE c = k
      <4>1. Waiting(c) /\ Knows(c) /\ Expects(c) /\ Keeps(c) /\ Hears(c)
        BY DEF IInv, ClientInv
      <4>2. pc[c] # "idle" /\ reply[c] = None
        BY <1>4, <3>2, <4>1 DEF Waiting
      <4>3. Waiting(c)' /\ Hears(c)'
        BY <1>2, <2>2, <2>3, <2>4, <3>2, <4>1, <4>2 DEF Waiting, Hears
      <4>4. Expects(c)'
        BY <1>2, <1>4, <1>5, <2>4, <3>2, <4>1 DEF Expects
      <4>5. Knows(c)' /\ Keeps(c)'
        BY <1>1, <1>2, <4>1, FactsStay DEF Knows, Targeted, Keeps
      <4>6. QED
        BY <4>3, <4>4, <4>5 DEF ClientInv
    <3>3. QED
      BY <3>1, <3>2
  <2>6. QED
    BY <1>1, <1>3, <2>5 DEF IInv
<1>6. CASE q.op # "list"
  <2>1. PICK r \in Reply : Answer(k, r) /\ Says(q, r)'
    BY <1>1, <1>4, <1>6, ServedTruthfully
  <2>2. /\ \A j \in Channels : request'[j] = (IF j = k THEN None ELSE request[j])
        /\ \A c \in Clients : reply'[c] = IF c = k THEN r ELSE reply[c]
    BY <1>1, <2>1, AnswerSends DEF DeviceInv
  <2>3. ASSUME NEW c \in Clients PROVE ClientInv(c)'
    <3>1. CASE c # k
      <4>1. request'[c] = request[c] /\ reply'[c] = reply[c]
        BY <2>2, <3>1 DEF Channels
      <4>2. QED
        BY <1>1, <1>2, <4>1, BystandersKeepInv DEF IInv
    <3>2. CASE c = k
      <4>1. UNCHANGED clientVars /\ ClientInv(c)
        BY DEF IInv
      <4>2. Answer(c, r) /\ q = request[c]
        BY <1>4, <2>1, <3>2
      <4>3. QED
        BY <1>1, <1>4, <2>1, <4>1, <4>2, AnsweredKeepsInv
    <3>3. QED
      BY <3>1, <3>2
  <2>4. QED
    BY <1>1, <1>3, <2>3 DEF IInv
<1>7. QED
  BY <1>5, <1>6

-----------------------------------------------------------------------------
(* Theorems.                                                               *)

LEMMA InitIInv == Init => IInv
<1> SUFFICES ASSUME Init PROVE IInv
  OBVIOUS
<1>1. DeviceInv
  BY DeviceInitInv DEF Init
<1>2. ClientTypes
  BY SafeWritesAssumption DEF Init, ClientTypes, SafeWritesAssumption, Root
<1>3. ASSUME NEW c \in Clients PROVE ClientInv(c)
  <2>1. /\ pc[c] = "idle" /\ call[c] = None /\ request[c] = None /\ reply[c] = None
        /\ seen[c] = None /\ outcome[c] = None
    BY DEF Init, DeviceInit, Channels
  <2>2. QED
    BY <2>1 DEF ClientInv, Waiting, Knows, Targeted, Expects, Hears, Keeps
<1>4. ReportsAreTrue
  BY DEF Init, ReportsAreTrue
<1>5. QED
  BY <1>1, <1>2, <1>3, <1>4 DEF IInv

LEMMA NextIInv == IInv /\ [Next]_vars => IInv'
<1> SUFFICES ASSUME IInv, [Next]_vars PROVE IInv'
  OBVIOUS
<1>1. CASE DeviceStep
  BY <1>1, ServingKeepsIInv DEF DeviceStep
<1>2. ASSUME NEW c \in Clients, ClientStart(c) PROVE IInv'
  BY <1>2, ResolveKeepsInv, CreateFolderKeepsInv, CreateAndUploadKeepsInv, CopyKeepsInv,
     ReplaceKeepsInv, UpdateDocumentKeepsInv, UpdateFolderKeepsInv, DeleteKeepsInv,
     DeleteEmptyKeepsInv
  DEF ClientStart
<1>3. ASSUME NEW c \in Clients, ClientStep(c) PROVE IInv'
  BY <1>3, ResolvedKeepsInv, LookAtCreatedKeepsInv, VerifyCreatedKeepsInv,
     LookAtUploadedKeepsInv, VerifyUploadedKeepsInv, LookAtUpdatedKeepsInv,
     VerifyUpdatedKeepsInv, ListBeforeDeleteKeepsInv, DeleteIfEmptyKeepsInv,
     LookForDeletedKeepsInv, VerifyDeletedKeepsInv
  DEF ClientStep
<1>4. ASSUME NEW c \in Clients, Network(c) PROVE IInv'
  BY <1>4, NetworkKeepsInv
<1>5. CASE UNCHANGED vars
  <2>1. UNCHANGED <<nextID, folders, documents, contents, versions, destroyed, request, reply,
                    pc, call, calls, seen, place, outcome, deleted, published>>
    BY <1>5 DEF vars, deviceVars, store, history, clientVars
  <2>2. UNCHANGED <<store, history>>
    BY <2>1 DEF store, history
  <2>3. ChannelTypes' /\ ClientTypes' /\ ReportsAreTrue'
    BY <2>1 DEF IInv, DeviceInv, ChannelTypes, ClientTypes, ReportsAreTrue, Ids
  <2>4. \A j \in Channels : RequestOK(j)'
    BY <2>1 DEF IInv, DeviceInv, RequestOK, RequestFits
  <2>5. DeviceInv' /\ StoreGrows
    BY <2>2, <2>3, <2>4, SameStoreKeepsInv DEF IInv
  <2>6. \A c \in Clients : ClientInv(c)'
    BY <2>1, <2>5, BystandersKeepInv DEF IInv
  <2>7. QED
    BY <2>3, <2>5, <2>6 DEF IInv
<1>6. QED
  BY <1>1, <1>2, <1>3, <1>4, <1>5 DEF Next

\* The inductive invariant holds in every reachable state: the device keeps
\* its store in order (state.go), and every client of write.go and delete.go
\* knows, at each step of its call, only what is true.
THEOREM Invariance == Spec => []IInv
  BY InitIInv, NextIInv, PTL DEF Spec

\* ClientOK: the store is in order, and a client waits exactly when it has a
\* call, for one answer to one request.
THEOREM TypeCorrect == Spec => []ClientOK
<1>1. IInv => ClientOK
  <2> SUFFICES ASSUME IInv PROVE ClientOK
    OBVIOUS
  <2>1. StoreOK
    BY DEF IInv, DeviceInv, StoreTypes, StoreOK, DocumentMeta
  <2>2. \A c \in Clients : Waiting(c) /\ place[c] \in Nat /\ calls[c] \in 0 .. MaxCalls
    BY DEF IInv, ClientInv, ClientTypes
  <2>3. QED
    BY <2>1, <2>2 DEF ClientOK, Waiting
<1>2. QED
  BY <1>1, Invariance, PTL

\* Replace and Delete destroy only the body their caller was looking at when
\* it learned the revision, also when the request is late (write.go Replace,
\* delete.go Delete, state.go's revision check).
THEOREM GuardedWritesAreSafe == Spec => []GuardedWritesDestroyWhatWasSeen
<1>1. IInv => GuardedWritesDestroyWhatWasSeen
  BY DEF IInv, DeviceInv, DestroyedWasSeen, GuardedWritesDestroyWhatWasSeen
<1>2. QED
  BY <1>1, Invariance, PTL

\* An entry whose deletion was reported never comes back (delete.go: only
\* "not found" proves absence; state.go: numbers are not used again).
THEOREM DeletionIsFinal == Spec => []DeletedStaysDeleted
<1>1. IInv => DeletedStaysDeleted
  BY DEF IInv, ReportsAreTrue, DeletedStaysDeleted
<1>2. QED
  BY <1>1, Invariance, PTL

\* A successful CreateAndUpload or Replace means that the device really held
\* the caller's body under the reported revision (write.go upload).
THEOREM PublishedIsReal == Spec => []PublishedWasThere
<1>1. IInv => PublishedWasThere
  BY DEF IInv, ReportsAreTrue, PublishedWasThere
<1>2. QED
  BY <1>1, Invariance, PTL

\* The entry that a PartialFailureError names was created by that very call
\* (write.go CreateMetadata, CreateAndUpload).
THEOREM CleanupIsOwn == Spec => []PartialNamesOwnEntry
<1>1. IInv => PartialNamesOwnEntry
  <2> SUFFICES ASSUME IInv, NEW c \in Clients, outcome[c] # None,
                      outcome[c].names \in DOMAIN documents
               PROVE  documents[outcome[c].names].maker = <<c, calls[c]>>
    BY DEF PartialNamesOwnEntry
  <2>1. outcome[c].names # None
    BY SeedAssumption DEF SeedAssumption, IInv, DeviceInv, StoreTypes, Ids
  <2>2. QED
    BY <2>1 DEF IInv, ClientInv, Keeps, OwnEntry
<1>2. QED
  BY <1>1, Invariance, PTL

\* Only a deletion takes a folder away.
LEMMA OnlyDeletionRemovesFolders ==
    ASSUME IInv, Next, NEW f \in DOMAIN folders, f \notin DOMAIN folders'
    PROVE  \E k \in Channels : request[k] # None /\ deleteFolder(k)
<1>1. CASE DeviceStep
  <2>1. PICK k \in Channels : Serve(k)
    BY <1>1 DEF DeviceStep
  <2>2. request[k] # None
    BY <2>1 DEF Serve
  <2>3. ~createFolder(k) /\ ~updateFolder(k)
    <3>1. createFolder(k) => DOMAIN folders \subseteq DOMAIN folders'
      BY DEF createFolder, Refuse, store
    <3>2. updateFolder(k) => DOMAIN folders' = DOMAIN folders
      BY DEF updateFolder, Refuse, store, Rebase
    <3>3. QED
      BY <3>1, <3>2
  <2>4. ~createDocument(k) /\ ~copyDocument(k) /\ ~uploadDocument(k) /\ ~updateDocument(k)
        /\ ~deleteDocument(k)
    BY DEF createDocument, copyDocument, uploadDocument, updateDocument, deleteDocument,
      AddDocument, Refuse, store
  <2>5. ~getDocument(k) /\ ~getFolder(k) /\ ~documentByPath(k) /\ ~downloadDocument(k)
        /\ ~openDocument(k) /\ ~listDocuments(k) /\ ~listFolders(k)
    BY DEF getDocument, getFolder, documentByPath, downloadDocument, openDocument,
      listDocuments, listFolders, store
  <2>6. QED
    BY <2>1, <2>2, <2>3, <2>4, <2>5 DEF Serve
<1>2. ASSUME NEW c \in Clients, ClientStart(c) \/ ClientStep(c) \/ Network(c) PROVE FALSE
  <2>1. CASE ClientStart(c)
    BY <2>1 DEF ClientStart, Resolve, ResolvePath, CreateFolder, CreateFolderIn, CreateAndUpload,
      Copy, Replace, UpdateDocument, UpdateFolder, Delete, DeleteEmpty, Start, store
  <2>2. CASE ClientStep(c)
    BY <2>2 DEF ClientStep, Resolved, LookAtCreated, VerifyCreated, LookAtUploaded, VerifyUploaded,
      LookAtUpdated, VerifyUpdated, ListBeforeDelete, DeleteIfEmpty, LookForDeleted, VerifyDeleted,
      Fail, End, Continue, store
  <2>3. CASE Network(c)
    BY <2>3 DEF Network, LoseRequest, LoseReply, Abandon, store
  <2>4. QED
    BY <1>2, <2>1, <2>2, <2>3
<1>3. QED
  BY <1>1, <1>2 DEF Next

\* A folder leaves the device only when nothing is in it, and takes nothing
\* with it (delete.go DeleteEmpty; state.go deleteFolder without force).
THEOREM FoldersGoEmpty == Spec => FoldersVanishEmpty
<1> DEFINE Empty(f) == /\ Children(folders, f) \cup Children(documents, f) = {}
                       /\ DOMAIN documents \subseteq DOMAIN documents'
                       /\ DOMAIN folders \ {f} \subseteq DOMAIN folders'
<1>1. IInv /\ [Next]_vars => [\A f \in DOMAIN folders \ DOMAIN folders' : Empty(f)]_vars
  <2> SUFFICES ASSUME IInv, Next, NEW f \in DOMAIN folders \ DOMAIN folders'
               PROVE  Empty(f)
    OBVIOUS
  <2>1. PICK k \in Channels : request[k] # None /\ deleteFolder(k)
    BY OnlyDeletionRemovesFolders
  <2>2. ~\E code \in {"40018", "40401"} : Refuse(k, code)
    BY DEF Refuse, store
  <2>3. /\ request[k].id \in DOMAIN folders /\ IsEmpty(request[k].id)
        /\ folders' = Restrict(folders, DOMAIN folders \ {request[k].id})
        /\ documents' = Restrict(documents, DOMAIN documents)
    BY <2>1, <2>2, UnforcedDeletion DEF IInv
  <2>4. f = request[k].id
    BY <2>3 DEF Restrict
  <2>5. QED
    BY <2>3, <2>4 DEF Restrict, IsEmpty
<1>2. QED
  BY <1>1, Invariance, PTL DEF Spec, FoldersVanishEmpty
=============================================================================
