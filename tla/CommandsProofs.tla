--------------------------- MODULE CommandsProofs ---------------------------
(***************************************************************************)
(* Machine-checked theorems about the commands of dp: that put overwrites  *)
(* no document, that get leaves only whole files behind, and that a        *)
(* reference selects the object it was printed for, for any users, lines   *)
(* they type, tree on the device, digests, failures and late requests.     *)
(*                                                                         *)
(* The commands call the library, so the invariant of SafeWrites comes     *)
(* first, and with it what a command knows between two calls (CInv).       *)
(* Each promise has an invariant of its own on top.                        *)
(***************************************************************************)
EXTENDS Commands, SafeWritesProofs, WellFoundedInduction

\* An entry of a listing or of the reference store: its number stands for an
\* entry of its kind, now and later.
TrueItem(e) ==
    e \in Item /\ IF e.type = "document" THEN DocumentOnce(e.id) ELSE FolderOnce(e.id)

\* What a look at one entry has found.
TrueEntry(e) == (e.type = "document" /\ TrueMetadata(e)) \/ (e.type = "folder" /\ e.id \in Nat)

\* A listing names true entries, none of them twice; its first half, which is
\* copied before the mutex is let go of, names documents.
TrueListing(found) ==
    /\ IsFiniteSet(found) /\ \A e \in found : TrueItem(e)
    /\ \A e, f \in found : e.id = f.id => e = f
HalfListing(found) == TrueListing(found) /\ \A e \in found : e.type = "document"
ListingOK(k) == request[k] # None /\ request[k].op = "listFolders" => HalfListing(request[k].found)

\* The reference store: one number for each object.
RefsOK ==
    /\ refs \in Seq(Item) /\ \A n \in DOMAIN refs : TrueItem(refs[n])
    /\ \A m, n \in DOMAIN refs : refs[m].id = refs[n].id => m = n

\* What a command carries from stage to stage.
CommandFields ==
    {"op", "path", "dest", "local", "stage", "chosen", "found", "typed", "name", "waiting"}
WellFormed(m) ==
    /\ DOMAIN m = CommandFields
    /\ m.path \in Seq(AllNames) /\ m.dest \in Seq(AllNames)
    /\ m.op = "mkdir" => m.name \in AllNames
    /\ m.op = "get" => m.local \in Locals
    /\ m.waiting \subseteq DOMAIN refs
    /\ \A e \in m.found : TrueEntry(e)
\* Which commands have which stages, and when the object is known.
Staged(m) ==
    /\ m.stage \in {"select", "selecting", "fetch", "fetching"} => m.op \notin {"put", "mkdir"}
    /\ m.stage \in {"destination", "resolving"} => m.op \in {"put", "cp", "mv"}
    /\ m.stage \in {"parent", "placing"} => m.op \in {"put", "cp", "mv", "mkdir"}
    /\ m.stage = "act" => m.op \in {"put", "cp", "mv"} \/ m.chosen \in Nat
    /\ m.stage \in {"downloading", "discard"} => m.op = "get" /\ m.chosen \in Nat
CommandOK(m) == m.stage # "none" => WellFormed(m) /\ Staged(m)

\* What the calls that only read ask for, and what their answers say.
Awaits(c) ==
    /\ request[c] # None =>
          /\ pc[c] = "fetched" => request[c].op \in {"getDocument", "getFolder"}
          /\ pc[c] = "printed" => request[c].op \in {"list", "listFolders"}
    /\ reply[c] # None /\ Ok(reply[c]) =>
          /\ pc[c] = "fetched" => TrueEntry(reply[c])
          /\ pc[c] = "printed" => TrueListing(reply[c].found)

CInv ==
    /\ IInv
    /\ \A k \in Channels : ListingOK(k)
    /\ RefsOK
    /\ command = [c \in Clients |-> command[c]]
    /\ \A c \in Clients : CommandOK(command[c]) /\ Awaits(c)

-----------------------------------------------------------------------------
(* How the calls of one client go on.                                      *)

Others(c) ==
    /\ UNCHANGED <<nextID, folders, documents, contents, versions>>
    /\ \A k \in Channels \ {c} : request'[k] = request[k]
    /\ \A d \in Clients \ {c} :
          reply'[d] = reply[d] /\ pc'[d] = pc[d] /\ call'[d] = call[d] /\ calls'[d] = calls[d]

\* The call of c stays where it is.
Rests(c) ==
    /\ Others(c) /\ request'[c] = request[c] /\ reply'[c] = reply[c]
    /\ pc'[c] = pc[c] /\ call'[c] = call[c] /\ calls'[c] = calls[c]

\* A call starts, and does not overwrite anything yet.
Starts(c) ==
    /\ Others(c) /\ pc[c] = "idle" /\ calls'[c] = calls[c] + 1
    /\ pc'[c] # "verifyCreated"
    /\ request'[c] # None /\ request'[c].op \notin {"upload", "listFolders"} /\ reply'[c] = None
    /\ request'[c].op \in {"createDocument", "copy"} => request'[c].tag = <<c, calls[c] + 1>>
    /\ request'[c].op = "copy" => call'[c].op = "copy"
    /\ pc'[c] = "fetched" => request'[c].op \in {"getDocument", "getFolder"}
    /\ pc'[c] = "printed" => request'[c].op = "list"

\* It goes on: a put uploads to what it has created, and the others only look
\* and delete.
LaterSteps == {"verifyCreated", "uploaded", "verifyUploaded", "verifyUpdated",
               "listed", "deleted", "verifyDeleted"}
GoesOn(c) ==
    /\ Others(c) /\ pc[c] # "idle" /\ reply[c] # None /\ calls'[c] = calls[c]
    /\ \/ pc'[c] = "idle" /\ request'[c] = request[c] /\ reply'[c] = None
       \/ /\ pc'[c] \in LaterSteps /\ call'[c].op = call[c].op
          /\ pc'[c] = "verifyCreated" => pc[c] = "created"
          /\ request'[c] # None /\ reply'[c] = None
          /\ request'[c].op \in {"upload", "getDocument", "getFolder", "list", "deleteFolder"}
          /\ request'[c].op = "upload" =>
                /\ pc[c] = "verifyCreated" /\ pc'[c] = "uploaded" /\ call[c].op = "put"
                /\ request'[c].id = call[c].id

Moves(c) == Rests(c) \/ Starts(c) \/ GoesOn(c)

\* What starting, going on and ending change.
LEMMA StartingStarts ==
    ASSUME IInv, IInv', NEW c \in Clients, NEW op, NEW args, NEW step, NEW q,
           Start(c, op, args, step), Ask(c, q),
           step \notin {"idle", "verifyCreated"}, q.op \notin {"upload", "listFolders"},
           q.op \in {"createDocument", "copy"} => q.tag = <<c, calls'[c]>>,
           q.op = "copy" => args.op = "copy",
           step = "fetched" => q.op \in {"getDocument", "getFolder"},
           step = "printed" => q.op = "list"
    PROVE  Starts(c) /\ pc'[c] = step /\ request'[c] = q
<1>1. c \in Channels /\ ChannelTypes /\ ClientTypes
  BY DEF Channels, IInv, DeviceInv
<1>2. /\ pc'[c] = step /\ call'[c] = args /\ request'[c] = q /\ reply'[c] = None
      /\ pc[c] = "idle"
  BY <1>1 DEF Start, Ask, ChannelTypes, ClientTypes
<1>3. calls'[c] = calls[c] + 1
  BY <1>1 DEF Start, ClientTypes
<1>4. Others(c)
  BY <1>1 DEF Others, Start, Ask, ChannelTypes, ClientTypes, store, history
<1>5. request'[c] # None
  BY <1>2 DEF IInv, ClientInv, Waiting
<1>6. QED
  BY <1>2, <1>3, <1>4, <1>5 DEF Starts

LEMMA ContinuingGoesOn ==
    ASSUME IInv, IInv', NEW c \in Clients, NEW args, NEW step, NEW q,
           Continue(c, q, args, step), pc[c] # "idle", reply[c] # None,
           step \in LaterSteps, args.op = call[c].op,
           step = "verifyCreated" => pc[c] = "created",
           q.op \in {"upload", "getDocument", "getFolder", "list", "deleteFolder"},
           q.op = "upload" => /\ pc[c] = "verifyCreated" /\ step = "uploaded" /\ call[c].op = "put"
                              /\ q.id = call[c].id
    PROVE  GoesOn(c)
<1>1. c \in Channels /\ ChannelTypes /\ ClientTypes
  BY DEF Channels, IInv, DeviceInv
<1>2. pc'[c] = step /\ call'[c] = args /\ request'[c] = q /\ reply'[c] = None
  BY <1>1 DEF Continue, Ask, ChannelTypes, ClientTypes
<1>3. Others(c) /\ calls'[c] = calls[c]
  BY <1>1 DEF Others, Continue, Ask, ChannelTypes, ClientTypes, store, history
<1>4. request'[c] # None
  BY <1>2 DEF IInv, ClientInv, Waiting, LaterSteps
<1>5. QED
  BY <1>2, <1>3, <1>4 DEF GoesOn

LEMMA EndingGoesOn ==
    ASSUME IInv, NEW c \in Clients, NEW result, End(c, result), pc[c] # "idle", reply[c] # None
    PROVE  GoesOn(c)
<1>1. ChannelTypes /\ ClientTypes
  BY DEF IInv, DeviceInv
<1>2. pc'[c] = "idle" /\ request'[c] = request[c] /\ reply'[c] = None /\ calls'[c] = calls[c]
  BY <1>1 DEF End, ChannelTypes, ClientTypes
<1>3. Others(c)
  BY <1>1 DEF Others, End, ChannelTypes, ClientTypes, store, history
<1>4. QED
  BY <1>2, <1>3 DEF GoesOn

\* An answer that ends the call.
LEMMA FailingGoesOn ==
    ASSUME IInv, NEW c \in Clients, NEW step, NEW result, Heard(c, step), step # "idle", Fail(c, result)
    PROVE  GoesOn(c)
  BY EndingGoesOn DEF Heard, Fail

\* The rest of a library call.
LEMMA LibraryGoesOn ==
    ASSUME IInv, IInv', NEW c \in Clients, ClientStep(c)
    PROVE  GoesOn(c)
<1> DEFINE r == reply[c]
           a == call[c]
<1>1. pc[c] # "idle" /\ r # None /\ a \in Call
  <2>1. pc[c] # "idle" /\ r # None
    BY DEF ClientStep, Heard, Resolved, LookAtCreated, VerifyCreated, LookAtUploaded,
      VerifyUploaded, LookAtUpdated, VerifyUpdated, ListBeforeDelete, DeleteIfEmpty,
      LookForDeleted, VerifyDeleted
  <2>2. QED
    BY <2>1 DEF IInv, ClientTypes, ClientInv, Waiting
<1>2. \A result : End(c, result) => GoesOn(c)
  BY <1>1, EndingGoesOn
<1>3. \A result : Fail(c, result) => GoesOn(c)
  BY <1>2 DEF Fail
<1>4. \A v : [a EXCEPT !.id = v].op = a.op /\ [a EXCEPT !.revision = v].op = a.op
  BY <1>1 DEF Call
<1>5. CASE LookAtCreated(c)
  <2>1. CASE Ok(r)
    <3> DEFINE q == [op |-> IF a.op = "createFolder" THEN "getFolder" ELSE "getDocument", id |-> r.id]
    <3>1. Continue(c, q, [a EXCEPT !.id = r.id], "verifyCreated") /\ pc[c] = "created"
      BY <1>5, <2>1 DEF LookAtCreated, Heard
    <3>2. q.op \in {"getDocument", "getFolder"}
      OBVIOUS
    <3> HIDE DEF q
    <3>3. QED
      BY <1>1, <1>4, <3>1, <3>2, ContinuingGoesOn DEF LaterSteps
  <2>2. CASE ~Ok(r)
    BY <1>3, <1>5, <2>2 DEF LookAtCreated
  <2>3. QED
    BY <2>1, <2>2
<1>6. CASE VerifyCreated(c)
  <2> DEFINE q == [op |-> "upload", id |-> a.id, body |-> a.body, target |-> None, seen |-> None]
  <2>1. CASE a.op = "put" /\ Continue(c, q, a, "uploaded")
    <3>1. q.op = "upload" /\ q.id = a.id /\ pc[c] = "verifyCreated"
      BY <1>6 DEF VerifyCreated, Heard
    <3> HIDE DEF q
    <3>2. QED
      BY <1>1, <2>1, <3>1, ContinuingGoesOn DEF LaterSteps
  <2>2. QED
    BY <1>3, <1>6, <2>1 DEF VerifyCreated
<1>7. CASE LookAtUploaded(c)
  <2> DEFINE q == [op |-> "getDocument", id |-> a.id]
             args == [a EXCEPT !.revision = r.revision]
  <2>1. CASE Continue(c, q, args, "verifyUploaded")
    <3>1. q.op = "getDocument" /\ args.op = a.op
      BY <1>4
    <3> HIDE DEF q, args
    <3>2. QED
      BY <1>1, <2>1, <3>1, ContinuingGoesOn DEF LaterSteps
  <2>2. QED
    BY <1>3, <1>7, <2>1 DEF LookAtUploaded
<1>8. CASE LookAtUpdated(c)
  <2> DEFINE q == [op |-> IF a.op = "updateFolder" THEN "getFolder" ELSE "getDocument", id |-> a.id]
  <2>1. CASE Continue(c, q, a, "verifyUpdated")
    <3>1. q.op \in {"getDocument", "getFolder"}
      OBVIOUS
    <3> HIDE DEF q
    <3>2. QED
      BY <1>1, <2>1, <3>1, ContinuingGoesOn DEF LaterSteps
  <2>2. QED
    BY <1>3, <1>8, <2>1 DEF LookAtUpdated
<1>9. CASE ListBeforeDelete(c)
  <2> DEFINE q == [op |-> "list", id |-> a.id]
  <2>1. CASE Continue(c, q, a, "listed")
    <3>1. q.op = "list"
      OBVIOUS
    <3> HIDE DEF q
    <3>2. QED
      BY <1>1, <2>1, <3>1, ContinuingGoesOn DEF LaterSteps
  <2>2. QED
    BY <1>3, <1>9, <2>1 DEF ListBeforeDelete
<1>10. CASE DeleteIfEmpty(c)
  <2> DEFINE q == [op |-> "deleteFolder", id |-> a.id, force |-> "false"]
  <2>1. CASE Continue(c, q, a, "deleted")
    <3>1. q.op = "deleteFolder"
      OBVIOUS
    <3> HIDE DEF q
    <3>2. QED
      BY <1>1, <2>1, <3>1, ContinuingGoesOn DEF LaterSteps
  <2>2. QED
    BY <1>3, <1>10, <2>1 DEF DeleteIfEmpty
<1>11. CASE LookForDeleted(c)
  <2> DEFINE q == [op |-> IF a.op = "delete" THEN "getDocument" ELSE "getFolder", id |-> a.id]
  <2>1. CASE Continue(c, q, a, "verifyDeleted")
    <3>1. q.op \in {"getDocument", "getFolder"}
      OBVIOUS
    <3> HIDE DEF q
    <3>2. QED
      BY <1>1, <2>1, <3>1, ContinuingGoesOn DEF LaterSteps
  <2>2. QED
    BY <1>3, <1>11, <2>1 DEF LookForDeleted
<1>12. CASE Resolved(c) \/ VerifyUploaded(c) \/ VerifyUpdated(c) \/ VerifyDeleted(c)
  BY <1>2, <1>3, <1>12 DEF Resolved, VerifyUploaded, VerifyUpdated, VerifyDeleted
<1>13. QED
  BY <1>5, <1>6, <1>7, <1>8, <1>9, <1>10, <1>11, <1>12 DEF ClientStep

\* The calls that the commands start.
LEMMA ResolvePathStarts ==
    ASSUME IInv, IInv', NEW c \in Clients, NEW path, ResolvePath(c, path)
    PROVE  Starts(c) /\ pc'[c] = "resolve"
<1> DEFINE q == [op |-> "resolve", path |-> path]
<1>1. q.op = "resolve"
  OBVIOUS
<1>2. Start(c, "resolve", Asked("resolve"), "resolve") /\ Ask(c, q)
  BY DEF ResolvePath
<1> HIDE DEF q
<1>3. QED
  BY <1>1, <1>2, StartingStarts

LEMMA ReadingStarts ==
    ASSUME IInv, IInv', NEW c \in Clients, NEW op, NEW step \in {"fetched", "printed", "opened", "downloaded"},
           NEW q, q.op \in {"getDocument", "getFolder", "list", "open", "download"},
           step = "fetched" => q.op \in {"getDocument", "getFolder"},
           step = "printed" => q.op = "list",
           Start(c, op, Asked(op), step), Ask(c, q)
    PROVE  Starts(c) /\ pc'[c] = step /\ request'[c] = q
  BY StartingStarts

LEMMA WritingStarts ==
    ASSUME IInv, IInv', NEW c \in Clients, NEW parent, NEW name,
           Delete(c) \/ DeleteEmpty(c) \/ CreateFolderIn(c, parent, name)
              \/ UpdateDocument(c) \/ Copy(c) \/ CreateAndUpload(c)
    PROVE  Starts(c) /\ pc'[c] \in {"deleted", "isFolder", "created", "updated"}
<1>1. CASE Delete(c)
  <2> DEFINE q == [op |-> "deleteDocument", id |-> seen[c].id,
                   target |-> seen[c].revision, seen |-> seen[c].body]
  <2>1. q.op = "deleteDocument"
    OBVIOUS
  <2>2. PICK args : Start(c, "delete", args, "deleted") /\ Ask(c, q)
    BY <1>1 DEF Delete
  <2> HIDE DEF q
  <2>3. QED
    BY <2>1, <2>2, StartingStarts
<1>2. CASE DeleteEmpty(c)
  <2> DEFINE q == [op |-> "getFolder", id |-> place[c]]
  <2>1. q.op = "getFolder"
    OBVIOUS
  <2>2. PICK args : Start(c, "deleteEmpty", args, "isFolder") /\ Ask(c, q)
    BY <1>2 DEF DeleteEmpty
  <2> HIDE DEF q
  <2>3. QED
    BY <2>1, <2>2, StartingStarts
<1>3. CASE CreateFolderIn(c, parent, name)
  <2> DEFINE q == [op |-> "createFolder", parent |-> parent, name |-> name]
  <2>1. q.op = "createFolder"
    OBVIOUS
  <2>2. PICK args : Start(c, "createFolder", args, "created") /\ Ask(c, q)
    BY <1>3 DEF CreateFolderIn
  <2> HIDE DEF q
  <2>3. QED
    BY <2>1, <2>2, StartingStarts
<1>4. CASE UpdateDocument(c)
  <2> DEFINE q(p, n) == [op |-> "updateDocument", id |-> seen[c].id, parent |-> p, name |-> n]
             args(p, n) == [Asked("updateDocument") EXCEPT !.id = seen[c].id, !.parent = p, !.name = n]
  <2>1. PICK p, n : Start(c, "updateDocument", args(p, n), "updated") /\ Ask(c, q(p, n))
    BY <1>4 DEF UpdateDocument
  <2>2. q(p, n).op = "updateDocument"
    OBVIOUS
  <2> HIDE DEF q, args
  <2>3. QED
    BY <2>1, <2>2, StartingStarts
<1>5. CASE CreateAndUpload(c)
  <2> DEFINE q(n) == [op |-> "createDocument", parent |-> place[c], name |-> n, tag |-> Tag(c)]
             args(n, b) == [Asked("put") EXCEPT !.parent = place[c], !.name = n, !.body = b]
  <2>1. PICK n, b : Start(c, "put", args(n, b), "created") /\ Ask(c, q(n))
    BY <1>5 DEF CreateAndUpload
  <2>2. q(n).op = "createDocument" /\ q(n).tag = <<c, calls'[c]>>
    BY DEF Tag
  <2> HIDE DEF q, args
  <2>3. QED
    BY <2>1, <2>2, StartingStarts
<1>6. CASE Copy(c)
  <2> DEFINE q(n) == [op |-> "copy", id |-> seen[c].id, parent |-> place[c], name |-> n, tag |-> Tag(c)]
             args(n) == [Asked("copy") EXCEPT !.parent = place[c], !.name = n]
  <2>1. PICK n : Start(c, "copy", args(n), "created") /\ Ask(c, q(n))
    BY <1>6 DEF Copy
  <2>2. q(n).op = "copy" /\ q(n).tag = <<c, calls'[c]>> /\ args(n).op = "copy"
    BY DEF Asked, Tag
  <2> HIDE DEF q, args
  <2>3. QED
    BY <2>1, <2>2, StartingStarts
<1>7. QED
  BY <1>1, <1>2, <1>3, <1>4, <1>5, <1>6

-----------------------------------------------------------------------------
(* What the device answers to those who only read.                         *)

\* A listing has an end.
LEMMA ListedIsFinite ==
    ASSUME DeviceInv, NEW entries, DOMAIN entries \subseteq Ids, NEW id, NEW type
    PROVE  /\ IsFiniteSet(Listed(entries, id, type))
           /\ \A e \in Listed(entries, id, type) :
                 e = [id |-> e.id, type |-> type] /\ e.type = type /\ e.id \in DOMAIN entries
<1> DEFINE f == [i \in Children(entries, id) |-> [id |-> i, type |-> type]]
<1>1. IsFiniteSet(Children(entries, id))
  <2>1. nextID \in Nat /\ \A i \in Children(entries, id) : i \in Nat /\ i <= nextID
    BY DEF DeviceInv, StoreTypes, Children
  <2>2. QED
    BY <2>1, FS_BoundedSetOfNaturals
<1>2. f \in Surjection(Children(entries, id), Listed(entries, id, type))
  BY DEF Surjection, Listed
<1>3. IsFiniteSet(Listed(entries, id, type))
  BY <1>1, <1>2, FS_Surjection
<1>4. QED
  BY <1>3 DEF Listed, Children

\* The documents of a folder, as listDocuments copies them.
LEMMA DocumentsAreHalf ==
    ASSUME DeviceInv, NEW id
    PROVE  HalfListing(Listed(documents, id, "document"))
<1> DEFINE found == Listed(documents, id, "document")
<1>1. IsFiniteSet(found) /\ \A e \in found : e.type = "document" /\ e.id \in DOMAIN documents
                                             /\ e = [id |-> e.id, type |-> "document"]
  BY ListedIsFinite DEF Ids
<1>2. \A i \in DOMAIN documents : DocumentOnce(i)
  BY DEF DeviceInv, StoreTypes, Ids, DocumentOnce
<1>3. \A e \in found : TrueItem(e)
  BY <1>1, <1>2, ListedIsItems DEF TrueItem
<1>4. \A e, f \in found : e.id = f.id => e = f
  BY <1>1
<1>5. QED
  BY <1>1, <1>3, <1>4 DEF HalfListing, TrueListing

\* The folders are added to them by listFolders: none of them has a number
\* of a document.
LEMMA FoldersMakeWhole ==
    ASSUME DeviceInv, NEW found, HalfListing(found), NEW id
    PROVE  TrueListing(found \cup Listed(folders, id, "folder"))
<1> DEFINE below == Listed(folders, id, "folder")
<1>1. /\ IsFiniteSet(below)
      /\ \A e \in below : e.type = "folder" /\ e.id \in DOMAIN folders
                          /\ e = [id |-> e.id, type |-> "folder"]
  BY ListedIsFinite DEF Ids
<1>2. \A i \in DOMAIN folders : FolderOnce(i)
  BY DEF DeviceInv, StoreTypes, Ids, FolderOnce
<1>3. \A e \in below : TrueItem(e)
  BY <1>1, <1>2, ListedIsItems DEF TrueItem
<1>4. /\ IsFiniteSet(found) /\ \A e \in found : TrueItem(e) /\ e.type = "document"
      /\ \A e, f \in found : e.id = f.id => e = f
  BY DEF HalfListing, TrueListing
<1>5. \A e \in found, f \in below : e.id # f.id
  BY <1>1, <1>4 DEF TrueItem, DocumentOnce
<1>6. \A e, f \in found \cup below : e.id = f.id => e = f
  BY <1>1, <1>4, <1>5
<1>7. IsFiniteSet(found \cup below)
  BY <1>1, <1>4, FS_Union
<1>8. QED
  BY <1>3, <1>4, <1>6, <1>7 DEF TrueListing

\* What a look at one entry tells: the entry itself, or that there is none.
Told(q, r) ==
    /\ Ok(r) => /\ r.id = q.id
                /\ IF q.op = "getFolder" THEN r.type = "folder" /\ r.id \in Nat
                   ELSE r.type = "document" /\ TrueMetadata(r)
    /\ ~Ok(r) => q.id \notin IF q.op = "getFolder" THEN DOMAIN folders ELSE DOMAIN documents

\* The handler that serves a request is the one its kind names.
LEMMA ServedByKind ==
    ASSUME NEW k \in Channels, Serve(k)
    PROVE  /\ request[k].op = "getDocument" => getDocument(k)
           /\ request[k].op = "getFolder" => getFolder(k)
           /\ request[k].op = "list" => listDocuments(k)
           /\ request[k].op = "listFolders" => listFolders(k)
           /\ request[k].op = "download" => downloadDocument(k)
           /\ request[k].op = "upload" => uploadDocument(k)
  BY DEF Serve, createFolder, createDocument, copyDocument, uploadDocument,
      updateDocument, updateFolder, deleteDocument, deleteFolder, getDocument, getFolder,
      documentByPath, downloadDocument, openDocument, listDocuments, listFolders

\* getDocument and getFolder tell the truth.
LEMMA LookingTells ==
    ASSUME DeviceInv, NEW k \in Channels, Serve(k), NEW q, q = request[k],
           q.op \in {"getDocument", "getFolder"}
    PROVE  UNCHANGED <<store, history>> /\ \E r \in Reply : Answer(k, r) /\ Told(q, r)
<1>1. PICK no \in Reply : no = Refusal("40401") /\ ~Ok(no)
  BY PlainReplies DEF Codes, Refusal, Ok
<1>2. CASE q.op = "getDocument"
  <2>1. getDocument(k)
    BY <1>2, ServedByKind
  <2>2. CASE q.id \in DOMAIN documents
    <3>1. PICK s \in DocumentReply : s = DocumentEntry(q.id)
      BY <2>2, EntriesAreReplies
    <3>2. s.id = q.id /\ s.revision = documents[q.id].revision /\ s.body = contents[q.id]
          /\ s.type = "document"
      BY <3>1 DEF DocumentEntry
    <3>3. TrueMetadata(s)
      BY <2>2, <3>1, <3>2 DEF DeviceInv, StoreTypes, Ids, VersionsInv, TrueMetadata, DocumentOnce
    <3>4. Answer(k, s) /\ Ok(s)
      BY <2>1, <2>2, <3>1 DEF getDocument, DocumentReply, Ok
    <3>5. QED
      BY <1>2, <2>1, <2>2, <3>1, <3>2, <3>3, <3>4 DEF Told, getDocument, Reply
  <2>3. CASE q.id \notin DOMAIN documents
    BY <1>1, <1>2, <2>1, <2>3 DEF Told, getDocument
  <2>4. QED
    BY <2>2, <2>3
<1>3. CASE q.op = "getFolder"
  <2>1. getFolder(k)
    BY <1>3, ServedByKind
  <2>2. CASE q.id \in Parents
    <3>1. PICK s \in FolderReply : s = FolderEntry(q.id)
      BY <2>2, EntriesAreReplies
    <3>2. s.id = q.id /\ s.type = "folder" /\ s.id \in Nat
      BY <3>1 DEF FolderEntry, FolderReply
    <3>3. Answer(k, s) /\ Ok(s)
      BY <2>1, <2>2, <3>1 DEF getFolder, FolderReply, Ok
    <3>4. QED
      BY <1>3, <2>1, <3>1, <3>2, <3>3 DEF Told, getFolder, Reply
  <2>3. CASE q.id \notin Parents
    BY <1>1, <1>3, <2>1, <2>3 DEF Told, getFolder, Parents
  <2>4. QED
    BY <2>2, <2>3
<1>4. QED
  BY <1>2, <1>3

-----------------------------------------------------------------------------
(* What commands know stays true.                                          *)

LEMMA TrueStays ==
    ASSUME DeviceInv, DeviceInv', StoreGrows
    PROVE  /\ \A e : TrueItem(e) => TrueItem(e)'
           /\ \A e : TrueEntry(e) => TrueEntry(e)'
           /\ \A found : TrueListing(found) => TrueListing(found)'
           /\ \A found : HalfListing(found) => HalfListing(found)'
<1>1. \A e : TrueItem(e) => TrueItem(e)'
  BY FactsStay DEF TrueItem
<1>2. \A e : TrueEntry(e) => TrueEntry(e)'
  BY FactsStay DEF TrueEntry
<1>3. \A found : TrueListing(found) => TrueListing(found)'
  BY <1>1 DEF TrueListing
<1>4. QED
  BY <1>1, <1>2, <1>3 DEF HalfListing

LEMMA CommandStays ==
    ASSUME DeviceInv, DeviceInv', StoreGrows, DOMAIN refs \subseteq DOMAIN refs', NEW m, CommandOK(m)
    PROVE  CommandOK(m)'
<1>1. \A e : TrueEntry(e) => TrueEntry(e)'
  BY TrueStays
<1>2. QED
  BY <1>1 DEF CommandOK, WellFormed, Staged

LEMMA RefsStay ==
    ASSUME DeviceInv, DeviceInv', StoreGrows, RefsOK, refs' = refs
    PROVE  RefsOK'
<1>1. \A e : TrueItem(e) => TrueItem(e)'
  BY TrueStays
<1>2. QED
  BY <1>1 DEF RefsOK

LEMMA AwaitsStays ==
    ASSUME DeviceInv, DeviceInv', StoreGrows, NEW c, Awaits(c),
           request'[c] = request[c], reply'[c] = reply[c], pc'[c] = pc[c]
    PROVE  Awaits(c)'
<1>1. \A e : TrueEntry(e) => TrueEntry(e)'
  BY TrueStays
<1>2. \A found : TrueListing(found) => TrueListing(found)'
  BY TrueStays
<1>3. QED
  BY <1>1, <1>2 DEF Awaits

\* The device handles a request.
LEMMA ServingKeepsCInv ==
    ASSUME CInv, NEW k \in Channels, Serve(k), UNCHANGED <<clientVars, failures>>,
           UNCHANGED commandVars
    PROVE  CInv'
<1>1. IInv' /\ DeviceInv /\ DeviceInv' /\ StoreGrows
  BY ServingKeepsIInv, ServingKeepsInv DEF CInv, IInv
<1>2. UNCHANGED <<pc, command, refs>>
  BY DEF clientVars, commandVars
<1>3. PICK q : q = request[k] /\ q # None
  BY DEF Serve
<1>4. RefsOK' /\ command' = [c \in Clients |-> command'[c]]
      /\ \A c \in Clients : CommandOK(command[c])'
  BY <1>1, <1>2, RefsStay, CommandStays DEF CInv
<1>5. CASE q.op = "list"
  <2> DEFINE next == [op |-> "listFolders", id |-> request[k].id,
                      found |-> Listed(documents, request[k].id, "document")]
  <2>1. reply' = reply /\ request' = [request EXCEPT ![k] = next] /\ UNCHANGED <<store, history>>
    BY <1>3, <1>5, ServedByKind DEF listDocuments
  <2>2. next.op = "listFolders" /\ HalfListing(next.found)
    BY <1>1, DocumentsAreHalf
  <2> HIDE DEF next
  <2>3. request'[k] = next /\ \A j \in Channels \ {k} : request'[j] = request[j]
    BY <1>1, <2>1 DEF DeviceInv, ChannelTypes
  <2>4. ASSUME NEW j \in Channels PROVE ListingOK(j)'
    <3>1. ListingOK(j)
      BY DEF CInv
    <3>2. \A found : HalfListing(found) => HalfListing(found)'
      BY <1>1, TrueStays
    <3>3. QED
      BY <2>2, <2>3, <3>1, <3>2 DEF ListingOK
  <2>5. ASSUME NEW c \in Clients PROVE Awaits(c)'
    <3>1. Awaits(c) /\ c \in Channels
      BY DEF CInv, Channels
    <3>2. CASE c # k
      BY <1>1, <1>2, <2>1, <2>3, <3>1, <3>2, AwaitsStays
    <3>3. CASE c = k
      <4>1. reply[c] = None
        BY <1>1, <1>3, <3>3 DEF CInv, IInv, ClientInv, Waiting
      <4>2. QED
        BY <1>2, <1>3, <1>5, <2>1, <2>2, <2>3, <3>1, <3>3, <4>1 DEF Awaits
    <3>4. QED
      BY <3>2, <3>3
  <2>6. QED
    BY <1>1, <1>2, <1>4, <2>4, <2>5 DEF CInv
<1>6. CASE q.op # "list"
  <2>1. PICK r \in Reply : Answer(k, r) /\ (q.op \in {"getDocument", "getFolder"} => Told(q, r))
                           /\ (q.op = "listFolders" /\ Ok(r) => TrueListing(r.found))
    <3>1. CASE q.op \in {"getDocument", "getFolder"}
      BY <1>1, <1>3, <3>1, LookingTells
    <3>2. CASE q.op = "listFolders"
      <4> DEFINE r == [status |-> "ok", found |-> q.found \cup Listed(folders, q.id, "folder")]
      <4>1. Answer(k, r)
        BY <1>3, <3>2, ServedByKind DEF listFolders
      <4>2. HalfListing(q.found)
        BY <1>3, <3>2 DEF CInv, ListingOK
      <4>3. TrueListing(q.found \cup Listed(folders, q.id, "folder"))
        BY <1>1, <4>2, FoldersMakeWhole
      <4>4. r \in Reply /\ TrueListing(r.found)
        BY <4>3 DEF TrueListing, TrueItem, Reply
      <4> HIDE DEF r
      <4>5. QED
        BY <3>2, <4>1, <4>4
    <3>3. CASE q.op \notin {"getDocument", "getFolder", "listFolders"}
      BY <1>1, <1>3, <1>6, <3>3, ServedTruthfully
    <3>4. QED
      BY <3>1, <3>2, <3>3
  <2>2. /\ \A j \in Channels : request'[j] = (IF j = k THEN None ELSE request[j])
        /\ \A c \in Clients : reply'[c] = IF c = k THEN r ELSE reply[c]
    BY <1>1, <2>1, AnswerSends DEF DeviceInv
  <2>3. ASSUME NEW j \in Channels PROVE ListingOK(j)'
    <3>1. ListingOK(j)
      BY DEF CInv
    <3>2. \A found : HalfListing(found) => HalfListing(found)'
      BY <1>1, TrueStays
    <3>3. QED
      BY <2>2, <3>1, <3>2 DEF ListingOK
  <2>4. ASSUME NEW c \in Clients PROVE Awaits(c)'
    <3>1. Awaits(c) /\ c \in Channels
      BY DEF CInv, Channels
    <3>2. CASE c # k
      BY <1>1, <1>2, <2>2, <3>1, <3>2, AwaitsStays
    <3>3. CASE c = k
      <4>1. pc[c] = "fetched" => q.op \in {"getDocument", "getFolder"}
        BY <1>3, <3>1, <3>3 DEF Awaits
      <4>2. pc[c] = "printed" => q.op = "listFolders"
        BY <1>3, <1>6, <3>1, <3>3 DEF Awaits
      <4>3. Told(q, r) /\ q.op \in {"getDocument", "getFolder"} /\ Ok(r) => TrueEntry(r)
        BY DEF Told, TrueEntry
      <4>4. Ok(r) => /\ pc[c] = "fetched" => TrueEntry(r)'
                     /\ pc[c] = "printed" => TrueListing(r.found)'
        BY <1>1, <2>1, <4>1, <4>2, <4>3, TrueStays
      <4>5. request'[c] = None /\ reply'[c] = r
        BY <2>2, <3>1, <3>3
      <4>6. QED
        BY <1>2, <4>4, <4>5 DEF Awaits
    <3>4. QED
      BY <3>2, <3>3
  <2>5. QED
    BY <1>1, <1>2, <1>4, <2>3, <2>4 DEF CInv
<1>7. QED
  BY <1>5, <1>6

-----------------------------------------------------------------------------
(* One client moves.                                                       *)

\* The network changes no command.
LEMMA NetworkKeepsCInv ==
    ASSUME CInv, NEW c \in Clients, Network(c), UNCHANGED commandVars
    PROVE  CInv'
<1>1. IInv' /\ ChannelTypes /\ ChannelTypes'
  BY NetworkKeepsInv DEF CInv, IInv, DeviceInv
<1>2. UNCHANGED <<nextID, folders, documents, contents, versions, pc, command, refs>>
  BY DEF Network, LoseRequest, LoseReply, Abandon, store, history, clientVars, commandVars
<1>3. \A e : (TrueItem(e) <=> TrueItem(e)') /\ (TrueEntry(e) <=> TrueEntry(e)')
  BY <1>2 DEF TrueItem, TrueEntry, TrueMetadata, DocumentOnce, FolderOnce
<1>4. \A found : (TrueListing(found) <=> TrueListing(found)') /\ (HalfListing(found) <=> HalfListing(found)')
  BY <1>3 DEF TrueListing, HalfListing
<1>5. /\ \A k \in Channels : request'[k] = None \/ \E j \in Channels : request'[k] = request[j]
      /\ \A d \in Clients : /\ request'[d] \in {request[d], None}
                            /\ reply'[d] \in {reply[d], Failure}
  <2>1. CASE LoseRequest(c)
    BY <1>1, <2>1, AnswerSends, PlainReplies DEF LoseRequest, Channels
  <2>2. CASE LoseReply(c)
    BY <1>1, <2>2 DEF LoseReply, ChannelTypes, Channels
  <2>3. CASE Abandon(c)
    BY <1>1, <2>3, SeedAssumption DEF Abandon, ChannelTypes, Channels, SeedAssumption
  <2>4. QED
    BY <2>1, <2>2, <2>3 DEF Network
<1>6. \A k \in Channels : ListingOK(k)'
  BY <1>4, <1>5 DEF CInv, ListingOK
<1>7. ~Ok(Failure)
  BY DEF Ok, Failure
<1>8. \A d \in Clients : Awaits(d)'
  BY <1>2, <1>3, <1>4, <1>5, <1>7 DEF CInv, Awaits
<1>9. RefsOK' /\ \A d \in Clients : CommandOK(command[d])'
  BY <1>2, <1>3 DEF CInv, RefsOK, CommandOK, WellFormed, Staged
<1>10. QED
  BY <1>1, <1>2, <1>6, <1>8, <1>9 DEF CInv

\* A user's command goes on, and so may its call of the library.
LEMMA MovingKeepsCInv ==
    ASSUME CInv, IInv', NEW c \in Clients, Moves(c), NEW m, CommandOK(m),
           command' = [command EXCEPT ![c] = m],
           DOMAIN refs \subseteq DOMAIN refs', RefsOK'
    PROVE  CInv'
<1>1. Others(c) /\ c \in Channels
  BY DEF Moves, Rests, Starts, GoesOn, Channels
<1>2. DeviceInv /\ DeviceInv' /\ StoreGrows
  BY <1>1 DEF CInv, IInv, Others, StoreGrows, DeviceInv, StoreTypes
<1>3. CommandOK(m)' /\ \A d \in Clients : CommandOK(command[d])
  BY <1>2, CommandStays DEF CInv
<1>4. command' = [d \in Clients |-> command'[d]] /\ command'[c] = m
      /\ \A d \in Clients \ {c} : command'[d] = command[d]
  BY DEF CInv
<1>5. ASSUME NEW d \in Clients PROVE CommandOK(command[d])'
  <2>1. PICK n : n = command'[d] /\ CommandOK(n)
    BY <1>3, <1>4
  <2>2. CommandOK(n)'
    BY <1>2, <2>1, CommandStays
  <2>3. QED
    BY <2>1, <2>2
<1>6. ASSUME NEW k \in Channels PROVE ListingOK(k)'
  <2>1. ListingOK(k) /\ \A found : HalfListing(found) => HalfListing(found)'
    BY <1>2, TrueStays DEF CInv
  <2>2. request'[k] = request[k] \/ request'[k].op # "listFolders"
    BY <1>1 DEF Moves, Rests, Starts, GoesOn, Others
  <2>3. QED
    BY <2>1, <2>2 DEF ListingOK
<1>7. ASSUME NEW d \in Clients PROVE Awaits(d)'
  <2>1. Awaits(d) /\ d \in Channels
    BY DEF CInv, Channels
  <2>2. CASE d # c \/ Rests(c)
    <3>1. request'[d] = request[d] /\ reply'[d] = reply[d] /\ pc'[d] = pc[d]
      BY <1>1, <2>1, <2>2 DEF Others, Rests
    <3>2. QED
      BY <1>2, <2>1, <3>1, AwaitsStays
  <2>3. CASE d = c /\ Starts(c)
    BY <2>3 DEF Starts, Awaits
  <2>4. CASE d = c /\ GoesOn(c)
    <3>1. reply'[c] = None /\ pc'[c] \notin {"fetched", "printed"}
      BY <2>4 DEF GoesOn, LaterSteps
    <3>2. QED
      BY <2>4, <3>1 DEF Awaits
  <2>5. QED
    BY <2>2, <2>3, <2>4 DEF Moves
<1>8. QED
  BY <1>4, <1>5, <1>6, <1>7 DEF CInv

\* The reference store is left alone.
LEMMA RefsAlone ==
    ASSUME CInv, IInv', NEW c \in Clients, Moves(c), UNCHANGED refs
    PROVE  RefsOK'
<1>1. Others(c)
  BY DEF Moves, Rests, Starts, GoesOn
<1>2. DeviceInv /\ DeviceInv' /\ StoreGrows
  BY <1>1 DEF CInv, IInv, Others, StoreGrows, DeviceInv, StoreTypes
<1>3. QED
  BY <1>2, RefsStay DEF CInv

\* It goes to its next stage.
LEMMA StageSet ==
    ASSUME NEW m, WellFormed(m), NEW stage
    PROVE  LET n == [m EXCEPT !.stage = stage] IN
           /\ WellFormed(n) /\ n.stage = stage /\ n.op = m.op /\ n.chosen = m.chosen
           /\ n.typed = m.typed /\ n.found = m.found /\ n.waiting = m.waiting /\ n.local = m.local
  BY DEF WellFormed, CommandFields

LEMMA StagingKeepsCInv ==
    ASSUME CInv, IInv', NEW c \in Clients, Moves(c), NEW stage, UNCHANGED refs,
           command' = [command EXCEPT ![c] = [command[c] EXCEPT !.stage = stage]],
           command[c].stage # "none",
           \/ stage \in {"acting", "listing"}
           \/ stage = "selecting" /\ At(c, "select")
           \/ stage = "fetch" /\ At(c, "fetching")
           \/ stage = "resolving" /\ At(c, "destination")
           \/ stage = "parent" /\ At(c, "resolving")
           \/ stage = "placing" /\ At(c, "parent")
           \/ stage = "act" /\ At(c, "placing") /\ command[c].op # "mkdir"
           \/ stage = "downloading" /\ Doing(c, "get")
           \/ stage = "discard" /\ At(c, "downloading")
    PROVE  CInv'
<1>1. WellFormed(command[c]) /\ Staged(command[c])
  BY DEF CInv, CommandOK
<1>2. PICK m : m = [command[c] EXCEPT !.stage = stage]
  OBVIOUS
<1>3. WellFormed(m) /\ m.stage = stage /\ m.op = command[c].op /\ m.chosen = command[c].chosen
  BY <1>1, <1>2, StageSet
<1>4. Staged(m)
  BY <1>1, <1>3 DEF Staged, At, Doing
<1>5. CommandOK(m)
  BY <1>3, <1>4 DEF CommandOK
<1>6. RefsOK'
  BY RefsAlone
<1>7. QED
  BY <1>2, <1>5, <1>6, MovingKeepsCInv

\* It ends, or stays where it is.
LEMMA FinishingKeepsCInv ==
    ASSUME CInv, IInv', NEW c \in Clients, Moves(c), UNCHANGED refs,
           command' = [command EXCEPT ![c] = NoCommand]
    PROVE  CInv'
<1>1. PICK m : m = NoCommand
  OBVIOUS
<1>2. CommandOK(m)
  BY <1>1 DEF NoCommand, CommandOK
<1>3. QED
  BY <1>1, <1>2, RefsAlone, MovingKeepsCInv

LEMMA StayingKeepsCInv ==
    ASSUME CInv, IInv', NEW c \in Clients, Moves(c), UNCHANGED <<refs, command>>
    PROVE  CInv'
<1>1. PICK m : m = command[c]
  OBVIOUS
<1>2. CommandOK(m) /\ command' = [command EXCEPT ![c] = m]
  BY <1>1 DEF CInv
<1>3. QED
  BY <1>2, RefsAlone, MovingKeepsCInv

-----------------------------------------------------------------------------
(* The stages of a command, one by one.                                    *)

\* A step that makes no call.
LEMMA NothingMoves ==
    ASSUME IInv, UNCHANGED vars, NEW c \in Clients
    PROVE  IInv' /\ Rests(c) /\ Moves(c)
<1>1. IInv'
  BY NextIInv
<1>2. Rests(c)
  BY DEF vars, deviceVars, clientVars, store, history, Rests, Others
<1>3. QED
  BY <1>1, <1>2 DEF Moves

\* A user types a line.
LEMMA BeginKeepsCInv ==
    ASSUME CInv, NEW c \in Clients, Begin(c)
    PROVE  CInv' /\ Moves(c)
<1>1. UNCHANGED vars /\ UNCHANGED refs
  BY DEF Begin
<1>2. IInv' /\ Moves(c) /\ RefsOK'
  BY <1>1, NothingMoves, RefsAlone DEF CInv
<1>3. PICK line, typed, waiting :
        /\ line \in CommandLines
        /\ waiting = IF line.by = "path" THEN {}
                     ELSE {n \in Candidates(typed) : refs[n].type \in Expected(line.op)}
        /\ command' = [command EXCEPT ![c] =
            [op |-> line.op, path |-> line.path, dest |-> line.dest, local |-> line.local,
             stage |-> FirstStage(line), chosen |-> None, found |-> {}, typed |-> typed,
             name |-> IF line.dest = << >> THEN None ELSE Last(line.dest),
             waiting |-> waiting]]
  BY DEF Begin
<1>4. /\ line.path \in Seq(AllNames) /\ line.dest \in Seq(AllNames)
      /\ line.op = "mkdir" => line.dest # << >>
      /\ line.op = "get" => line.local \in Locals
  BY <1>3, CommandsAssumption DEF CommandsAssumption, CommandLine
<1>5. line.dest # << >> => Last(line.dest) \in AllNames
  BY <1>4 DEF Last
<1>6. /\ FirstStage(line) \in {"select", "fetch"} => line.op \notin {"put", "mkdir"}
      /\ FirstStage(line) = "destination" => line.op = "put"
      /\ FirstStage(line) = "parent" => line.op = "mkdir"
      /\ FirstStage(line) \in {"select", "fetch", "destination", "parent"}
  BY DEF FirstStage
<1>7. PICK m : m =
            [op |-> line.op, path |-> line.path, dest |-> line.dest, local |-> line.local,
             stage |-> FirstStage(line), chosen |-> None, found |-> {}, typed |-> typed,
             name |-> IF line.dest = << >> THEN None ELSE Last(line.dest),
             waiting |-> waiting]
  OBVIOUS
<1>8. WellFormed(m)
  BY <1>1, <1>3, <1>4, <1>5, <1>7 DEF WellFormed, CommandFields, Candidates
<1>9. Staged(m)
  BY <1>6, <1>7 DEF Staged
<1>10. QED
  BY <1>1, <1>2, <1>3, <1>7, <1>8, <1>9, MovingKeepsCInv DEF CommandOK

\* A path is looked up.
LEMMA LookingUpKeepsCInv ==
    ASSUME CInv, NEW c \in Clients,
           LookUpObject(c) \/ LookUpDestination(c) \/ LookUpParent(c)
    PROVE  CInv' /\ Moves(c)
<1>1. command[c].stage # "none" /\ WellFormed(command[c])
  BY DEF LookUpObject, LookUpDestination, LookUpParent, At, CInv, CommandOK
<1>2. Front(command[c].dest) \in Seq(AllNames)
  <2>1. PICK d : d = command[c].dest /\ d \in Seq(AllNames)
    BY <1>1 DEF WellFormed
  <2>2. CASE d = << >>
    BY <2>1, <2>2 DEF Front
  <2>3. CASE d # << >>
    BY <2>1, <2>3, SubSeqProperties DEF Front
  <2>4. QED
    BY <2>1, <2>2, <2>3
<1>3. PICK path, stage :
        /\ path \in Seq(AllNames)
        /\ ResolvePath(c, path) /\ Stage(c, stage)
        /\ \/ stage = "selecting" /\ At(c, "select")
           \/ stage = "resolving" /\ At(c, "destination")
           \/ stage = "placing" /\ At(c, "parent")
  BY <1>1, <1>2 DEF LookUpObject, LookUpDestination, LookUpParent, WellFormed
<1>4. IInv'
  BY <1>3, ResolvePathKeepsInv DEF CInv
<1>5. Moves(c)
  BY <1>3, <1>4, ResolvePathStarts DEF CInv, Moves
<1>6. QED
  BY <1>1, <1>3, <1>4, <1>5, StagingKeepsCInv DEF Stage, Becomes

\* The answer to a look at a path.
LEMMA ResolvedFacts ==
    ASSUME CInv, NEW c \in Clients, Resolved(c)
    PROVE  IInv' /\ Moves(c) /\ (Ok(reply[c]) => TrueEntry(reply[c]))
<1>1. IInv' /\ ClientStep(c)
  BY ResolvedKeepsInv DEF CInv, ClientStep
<1>2. Moves(c)
  BY <1>1, LibraryGoesOn DEF CInv, Moves
<1>3. Ok(reply[c]) => TrueEntry(reply[c])
  BY HeardFacts DEF CInv, Resolved, Hears, TrueEntry
<1>4. QED
  BY <1>1, <1>2, <1>3

\* An object has been chosen, or the folder for a new one.
LEMMA ChoosingKeepsCInv ==
    ASSUME CInv, IInv', NEW c \in Clients, Moves(c), NEW e, TrueEntry(e), UNCHANGED refs,
           At(c, "selecting") \/ At(c, "fetch") \/ (At(c, "placing") /\ command[c].op = "mkdir"),
           command' = [command EXCEPT ![c] = Choice(c, e)]
    PROVE  CInv'
<1>1. WellFormed(command[c]) /\ Staged(command[c])
  BY DEF CInv, CommandOK, At
<1>2. e.id \in Nat
  BY DEF TrueEntry, TrueMetadata, DocumentOnce
<1>3. PICK m : m = Choice(c, e)
  OBVIOUS
<1>4. /\ WellFormed(m) /\ m.op = command[c].op /\ m.chosen = e.id
      /\ m.stage = IF m.op \in {"cp", "mv"} THEN "destination" ELSE "act"
  BY <1>1, <1>3 DEF Choice, WellFormed, CommandFields
<1>5. CommandOK(m)
  BY <1>2, <1>4 DEF CommandOK, Staged
<1>6. QED
  BY <1>3, <1>5, RefsAlone, MovingKeepsCInv

LEMMA ObjectKnownKeepsCInv ==
    ASSUME CInv, NEW c \in Clients, ObjectKnown(c)
    PROVE  CInv' /\ Moves(c)
<1>1. IInv' /\ Moves(c) /\ (Ok(reply[c]) => TrueEntry(reply[c]))
  BY ResolvedFacts DEF ObjectKnown
<1>2. CASE Ends(c)
  BY <1>1, <1>2, FinishingKeepsCInv DEF Ends, Becomes
<1>3. CASE Ok(reply[c]) /\ Becomes(c, Choice(c, reply[c]))
  <2>1. PICK e : e = reply[c]
    OBVIOUS
  <2>2. QED
    BY <1>1, <1>3, <2>1, ChoosingKeepsCInv DEF Becomes, ObjectKnown
<1>4. QED
  BY <1>2, <1>3 DEF ObjectKnown

\* A folder takes the object under its own name.
LEMMA DestinationKnownKeepsCInv ==
    ASSUME CInv, NEW c \in Clients, DestinationKnown(c)
    PROVE  CInv' /\ Moves(c)
<1> DEFINE ownName == IF command[c].op = "put" THEN command[c].local ELSE seen[c].name
<1>1. IInv' /\ Moves(c) /\ At(c, "resolving")
  BY ResolvedFacts DEF DestinationKnown
<1>2. CASE Ends(c)
  BY <1>1, <1>2, FinishingKeepsCInv DEF Ends, Becomes
<1>3. CASE Stage(c, "parent")
  BY <1>1, <1>3, StagingKeepsCInv DEF Stage, Becomes, At
<1>4. CASE Becomes(c, [command[c] EXCEPT !.stage = "act", !.name = ownName])
  <2>1. PICK m : m = [command[c] EXCEPT !.stage = "act", !.name = ownName]
    OBVIOUS
  <2>2. WellFormed(command[c]) /\ command[c].op \in {"put", "cp", "mv"}
    BY <1>1 DEF CInv, CommandOK, Staged, At
  <2>3. WellFormed(m) /\ m.op = command[c].op /\ m.stage = "act"
    BY <2>1, <2>2 DEF WellFormed, CommandFields
  <2>4. CommandOK(m)
    BY <2>2, <2>3 DEF CommandOK, Staged
  <2>5. QED
    BY <1>1, <1>4, <2>1, <2>4, RefsAlone, MovingKeepsCInv DEF Becomes
<1>5. QED
  BY <1>2, <1>3, <1>4 DEF DestinationKnown

LEMMA ParentKnownKeepsCInv ==
    ASSUME CInv, NEW c \in Clients, ParentKnown(c)
    PROVE  CInv' /\ Moves(c)
<1>1. IInv' /\ Moves(c) /\ (Ok(reply[c]) => TrueEntry(reply[c])) /\ At(c, "placing")
  BY ResolvedFacts DEF ParentKnown
<1>2. CASE Ends(c)
  BY <1>1, <1>2, FinishingKeepsCInv DEF Ends, Becomes
<1>3. CASE Ok(reply[c]) /\ command[c].op = "mkdir" /\ Becomes(c, Choice(c, reply[c]))
  <2>1. PICK e : e = reply[c]
    OBVIOUS
  <2>2. QED
    BY <1>1, <1>3, <2>1, ChoosingKeepsCInv DEF Becomes
<1>4. CASE command[c].op # "mkdir" /\ Becomes(c, [command[c] EXCEPT !.stage = "act"])
  BY <1>1, <1>4, StagingKeepsCInv DEF Becomes, At
<1>5. QED
  BY <1>2, <1>3, <1>4 DEF ParentKnown

-----------------------------------------------------------------------------
(* The reference store.                                                    *)

\* The sequence of the elements of a set has each of them once.
LEMMA SetToSeqIsOneEach ==
    ASSUME NEW S, IsFiniteSet(S)
    PROVE  /\ SetToSeq(S) \in Seq(S) /\ DOMAIN SetToSeq(S) = 1 .. Len(SetToSeq(S))
           /\ \A m, n \in DOMAIN SetToSeq(S) : SetToSeq(S)[m] = SetToSeq(S)[n] => m = n
<1>1. PICK k \in Nat : k = Cardinality(S)
  BY FS_CardinalityType
<1>2. ExistsBijection(1 .. k, S)
  BY <1>1, FS_CardinalityType
<1>3. PICK g : g \in Bijection(1 .. k, S)
  BY <1>2 DEF ExistsBijection
<1>4. g \in [1 .. k -> S] /\ IsInjective(g)
  BY <1>3 DEF Bijection, Injection, IsInjective
<1>5. SetToSeq(S) = CHOOSE f \in [1 .. k -> S] : IsInjective(f)
  BY <1>1 DEF SetToSeq
<1>6. SetToSeq(S) \in [1 .. k -> S] /\ IsInjective(SetToSeq(S))
  BY <1>4, <1>5
<1>7. PICK s : s = SetToSeq(S)
  OBVIOUS
<1>8. s \in Seq(S) /\ DOMAIN s = 1 .. Len(s)
  BY <1>6, <1>7
<1>9. \A m, n \in DOMAIN s : s[m] = s[n] => m = n
  BY <1>6, <1>7 DEF IsInjective
<1>10. QED
  BY <1>7, <1>8, <1>9

\* Assign keeps every number and gives one to each new object.
LEMMA AssignedIsOK ==
    ASSUME RefsOK, NEW found, TrueListing(found)
    PROVE  LET new == Assigned(refs, found) IN
           /\ new \in Seq(Item) /\ \A n \in DOMAIN new : TrueItem(new[n])
           /\ \A n \in DOMAIN refs : n \in DOMAIN new /\ new[n] = refs[n]
           /\ \A m, n \in DOMAIN new : new[m].id = new[n].id => m = n
<1> DEFINE fresh == {e \in found : e.id \notin {r.id : r \in Range(refs)}}
<1>1. IsFiniteSet(fresh) /\ fresh \subseteq found
  BY FS_Subset DEF TrueListing
<1>2. PICK s : s = SetToSeq(fresh) /\ s \in Seq(fresh) /\ DOMAIN s = 1 .. Len(s)
               /\ \A m, n \in DOMAIN s : s[m] = s[n] => m = n
  BY <1>1, SetToSeqIsOneEach
<1>3. \A e \in fresh : e \in Item /\ TrueItem(e) /\ \A n \in DOMAIN refs : refs[n].id # e.id
  BY <1>1 DEF TrueListing, TrueItem, Range
<1>4. \A n \in DOMAIN s : s[n] \in fresh
  BY <1>2
<1>5. Assigned(refs, found) = refs \o s
  BY <1>2 DEF Assigned
<1>6. PICK new : new = refs \o s
  OBVIOUS
<1>7. \A d, e \in fresh : d.id = e.id => d = e
  BY <1>1 DEF TrueListing
<1> HIDE DEF fresh
<1>8. s \in Seq(Item)
  BY <1>2, <1>3, <1>4
<1>9. /\ new \in Seq(Item) /\ Len(new) = Len(refs) + Len(s) /\ Len(refs) \in Nat /\ Len(s) \in Nat
      /\ DOMAIN new = 1 .. Len(new) /\ DOMAIN refs = 1 .. Len(refs)
      /\ \A n \in 1 .. Len(refs) : new[n] = refs[n]
      /\ \A n \in (Len(refs) + 1) .. Len(new) : new[n] = s[n - Len(refs)]
  BY <1>6, <1>8, ConcatProperties DEF RefsOK
<1>10. \A n \in DOMAIN new : n \in DOMAIN refs \/ (n - Len(refs) \in DOMAIN s /\ n > Len(refs))
  BY <1>2, <1>9
<1>11. \A n \in DOMAIN new : \/ n \in DOMAIN refs /\ new[n] = refs[n]
                             \/ n - Len(refs) \in DOMAIN s /\ new[n] = s[n - Len(refs)]
  BY <1>2, <1>9, <1>10
<1>12. \A n \in DOMAIN new : TrueItem(new[n])
  BY <1>3, <1>4, <1>11 DEF RefsOK
<1>13. ASSUME NEW m \in DOMAIN new, NEW n \in DOMAIN new, new[m].id = new[n].id PROVE m = n
  <2>1. CASE m \in DOMAIN refs /\ n \in DOMAIN refs
    BY <1>9, <1>13, <2>1 DEF RefsOK
  <2>2. CASE m \notin DOMAIN refs /\ n \notin DOMAIN refs
    <3>1. m - Len(refs) \in DOMAIN s /\ n - Len(refs) \in DOMAIN s
          /\ new[m] = s[m - Len(refs)] /\ new[n] = s[n - Len(refs)]
      BY <1>11, <2>2
    <3>2. s[m - Len(refs)] = s[n - Len(refs)]
      BY <1>4, <1>7, <1>13, <3>1
    <3>3. m - Len(refs) = n - Len(refs)
      BY <1>2, <3>1, <3>2
    <3>4. QED
      BY <1>9, <3>3
  <2>3. CASE m \in DOMAIN refs /\ n \notin DOMAIN refs
    BY <1>3, <1>4, <1>9, <1>11, <1>13, <2>3
  <2>4. CASE m \notin DOMAIN refs /\ n \in DOMAIN refs
    BY <1>3, <1>4, <1>9, <1>11, <1>13, <2>4
  <2>5. QED
    BY <2>1, <2>2, <2>3, <2>4
<1>14. QED
  BY <1>5, <1>6, <1>9, <1>12, <1>13

-----------------------------------------------------------------------------
(* The calls of the commands.                                              *)

\* A call that only reads.
LEMMA ReadingKeepsInv ==
    ASSUME IInv, NEW c \in Clients, NEW op \in {"get", "list", "open", "download"},
           NEW step \in {"fetched", "printed", "opened", "downloaded"},
           NEW q \in Request, q.op \in {"getDocument", "getFolder", "list", "open", "download"},
           step = "fetched" => q.op \in {"getDocument", "getFolder"},
           step = "printed" => q.op = "list",
           Start(c, op, Asked(op), step), Ask(c, q)
    PROVE  IInv' /\ Moves(c) /\ pc'[c] = step /\ request'[c] = q
<1>1. PICK args : args = Asked(op) /\ args \in Call /\ args.op = op
  BY DEF Asked, Call, Calls
<1>2. pc'[c] = step /\ call'[c] = args /\ request'[c] = q
  BY <1>1, StartSets
<1>3. RequestFits(q) /\ Knows(c)' /\ Expects(c)'
  BY <1>1, <1>2 DEF RequestFits, Knows, Targeted, Expects
<1>4. IInv'
  BY <1>1, <1>3, StartingKeepsInv
<1>5. QED
  BY <1>2, <1>4, ReadingStarts DEF Moves

LEMMA FetchNextKeepsCInv ==
    ASSUME CInv, NEW c \in Clients, FetchNext(c)
    PROVE  CInv' /\ Moves(c)
<1>1. PICK n \in command[c].waiting :
        /\ Start(c, "get", Asked("get"), "fetched") /\ Ask(c, GetByReference(refs[n]))
        /\ Becomes(c, [command[c] EXCEPT !.stage = "fetching", !.waiting = @ \ {n}])
  BY DEF FetchNext
<1>2. WellFormed(command[c]) /\ Staged(command[c]) /\ At(c, "fetch")
  BY DEF CInv, CommandOK, FetchNext, At
<1>3. n \in DOMAIN refs /\ refs[n] \in Item /\ refs[n].id \in Nat
  BY <1>2 DEF WellFormed, CInv, RefsOK, TrueItem, Item
<1>4. PICK q : q = GetByReference(refs[n])
  OBVIOUS
<1>5. q \in Request /\ q.op \in {"getDocument", "getFolder"}
  BY <1>3, <1>4 DEF GetByReference, Request
<1>6. IInv' /\ Moves(c)
  BY <1>1, <1>4, <1>5, ReadingKeepsInv DEF CInv
<1>7. PICK m : m = [command[c] EXCEPT !.stage = "fetching", !.waiting = @ \ {n}]
  OBVIOUS
<1>8. WellFormed(m) /\ m.stage = "fetching" /\ m.op = command[c].op
  BY <1>2, <1>7 DEF WellFormed, CommandFields
<1>9. CommandOK(m)
  BY <1>2, <1>8 DEF CommandOK, Staged, At
<1>10. QED
  BY <1>1, <1>6, <1>7, <1>9, RefsAlone, MovingKeepsCInv DEF Becomes

\* An answer that ends a call which only reads.
LEMMA ReadFacts ==
    ASSUME CInv, NEW c \in Clients, NEW step, step # "idle", NEW op,
           Heard(c, step), Fail(c, Succeeded(op))
    PROVE  IInv' /\ GoesOn(c) /\ Moves(c) /\ Awaits(c) /\ reply[c] # None /\ pc[c] = step
<1>1. reply[c] # None /\ pc[c] = step
  BY DEF Heard
<1>2. IInv'
  BY <1>1, PlainFailure DEF CInv
<1>3. GoesOn(c) /\ Awaits(c)
  BY FailingGoesOn DEF CInv
<1>4. QED
  BY <1>1, <1>2, <1>3 DEF Moves

LEMMA FetchedKeepsCInv ==
    ASSUME CInv, NEW c \in Clients, Fetched(c)
    PROVE  CInv' /\ Moves(c)
<1>1. /\ IInv' /\ Moves(c) /\ At(c, "fetching")
      /\ Ok(reply[c]) => TrueEntry(reply[c])
  BY ReadFacts DEF Fetched, Awaits
<1>2. CASE Ends(c)
  BY <1>1, <1>2, FinishingKeepsCInv DEF Ends, Becomes
<1>3. CASE Stage(c, "fetch")
  BY <1>1, <1>3, StagingKeepsCInv DEF Stage, Becomes, At
<1>4. CASE /\ Ok(reply[c])
           /\ Becomes(c, [command[c] EXCEPT !.stage = "fetch", !.found = @ \cup {reply[c]}])
  <2>1. PICK m : m = [command[c] EXCEPT !.stage = "fetch", !.found = @ \cup {reply[c]}]
    OBVIOUS
  <2>2. WellFormed(command[c]) /\ Staged(command[c])
    BY <1>1 DEF CInv, CommandOK, At
  <2>3. WellFormed(m) /\ m.stage = "fetch" /\ m.op = command[c].op
    BY <1>1, <1>4, <2>1, <2>2 DEF WellFormed, CommandFields
  <2>4. CommandOK(m)
    BY <1>1, <2>2, <2>3 DEF CommandOK, Staged, At
  <2>5. QED
    BY <1>1, <1>4, <2>1, <2>4, RefsAlone, MovingKeepsCInv DEF Becomes
<1>5. QED
  BY <1>2, <1>3, <1>4 DEF Fetched

\* Choosing one of those that were found is looking at it.
LEMMA ChooseKeepsCInv ==
    ASSUME CInv, NEW c \in Clients, Choose(c)
    PROVE  CInv' /\ Moves(c) /\ Rests(c)
<1>1. At(c, "fetch") /\ WellFormed(command[c])
  BY DEF Choose, CInv, CommandOK, At
<1>2. CASE command' = [command EXCEPT ![c] = NoCommand] /\ UNCHANGED vars /\ UNCHANGED refs
  <2>1. IInv' /\ Moves(c) /\ Rests(c)
    BY <1>2, NothingMoves DEF CInv
  <2>2. QED
    BY <1>2, <2>1, FinishingKeepsCInv
<1>3. CASE ~(command' = [command EXCEPT ![c] = NoCommand] /\ UNCHANGED vars /\ UNCHANGED refs)
  <2>1. PICK e \in command[c].found :
          /\ Becomes(c, Choice(c, e))
          /\ seen' = [seen EXCEPT ![c] = IF e.type = "document" THEN e ELSE @]
          /\ place' = [place EXCEPT ![c] = IF e.type = "folder" THEN e.id ELSE @]
          /\ UNCHANGED <<deviceVars, pc, call, calls, outcome, Reported, failures>>
    BY <1>3 DEF Choose
  <2>2. TrueEntry(e)
    BY <1>1 DEF WellFormed
  <2>3. /\ UNCHANGED <<nextID, folders, documents, contents, versions, destroyed, request, reply,
                       pc, call, calls, outcome, deleted, published>>
        /\ UNCHANGED <<store, history>>
    BY <2>1 DEF deviceVars, store, history, Reported
  <2>4. ClientTypes /\ DeviceInv /\ ReportsAreTrue /\ \A d \in Clients : ClientInv(d)
    BY DEF CInv, IInv
  <2>5. seen'[c] # None => TrueMetadata(seen'[c])
    BY <2>1, <2>2, <2>4 DEF ClientTypes, ClientInv, Keeps, TrueEntry
  <2>6. ClientInv(c)'
    <3>1. Waiting(c)' /\ Knows(c)' /\ Expects(c)' /\ Hears(c)'
      BY <2>3, <2>4 DEF ClientInv, Waiting, Knows, Targeted, Expects, Hears, OwnEntry,
        DocumentOnce, FolderOnce, TrueMetadata, Ids
    <3>2. Keeps(c)'
      BY <2>3, <2>4, <2>5 DEF ClientInv, Keeps, TrueMetadata, DocumentOnce, OwnEntry
    <3>3. QED
      BY <3>1, <3>2 DEF ClientInv
  <2>7. ClientTypes'
    <3>1. place' \in [Clients -> Nat]
      BY <2>1, <2>2, <2>4 DEF ClientTypes, TrueEntry
    <3>2. seen' = [d \in Clients |-> seen'[d]]
      BY <2>1, <2>4 DEF ClientTypes
    <3>3. QED
      BY <2>3, <2>4, <3>1, <3>2 DEF ClientTypes
  <2>8. \A d \in Clients \ {c} : seen'[d] = seen[d]
    BY <2>1, <2>4 DEF ClientTypes
  <2>9. ChannelTypes' /\ ReportsAreTrue' /\ \A j \in Channels : RequestOK(j)'
    BY <2>3, <2>4 DEF DeviceInv, ChannelTypes, ReportsAreTrue, Ids, RequestOK, RequestFits
  <2>10. IInv'
    BY <2>3, <2>6, <2>7, <2>8, <2>9, OneClientMoves DEF CInv
  <2>11. Rests(c) /\ Moves(c)
    BY <2>3 DEF Moves, Rests, Others
  <2>12. QED
    BY <1>1, <2>1, <2>2, <2>10, <2>11, ChoosingKeepsCInv DEF Becomes
<1>4. QED
  BY <1>2, <1>3

\* The writes.
LEMMA WritingKeepsCInv ==
    ASSUME CInv, NEW c \in Clients,
           RemoveDocument(c) \/ RemoveFolder(c) \/ MakeFolder(c) \/ CopyObject(c) \/ MoveObject(c) \/ Put(c)
    PROVE  CInv' /\ Moves(c)
<1>1. At(c, "act") /\ WellFormed(command[c]) /\ Staged(command[c])
  BY DEF RemoveDocument, RemoveFolder, MakeFolder, CopyObject, MoveObject, Put, Doing, CInv, CommandOK, At
<1>2. CASE Ends(c) /\ UNCHANGED vars
  <2>1. IInv' /\ Moves(c)
    BY <1>2, NothingMoves DEF CInv
  <2>2. QED
    BY <1>2, <2>1, FinishingKeepsCInv DEF Ends, Becomes
<1>3. CASE /\ Stage(c, "acting")
           /\ \/ Delete(c) \/ DeleteEmpty(c) \/ Copy(c) \/ UpdateDocument(c) \/ CreateAndUpload(c)
              \/ \E parent \in Nat, name \in AllNames : CreateFolderIn(c, parent, name)
  <2>1. IInv'
    BY <1>3, DeleteKeepsInv, DeleteEmptyKeepsInv, CopyKeepsInv, UpdateDocumentKeepsInv,
       CreateAndUploadKeepsInv, CreateFolderInKeepsInv
    DEF CInv
  <2>2. Starts(c)
    BY <1>3, <2>1, WritingStarts DEF CInv
  <2>3. QED
    BY <1>1, <1>3, <2>1, <2>2, StagingKeepsCInv DEF Moves, Stage, Becomes, At
<1>4. MakeFolder(c) => /\ Stage(c, "acting")
                       /\ \E parent \in Nat, name \in AllNames : CreateFolderIn(c, parent, name)
  BY <1>1 DEF MakeFolder, Doing, WellFormed, Staged, At
<1>5. QED
  BY <1>2, <1>3, <1>4 DEF RemoveDocument, RemoveFolder, CopyObject, MoveObject, Put

LEMMA ReadingKeepsCInv ==
    ASSUME CInv, NEW c \in Clients, Open(c) \/ List(c) \/ GetInto(c)
    PROVE  CInv' /\ Moves(c)
<1>1. At(c, "act") /\ command[c].op \in {"open", "ls", "get"} /\ WellFormed(command[c]) /\ Staged(command[c])
  BY DEF Open, List, GetInto, Doing, CInv, CommandOK, At
<1>2. command[c].chosen \in Nat
  BY <1>1 DEF Staged, At
<1>3. CASE Open(c)
  <2>1. PICK q : q = [op |-> "open", id |-> command[c].chosen]
    OBVIOUS
  <2>2. IInv' /\ Moves(c)
    <3>1. Start(c, "open", Asked("open"), "opened") /\ Ask(c, q)
      BY <1>3, <2>1 DEF Open
    <3>2. q \in Request /\ q.op = "open"
      BY <1>2, <2>1 DEF Request
    <3>3. QED
      BY <3>1, <3>2, ReadingKeepsInv DEF CInv
  <2>3. QED
    BY <1>1, <1>3, <2>2, StagingKeepsCInv DEF Open, Stage, Becomes, At
<1>4. CASE List(c)
  <2>1. PICK q : q = [op |-> "list", id |-> command[c].chosen]
    OBVIOUS
  <2>2. IInv' /\ Moves(c)
    <3>1. Start(c, "list", Asked("list"), "printed") /\ Ask(c, q)
      BY <1>4, <2>1 DEF List
    <3>2. q \in Request /\ q.op = "list"
      BY <1>2, <2>1 DEF Request
    <3>3. QED
      BY <3>1, <3>2, ReadingKeepsInv DEF CInv
  <2>3. QED
    BY <1>1, <1>4, <2>2, StagingKeepsCInv DEF List, Stage, Becomes, At
<1>5. CASE GetInto(c)
  <2>1. CASE Ends(c) /\ UNCHANGED vars
    <3>1. IInv' /\ Moves(c)
      BY <2>1, NothingMoves DEF CInv
    <3>2. QED
      BY <2>1, <3>1, FinishingKeepsCInv DEF Ends, Becomes
  <2>2. CASE ~(Ends(c) /\ UNCHANGED vars)
    <3>1. PICK q : q = [op |-> "download", id |-> command[c].chosen]
      BY <1>2 DEF Request
    <3>2. IInv' /\ Moves(c)
      <4>1. Start(c, "download", Asked("download"), "downloaded") /\ Ask(c, q)
        BY <1>5, <2>2, <3>1 DEF GetInto
      <4>2. q \in Request /\ q.op = "download"
        BY <1>2, <3>1 DEF Request
      <4>3. QED
        BY <4>1, <4>2, ReadingKeepsInv DEF CInv
    <3>3. command' = [command EXCEPT ![c] = [command[c] EXCEPT !.stage = "downloading"]] /\ refs' = refs
      BY <1>5, <2>2 DEF GetInto
    <3>4. QED
      BY <1>1, <1>5, <3>2, <3>3, StagingKeepsCInv DEF GetInto, At
  <2>3. QED
    BY <2>1, <2>2
<1>6. QED
  BY <1>3, <1>4, <1>5

\* ls -l numbers what it has been told.
LEMMA PrintingKeepsCInv ==
    ASSUME CInv, IInv', NEW c \in Clients, Moves(c), NEW entries, TrueListing(entries), PrintEntries(c, entries)
    PROVE  CInv'
<1>1. Others(c)
  BY DEF Moves, Rests, Starts, GoesOn
<1>2. DeviceInv /\ DeviceInv' /\ StoreGrows
  BY <1>1 DEF CInv, IInv, Others, StoreGrows, DeviceInv, StoreTypes
<1>3. PICK new : new = refs'
  OBVIOUS
<1>4. /\ new \in Seq(Item) /\ \A n \in DOMAIN new : TrueItem(new[n])
      /\ \A n \in DOMAIN refs : n \in DOMAIN new /\ new[n] = refs[n]
      /\ \A m, n \in DOMAIN new : new[m].id = new[n].id => m = n
  BY <1>3, AssignedIsOK DEF PrintEntries, CInv, RefsOK
<1>5. RefsOK' /\ DOMAIN refs \subseteq DOMAIN refs'
  <2>1. \A e : TrueItem(e) => TrueItem(e)'
    BY <1>2, TrueStays
  <2>2. QED
    BY <1>3, <1>4, <2>1 DEF RefsOK
<1>6. PICK m : m = NoCommand
  OBVIOUS
<1>7. CommandOK(m) /\ command' = [command EXCEPT ![c] = m]
  BY <1>6 DEF NoCommand, CommandOK, PrintEntries
<1>8. QED
  BY <1>5, <1>7, MovingKeepsCInv

LEMMA PrintListKeepsCInv ==
    ASSUME CInv, NEW c \in Clients, PrintList(c)
    PROVE  CInv' /\ Moves(c)
<1>1. IInv' /\ Moves(c) /\ (Ok(reply[c]) => TrueListing(reply[c].found))
  BY ReadFacts DEF PrintList, Awaits
<1>2. CASE Ok(reply[c])
  BY <1>1, <1>2, PrintingKeepsCInv DEF PrintList
<1>3. CASE ~Ok(reply[c])
  BY <1>1, <1>3, FinishingKeepsCInv DEF PrintList, Ends, Becomes
<1>4. QED
  BY <1>2, <1>3

\* A document that was looked at is an entry for the store.
LEMMA SeenIsListing ==
    ASSUME CInv, NEW c \in Clients, DocumentChosen(c)
    PROVE  TrueListing({[id |-> seen[c].id, type |-> "document"]})
<1>1. PICK item : item = [id |-> seen[c].id, type |-> "document"]
  OBVIOUS
<1>2. DocumentOnce(seen[c].id)
  BY DEF DocumentChosen, CInv, IInv, ClientInv, Keeps, TrueMetadata
<1>3. TrueItem(item)
  BY <1>1, <1>2 DEF TrueItem, Item, DocumentOnce
<1>4. IsFiniteSet({item})
  BY FS_Singleton
<1>5. QED
  BY <1>1, <1>3, <1>4 DEF TrueListing

LEMMA PrintDocumentKeepsCInv ==
    ASSUME CInv, NEW c \in Clients, PrintDocument(c)
    PROVE  CInv' /\ Moves(c) /\ Rests(c)
<1>1. IInv' /\ Moves(c) /\ Rests(c)
  BY NothingMoves DEF PrintDocument, CInv
<1>2. QED
  BY <1>1, SeenIsListing, PrintingKeepsCInv DEF PrintDocument

LEMMA OpenedKeepsCInv ==
    ASSUME CInv, NEW c \in Clients, Opened(c)
    PROVE  CInv' /\ Moves(c)
<1>1. IInv' /\ Moves(c) /\ UNCHANGED <<refs, command>>
  BY ReadFacts DEF Opened, commandVars
<1>2. QED
  BY <1>1, StayingKeepsCInv

\* The call is over, or its file is taken away again.
LEMMA EndingKeepsCInv ==
    ASSUME CInv, NEW c \in Clients, Acted(c) \/ Discard(c)
    PROVE  CInv' /\ Moves(c) /\ Rests(c)
<1>1. UNCHANGED vars /\ UNCHANGED refs /\ command' = [command EXCEPT ![c] = NoCommand]
  BY DEF Acted, Discard, Ends, Becomes
<1>2. IInv' /\ Moves(c) /\ Rests(c)
  BY <1>1, NothingMoves DEF CInv
<1>3. QED
  BY <1>1, <1>2, FinishingKeepsCInv

LEMMA DownloadedKeepsCInv ==
    ASSUME CInv, NEW c \in Clients, Downloaded(c)
    PROVE  CInv' /\ Moves(c)
<1>1. IInv' /\ Moves(c) /\ UNCHANGED refs /\ At(c, "downloading")
  BY ReadFacts DEF Downloaded
<1>2. \/ command' = [command EXCEPT ![c] = NoCommand]
      \/ command' = [command EXCEPT ![c] = [command[c] EXCEPT !.stage = "discard"]]
  BY DEF Downloaded
<1>3. CASE command' = [command EXCEPT ![c] = NoCommand]
  BY <1>1, <1>3, FinishingKeepsCInv
<1>4. CASE command' = [command EXCEPT ![c] = [command[c] EXCEPT !.stage = "discard"]]
  BY <1>1, <1>4, StagingKeepsCInv DEF At
<1>5. QED
  BY <1>2, <1>3, <1>4

LEMMA LibraryStepKeepsCInv ==
    ASSUME CInv, NEW c \in Clients, LibraryStep(c)
    PROVE  CInv' /\ Moves(c)
<1>1. ClientStep(c) /\ UNCHANGED <<refs, command>>
  BY DEF LibraryStep, commandVars
<1>2. IInv'
  BY <1>1, NextIInv DEF CInv, Next
<1>3. Moves(c)
  BY <1>1, <1>2, LibraryGoesOn DEF CInv, Moves
<1>4. QED
  BY <1>1, <1>2, <1>3, StayingKeepsCInv

\* A step of one user.
UserStep(c) == Begin(c) \/ Select(c) \/ FindPlace(c) \/ Act(c) \/ LibraryStep(c)

LEMMA UserKeepsCInv ==
    ASSUME CInv, NEW c \in Clients, UserStep(c)
    PROVE  CInv' /\ Moves(c)
<1>1. CASE Begin(c)
  BY <1>1, BeginKeepsCInv
<1>2. CASE Select(c)
  BY <1>2, LookingUpKeepsCInv, ObjectKnownKeepsCInv, FetchNextKeepsCInv, FetchedKeepsCInv,
     ChooseKeepsCInv
  DEF Select
<1>3. CASE FindPlace(c)
  BY <1>3, LookingUpKeepsCInv, DestinationKnownKeepsCInv, ParentKnownKeepsCInv DEF FindPlace
<1>4. CASE Act(c)
  BY <1>4, WritingKeepsCInv, ReadingKeepsCInv, PrintListKeepsCInv, OpenedKeepsCInv,
     EndingKeepsCInv, DownloadedKeepsCInv, PrintDocumentKeepsCInv
  DEF Act
<1>5. CASE LibraryStep(c)
  BY <1>5, LibraryStepKeepsCInv
<1>6. QED
  BY <1>1, <1>2, <1>3, <1>4, <1>5 DEF UserStep

-----------------------------------------------------------------------------
(* What every command can rely on.                                         *)

LEMMA InitCInv == CommandsInit => CInv
<1> SUFFICES ASSUME CommandsInit PROVE CInv
  OBVIOUS
<1>1. IInv
  BY InitIInv DEF CommandsInit
<1>2. \A k \in Channels : request[k] = None
  BY DEF CommandsInit, Init, DeviceInit
<1>3. ASSUME NEW c \in Clients PROVE CommandOK(command[c]) /\ Awaits(c)
  <2>1. request[c] = None /\ reply[c] = None /\ command[c] = NoCommand
    BY DEF CommandsInit, Init, DeviceInit, Channels
  <2>2. QED
    BY <2>1 DEF CommandOK, Awaits, NoCommand
<1>4. RefsOK
  <2>1. PICK n \in Nat : n = Cardinality(Ids) /\ Ids = 1 .. n
    <3>1. PICK S : S = Ids /\ S = SeedIds
      BY DEF CommandsInit, Init, DeviceInit, Ids, SeedIds
    <3>2. IsFiniteSet(S) /\ S = 1 .. Cardinality(S)
      BY <3>1, SeedAssumption DEF SeedAssumption
    <3>3. Cardinality(S) \in Nat
      BY <3>2, FS_CardinalityType
    <3>4. QED
      BY <3>1, <3>2, <3>3
  <2>2. PICK s : s = refs /\ s = Seeded
    BY DEF CommandsInit
  <2>3. DOMAIN s = 1 .. n /\ s \in [1 .. n -> Item]
    BY <2>1, <2>2 DEF Seeded, Item
  <2>4. \A m \in DOMAIN s : s[m] = [id |-> m, type |-> IF m \in DOMAIN folders THEN "folder" ELSE "document"]
    BY <2>1, <2>2 DEF Seeded
  <2>5. \A m \in DOMAIN s : TrueItem(s[m]) /\ s[m].id = m
    <3> SUFFICES ASSUME NEW m \in DOMAIN s PROVE TrueItem(s[m]) /\ s[m].id = m
      OBVIOUS
    <3>1. m \in Ids /\ s[m] \in Item
      BY <2>1, <2>3
    <3>2. /\ m \in Nat /\ m < nextID
          /\ m \in DOMAIN folders \/ m \in DOMAIN documents
          /\ m \in DOMAIN folders => m \notin DOMAIN documents
      BY <1>1, <3>1 DEF IInv, DeviceInv, StoreTypes, Ids
    <3>3. s[m].id = m /\ s[m].type = IF m \in DOMAIN folders THEN "folder" ELSE "document"
      BY <2>4
    <3>4. QED
      BY <3>1, <3>2, <3>3 DEF TrueItem, DocumentOnce, FolderOnce
  <2>6. s \in Seq(Item)
    BY <2>3
  <2>7. QED
    BY <2>2, <2>5, <2>6 DEF RefsOK
<1>5. command = [c \in Clients |-> command[c]]
  BY DEF CommandsInit
<1>6. QED
  BY <1>1, <1>2, <1>3, <1>4, <1>5 DEF CInv, ListingOK

LEMMA NextCInv == CInv /\ [CommandsNext]_allVars => CInv'
<1> SUFFICES ASSUME CInv, [CommandsNext]_allVars PROVE CInv'
  OBVIOUS
<1>1. CASE DeviceStep /\ UNCHANGED commandVars
  BY <1>1, ServingKeepsCInv DEF DeviceStep
<1>2. ASSUME NEW c \in Clients, UserStep(c) PROVE CInv'
  BY <1>2, UserKeepsCInv
<1>3. ASSUME NEW c \in Clients, Network(c) /\ UNCHANGED commandVars PROVE CInv'
  BY <1>3, NetworkKeepsCInv
<1>4. CASE UNCHANGED allVars
  <2>1. UNCHANGED <<nextID, folders, documents, contents, versions, request, reply, pc, command, refs>>
    BY <1>4 DEF allVars, vars, deviceVars, store, history, clientVars, commandVars
  <2>2. IInv'
    BY <1>4, NextIInv DEF CInv, allVars
  <2>3. QED
    BY <2>1, <2>2 DEF CInv, ListingOK, HalfListing, TrueListing, TrueItem, DocumentOnce, FolderOnce,
      RefsOK, CommandOK, WellFormed, Staged, TrueEntry, TrueMetadata, Awaits
<1>5. QED
  BY <1>1, <1>2, <1>3, <1>4 DEF CommandsNext, UserStep

\* What a command knows between two of its calls is true, and stays so: what
\* an entry is that it has looked up (selectors.go), that a number of the
\* reference store stands for one object (object_references.go), and that the
\* library's own invariant holds below it.
THEOREM CommandsInvariance == CommandsSpec => []CInv
  BY InitCInv, NextCInv, PTL DEF CommandsSpec

-----------------------------------------------------------------------------
(* put overwrites nothing.                                                 *)

\* The calls of a user are numbered, so a tag names one call and no later one.
Past(m) == \A d \in Clients, n \in Nat : m = <<d, n>> => n <= calls[d]
TagsArePast ==
    /\ \A i \in DOMAIN documents : Past(documents[i].maker)
    /\ \A k \in Channels :
          request[k] # None /\ request[k].op \in {"createDocument", "copy"} => Past(request[k].tag)

\* No copy is under way for a call that is none.
CopiesAreCalled ==
    \A k \in Channels, c \in Clients :
        /\ request[k] # None /\ request[k].op = "copy" /\ request[k].tag = <<c, calls[c]>>
        /\ pc[c] # "idle"
        => call[c].op = "copy"

\* What a put has created is blank until it uploads.
Creating(c) == pc[c] \in {"created", "verifyCreated"}
CreatedIsBlank ==
    \A c \in Clients : Creating(c) /\ call[c].op = "put" =>
        \A i \in DOMAIN documents : documents[i].maker = <<c, calls[c]>> => contents[i] = Blank

\* An upload goes to a blank document, whose put is past creating it; there
\* is one upload for each.
Uploads(k) == request[k] # None /\ request[k].op = "upload"
UploadsFill ==
    /\ \A k \in Channels : Uploads(k) =>
          /\ request[k].id \in Nat /\ request[k].id < nextID
          /\ request[k].id \in DOMAIN documents =>
                /\ contents[request[k].id] = Blank
                /\ \E d \in Clients, n \in Nat :
                      /\ documents[request[k].id].maker = <<d, n>>
                      /\ n = calls[d] => ~Creating(d)
    /\ \A j, k \in Channels :
          Uploads(j) /\ Uploads(k) /\ request[j].id = request[k].id
             /\ request[k].id \in DOMAIN documents
          => j = k

PutInv == TagsArePast /\ CopiesAreCalled /\ CreatedIsBlank /\ UploadsFill

\* What handling a request does to the documents: a new one is the requested
\* one, and only an upload gives an old one another body.
DocumentsAfter(k) ==
    /\ request'[k] = None \/ request'[k].op = "listFolders"
    /\ \A j \in Channels \ {k} : request'[j] = request[j]
    /\ \A i \in DOMAIN documents \cap DOMAIN documents' :
          \/ contents'[i] = contents[i] /\ documents'[i].revision = documents[i].revision
          \/ request[k].op = "upload" /\ i = request[k].id
    /\ \A i \in DOMAIN documents' \ DOMAIN documents :
          /\ request[k].op \in {"createDocument", "copy"} /\ documents'[i].maker = request[k].tag
          /\ i = nextID
          /\ request[k].op = "createDocument" => contents'[i] = Blank

LEMMA ServingChangesDocuments ==
    ASSUME DeviceInv, NEW k \in Channels, Serve(k)
    PROVE  DocumentsAfter(k)
<1> DEFINE q == request[k]
           OldOnes == \A i \in DOMAIN documents \cap DOMAIN documents' :
                         \/ contents'[i] = contents[i] /\ documents'[i].revision = documents[i].revision
                         \/ q.op = "upload" /\ i = q.id
           NewOnes == \A i \in DOMAIN documents' \ DOMAIN documents :
                      /\ q.op \in {"createDocument", "copy"} /\ documents'[i].maker = q.tag
                      /\ i = nextID
                      /\ q.op = "createDocument" => contents'[i] = Blank
<1>1. /\ request'[k] = None \/ request'[k].op = "listFolders"
      /\ \A j \in Channels \ {k} : request'[j] = request[j]
  <2>1. CASE \E r : Answer(k, r)
    BY <2>1 DEF Answer, DeviceInv, ChannelTypes
  <2>2. CASE listDocuments(k)
    BY <2>2 DEF listDocuments, DeviceInv, ChannelTypes
  <2>3. QED
    BY <2>1, <2>2 DEF Serve, createFolder, createDocument, copyDocument, uploadDocument,
      updateDocument, updateFolder, deleteDocument, deleteFolder, getDocument, getFolder,
      documentByPath, downloadDocument, openDocument, listFolders, Refuse
<1>2. documents \in [DOMAIN documents -> DocumentMeta] /\ DOMAIN contents = DOMAIN documents
  BY DEF DeviceInv, StoreTypes
<1>3. CASE UNCHANGED <<documents, contents>>
  BY <1>1, <1>3 DEF DocumentsAfter
<1>4. ASSUME NEW document, NEW body, AddDocument(document, body), document.maker = q.tag,
             q.op \in {"createDocument", "copy"}, q.op = "createDocument" => body = Blank
      PROVE  DocumentsAfter(k)
  <2>1. nextID \notin DOMAIN documents
    BY DEF DeviceInv, StoreTypes, Ids
  <2>2. OldOnes
    BY <1>2, <1>4, <2>1 DEF AddDocument, FreshID
  <2>3. NewOnes
    BY <1>2, <1>4, <2>1 DEF AddDocument, FreshID
  <2>4. QED
    BY <1>1, <2>2, <2>3 DEF DocumentsAfter
<1>5. CASE createDocument(k)
  <2> DEFINE document == Document(q.parent, q.name, Append(PathOf(q.parent), q.name), 0, 0, q.tag)
  <2>1. document.maker = q.tag
    BY DEF Document
  <2>2. UNCHANGED <<documents, contents>> \/ (q.op = "createDocument" /\ AddDocument(document, Blank))
    BY <1>5 DEF createDocument, Refuse, store
  <2> HIDE DEF document
  <2>3. QED
    BY <1>3, <1>4, <2>1, <2>2
<1>6. CASE copyDocument(k)
  <2> DEFINE source == documents[q.id]
             name == IF q.name = None THEN source.name ELSE q.name
             document == Document(q.parent, name, Append(PathOf(q.parent), name), source.size,
                                  source.revision, q.tag)
  <2>1. document.maker = q.tag
    BY DEF Document
  <2>2. UNCHANGED <<documents, contents>> \/ (q.op = "copy" /\ AddDocument(document, contents[q.id]))
    BY <1>6 DEF copyDocument, Refuse, store
  <2> HIDE DEF document
  <2>3. QED
    BY <1>3, <1>4, <2>1, <2>2
<1>7. CASE uploadDocument(k)
  <2>1. CASE /\ q.op = "upload" /\ documents' = [documents EXCEPT ![q.id] = Revised(@, q.body)]
             /\ contents' = [contents EXCEPT ![q.id] = q.body]
    <3>1. OldOnes
      BY <1>2, <2>1
    <3>2. NewOnes
      BY <1>2, <2>1
    <3>3. QED
      BY <1>1, <3>1, <3>2 DEF DocumentsAfter
  <2>2. QED
    BY <1>3, <1>7, <2>1 DEF uploadDocument, Refuse, store
<1>8. CASE updateDocument(k)
  <2>1. CASE /\ documents' = [documents EXCEPT ![q.id] = Updated(documents[q.id], q)]
             /\ contents' = contents
    <3>1. \A i \in DOMAIN documents : Updated(documents[i], q).revision = documents[i].revision
      BY <1>2 DEF Updated, DocumentMeta
    <3>2. DOMAIN documents' = DOMAIN documents /\ OldOnes
      BY <1>2, <2>1, <3>1
    <3>3. QED
      BY <1>1, <3>2 DEF DocumentsAfter
  <2>2. QED
    BY <1>3, <1>8, <2>1 DEF updateDocument, Refuse, store
<1>9. CASE updateFolder(k)
  <2>1. ASSUME NEW old, NEW new, documents' = Rebase(documents, old, new), contents' = contents
        PROVE  DocumentsAfter(k)
    <3>1. \A i \in DOMAIN documents : \A p : [documents[i] EXCEPT !.path = p].revision = documents[i].revision
      BY <1>2 DEF DocumentMeta
    <3>2. DOMAIN documents' = DOMAIN documents /\ OldOnes
      BY <1>2, <2>1, <3>1 DEF Rebase
    <3>3. QED
      BY <1>1, <3>2 DEF DocumentsAfter
  <2>2. QED
    BY <1>3, <1>9, <2>1 DEF updateFolder, Refuse, store
<1>10. ASSUME NEW kept, documents' = Restrict(documents, kept), contents' = Restrict(contents, kept),
              kept \subseteq DOMAIN documents
       PROVE  DocumentsAfter(k)
  <2>1. DOMAIN documents' = kept /\ \A i \in kept : documents'[i] = documents[i] /\ contents'[i] = contents[i]
    BY <1>10 DEF Restrict
  <2>2. QED
    BY <1>1, <1>10, <2>1 DEF DocumentsAfter
<1>11. CASE deleteDocument(k) \/ deleteFolder(k)
  BY <1>2, <1>3, <1>10, <1>11 DEF deleteDocument, deleteFolder, Refuse, store
<1>12. QED
  BY <1>3, <1>5, <1>6, <1>7, <1>8, <1>9, <1>11 DEF Serve, createFolder, getDocument, getFolder,
    documentByPath, downloadDocument, openDocument, listDocuments, listFolders, Refuse, store

LEMMA ServingKeepsPutInv ==
    ASSUME DeviceInv, DeviceInv', StoreGrows, PutInv, NEW k \in Channels, request[k] # None,
           DocumentsAfter(k), UNCHANGED clientVars
    PROVE  PutInv'
<1>1. UNCHANGED <<pc, call, calls>>
  BY DEF clientVars
<1>2. /\ nextID \in Nat /\ nextID <= nextID' /\ nextID' \in Nat
      /\ \A i \in DOMAIN documents' :
            /\ i \in Nat
            /\ i < nextID => i \in DOMAIN documents
            /\ i \in DOMAIN documents => documents'[i].maker = documents[i].maker
      /\ \A i \in DOMAIN documents : i \in Nat /\ i < nextID
  BY DEF DeviceInv, StoreTypes, Ids, StoreGrows
<1>3. \A j \in Channels : request'[j] # None =>
        (j # k /\ request'[j] = request[j]) \/ (j = k /\ request'[j].op = "listFolders")
  BY DEF DocumentsAfter
<1>4. TagsArePast'
  <2>1. ASSUME NEW i \in DOMAIN documents' PROVE Past(documents[i].maker)'
    <3>1. CASE i \in DOMAIN documents
      BY <1>1, <1>2, <3>1 DEF PutInv, TagsArePast, Past
    <3>2. CASE i \notin DOMAIN documents
      <4>1. request[k].op \in {"createDocument", "copy"} /\ documents'[i].maker = request[k].tag
        BY <2>1, <3>2 DEF DocumentsAfter
      <4>2. QED
        BY <1>1, <4>1 DEF PutInv, TagsArePast, Past
    <3>3. QED
      BY <3>1, <3>2
  <2>2. QED
    BY <1>1, <1>3, <2>1 DEF PutInv, TagsArePast, Past
<1>5. CopiesAreCalled'
  BY <1>1, <1>3 DEF PutInv, CopiesAreCalled
<1>6. CreatedIsBlank'
  <2> SUFFICES ASSUME NEW c \in Clients, Creating(c), call[c].op = "put",
                      NEW i \in DOMAIN documents', documents'[i].maker = <<c, calls[c]>>
               PROVE  contents'[i] = Blank
    BY <1>1 DEF CreatedIsBlank, Creating
  <2>1. CASE i \in DOMAIN documents
    <3>1. documents[i].maker = <<c, calls[c]>> /\ contents[i] = Blank
      BY <1>2, <2>1 DEF PutInv, CreatedIsBlank
    <3>2. ~(request[k].op = "upload" /\ i = request[k].id)
      BY <2>1, <3>1 DEF PutInv, UploadsFill, Uploads
    <3>3. QED
      BY <2>1, <3>1, <3>2 DEF DocumentsAfter
  <2>2. CASE i \notin DOMAIN documents
    <3>1. request[k].op # "copy"
      BY <2>2 DEF DocumentsAfter, PutInv, CopiesAreCalled, Creating
    <3>2. QED
      BY <2>2, <3>1 DEF DocumentsAfter
  <2>3. QED
    BY <2>1, <2>2
<1>7. UploadsFill'
  <2>1. ASSUME NEW j \in Channels, Uploads(j)'
        PROVE  /\ j # k /\ request'[j] = request[j] /\ Uploads(j)
               /\ request[j].id \in Nat /\ request[j].id < nextID
               /\ request[j].id \in DOMAIN documents' => request[j].id \in DOMAIN documents
    BY <1>2, <1>3, <2>1 DEF Uploads, PutInv, UploadsFill
  <2>2. ASSUME NEW j \in Channels, Uploads(j)', request[j].id \in DOMAIN documents'
        PROVE  /\ contents'[request[j].id] = Blank
               /\ \E d \in Clients, n \in Nat :
                     /\ documents'[request[j].id].maker = <<d, n>>
                     /\ n = calls[d] => ~Creating(d)
    <3>1. PICK i : i = request[j].id /\ i \in DOMAIN documents /\ i \in DOMAIN documents'
      BY <2>1, <2>2
    <3>2. contents[i] = Blank /\ documents'[i].maker = documents[i].maker
      BY <1>2, <2>1, <2>2, <3>1 DEF PutInv, UploadsFill
    <3>3. ~(request[k].op = "upload" /\ i = request[k].id)
      BY <2>1, <2>2, <3>1 DEF PutInv, UploadsFill, Uploads
    <3>4. contents'[i] = Blank
      BY <3>1, <3>2, <3>3 DEF DocumentsAfter
    <3>5. QED
      BY <2>1, <2>2, <3>1, <3>2, <3>4 DEF PutInv, UploadsFill
  <2>3. \A j \in Channels : Uploads(j)' =>
          /\ request'[j].id \in Nat /\ request'[j].id < nextID'
          /\ request'[j].id \in DOMAIN documents' =>
                /\ contents'[request'[j].id] = Blank
                /\ \E d \in Clients, n \in Nat :
                      /\ documents'[request'[j].id].maker = <<d, n>>
                      /\ n = calls'[d] => ~Creating(d)'
    BY <1>1, <1>2, <2>1, <2>2 DEF Creating
  <2>4. \A i, j \in Channels :
          Uploads(i)' /\ Uploads(j)' /\ request'[i].id = request'[j].id
             /\ request'[j].id \in DOMAIN documents'
          => i = j
    BY <2>1 DEF PutInv, UploadsFill
  <2>5. QED
    BY <2>3, <2>4 DEF UploadsFill
<1>8. QED
  BY <1>4, <1>5, <1>6, <1>7 DEF PutInv

\* The network moves requests, and makes none.
LEMMA NetworkKeepsPutInv ==
    ASSUME ChannelTypes, PutInv, NEW c \in Clients, Network(c)
    PROVE  PutInv'
<1>1. UNCHANGED <<nextID, folders, documents, contents, pc, call, calls>>
  BY DEF Network, LoseRequest, LoseReply, Abandon, store, clientVars
<1>2. c \in Channels /\ c \notin Strays
  BY SeedAssumption DEF Channels, SeedAssumption
<1>3. PICK s \in Channels :
        /\ \A k \in Channels : request'[k] # None => request'[k] = request[IF k = s THEN c ELSE k]
        /\ s # c => request'[c] = None
  <2>1. CASE LoseRequest(c) \/ LoseReply(c)
    <3>1. \A k \in Channels : request'[k] # None => request'[k] = request[k]
      BY <1>2, <2>1 DEF ChannelTypes, LoseRequest, LoseReply, Answer
    <3>2. QED
      BY <1>2, <3>1
  <2>2. CASE Abandon(c)
    BY <1>2, <2>2 DEF Abandon, ChannelTypes, Channels
  <2>3. QED
    BY <2>1, <2>2 DEF Network
<1> DEFINE was(k) == IF k = s THEN c ELSE k
<1>4. /\ \A k \in Channels : request'[k] # None => was(k) \in Channels /\ request'[k] = request[was(k)]
      /\ \A j, k \in Channels : request'[j] # None /\ request'[k] # None /\ was(j) = was(k) => j = k
  BY <1>2, <1>3
<1> HIDE DEF was
<1>5. TagsArePast'
  BY <1>1, <1>4 DEF PutInv, TagsArePast, Past
<1>6. CopiesAreCalled'
  BY <1>1, <1>4 DEF PutInv, CopiesAreCalled
<1>7. CreatedIsBlank'
  BY <1>1 DEF PutInv, CreatedIsBlank, Creating
<1>8. UploadsFill'
  <2>1. \A k \in Channels : Uploads(k)' => Uploads(was(k)) /\ was(k) \in Channels /\ request'[k] = request[was(k)]
    BY <1>4 DEF Uploads
  <2>2. \A k \in Channels : Uploads(k)' =>
          /\ request'[k].id \in Nat /\ request'[k].id < nextID'
          /\ request'[k].id \in DOMAIN documents' =>
                /\ contents'[request'[k].id] = Blank
                /\ \E d \in Clients, n \in Nat :
                      /\ documents'[request'[k].id].maker = <<d, n>>
                      /\ n = calls'[d] => ~Creating(d)'
    BY <1>1, <2>1 DEF PutInv, UploadsFill, Creating
  <2>3. \A j, k \in Channels :
          Uploads(j)' /\ Uploads(k)' /\ request'[j].id = request'[k].id
             /\ request'[k].id \in DOMAIN documents'
          => was(j) = was(k)
    BY <1>1, <2>1 DEF PutInv, UploadsFill
  <2>4. QED
    BY <1>4, <2>2, <2>3 DEF UploadsFill, Uploads
<1>9. QED
  BY <1>5, <1>6, <1>7, <1>8 DEF PutInv

\* A user's call uploads to what it has created, and to nothing else.
LEMMA MovingKeepsPutInv ==
    ASSUME IInv, PutInv, NEW c \in Clients, Moves(c)
    PROVE  PutInv'
<1>1. Others(c) /\ c \in Channels
  BY DEF Moves, Rests, Starts, GoesOn, Channels
<1>2. UNCHANGED <<nextID, folders, documents, contents>>
  BY <1>1 DEF Others
<1>3. \A d \in Clients : calls[d] \in Nat
  BY SafeWritesAssumption DEF IInv, ClientTypes, SafeWritesAssumption
<1>4. CASE Rests(c)
  <2>1. /\ \A k \in Channels : request'[k] = request[k]
        /\ \A d \in Clients : pc'[d] = pc[d] /\ call'[d] = call[d] /\ calls'[d] = calls[d]
    BY <1>1, <1>4 DEF Rests, Others
  <2>2. QED
    BY <1>2, <2>1 DEF PutInv, TagsArePast, Past, CopiesAreCalled, CreatedIsBlank, UploadsFill,
      Creating, Uploads
<1>5. CASE Starts(c)
  <2>1. \A d \in Clients : calls'[d] = IF d = c THEN calls[d] + 1 ELSE calls[d]
    BY <1>1, <1>5 DEF Starts, Others
  <2>2. \A m : Past(m) => Past(m)'
    BY <1>3, <2>1 DEF Past
  <2>3. ASSUME NEW k \in Channels, request'[k] # None, request'[k].op \in {"createDocument", "copy"}
        PROVE  Past(request[k].tag)'
    <3>1. CASE k = c
      BY <1>3, <1>5, <2>1, <2>3, <3>1 DEF Starts, Past
    <3>2. CASE k # c
      BY <1>1, <2>2, <2>3, <3>2 DEF Others, PutInv, TagsArePast
    <3>3. QED
      BY <3>1, <3>2
  <2>4. TagsArePast'
    BY <1>2, <2>2, <2>3 DEF PutInv, TagsArePast
  <2>5. CopiesAreCalled'
    <3> SUFFICES ASSUME NEW k \in Channels, NEW d \in Clients, request'[k] # None,
                        request'[k].op = "copy", request'[k].tag = <<d, calls'[d]>>, pc'[d] # "idle"
                 PROVE  call'[d].op = "copy"
      BY DEF CopiesAreCalled
    <3>1. CASE k = c
      <4>1. d = c
        BY <1>5, <3>1 DEF Starts
      <4>2. QED
        BY <1>5, <3>1, <4>1 DEF Starts
    <3>2. CASE k # c
      <4>1. request'[k] = request[k]
        BY <1>1, <3>2 DEF Others
      <4>2. Past(request[k].tag)
        BY <4>1 DEF PutInv, TagsArePast
      <4>3. d # c
        BY <1>3, <2>1, <4>1, <4>2 DEF Past
      <4>4. QED
        BY <1>1, <2>1, <4>1, <4>3 DEF Others, PutInv, CopiesAreCalled
    <3>3. QED
      BY <3>1, <3>2
  <2>6. CreatedIsBlank'
    <3> SUFFICES ASSUME NEW d \in Clients, Creating(d)', call'[d].op = "put",
                        NEW i \in DOMAIN documents, documents[i].maker = <<d, calls'[d]>>
                 PROVE  contents[i] = Blank
      BY <1>2 DEF CreatedIsBlank
    <3>1. d # c
      BY <1>3, <2>1 DEF PutInv, TagsArePast, Past
    <3>2. QED
      BY <1>1, <2>1, <3>1 DEF Others, Creating, PutInv, CreatedIsBlank
  <2>7. UploadsFill'
    <3>1. \A k \in Channels : Uploads(k)' => Uploads(k) /\ request'[k] = request[k]
      BY <1>1, <1>5 DEF Starts, Others, Uploads
    <3>2. \A d \in Clients, n \in Nat : (n = calls[d] => ~Creating(d)) /\ n <= calls[d]
                                        => (n = calls'[d] => ~Creating(d)')
      BY <1>1, <1>3, <2>1 DEF Others, Creating
    <3>3. \A k \in Channels : Uploads(k)' =>
            /\ request[k].id \in Nat /\ request[k].id < nextID
            /\ request[k].id \in DOMAIN documents =>
                  /\ contents[request[k].id] = Blank
                  /\ \E d \in Clients, n \in Nat :
                        /\ documents[request[k].id].maker = <<d, n>>
                        /\ n = calls'[d] => ~Creating(d)'
      BY <3>1, <3>2 DEF PutInv, UploadsFill, TagsArePast, Past
    <3>4. QED
      BY <1>2, <3>1, <3>3 DEF PutInv, UploadsFill
  <2>8. QED
    BY <2>4, <2>5, <2>6, <2>7 DEF PutInv
<1>6. CASE GoesOn(c)
  <2>1. \A d \in Clients : calls'[d] = calls[d]
    BY <1>1, <1>6 DEF GoesOn, Others
  <2>2. \A k \in Channels : request'[k] # None =>
           \/ request'[k] = request[k]
           \/ k = c /\ request'[k].op \notin {"createDocument", "copy"}
    BY <1>1, <1>6 DEF GoesOn, Others
  <2>3. \A d \in Clients :
          /\ Creating(d)' => Creating(d) /\ call'[d].op = call[d].op
          /\ pc'[d] # "idle" => pc[d] # "idle" /\ call'[d].op = call[d].op
    BY <1>1, <1>6 DEF GoesOn, Others, Creating, LaterSteps
  <2>4. TagsArePast' /\ CopiesAreCalled' /\ CreatedIsBlank'
    BY <1>2, <2>1, <2>2, <2>3 DEF PutInv, TagsArePast, Past, CopiesAreCalled, CreatedIsBlank
  <2>5. ASSUME NEW k \in Channels, Uploads(k)', request'[k] # request[k]
        PROVE  /\ k = c /\ pc[c] = "verifyCreated" /\ call[c].op = "put" /\ ~Creating(c)'
               /\ request'[k].id = call[c].id /\ OwnEntry(c, call[c].id)
    <3>1. k = c /\ pc[c] = "verifyCreated" /\ call[c].op = "put" /\ ~Creating(c)'
          /\ request'[k].id = call[c].id
      BY <1>1, <1>6, <2>5 DEF GoesOn, Others, Uploads, Creating
    <3>2. QED
      BY <3>1 DEF IInv, ClientInv, Knows
  <2>6. ASSUME NEW k \in Channels, Uploads(k)'
        PROVE  /\ request'[k].id \in Nat /\ request'[k].id < nextID
               /\ request'[k].id \in DOMAIN documents =>
                     /\ contents[request'[k].id] = Blank
                     /\ \E d \in Clients, n \in Nat :
                           /\ documents[request'[k].id].maker = <<d, n>>
                           /\ n = calls[d] => ~Creating(d)'
    <3>1. CASE request'[k] = request[k]
      BY <2>3, <2>6, <3>1 DEF Uploads, PutInv, UploadsFill
    <3>2. CASE request'[k] # request[k]
      <4>1. /\ pc[c] = "verifyCreated" /\ call[c].op = "put" /\ ~Creating(c)'
            /\ request'[k].id = call[c].id /\ OwnEntry(c, call[c].id)
        BY <2>5, <2>6, <3>2
      <4>2. QED
        BY <1>3, <4>1 DEF OwnEntry, PutInv, CreatedIsBlank, Creating
    <3>3. QED
      BY <3>1, <3>2
  <2>7. ASSUME NEW k \in Channels, Uploads(k)', request'[k] # request[k],
               NEW j \in Channels, Uploads(j)', request'[j].id = request'[k].id,
               request'[k].id \in DOMAIN documents
        PROVE  j = k
    <3>1. CASE request'[j] = request[j]
      <4>1. /\ pc[c] = "verifyCreated"
            /\ documents[request'[k].id].maker = <<c, calls[c]>>
        BY <2>5, <2>7 DEF OwnEntry
      <4>2. PICK d \in Clients, n \in Nat :
               /\ documents[request'[k].id].maker = <<d, n>>
               /\ n = calls[d] => ~Creating(d)
        BY <2>7, <3>1 DEF Uploads, PutInv, UploadsFill
      <4>3. QED
        BY <4>1, <4>2 DEF Creating
    <3>2. CASE request'[j] # request[j]
      BY <2>5, <2>7, <3>2
    <3>3. QED
      BY <3>1, <3>2
  <2>8. \A j, k \in Channels :
          Uploads(j)' /\ Uploads(k)' /\ request'[j].id = request'[k].id
             /\ request'[k].id \in DOMAIN documents
          => j = k
    <3>1. \A j, k \in Channels :
            /\ Uploads(j)' /\ Uploads(k)' /\ request'[j].id = request'[k].id
            /\ request'[k].id \in DOMAIN documents
            /\ request'[j] = request[j] /\ request'[k] = request[k]
            => j = k
      BY DEF Uploads, PutInv, UploadsFill
    <3>2. QED
      BY <2>7, <3>1
  <2>9. UploadsFill'
    BY <1>2, <2>1, <2>6, <2>8 DEF UploadsFill
  <2>10. QED
    BY <2>4, <2>9 DEF PutInv
<1>7. QED
  BY <1>4, <1>5, <1>6 DEF Moves

LEMMA InitPutInv == CommandsInit => PutInv
<1> SUFFICES ASSUME CommandsInit PROVE PutInv
  OBVIOUS
<1>1. \A k \in Channels : request[k] = None
  BY DEF CommandsInit, Init, DeviceInit
<1>2. \A c \in Clients : pc[c] = "idle"
  BY DEF CommandsInit, Init
<1>3. \A i \in DOMAIN documents : documents[i].maker = None
  BY SeedAssumption DEF CommandsInit, Init, DeviceInit, SeedAssumption
<1>4. Past(None)
  BY SeedAssumption DEF SeedAssumption, Past
<1>5. QED
  BY <1>1, <1>2, <1>3, <1>4 DEF PutInv, TagsArePast, CopiesAreCalled, CreatedIsBlank, Creating,
    UploadsFill, Uploads

LEMMA NextPutInv ==
    ASSUME CInv, PutInv, [CommandsNext]_allVars
    PROVE  /\ PutInv'
           /\ \A i \in DOMAIN documents \cap DOMAIN documents' :
                 documents'[i].revision # documents[i].revision => contents[i] = Blank
<1>1. ASSUME NEW k \in Channels, Serve(k), UNCHANGED clientVars
      PROVE  /\ PutInv'
             /\ \A i \in DOMAIN documents \cap DOMAIN documents' :
                   documents'[i].revision # documents[i].revision => contents[i] = Blank
  <2>1. DeviceInv /\ DeviceInv' /\ StoreGrows
    BY <1>1, ServingKeepsInv DEF CInv, IInv
  <2>2. DocumentsAfter(k) /\ request[k] # None
    BY <1>1, <2>1, ServingChangesDocuments DEF Serve
  <2>3. PutInv'
    BY <1>1, <2>1, <2>2, ServingKeepsPutInv
  <2>4. \A i \in DOMAIN documents : request[k].op = "upload" /\ i = request[k].id => contents[i] = Blank
    BY <2>2 DEF PutInv, UploadsFill, Uploads
  <2>5. QED
    BY <2>2, <2>3, <2>4 DEF DocumentsAfter
<1>2. ASSUME NEW c \in Clients, UserStep(c)
      PROVE  PutInv' /\ UNCHANGED documents
  <2>1. Moves(c) /\ IInv
    BY <1>2, UserKeepsCInv DEF CInv
  <2>2. UNCHANGED documents
    BY <2>1 DEF Moves, Rests, Starts, GoesOn, Others
  <2>3. QED
    BY <2>1, <2>2, MovingKeepsPutInv
<1>3. ASSUME NEW c \in Clients, Network(c)
      PROVE  PutInv' /\ UNCHANGED documents
  <2>1. UNCHANGED documents
    BY <1>3 DEF Network, LoseRequest, LoseReply, Abandon, store
  <2>2. QED
    BY <1>3, <2>1, NetworkKeepsPutInv DEF CInv, IInv, DeviceInv
<1>4. CASE UNCHANGED allVars
  BY <1>4 DEF PutInv, TagsArePast, Past, CopiesAreCalled, CreatedIsBlank, Creating, UploadsFill, Uploads,
    allVars, vars, deviceVars, store, clientVars
<1>5. QED
  BY <1>1, <1>2, <1>3, <1>4 DEF CommandsNext, UserStep, DeviceStep

\* CommandsNeverOverwrite: put names no revision when it uploads, and yet it
\* only fills the document that it has itself created (write.go
\* CreateAndUpload), however late the upload arrives; no command of main.go
\* changes a body that was uploaded.
THEOREM NothingIsOverwritten == CommandsSpec => CommandsNeverOverwrite
<1>1. CommandsInit => CInv /\ PutInv
  BY InitCInv, InitPutInv
<1>2. CInv /\ PutInv /\ [CommandsNext]_allVars => CInv' /\ PutInv'
  BY NextCInv, NextPutInv
<1>3. CInv /\ PutInv /\ [CommandsNext]_allVars =>
        [\A i \in DOMAIN documents \cap DOMAIN documents' :
            documents'[i].revision # documents[i].revision => contents[i] = Blank]_allVars
  BY NextPutInv
<1>4. QED
  BY <1>1, <1>2, <1>3, PTL DEF CommandsSpec, CommandsNeverOverwrite

-----------------------------------------------------------------------------
(* get leaves whole files.                                                 *)

\* The stages that a command takes when it neither types a line, nor looks a
\* reference up, nor gets a file.
PlainStep(c) ==
    \/ LookUpObject(c) \/ ObjectKnown(c) \/ Choose(c) \/ FindPlace(c)
    \/ RemoveDocument(c) \/ RemoveFolder(c) \/ MakeFolder(c) \/ CopyObject(c) \/ MoveObject(c) \/ Put(c)
    \/ Open(c) \/ Acted(c) \/ PrintDocument(c) \/ List(c) \/ PrintList(c)
    \/ GetInto(c) /\ ~Available(command[c].local)

LEMMA PlainStages ==
    ASSUME CInv, NEW c \in Clients, PlainStep(c)
    PROVE  /\ UNCHANGED local /\ \A d \in Clients \ {c} : command'[d] = command[d]
           /\ command[c].stage \notin {"fetching", "downloading", "discard"}
           /\ command'[c].stage \notin {"fetch", "fetching", "downloading", "discard"}
<1>1. \A m : command' = [command EXCEPT ![c] = m] =>
         command'[c] = m /\ \A d \in Clients \ {c} : command'[d] = command[d]
  BY DEF CInv
<1>2. command[c].stage # "none" => "stage" \in DOMAIN command[c]
  BY DEF CInv, CommandOK, WellFormed, CommandFields
<1>3. /\ Ends(c) => command'[c].stage = "none"
      /\ \A s : Stage(c, s) /\ command[c].stage # "none" => command'[c].stage = s
  <2>1. ASSUME Ends(c) PROVE command'[c].stage = "none"
    BY <1>1, <2>1 DEF Ends, Becomes, NoCommand
  <2>2. ASSUME NEW s, Stage(c, s), command[c].stage # "none" PROVE command'[c].stage = s
    BY <1>1, <1>2, <2>2 DEF Stage, Becomes
  <2>3. QED
    BY <2>1, <2>2
<1>4. \A e : Becomes(c, Choice(c, e)) /\ command[c].stage # "none"
             => command'[c].stage \in {"destination", "act"}
  <2> SUFFICES ASSUME NEW e, Becomes(c, Choice(c, e)), command[c].stage # "none"
               PROVE  command'[c].stage \in {"destination", "act"}
    OBVIOUS
  <2>1. command'[c] = Choice(c, e)
    BY <1>1 DEF Becomes
  <2>2. QED
    BY <1>2, <2>1 DEF Choice
<1>5. (\E m : Becomes(c, m)) => UNCHANGED local /\ \A d \in Clients \ {c} : command'[d] = command[d]
  BY <1>1 DEF Becomes
<1>6. CASE LookUpObject(c) \/ LookUpDestination(c) \/ LookUpParent(c)
  BY <1>3, <1>5, <1>6 DEF LookUpObject, LookUpDestination, LookUpParent, At, Stage
<1>7. CASE ObjectKnown(c)
  BY <1>3, <1>4, <1>5, <1>7 DEF ObjectKnown, At, Ends
<1>8. CASE Choose(c)
  BY <1>1, <1>4, <1>5, <1>8 DEF Choose, At, NoCommand
<1>9. CASE DestinationKnown(c)
  <2>1. \A name : Becomes(c, [command[c] EXCEPT !.stage = "act", !.name = name])
                  /\ command[c].stage # "none" => command'[c].stage = "act"
    <3> SUFFICES ASSUME NEW name, Becomes(c, [command[c] EXCEPT !.stage = "act", !.name = name]),
                        command[c].stage # "none"
                 PROVE  command'[c].stage = "act"
      OBVIOUS
    <3>1. command'[c] = [command[c] EXCEPT !.stage = "act", !.name = name]
      BY <1>1 DEF Becomes
    <3>2. QED
      BY <1>2, <3>1
  <2>2. QED
    BY <1>3, <1>5, <1>9, <2>1 DEF DestinationKnown, At, Ends, Stage
<1>10. CASE ParentKnown(c)
  BY <1>3, <1>4, <1>5, <1>10 DEF ParentKnown, At, Ends, Stage
<1>11. CASE \/ RemoveDocument(c) \/ RemoveFolder(c) \/ MakeFolder(c) \/ CopyObject(c)
            \/ MoveObject(c) \/ Put(c) \/ Open(c) \/ Acted(c) \/ List(c)
            \/ GetInto(c) /\ ~Available(command[c].local)
  <2>1. command[c].stage \in {"act", "acting"} /\ (Ends(c) \/ Stage(c, "acting") \/ Stage(c, "listing"))
    BY <1>11 DEF RemoveDocument, RemoveFolder, MakeFolder, CopyObject, MoveObject, Put, Open,
      Acted, List, GetInto, Doing, At
  <2>2. QED
    BY <1>3, <1>5, <2>1 DEF Ends, Stage
<1>12. CASE PrintDocument(c) \/ PrintList(c)
  BY <1>1, <1>12 DEF PrintDocument, PrintList, PrintEntries, Doing, At, NoCommand, Ends, Becomes
<1>13. QED
  BY <1>6, <1>7, <1>8, <1>9, <1>10, <1>11, <1>12 DEF PlainStep, FindPlace

\* A file, and where it is from.
LocalFile == [by : Clients, from : Nat, body : Bodies \cup {"part"}]
Whole(file) == \E v \in versions : v[1] = file.from /\ v[3] = file.body

\* The user of a command that has made a file and not finished it.
Loading(c) == command[c].stage \in {"downloading", "discard"}

\* Its file is the one it has made, and the body it waits for is one that the
\* device holds.
LoadingOK(c) ==
    /\ Loading(c) => LET file == local[command[c].local] IN
          file # None /\ file.by = c /\ file.from = command[c].chosen
    /\ At(c, "downloading") =>
          /\ pc[c] = "downloaded"
          /\ request[c] # None => request[c].op = "download" /\ request[c].id = command[c].chosen
          /\ reply[c] # None /\ Ok(reply[c]) =>
                \E v \in versions : v[1] = command[c].chosen /\ v[3] = reply[c].body
                                    /\ reply[c].body \in Bodies

\* Everything else is whole.
FileInv ==
    /\ local \in [Locals -> LocalFile \cup {None}]
    /\ \A name \in Locals : local[name] # None =>
          Whole(local[name]) \/ (Loading(local[name].by) /\ command[local[name].by].local = name)
    /\ \A c \in Clients : LoadingOK(c)

\* Nothing happens to files; those who load go on as before.
LEMMA QuietStepKeepsFileInv ==
    ASSUME FileInv, UNCHANGED local, versions \subseteq versions',
           \A c \in Clients :
              \/ command'[c] = command[c] /\ (Loading(c) => LoadingOK(c)')
              \/ ~Loading(c) /\ ~Loading(c)'
    PROVE  FileInv'
<1>1. \A name \in Locals : local[name] # None => local[name].by \in Clients
  BY DEF FileInv, LocalFile
<1>2. \A file : Whole(file) => Whole(file)'
  BY DEF Whole
<1>3. \A c \in Clients : Loading(c) => Loading(c)' /\ command'[c].local = command[c].local
  BY DEF Loading
<1>4. \A c \in Clients : LoadingOK(c)'
  BY DEF LoadingOK, Loading, At
<1>5. \A name \in Locals : local'[name] # None =>
          Whole(local[name])' \/ (Loading(local[name].by)' /\ command'[local[name].by].local = name)
  BY <1>1, <1>2, <1>3 DEF FileInv
<1>6. QED
  BY <1>4, <1>5 DEF FileInv

\* What is downloaded is what the device holds.
LEMMA ServingKeepsFileInv ==
    ASSUME DeviceInv, DeviceInv', StoreGrows, FileInv, NEW k \in Channels, Serve(k),
           UNCHANGED <<clientVars, failures>>, UNCHANGED commandVars
    PROVE  FileInv'
<1>1. UNCHANGED <<pc, command, local>> /\ versions \subseteq versions'
  BY DEF clientVars, commandVars, StoreGrows
<1>2. ASSUME NEW c \in Clients, Loading(c) PROVE LoadingOK(c)'
  <2>1. LoadingOK(c) /\ c \in Channels
    BY DEF FileInv, Channels
  <2>2. CASE request'[c] = request[c] /\ reply'[c] = reply[c]
    BY <1>1, <2>1, <2>2 DEF LoadingOK, Loading, At
  <2>3. CASE k = c /\ At(c, "downloading")
    <3>1. /\ request[c] # None /\ request[c].op = "download" /\ request[c].id = command[c].chosen
          /\ downloadDocument(c)
      BY <2>1, <2>3, ServedByKind DEF Serve, LoadingOK
    <3>2. PICK i : i = request[c].id
      OBVIOUS
    <3>3. CASE i \in DOMAIN documents
      <4>1. PICK r : r = [status |-> "ok", body |-> contents[i]]
        OBVIOUS
      <4>2. request'[c] = None /\ reply'[c] = r
        BY <2>1, <3>1, <3>2, <3>3, <4>1 DEF downloadDocument, Answer, DeviceInv, ChannelTypes
      <4>3. /\ <<i, documents[i].revision, contents[i]>> \in versions' /\ contents[i] \in Bodies
            /\ r.body = contents[i]
        BY <1>1, <3>3, <4>1 DEF DeviceInv, VersionsInv, StoreTypes
      <4>4. \E v \in versions' : v[1] = i /\ v[3] = r.body /\ r.body \in Bodies
        BY <4>1, <4>3
      <4>5. QED
        BY <1>1, <2>1, <2>3, <3>1, <3>2, <4>2, <4>4 DEF LoadingOK, Loading, At
    <3>4. CASE i \notin DOMAIN documents
      <4>1. PICK r : r = Refusal("40401")
        OBVIOUS
      <4>2. request'[c] = None /\ reply'[c] = r
        BY <2>1, <3>1, <3>2, <3>4, <4>1 DEF downloadDocument, Answer, DeviceInv, ChannelTypes
      <4>3. ~Ok(r)
        BY <4>1 DEF Refusal, Ok
      <4>4. QED
        BY <1>1, <2>1, <2>3, <4>2, <4>3 DEF LoadingOK, Loading, At
    <3>5. QED
      BY <3>3, <3>4
  <2>4. CASE ~At(c, "downloading")
    BY <1>1, <2>1, <2>4 DEF LoadingOK, Loading, At
  <2>5. CASE k # c
    <3>1. request'[c] = request[c]
      BY <2>1, <2>5, ServingChangesDocuments DEF DocumentsAfter
    <3>2. reply'[c] = reply[c]
      <4>1. CASE \E r : Answer(k, r)
        BY <2>5, <4>1 DEF Answer
      <4>2. CASE listDocuments(k)
        BY <4>2 DEF listDocuments
      <4>3. QED
        BY <4>1, <4>2 DEF Serve, createFolder, createDocument, copyDocument, uploadDocument,
          updateDocument, updateFolder, deleteDocument, deleteFolder, getDocument, getFolder,
          documentByPath, downloadDocument, openDocument, listFolders, Refuse
    <3>3. QED
      BY <2>2, <3>1, <3>2
  <2>6. QED
    BY <2>3, <2>4, <2>5
<1>3. QED
  BY <1>1, <1>2, QuietStepKeepsFileInv DEF Loading

\* An answer that is lost or unusable says nothing.
LEMMA NetworkKeepsFileInv ==
    ASSUME ChannelTypes, FileInv, NEW c \in Clients, Network(c), UNCHANGED commandVars
    PROVE  FileInv'
<1>1. UNCHANGED <<pc, command, local, versions>>
  BY DEF Network, LoseRequest, LoseReply, Abandon, clientVars, commandVars, history
<1>2. \A d \in Clients : request'[d] \in {request[d], None} /\ reply'[d] \in {reply[d], Failure}
  <2>1. CASE LoseRequest(c)
    BY <2>1, AnswerSends, PlainReplies DEF LoseRequest, Channels
  <2>2. CASE LoseReply(c)
    BY <2>2 DEF LoseReply, ChannelTypes, Channels
  <2>3. CASE Abandon(c)
    BY <2>3, SeedAssumption DEF Abandon, ChannelTypes, Channels, SeedAssumption
  <2>4. QED
    BY <2>1, <2>2, <2>3 DEF Network
<1>3. ~Ok(Failure)
  BY DEF Failure, Ok
<1>4. \A d \in Clients : LoadingOK(d)'
  BY <1>1, <1>2, <1>3 DEF FileInv, LoadingOK, Loading, At
<1>5. QED
  BY <1>1, <1>4, QuietStepKeepsFileInv DEF Loading

\* One file is made, filled or taken away by the command that works on it.
LEMMA WritingKeepsFileInv ==
    ASSUME CInv, FileInv, NEW c \in Clients, Others(c), NEW file \in LocalFile \cup {None},
           command[c].local \in Locals,
           local' = [local EXCEPT ![command[c].local] = file],
           command'[c].local = command[c].local \/ ~Loading(c)',
           \A d \in Clients \ {c} : command'[d] = command[d],
           local[command[c].local] = None \/ Loading(c),
           LoadingOK(c)',
           file # None => (Loading(c)' /\ file.by = c) \/ Whole(file)
    PROVE  FileInv'
<1>1. PICK name \in Locals : name = command[c].local
  OBVIOUS
<1>2. /\ local' \in [Locals -> LocalFile \cup {None}] /\ local'[name] = file
      /\ \A other \in Locals \ {name} : local'[other] = local[other]
  BY <1>1 DEF FileInv
<1>3. local[name] # None => Loading(c) /\ local[name].by = c
  BY <1>1 DEF FileInv, LoadingOK
<1>4. ASSUME NEW d \in Clients \ {c} PROVE LoadingOK(d)'
  <2>1. LoadingOK(d) /\ command'[d] = command[d] /\ pc'[d] = pc[d] /\ request'[d] = request[d]
        /\ reply'[d] = reply[d] /\ versions' = versions
    BY DEF FileInv, Others, Channels
  <2>2. CASE ~Loading(d)
    BY <2>1, <2>2 DEF LoadingOK, Loading, At
  <2>3. CASE Loading(d)
    <3>1. command[d].local # name
      BY <1>3, <2>1, <2>3 DEF LoadingOK
    <3>2. command[d].local \in Locals
      BY <2>3 DEF Loading, CInv, CommandOK, WellFormed, Staged
    <3>3. local'[command[d].local] = local[command[d].local]
      BY <1>2, <3>1, <3>2
    <3>4. QED
      BY <2>1, <2>3, <3>3 DEF LoadingOK, Loading, At
  <2>4. QED
    BY <2>2, <2>3
<1>5. ASSUME NEW other \in Locals, local'[other] # None
      PROVE  Whole(local[other])' \/ (Loading(local[other].by)' /\ command'[local'[other].by].local = other)
  <2>1. UNCHANGED versions
    BY DEF Others
  <2>2. CASE other = name
    BY <1>1, <1>2, <1>5, <2>1, <2>2 DEF Whole
  <2>3. CASE other # name
    <3>1. local'[other] = local[other] /\ local[other].by \in Clients
      BY <1>2, <1>5, <2>3 DEF FileInv, LocalFile
    <3>2. CASE Whole(local[other])
      BY <2>1, <3>1, <3>2 DEF Whole
    <3>3. CASE Loading(local[other].by) /\ command[local[other].by].local = other
      BY <1>1, <2>3, <3>1, <3>3 DEF Loading
    <3>4. QED
      BY <1>5, <3>1, <3>2, <3>3 DEF FileInv
  <2>4. QED
    BY <2>2, <2>3
<1>6. \A d \in Clients : LoadingOK(d)'
  BY <1>4
<1>7. QED
  BY <1>2, <1>5, <1>6 DEF FileInv

LEMMA GetIntoKeepsFileInv ==
    ASSUME CInv, FileInv, NEW c \in Clients, GetInto(c), Available(command[c].local)
    PROVE  FileInv'
<1>1. command[c].op = "get" /\ command[c].chosen \in Nat /\ command[c].local \in Locals
      /\ WellFormed(command[c])
  BY DEF GetInto, Doing, At, CInv, CommandOK, WellFormed, Staged
<1>2. PICK q : q = [op |-> "download", id |-> command[c].chosen]
  OBVIOUS
<1>3. q \in Request /\ q.op = "download" /\ q.id = command[c].chosen
  BY <1>1, <1>2 DEF Request
<1>4. Start(c, "download", Asked("download"), "downloaded") /\ Ask(c, q)
  BY <1>2 DEF GetInto
<1>5. IInv /\ c \in Channels /\ c \in DOMAIN reply
  BY DEF CInv, IInv, DeviceInv, ChannelTypes, Channels
<1>6. Others(c) /\ pc'[c] = "downloaded" /\ request'[c] = q /\ reply'[c] = None
  <2>1. IInv' /\ pc'[c] = "downloaded" /\ request'[c] = q
    BY <1>3, <1>4, <1>5, ReadingKeepsInv
  <2>2. Starts(c)
    BY <1>3, <1>4, <1>5, <2>1, ReadingStarts
  <2>3. QED
    BY <2>1, <2>2 DEF Starts
<1>7. PICK file : file = File(c, Blank)
  OBVIOUS
<1>8. file \in LocalFile /\ file # None /\ file.by = c /\ file.from = command[c].chosen
  BY <1>1, <1>7, CommandsAssumption DEF CommandsAssumption, File, LocalFile, Bodies
<1>9. local' = [local EXCEPT ![command[c].local] = file]
  BY <1>7 DEF GetInto, Write
<1>10. local'[command[c].local] = file
  BY <1>1, <1>9 DEF FileInv
<1>11. /\ command'[c].stage = "downloading" /\ command'[c].local = command[c].local
       /\ command'[c].chosen = command[c].chosen
       /\ \A d \in Clients \ {c} : command'[d] = command[d]
  BY <1>1 DEF GetInto, CInv, WellFormed, CommandFields
<1>12. LoadingOK(c)' /\ Loading(c)'
  BY <1>3, <1>6, <1>8, <1>10, <1>11 DEF LoadingOK, Loading, At
<1>13. QED
  BY <1>1, <1>6, <1>8, <1>9, <1>11, <1>12, WritingKeepsFileInv DEF Available

LEMMA DownloadedKeepsFileInv ==
    ASSUME CInv, FileInv, NEW c \in Clients, Downloaded(c)
    PROVE  FileInv'
<1> DEFINE r == reply[c]
           name == command[c].local
           whole == Ok(r) /\ r.body # Blank
<1>1. /\ Others(c) /\ UNCHANGED versions /\ r # None /\ At(c, "downloading")
  BY ReadFacts DEF Downloaded, GoesOn, Others
<1>2. /\ command[c].chosen \in Nat /\ name \in Locals /\ WellFormed(command[c])
      /\ command[c].stage # "none"
  BY <1>1 DEF At, CInv, CommandOK, WellFormed, Staged
<1>3. /\ Loading(c) /\ LoadingOK(c)
      /\ Ok(r) => \E v \in versions : v[1] = command[c].chosen /\ v[3] = r.body /\ r.body \in Bodies
  BY <1>1 DEF Loading, LoadingOK, At, FileInv
<1>4. \A d \in Clients \ {c} : command'[d] = command[d]
  BY DEF Downloaded, CInv
<1>5. \A body \in Bodies \cup {"part"} :
         /\ File(c, body) \in LocalFile /\ File(c, body) # None /\ File(c, body).by = c
         /\ File(c, body).from = command[c].chosen /\ File(c, body).body = body
  BY <1>2, CommandsAssumption DEF CommandsAssumption, LocalFile, File
<1>6. CASE whole
  <2>1. PICK file : file = File(c, r.body)
    OBVIOUS
  <2>2. file \in LocalFile /\ Whole(file)
    BY <1>3, <1>5, <1>6, <2>1 DEF Whole
  <2>3. local' = [local EXCEPT ![name] = file]
    BY <1>6, <2>1 DEF Downloaded, Write
  <2>4. ~Loading(c)' /\ LoadingOK(c)'
    BY <1>6 DEF Downloaded, CInv, NoCommand, Loading, LoadingOK, At
  <2>5. QED
    BY <1>1, <1>2, <1>3, <1>4, <2>2, <2>3, <2>4, WritingKeepsFileInv
<1>7. CASE ~whole
  <2>1. PICK file : file \in LocalFile /\ file # None /\ file.by = c /\ file.from = command[c].chosen
                    /\ local' = [local EXCEPT ![name] = file]
    <3>1. CASE Ok(r)
      <4>1. PICK file : file = local[name]
        OBVIOUS
      <4>2. file \in LocalFile /\ file # None /\ file.by = c /\ file.from = command[c].chosen
        BY <1>2, <1>3, <4>1 DEF FileInv, LoadingOK
      <4>3. local' = [local EXCEPT ![name] = file]
        BY <1>2, <1>7, <3>1, <4>1 DEF Downloaded, FileInv
      <4>4. QED
        BY <4>2, <4>3
    <3>2. CASE ~Ok(r)
      <4>1. PICK some \in Bodies \cup {"part"} : local' = [local EXCEPT ![name] = File(c, some)]
        BY <1>7, <3>2 DEF Downloaded, Write, Bodies
      <4>2. PICK file : file = File(c, some)
        OBVIOUS
      <4>3. QED
        BY <1>5, <4>1, <4>2
    <3>3. QED
      BY <3>1, <3>2
  <2>2. /\ command'[c].stage = "discard" /\ command'[c].local = name
        /\ command'[c].chosen = command[c].chosen
    BY <1>2, <1>7 DEF Downloaded, CInv, WellFormed, CommandFields
  <2>3. local'[name] = file
    BY <1>2, <2>1 DEF FileInv
  <2>4. Loading(c)' /\ LoadingOK(c)'
    BY <2>1, <2>2, <2>3 DEF Loading, LoadingOK, At
  <2>5. QED
    BY <1>1, <1>2, <1>3, <1>4, <2>1, <2>2, <2>4, WritingKeepsFileInv
<1>8. QED
  BY <1>6, <1>7

LEMMA DiscardKeepsFileInv ==
    ASSUME CInv, FileInv, NEW c \in Clients, Discard(c)
    PROVE  FileInv'
<1>1. Others(c)
  BY EndingKeepsCInv DEF Rests
<1>2. command[c].local \in Locals /\ Loading(c)
  BY DEF Discard, Loading, At, CInv, CommandOK, WellFormed, Staged
<1>3. /\ command'[c] = NoCommand /\ \A d \in Clients \ {c} : command'[d] = command[d]
  BY DEF Discard, CInv
<1>4. ~Loading(c)' /\ LoadingOK(c)'
  BY <1>3 DEF NoCommand, Loading, LoadingOK, At
<1>5. PICK file : file = None
  OBVIOUS
<1>6. local' = [local EXCEPT ![command[c].local] = file]
  BY <1>5 DEF Discard, Write
<1>7. QED
  BY <1>1, <1>2, <1>3, <1>4, <1>5, <1>6, WritingKeepsFileInv

\* Every step of a user, as the files see it.
LEMMA UserKeepsFileInv ==
    ASSUME CInv, FileInv, NEW c \in Clients, UserStep(c)
    PROVE  FileInv'
<1>1. Others(c)
  BY UserKeepsCInv DEF Moves, Rests, Starts, GoesOn
<1>2. \A d \in Clients \ {c} :
         /\ request'[d] = request[d] /\ reply'[d] = reply[d] /\ pc'[d] = pc[d]
         /\ LoadingOK(d)
  BY <1>1 DEF Others, Channels, FileInv
<1>3. versions \subseteq versions'
  BY <1>1 DEF Others
<1>4. CASE /\ UNCHANGED local /\ \A d \in Clients \ {c} : command'[d] = command[d]
           /\ ~Loading(c) /\ ~Loading(c)'
  <2>1. \A d \in Clients :
              \/ command'[d] = command[d] /\ (Loading(d) => LoadingOK(d)')
              \/ ~Loading(d) /\ ~Loading(d)'
    BY <1>1, <1>2, <1>4 DEF LoadingOK, Loading, At, Others
  <2>2. QED
    BY <1>3, <1>4, <2>1, QuietStepKeepsFileInv
<1>5. CASE UNCHANGED commandVars /\ (Opened(c) \/ At(c, "acting"))
  <2>1. UNCHANGED <<command, local>>
    BY <1>5 DEF commandVars
  <2>2. ~At(c, "downloading")
    BY <1>5 DEF Opened, Heard, At, FileInv, LoadingOK
  <2>3. \A d \in Clients : Loading(d) => LoadingOK(d)'
    BY <1>1, <1>2, <2>1, <2>2 DEF LoadingOK, Loading, At, FileInv, Others
  <2>4. QED
    BY <1>3, <2>1, <2>3, QuietStepKeepsFileInv
<1>6. CASE PlainStep(c)
  BY <1>4, <1>6, PlainStages DEF Loading
<1>7. CASE Begin(c)
  <2>1. command[c].stage = "none" /\ UNCHANGED local
    BY <1>7 DEF Begin, At
  <2>2. PICK m : command' = [command EXCEPT ![c] = m]
                 /\ m.stage \in {"destination", "parent", "select", "fetch"}
    <3>1. PICK line, typed, waiting : command' = [command EXCEPT ![c] =
            [op |-> line.op, path |-> line.path, dest |-> line.dest, local |-> line.local,
             stage |-> FirstStage(line), chosen |-> None, found |-> {}, typed |-> typed,
             name |-> IF line.dest = << >> THEN None ELSE Last(line.dest),
             waiting |-> waiting]]
      BY <1>7 DEF Begin
    <3>2. FirstStage(line) \in {"destination", "parent", "select", "fetch"}
      BY DEF FirstStage
    <3>3. PICK m : m = [op |-> line.op, path |-> line.path, dest |-> line.dest, local |-> line.local,
             stage |-> FirstStage(line), chosen |-> None, found |-> {}, typed |-> typed,
             name |-> IF line.dest = << >> THEN None ELSE Last(line.dest),
             waiting |-> waiting]
      OBVIOUS
    <3>4. m.stage = FirstStage(line)
      BY <3>3
    <3>5. QED
      BY <3>1, <3>2, <3>3, <3>4
  <2>3. command'[c].stage = m.stage /\ \A d \in Clients \ {c} : command'[d] = command[d]
    BY <2>2 DEF CInv
  <2>4. QED
    BY <1>4, <2>1, <2>2, <2>3 DEF Loading
<1>8. CASE FetchNext(c) \/ Fetched(c)
  <2>1. command[c].stage \in {"fetch", "fetching"} /\ UNCHANGED local
    BY <1>8 DEF FetchNext, Fetched, At, Becomes, Stage, Ends
  <2>2. PICK m : command' = [command EXCEPT ![c] = m] /\ m.stage \in {"fetching", "fetch", "none"}
    <3>1. WellFormed(command[c])
      BY <2>1 DEF CInv, CommandOK
    <3>2. \A w : [command[c] EXCEPT !.stage = "fetching", !.waiting = w].stage = "fetching"
      BY <3>1 DEF WellFormed, CommandFields
    <3>3. \A w : [command[c] EXCEPT !.stage = "fetch", !.found = w].stage = "fetch"
      BY <3>1 DEF WellFormed, CommandFields
    <3>4. [command[c] EXCEPT !.stage = "fetch"].stage = "fetch" /\ NoCommand.stage = "none"
      BY <3>1 DEF WellFormed, CommandFields, NoCommand
    <3>5. CASE FetchNext(c)
      BY <3>2, <3>5 DEF FetchNext, Becomes
    <3>6. CASE Fetched(c)
      BY <3>3, <3>4, <3>6 DEF Fetched, Becomes, Stage, Ends
    <3>7. QED
      BY <1>8, <3>5, <3>6
  <2>3. command'[c].stage = m.stage /\ \A d \in Clients \ {c} : command'[d] = command[d]
    BY <2>2 DEF CInv
  <2>4. QED
    BY <1>4, <2>1, <2>2, <2>3 DEF Loading
<1>9. CASE GetInto(c) /\ Available(command[c].local)
  BY <1>9, GetIntoKeepsFileInv
<1>10. CASE Downloaded(c) \/ Discard(c)
  BY <1>10, DownloadedKeepsFileInv, DiscardKeepsFileInv
<1>11. QED
  BY <1>5, <1>6, <1>7, <1>8, <1>9, <1>10 DEF UserStep, Select, Act, PlainStep, LibraryStep, Opened

LEMMA InitFileInv == CommandsInit => FileInv
  BY DEF CommandsInit, FileInv, LoadingOK, Loading, At, NoCommand

LEMMA NextFileInv ==
    ASSUME CInv, FileInv, [CommandsNext]_allVars
    PROVE  FileInv'
<1>1. CASE DeviceStep /\ UNCHANGED commandVars
  <2>1. PICK k \in Channels : Serve(k) /\ UNCHANGED <<clientVars, failures>>
    BY <1>1 DEF DeviceStep
  <2>2. DeviceInv /\ DeviceInv' /\ StoreGrows
    BY <2>1, ServingKeepsInv DEF CInv, IInv
  <2>3. QED
    BY <1>1, <2>1, <2>2, ServingKeepsFileInv
<1>2. ASSUME NEW c \in Clients, UserStep(c) PROVE FileInv'
  BY <1>2, UserKeepsFileInv
<1>3. ASSUME NEW c \in Clients, Network(c) /\ UNCHANGED commandVars PROVE FileInv'
  BY <1>3, NetworkKeepsFileInv DEF CInv, IInv, DeviceInv
<1>4. CASE UNCHANGED allVars
  <2>1. UNCHANGED <<versions, request, reply, pc, command, local>>
    BY <1>4 DEF allVars, vars, deviceVars, store, history, clientVars, commandVars
  <2>2. \A c \in Clients : LoadingOK(c)'
    BY <2>1 DEF FileInv, LoadingOK, Loading, At
  <2>3. QED
    BY <2>1, <2>2, QuietStepKeepsFileInv
<1>5. QED
  BY <1>1, <1>2, <1>3, <1>4 DEF CommandsNext, UserStep

\* Nobody touches a file but the command that is working on it.
LEMMA FilesStay ==
    ASSUME CInv, FileInv, [CommandsNext]_allVars, NEW name \in Locals, local[name] # None,
           ~(Loading(local[name].by) /\ command[local[name].by].local = name)
    PROVE  local'[name] = local[name] /\ Whole(local[name])
<1>1. Whole(local[name])
  BY DEF FileInv
<1>2. ASSUME NEW c \in Clients,
             (GetInto(c) /\ Available(command[c].local)) \/ Downloaded(c) \/ Discard(c)
      PROVE  local'[name] = local[name]
  <2>1. \/ UNCHANGED local
        \/ \E file : local' = [local EXCEPT ![command[c].local] = file]
    BY <1>2 DEF GetInto, Downloaded, Discard, Write
  <2>2. command[c].local # name
    <3>1. CASE GetInto(c) /\ Available(command[c].local)
      BY <3>1 DEF Available
    <3>2. CASE Downloaded(c) \/ Discard(c)
      <4>1. Loading(c)
        BY <3>2 DEF Downloaded, Discard, Loading, At
      <4>2. QED
        BY <4>1 DEF FileInv, LoadingOK
    <3>3. QED
      BY <1>2, <3>1, <3>2
  <2>3. QED
    BY <2>1, <2>2 DEF FileInv
<1>3. ASSUME NEW c \in Clients,
             \/ PlainStep(c) \/ Begin(c) \/ FetchNext(c) \/ Fetched(c)
             \/ Opened(c) \/ LibraryStep(c)
      PROVE  local' = local
  <2>1. CASE PlainStep(c)
    BY <2>1, PlainStages
  <2>2. CASE Begin(c)
    BY <2>2 DEF Begin
  <2>3. CASE FetchNext(c) \/ Fetched(c)
    BY <2>3 DEF FetchNext, Fetched, Becomes, Stage, Ends
  <2>4. CASE Opened(c) \/ LibraryStep(c)
    BY <2>4 DEF Opened, LibraryStep, commandVars
  <2>5. QED
    BY <1>3, <2>1, <2>2, <2>3, <2>4
<1>4. CASE UNCHANGED commandVars
  BY <1>1, <1>4 DEF commandVars
<1>5. CASE UNCHANGED allVars
  BY <1>4, <1>5 DEF allVars
<1>6. QED
  <2>1. ASSUME NEW c \in Clients, UserStep(c) PROVE local'[name] = local[name]
    BY <1>2, <1>3, <2>1 DEF UserStep, Select, Act, PlainStep
  <2>2. QED
    BY <1>1, <1>4, <1>5, <2>1 DEF CommandsNext, UserStep

\* GottenFilesStayWhole: a local file that get has left behind holds a whole
\* body which the device held for the selected document, and no command
\* touches it again (main.go get: the file is made exclusively, and removed
\* when the download fails).
THEOREM FilesAreWhole == CommandsSpec => GottenFilesStayWhole
<1> DEFINE Left == \A name \in Locals :
              LET file == local[name] IN
              file # None /\ (At(file.by, "none") \/ command[file.by].op # "get"
                                 \/ command[file.by].local # name) =>
                /\ local'[name] = file
                /\ \E v \in versions : v[1] = file.from /\ v[3] = file.body
<1>1. CommandsInit => CInv /\ FileInv
  BY InitCInv, InitFileInv
<1>2. CInv /\ FileInv /\ [CommandsNext]_allVars => CInv' /\ FileInv'
  BY NextCInv, NextFileInv
<1>3. CInv /\ FileInv /\ [CommandsNext]_allVars => Left
  <2> SUFFICES ASSUME CInv, FileInv, [CommandsNext]_allVars, NEW name \in Locals, local[name] # None,
                      \/ At(local[name].by, "none") \/ command[local[name].by].op # "get"
                      \/ command[local[name].by].local # name
               PROVE  local'[name] = local[name] /\ Whole(local[name])
    BY DEF Whole
  <2>1. local[name].by \in Clients
    BY DEF FileInv, LocalFile
  <2>2. Loading(local[name].by) => command[local[name].by].op = "get"
    BY <2>1 DEF Loading, CInv, CommandOK, Staged
  <2>3. QED
    BY <2>2, FilesStay DEF Loading, At
<1>4. CInv /\ FileInv /\ [CommandsNext]_allVars => [Left]_allVars
  BY <1>3
<1>5. QED
  BY <1>1, <1>2, <1>4, PTL DEF CommandsSpec, GottenFilesStayWhole

-----------------------------------------------------------------------------
(* References.                                                             *)

\* A bounded set of numbers has a greatest.
LEMMA GreatestIsMax ==
    ASSUME NEW S \in SUBSET Nat, S # {}, NEW b \in Nat, \A n \in S : n <= b
    PROVE  Max(S) \in S /\ \A n \in S : n <= Max(S)
<1> DEFINE T == {m \in Nat : b - m \in S}
<1>1. PICK n \in S : n \in Nat /\ n <= b
  OBVIOUS
<1>2. b - n \in T
  BY <1>1
<1>3. T # {} /\ T \subseteq Nat
  BY <1>2
<1>4. PICK m \in T : \A k \in T : ~(<<k, m>> \in OpToRel(<, Nat))
  BY <1>3, NatLessThanWellFounded, WFMin
<1>5. m \in Nat /\ b - m \in S /\ \A k \in T : ~(k < m)
  BY <1>4 DEF OpToRel
<1>6. \A k \in S : b - k \in T
  OBVIOUS
<1>7. \A k \in S : k <= b - m
  <2> SUFFICES ASSUME NEW k \in S
               PROVE  k <= b - m
    OBVIOUS
  <2>1. k \in Nat /\ k <= b /\ b - k \in T
    BY <1>6
  <2>2. ~(b - k < m)
    BY <1>5, <2>1
  <2> HIDE DEF T
  <2>3. QED
    BY <1>5, <2>1, <2>2
<1>8. PICK x \in S : \A y \in S : x >= y
  BY <1>5, <1>7
<1>9. Max(S) \in S /\ \A y \in S : Max(S) >= y
  BY <1>8 DEF Max
<1>10. QED
  BY <1>9

LEMMA CommonPrefixIsShort ==
    ASSUME NEW a \in Seq(Nat), NEW b \in Seq(Nat)
    PROVE  CommonPrefixLength(a, b) \in 0 .. Len(a)
<1> DEFINE S == {n \in 0 .. Len(a) : n <= Len(b) /\ SubSeq(a, 1, n) = SubSeq(b, 1, n)}
<1>1. Len(a) \in Nat /\ Len(b) \in Nat
  OBVIOUS
<1>2. SubSeq(a, 1, 0) = << >> /\ SubSeq(b, 1, 0) = << >>
  OBVIOUS
<1>3. 0 \in S /\ S \in SUBSET Nat /\ \A n \in S : n <= Len(a)
  BY <1>1, <1>2
<1> HIDE DEF S
<1>4. Max(S) \in S
  BY <1>1, <1>3, GreatestIsMax
<1>5. QED
  BY <1>4 DEF CommonPrefixLength, S

\* Prefixes of prefixes.
LEMMA PrefixesNest ==
    ASSUME NEW s \in Seq(Nat), NEW t \in Seq(Nat), NEW u \in Seq(Nat), IsPrefix(s, t), IsPrefix(t, u)
    PROVE  IsPrefix(s, u)
<1>1. /\ Len(s) \in Nat /\ Len(t) \in Nat /\ Len(u) \in Nat
      /\ Len(s) <= Len(t) /\ SubSeq(s, 1, Len(s)) = SubSeq(t, 1, Len(s))
      /\ Len(t) <= Len(u) /\ SubSeq(t, 1, Len(t)) = SubSeq(u, 1, Len(t))
  BY DEF IsPrefix
<1>2. \A i \in 1 .. Len(s) : s[i] = t[i]
  BY <1>1
<1>3. \A i \in 1 .. Len(t) : t[i] = u[i]
  BY <1>1
<1>4. SubSeq(s, 1, Len(s)) = SubSeq(u, 1, Len(s))
  BY <1>1, <1>2, <1>3
<1>5. QED
  BY <1>1, <1>4 DEF IsPrefix

\* More candidates have no smaller maximum.
LEMMA MaxGrows ==
    ASSUME NEW b \in Nat, NEW S \in SUBSET Nat, NEW T \in SUBSET Nat, S # {}, S \subseteq T,
           \A n \in T : n <= b
    PROVE  Max(S) \in Nat /\ Max(T) \in Nat /\ Max(S) <= Max(T)
<1>1. Max(S) \in S
  BY GreatestIsMax
<1>2. Max(T) \in T /\ \A n \in T : n <= Max(T)
  BY GreatestIsMax
<1>3. QED
  BY <1>1, <1>2

\* The first digits are a prefix of the first more of them.
LEMMA StartsNest ==
    ASSUME NEW s \in Seq(Nat), NEW a \in Nat, NEW b \in Nat, a <= b
    PROVE  /\ SubSeq(s, 1, Min({a, Len(s)})) \in Seq(Nat) /\ SubSeq(s, 1, Min({b, Len(s)})) \in Seq(Nat)
           /\ IsPrefix(SubSeq(s, 1, Min({a, Len(s)})), SubSeq(s, 1, Min({b, Len(s)})))
<1>1. PICK l \in Nat : l = Len(s)
  OBVIOUS
<1>2. \A n \in Nat : Min({n, l}) = IF n <= l THEN n ELSE l
  BY DEF Min
<1>3. PICK m \in 0 .. l, n \in 0 .. l : m = Min({a, l}) /\ n = Min({b, l}) /\ m <= n
  BY <1>2
<1>4. ASSUME NEW k \in 0 .. l
      PROVE  /\ SubSeq(s, 1, k) \in Seq(Nat) /\ Len(SubSeq(s, 1, k)) = k
             /\ \A i \in 1 .. k : SubSeq(s, 1, k)[i] = s[i]
  <2>1. k \in Int /\ 1 \in Int /\ \A i \in 1 .. k : s[i] \in Nat
    BY <1>1
  <2>2. /\ SubSeq(s, 1, k) \in Seq(Nat)
        /\ Len(SubSeq(s, 1, k)) = IF 1 <= k THEN k - 1 + 1 ELSE 0
        /\ \A i \in 1 .. k - 1 + 1 : SubSeq(s, 1, k)[i] = s[1 + i - 1]
    BY <2>1, SubSeqProperties
  <2>3. QED
    BY <2>2
<1>5. PICK p, q : p = SubSeq(s, 1, m) /\ q = SubSeq(s, 1, n)
  OBVIOUS
<1>6. /\ p \in Seq(Nat) /\ q \in Seq(Nat) /\ Len(p) = m /\ Len(q) = n
      /\ \A i \in 1 .. m : p[i] = s[i]
      /\ \A i \in 1 .. n : q[i] = s[i]
  BY <1>4, <1>5
<1>7. \A i \in 1 .. m : p[i] = q[i]
  <2>1. \A i \in 1 .. m : i \in 1 .. n
    BY <1>3
  <2>2. QED
    BY <1>6, <2>1
<1>8. IsPrefix(p, q)
  <2>1. m <= Len(q) /\ Len(p) = m /\ m \in Nat
    BY <1>3, <1>6
  <2>2. SubSeq(p, 1, m) = [i \in 1 .. m |-> p[i]] /\ SubSeq(q, 1, m) = [i \in 1 .. m |-> q[i]]
    BY <1>3, <1>6, <2>1
  <2>3. SubSeq(p, 1, m) = SubSeq(q, 1, m)
    BY <1>7, <2>2
  <2>4. QED
    BY <1>6, <2>1, <2>3 DEF IsPrefix
<1>9. /\ SubSeq(s, 1, Min({a, Len(s)})) = p /\ SubSeq(s, 1, Min({b, Len(s)})) = q
  BY <1>1, <1>3, <1>5
<1>10. QED
  BY <1>6, <1>8, <1>9

\* Every object of the reference store has a digest.
Digested(records) == \A n \in DOMAIN records : records[n].id \in DOMAIN Digest

\* Records that are there stay where they are.
Extended(records, more) == \A n \in DOMAIN records : n \in DOMAIN more /\ more[n] = records[n]

\* How many digits tell an object from each of the others.
Known(id, records) == {r.id : r \in Range(records)} \ {id}
Needed(D, others) == {MinDigits} \cup {CommonPrefixLength(D, Digest[o]) + 1 : o \in others}

LEMMA NeededIsBounded ==
    ASSUME NEW D \in Seq(Nat), NEW others \in SUBSET DOMAIN Digest
    PROVE  /\ Needed(D, others) \in SUBSET Nat /\ Needed(D, others) # {}
           /\ Len(D) + 1 + MinDigits \in Nat
           /\ \A n \in Needed(D, others) : n <= Len(D) + 1 + MinDigits
<1>1. MinDigits \in Nat /\ \A o \in others : Digest[o] \in Seq(Nat)
  BY CommandsAssumption DEF CommandsAssumption
<1>2. PICK l \in Nat, d \in Nat : l = Len(D) /\ d = MinDigits
  BY <1>1
<1>3. \A o \in others : CommonPrefixLength(D, Digest[o]) \in 0 .. l
  BY <1>1, <1>2, CommonPrefixIsShort
<1>4. ASSUME NEW n \in Needed(D, others)
      PROVE  n \in Nat /\ n <= l + 1 + d
  <2>1. CASE n = MinDigits
    BY <1>2, <2>1
  <2>2. CASE \E o \in others : n = CommonPrefixLength(D, Digest[o]) + 1
    <3>1. PICK o \in others : n = CommonPrefixLength(D, Digest[o]) + 1
      BY <2>2
    <3>2. PICK k \in 0 .. l : k = CommonPrefixLength(D, Digest[o])
      BY <1>3
    <3>3. QED
      BY <1>2, <3>1, <3>2
  <2>3. QED
    BY <1>4, <2>1, <2>2 DEF Needed
<1>5. MinDigits \in Needed(D, others)
  BY DEF Needed
<1>6. Len(D) + 1 + MinDigits = l + 1 + d /\ l + 1 + d \in Nat
  BY <1>2
<1>7. QED
  BY <1>4, <1>5, <1>6

\* Digits that tell an object from more others are at least as many.
LEMMA HexGrows ==
    ASSUME NEW id \in DOMAIN Digest, NEW records, Digested(records), NEW more, Digested(more),
           Extended(records, more)
    PROVE  /\ HexOf(id, records) \in Seq(Nat) /\ HexOf(id, more) \in Seq(Nat)
           /\ IsPrefix(HexOf(id, records), HexOf(id, more))
<1>1. PICK D \in Seq(Nat) : D = Digest[id]
  BY CommandsAssumption DEF CommandsAssumption
<1>2. PICK S \in SUBSET DOMAIN Digest, T \in SUBSET DOMAIN Digest :
         S = Known(id, records) /\ T = Known(id, more) /\ S \subseteq T
  <2>1. ASSUME NEW rs, Digested(rs) PROVE Known(id, rs) \subseteq DOMAIN Digest
    BY <2>1 DEF Known, Digested, Range
  <2>2. Known(id, records) \subseteq Known(id, more)
    BY DEF Known, Extended, Range
  <2>3. QED
    BY <2>1, <2>2
<1>3. Needed(D, S) \subseteq Needed(D, T)
  BY <1>2 DEF Needed
<1>4. /\ Needed(D, S) \in SUBSET Nat /\ Needed(D, S) # {} /\ Needed(D, T) \in SUBSET Nat
      /\ Len(D) + 1 + MinDigits \in Nat /\ \A n \in Needed(D, T) : n <= Len(D) + 1 + MinDigits
  BY NeededIsBounded
<1>5. Max(Needed(D, S)) \in Nat /\ Max(Needed(D, T)) \in Nat /\ Max(Needed(D, S)) <= Max(Needed(D, T))
  BY <1>3, <1>4, MaxGrows
<1>6. /\ HexOf(id, records) = SubSeq(D, 1, Min({Max(Needed(D, S)), Len(D)}))
      /\ HexOf(id, more) = SubSeq(D, 1, Min({Max(Needed(D, T)), Len(D)}))
  BY <1>1, <1>2 DEF HexOf, Known, Needed
<1>7. QED
  BY <1>5, <1>6, StartsNest

-----------------------------------------------------------------------------
(* References that were printed.                                           *)

\* What a printed reference stands for has a number, and the digits are the
\* first of those that tell the object from all others by now.
ShownFor(s, records) ==
    /\ s.kind \in {"number", "hex"}
    /\ \E m \in DOMAIN records :
          /\ records[m] = s.object
          /\ s.kind = "number" => s.digits = <<m>>
          /\ s.kind = "hex" => /\ s.digits \in Seq(Nat)
                               /\ IsPrefix(s.digits, HexOf(s.object.id, records))

LEMMA ShownStays ==
    ASSUME NEW records, Digested(records), NEW more, Digested(more), Extended(records, more),
           NEW s, ShownFor(s, records)
    PROVE  ShownFor(s, more)
<1>1. PICK m \in DOMAIN records :
          /\ records[m] = s.object
          /\ s.kind = "number" => s.digits = <<m>>
          /\ s.kind = "hex" => s.digits \in Seq(Nat) /\ IsPrefix(s.digits, HexOf(s.object.id, records))
  BY DEF ShownFor
<1>2. m \in DOMAIN more /\ more[m] = s.object /\ s.object.id \in DOMAIN Digest
  BY <1>1 DEF Extended, Digested
<1>3. PICK id \in DOMAIN Digest : id = s.object.id
  BY <1>2
<1>4. /\ HexOf(id, records) \in Seq(Nat) /\ HexOf(id, more) \in Seq(Nat)
      /\ IsPrefix(HexOf(id, records), HexOf(id, more))
  BY HexGrows
<1>5. s.kind = "hex" => s.digits \in Seq(Nat) /\ IsPrefix(s.digits, HexOf(id, more))
  BY <1>1, <1>3, <1>4, PrefixesNest
<1>6. QED
  BY <1>1, <1>2, <1>3, <1>5 DEF ShownFor

\* What ls -l prints, it prints for what is in the store.
LEMMA PrintedIsShown ==
    ASSUME NEW records, Digested(records), NEW entries, NEW s \in Printed(records, entries)
    PROVE  ShownFor(s, records)
<1>1. PICK n \in DOMAIN records :
        \/ s = [kind |-> "number", digits |-> <<n>>, object |-> records[n]]
        \/ s = [kind |-> "hex", digits |-> HexOf(records[n].id, records), object |-> records[n]]
  BY DEF Printed
<1>2. CASE s = [kind |-> "number", digits |-> <<n>>, object |-> records[n]]
  <2>1. s.kind = "number" /\ s.digits = <<n>> /\ s.object = records[n]
    BY <1>2
  <2>2. QED
    BY <2>1 DEF ShownFor
<1>3. CASE s = [kind |-> "hex", digits |-> HexOf(records[n].id, records), object |-> records[n]]
  <2>1. s.kind = "hex" /\ s.digits = HexOf(records[n].id, records) /\ s.object = records[n]
    BY <1>3
  <2>2. PICK id \in DOMAIN Digest : id = records[n].id
    BY DEF Digested
  <2>3. HexOf(id, records) \in Seq(Nat) /\ IsPrefix(HexOf(id, records), HexOf(id, records))
    BY HexGrows DEF Extended
  <2>4. QED
    BY <2>1, <2>2, <2>3 DEF ShownFor
<1>4. QED
  BY <1>1, <1>2, <1>3

-----------------------------------------------------------------------------
(* From a reference to its object.                                         *)

\* The user of a command that looks its candidates up, and what is meant.
Selecting(c) == command[c].stage \in {"fetch", "fetching"}
Meant(c) == command[c].typed.object
Same(e, m) == e.id = m.id /\ e.type = m.type

\* A number leads nowhere else.
NumberOK(c) ==
    command[c].typed.kind = "number" =>
        /\ \A n \in command[c].waiting : refs[n].id = Meant(c).id
        /\ \A e \in command[c].found : e.id = Meant(c).id
        /\ At(c, "fetching") =>
              /\ request[c] # None => request[c].id = Meant(c).id
              /\ reply[c] # None /\ Ok(reply[c]) => reply[c].id = Meant(c).id

\* The object is being looked up, and the answer, if it says anything, says
\* that it is there.
OnItsWay(c) ==
    /\ At(c, "fetching")
    /\ request[c] # None => request[c] = GetByReference(Meant(c))
    /\ reply[c] # None => IF Ok(reply[c]) THEN Same(reply[c], Meant(c)) ELSE reply[c].code # "40401"

\* While the object exists, digits lead to it: it is still to be looked up,
\* is being looked up, or was found.
HexOK(c) ==
    command[c].typed.kind = "hex" /\ Meant(c).id \in Ids /\ Compatible(c, Meant(c)) =>
        \/ \E n \in command[c].waiting : refs[n] = Meant(c)
        \/ OnItsWay(c)
        \/ \E e \in command[c].found : Same(e, Meant(c))

SelectingOK(c) ==
    Selecting(c) =>
        /\ command[c].typed \in shown /\ (At(c, "fetching") => pc[c] = "fetched")
        /\ NumberOK(c) /\ HexOK(c)

SelInv == (\A s \in shown : ShownFor(s, refs)) /\ \A c \in Clients : SelectingOK(c)

\* What is meant, and what is still to be looked up, is in the store.
LEMMA MeantIsKnown ==
    ASSUME CInv, SelInv, NEW c \in Clients, Selecting(c)
    PROVE  /\ WellFormed(command[c]) /\ Meant(c) \in Item /\ Meant(c).id \in Nat /\ Meant(c).id < nextID
           /\ TrueItem(Meant(c)) /\ command[c].typed.kind \in {"number", "hex"}
<1>1. WellFormed(command[c]) /\ command[c].typed \in shown
  BY DEF CInv, CommandOK, Selecting, SelInv, SelectingOK
<1>2. ShownFor(command[c].typed, refs)
  BY <1>1 DEF SelInv
<1>3. PICK m \in DOMAIN refs : refs[m] = Meant(c)
  BY <1>2 DEF ShownFor, Meant
<1>4. TrueItem(Meant(c))
  BY <1>3 DEF CInv, RefsOK
<1>5. QED
  BY <1>1, <1>2, <1>4 DEF ShownFor, TrueItem, DocumentOnce, FolderOnce

\* A command that is not touched goes on as before.
LEMMA SelectionStays ==
    ASSUME CInv, SelInv, DeviceInv', StoreGrows, Extended(refs, refs'), shown \subseteq shown',
           NEW c \in Clients, command'[c] = command[c],
           ~At(c, "fetching") \/ (request'[c] = request[c] /\ reply'[c] = reply[c] /\ pc'[c] = pc[c])
    PROVE  SelectingOK(c)'
<1>1. CASE ~Selecting(c)
  BY <1>1 DEF Selecting, SelectingOK
<1>2. CASE Selecting(c)
  <2>1. SelectingOK(c) /\ WellFormed(command[c]) /\ DeviceInv
    BY <1>2, MeantIsKnown DEF SelInv, CInv, IInv
  <2>2. \A n \in command[c].waiting : n \in DOMAIN refs' /\ refs'[n] = refs[n]
    BY <2>1 DEF WellFormed, Extended
  <2>3. Meant(c)' = Meant(c) /\ (At(c, "fetching")' <=> At(c, "fetching"))
        /\ (Compatible(c, Meant(c))' <=> Compatible(c, Meant(c)))
    BY DEF Meant, At, Compatible
  <2>4. Meant(c).id \in Ids' => Meant(c).id \in Ids
    BY <1>2, <2>1, MeantIsKnown, FactsStay
  <2>5. NumberOK(c)'
    BY <1>2, <2>1, <2>2, <2>3 DEF SelectingOK, NumberOK
  <2>6. OnItsWay(c) => OnItsWay(c)'
    BY <2>3 DEF OnItsWay
  <2>7. HexOK(c)'
    BY <1>2, <2>1, <2>2, <2>3, <2>4, <2>6 DEF SelectingOK, HexOK
  <2>8. QED
    BY <1>2, <2>1, <2>3, <2>5, <2>7 DEF SelectingOK
<1>3. QED
  BY <1>1, <1>2

\* The device looks up what it is asked for.
LEMMA ServingKeepsSelInv ==
    ASSUME CInv, SelInv, NEW k \in Channels, Serve(k), UNCHANGED <<clientVars, failures>>,
           UNCHANGED commandVars
    PROVE  SelInv'
<1>1. DeviceInv /\ DeviceInv' /\ StoreGrows /\ ChannelTypes
  BY ServingKeepsInv DEF CInv, IInv, DeviceInv
<1>2. UNCHANGED <<pc, command, refs, shown>> /\ Extended(refs, refs')
  BY DEF clientVars, commandVars, Extended
<1>3. ASSUME NEW c \in Clients PROVE SelectingOK(c)'
  <2>1. SelectingOK(c) /\ c \in Channels /\ Awaits(c)
    BY DEF SelInv, Channels, CInv
  <2>2. CASE k = c /\ At(c, "fetching")
    <3>1. /\ WellFormed(command[c]) /\ Meant(c).id \in Nat /\ Meant(c).id < nextID
          /\ TrueItem(Meant(c)) /\ command[c].typed \in shown /\ pc[c] = "fetched" /\ Selecting(c)
          /\ NumberOK(c) /\ HexOK(c)
      BY <2>1, <2>2, MeantIsKnown DEF Selecting, SelectingOK, At
    <3>2. PICK q : q = request[c] /\ q # None /\ q.op \in {"getDocument", "getFolder"}
      BY <2>1, <2>2, <3>1 DEF Serve, Awaits
    <3>3. PICK r \in Reply : Answer(c, r) /\ Told(q, r) /\ UNCHANGED store
      BY <1>1, <2>1, <2>2, <3>2, LookingTells
    <3>4. request'[c] = None /\ reply'[c] = r
      BY <1>1, <2>1, <3>3, AnswerSends
    <3>5. Meant(c)' = Meant(c) /\ At(c, "fetching")' /\ Ids' = Ids
          /\ (Compatible(c, Meant(c))' <=> Compatible(c, Meant(c)))
      BY <1>2, <2>2, <3>3 DEF Meant, At, Compatible, store, Ids
    <3>6. NumberOK(c)'
      BY <1>2, <2>2, <3>1, <3>2, <3>3, <3>4, <3>5 DEF NumberOK, Told
    <3>7. ASSUME OnItsWay(c), Meant(c).id \in Ids PROVE OnItsWay(c)'
      <4>1. q = GetByReference(Meant(c))
        BY <3>2, <3>7 DEF OnItsWay
      <4>2. q.id = Meant(c).id /\ q.op = IF Meant(c).type = "folder" THEN "getFolder" ELSE "getDocument"
        BY <4>1 DEF GetByReference
      <4>3. Meant(c).type \in {"document", "folder"}
        BY <3>1 DEF TrueItem, Item
      <4>4. Ok(r) => Same(r, Meant(c))
        BY <3>3, <4>2, <4>3 DEF Told, Same
      <4>5. Ok(r)
        BY <3>1, <3>3, <3>7, <4>2, <4>3 DEF Told, TrueItem, DocumentOnce, FolderOnce, Ids
      <4>6. QED
        BY <3>4, <3>5, <4>4, <4>5 DEF OnItsWay
    <3>8. HexOK(c)'
      BY <1>2, <3>1, <3>5, <3>7 DEF HexOK
    <3>9. QED
      BY <1>2, <3>1, <3>6, <3>8 DEF SelectingOK
  <2>3. CASE k # c
    <3>1. request'[c] = request[c]
      BY <1>1, <2>1, <2>3, ServingChangesDocuments DEF DocumentsAfter
    <3>2. reply'[c] = reply[c]
      <4>1. CASE \E r : Answer(k, r)
        BY <2>3, <4>1 DEF Answer
      <4>2. CASE listDocuments(k)
        BY <4>2 DEF listDocuments
      <4>3. QED
        BY <4>1, <4>2 DEF Serve, createFolder, createDocument, copyDocument, uploadDocument,
          updateDocument, updateFolder, deleteDocument, deleteFolder, getDocument, getFolder,
          documentByPath, downloadDocument, openDocument, listFolders, Refuse
    <3>3. QED
      BY <1>1, <1>2, <3>1, <3>2, SelectionStays
  <2>4. CASE ~At(c, "fetching")
    BY <1>1, <1>2, <2>4, SelectionStays
  <2>5. QED
    BY <2>2, <2>3, <2>4
<1>4. QED
  BY <1>2, <1>3 DEF SelInv

\* An answer that is lost or unusable does not say that the object is gone.
LEMMA NetworkKeepsSelInv ==
    ASSUME CInv, SelInv, NEW c \in Clients, Network(c), UNCHANGED commandVars
    PROVE  SelInv'
<1>1. UNCHANGED <<pc, command, refs, shown, folders, documents>>
  BY DEF Network, LoseRequest, LoseReply, Abandon, clientVars, commandVars, store
<1>2. ChannelTypes
  BY DEF CInv, IInv, DeviceInv
<1>3. \A d \in Clients : request'[d] \in {request[d], None} /\ reply'[d] \in {reply[d], Failure}
  <2>1. CASE LoseRequest(c)
    BY <1>2, <2>1, AnswerSends, PlainReplies DEF LoseRequest, Channels
  <2>2. CASE LoseReply(c)
    BY <1>2, <2>2 DEF LoseReply, ChannelTypes, Channels
  <2>3. CASE Abandon(c)
    BY <1>2, <2>3, SeedAssumption DEF Abandon, ChannelTypes, Channels, SeedAssumption
  <2>4. QED
    BY <2>1, <2>2, <2>3 DEF Network
<1>4. ~Ok(Failure) /\ Failure.code # "40401"
  BY DEF Failure, Ok
<1>5. ASSUME NEW d \in Clients PROVE SelectingOK(d)'
  <2>1. SelectingOK(d)
    BY DEF SelInv
  <2>2. Meant(d)' = Meant(d) /\ (At(d, "fetching")' <=> At(d, "fetching")) /\ Ids' = Ids
        /\ (Compatible(d, Meant(d))' <=> Compatible(d, Meant(d)))
    BY <1>1 DEF Meant, At, Compatible, Ids
  <2>3. OnItsWay(d) => OnItsWay(d)'
    BY <1>3, <1>4, <2>2 DEF OnItsWay
  <2>4. NumberOK(d) => NumberOK(d)'
    BY <1>1, <1>3, <1>4, <2>2 DEF NumberOK
  <2>5. HexOK(d) => HexOK(d)'
    BY <1>1, <2>2, <2>3 DEF HexOK
  <2>6. QED
    BY <1>1, <2>1, <2>2, <2>4, <2>5 DEF SelectingOK, Selecting
<1>6. QED
  BY <1>1, <1>5 DEF SelInv

-----------------------------------------------------------------------------
(* The steps that lead from a reference to its object.                     *)

\* What is meant is among the candidates.
LEMMA BeginSelects ==
    ASSUME CInv, SelInv, NEW c \in Clients, Begin(c)
    PROVE  SelectingOK(c)'
<1>1. PICK line, typed :
         /\ line \in CommandLines /\ typed \in IF line.by = "reference" THEN shown ELSE {None}
         /\ command' = [command EXCEPT ![c] =
            [op |-> line.op, path |-> line.path, dest |-> line.dest, local |-> line.local,
             stage |-> FirstStage(line), chosen |-> None, found |-> {}, typed |-> typed,
             name |-> IF line.dest = << >> THEN None ELSE Last(line.dest),
             waiting |-> IF line.by = "path" THEN {}
                         ELSE {n \in Candidates(typed) : refs[n].type \in Expected(line.op)}]]
  BY DEF Begin
<1>2. PICK m : m =
            [op |-> line.op, path |-> line.path, dest |-> line.dest, local |-> line.local,
             stage |-> FirstStage(line), chosen |-> None, found |-> {}, typed |-> typed,
             name |-> IF line.dest = << >> THEN None ELSE Last(line.dest),
             waiting |-> IF line.by = "path" THEN {}
                         ELSE {n \in Candidates(typed) : refs[n].type \in Expected(line.op)}]
  OBVIOUS
<1>3. /\ m.op = line.op /\ m.stage = FirstStage(line) /\ m.found = {} /\ m.typed = typed
      /\ m.waiting = IF line.by = "path" THEN {}
                     ELSE {n \in Candidates(typed) : refs[n].type \in Expected(line.op)}
  BY <1>2
<1>4. command'[c] = m
  BY <1>1, <1>2 DEF CInv
<1>5. UNCHANGED <<refs, shown, folders, documents>>
  BY DEF Begin, vars, deviceVars, store
<1>6. m.stage # "fetching"
  BY <1>3 DEF FirstStage
<1>7. CASE m.stage = "fetch"
  <2>1. line.by = "reference" /\ typed \in shown
    <3>1. line.by # "path"
      BY <1>3, <1>7 DEF FirstStage
    <3>2. line.by \in {"path", "reference"}
      BY <1>1, CommandsAssumption DEF CommandsAssumption, CommandLine
    <3>3. QED
      BY <1>1, <3>1, <3>2
  <2>2. ShownFor(typed, refs)
    BY <2>1 DEF SelInv
  <2>3. PICK j \in DOMAIN refs :
          /\ refs[j] = typed.object
          /\ typed.kind = "number" => typed.digits = <<j>>
          /\ typed.kind = "hex" => typed.digits \in Seq(Nat)
                                   /\ IsPrefix(typed.digits, HexOf(typed.object.id, refs))
    BY <2>2 DEF ShownFor
  <2>4. typed.kind \in {"number", "hex"}
    BY <2>2 DEF ShownFor
  <2>5. j \in Candidates(typed)
    BY <2>3, <2>4 DEF Candidates
  <2>6. typed.kind = "number" => \A n \in Candidates(typed) : n = j
    BY <2>3 DEF Candidates
  <2>7. m.waiting = {n \in Candidates(typed) : refs[n].type \in Expected(line.op)}
    BY <1>3, <2>1
  <2>8. NumberOK(c)'
    BY <1>3, <1>4, <1>5, <1>6, <2>3, <2>6, <2>7 DEF NumberOK, Meant, At
  <2>9. HexOK(c)'
    BY <1>3, <1>4, <1>5, <2>3, <2>5, <2>7 DEF HexOK, Meant, Compatible
  <2>10. QED
    BY <1>3, <1>4, <1>5, <1>6, <2>1, <2>8, <2>9 DEF SelectingOK, At
<1>8. CASE m.stage # "fetch"
  BY <1>4, <1>6, <1>8 DEF SelectingOK, Selecting
<1>9. QED
  BY <1>7, <1>8

\* Candidates are asked for one after the other.
LEMMA FetchNextSelects ==
    ASSUME CInv, SelInv, NEW c \in Clients, FetchNext(c)
    PROVE  SelectingOK(c)'
<1>1. PICK n \in command[c].waiting :
        /\ Start(c, "get", Asked("get"), "fetched") /\ Ask(c, GetByReference(refs[n]))
        /\ Becomes(c, [command[c] EXCEPT !.stage = "fetching", !.waiting = @ \ {n}])
  BY DEF FetchNext
<1>2. At(c, "fetch") /\ Selecting(c) /\ SelectingOK(c) /\ c \in Channels
  BY DEF FetchNext, Selecting, SelInv, At, Channels
<1>3. WellFormed(command[c]) /\ command[c].typed \in shown /\ NumberOK(c) /\ HexOK(c)
  BY <1>2, MeantIsKnown DEF SelectingOK
<1>4. PICK m : m = [command[c] EXCEPT !.stage = "fetching", !.waiting = @ \ {n}]
  OBVIOUS
<1>5. /\ m.stage = "fetching" /\ m.waiting = command[c].waiting \ {n}
      /\ m.op = command[c].op /\ m.found = command[c].found /\ m.typed = command[c].typed
  BY <1>3, <1>4 DEF WellFormed, CommandFields
<1>6. command'[c] = m /\ UNCHANGED <<refs, shown>>
  BY <1>1, <1>4 DEF Becomes, CInv
<1>7. PICK q : q = GetByReference(refs[n])
  OBVIOUS
<1>8. q.id = refs[n].id
  BY <1>7 DEF GetByReference
<1>9. pc'[c] = "fetched" /\ request'[c] = q /\ reply'[c] = None /\ UNCHANGED <<folders, documents>>
  BY <1>1, <1>2, <1>7 DEF Start, Ask, CInv, IInv, DeviceInv, ChannelTypes, ClientTypes, store
<1>10. Meant(c)' = Meant(c) /\ Ids' = Ids /\ (Compatible(c, Meant(c))' <=> Compatible(c, Meant(c)))
  BY <1>5, <1>6, <1>9 DEF Meant, Compatible, Ids
<1>11. NumberOK(c)'
  BY <1>1, <1>3, <1>5, <1>6, <1>8, <1>9, <1>10 DEF NumberOK
<1>12. HexOK(c)'
  <2> SUFFICES ASSUME command[c].typed.kind = "hex", Meant(c).id \in Ids, Compatible(c, Meant(c))
               PROVE  \/ \E k \in command'[c].waiting : refs'[k] = Meant(c)
                      \/ OnItsWay(c)'
                      \/ \E e \in command'[c].found : Same(e, Meant(c))
    BY <1>5, <1>6, <1>10 DEF HexOK, Same
  <2>1. CASE refs[n] = Meant(c)
    BY <1>5, <1>6, <1>7, <1>9, <1>10, <2>1 DEF OnItsWay, At
  <2>2. CASE \E k \in command[c].waiting : k # n /\ refs[k] = Meant(c)
    BY <1>5, <1>6, <2>2
  <2>3. ~OnItsWay(c)
    BY <1>2 DEF OnItsWay, At
  <2>4. QED
    BY <1>3, <1>5, <1>6, <2>1, <2>2, <2>3 DEF HexOK
<1>13. QED
  BY <1>3, <1>5, <1>6, <1>9, <1>11, <1>12 DEF SelectingOK, At

\* One that was found is kept, and only one that is gone is passed over.
LEMMA FetchedSelects ==
    ASSUME CInv, SelInv, NEW c \in Clients, Fetched(c)
    PROVE  SelectingOK(c)'
<1>1. /\ At(c, "fetching") /\ Selecting(c) /\ SelectingOK(c)
      /\ reply[c] # None
  BY DEF Fetched, Heard, Selecting, SelInv, At
<1>2. /\ WellFormed(command[c]) /\ command[c].typed \in shown /\ NumberOK(c) /\ HexOK(c)
  BY <1>1, MeantIsKnown DEF SelectingOK
<1>3. PICK r : r = reply[c]
  OBVIOUS
<1>4. PICK m : /\ Becomes(c, m)
               /\ \/ m = NoCommand
                  \/ Ok(r) /\ m = [command[c] EXCEPT !.stage = "fetch", !.found = @ \cup {r}]
                  \/ PassedOver(r) /\ m = [command[c] EXCEPT !.stage = "fetch"]
  BY <1>3 DEF Fetched, Ends, Stage
<1>5. command'[c] = m /\ UNCHANGED <<refs, shown, folders, documents>>
  BY <1>4 DEF Becomes, CInv, Fetched, Fail, End, store
<1>6. CASE m = NoCommand
  BY <1>5, <1>6 DEF NoCommand, SelectingOK, Selecting
<1>7. CASE m # NoCommand
  <2>1. /\ m.stage = "fetch" /\ m.waiting = command[c].waiting
        /\ m.op = command[c].op /\ m.typed = command[c].typed
        /\ m.found = command[c].found \/ (Ok(r) /\ m.found = command[c].found \cup {r})
        /\ Ok(r) => m.found = command[c].found \cup {r}
        /\ ~Ok(r) => PassedOver(r)
    BY <1>2, <1>4, <1>7 DEF WellFormed, CommandFields, PassedOver
  <2>2. Meant(c)' = Meant(c) /\ Ids' = Ids /\ (Compatible(c, Meant(c))' <=> Compatible(c, Meant(c)))
    BY <1>5, <2>1 DEF Meant, Compatible, Ids
  <2>3. ~At(c, "fetching")'
    BY <1>5, <2>1 DEF At
  <2>4. NumberOK(c)'
    BY <1>1, <1>2, <1>3, <1>5, <2>1, <2>2, <2>3 DEF NumberOK
  <2>5. OnItsWay(c) => Ok(r) /\ Same(r, Meant(c))
    <3>1. PassedOver(r) => r.code = "40401"
      BY DEF PassedOver, ErrorOf
    <3>2. QED
      BY <1>1, <1>3, <2>1, <3>1 DEF OnItsWay
  <2>6. HexOK(c)'
    <3> SUFFICES ASSUME command[c].typed.kind = "hex", Meant(c).id \in Ids, Compatible(c, Meant(c))
                 PROVE  \/ \E k \in command'[c].waiting : refs'[k] = Meant(c)
                        \/ \E e \in command'[c].found : Same(e, Meant(c))
      BY <1>5, <2>1, <2>2 DEF HexOK, Same
    <3>1. QED
      BY <1>2, <1>5, <2>1, <2>5 DEF HexOK
  <2>7. QED
    BY <1>2, <1>5, <2>1, <2>3, <2>4, <2>6 DEF SelectingOK
<1>8. QED
  BY <1>6, <1>7

\* Exactly one is left: it is the one that was meant.
LEMMA ChosenIsMeant ==
    ASSUME CInv, SelInv, NEW c \in Clients, Choose(c), command'[c].stage \in {"act", "destination"}
    PROVE  \/ command'[c].chosen = Meant(c).id
           \/ command[c].typed.kind = "hex" /\ (Meant(c).id \notin Ids \/ ~Compatible(c, Meant(c)))
<1>1. /\ At(c, "fetch") /\ Selecting(c) /\ SelectingOK(c) /\ command[c].waiting = {}
  BY DEF Choose, Selecting, SelInv, At
<1>2. /\ WellFormed(command[c]) /\ command[c].typed.kind \in {"number", "hex"}
      /\ NumberOK(c) /\ HexOK(c) /\ ~OnItsWay(c)
  BY <1>1, MeantIsKnown DEF SelectingOK, OnItsWay, At
<1>3. command' # [command EXCEPT ![c] = NoCommand]
  BY DEF NoCommand, CInv
<1>4. PICK e \in command[c].found :
        /\ {f \in command[c].found : Compatible(c, f)} = {e}
        /\ Becomes(c, Choice(c, e))
  BY <1>3 DEF Choose
<1>5. command'[c].chosen = e.id
  <2>1. command'[c] = Choice(c, e)
    BY <1>4 DEF Becomes, CInv
  <2>2. QED
    BY <1>2, <2>1 DEF Choice, WellFormed, CommandFields
<1>6. CASE command[c].typed.kind = "number"
  BY <1>2, <1>5, <1>6 DEF NumberOK
<1>7. CASE command[c].typed.kind = "hex" /\ Meant(c).id \in Ids /\ Compatible(c, Meant(c))
  <2>1. PICK f \in command[c].found : Same(f, Meant(c))
    BY <1>1, <1>2, <1>7 DEF HexOK
  <2>2. Compatible(c, f)
    BY <1>7, <2>1 DEF Compatible, Same
  <2>3. QED
    BY <1>4, <1>5, <2>1, <2>2 DEF Same
<1>8. QED
  BY <1>2, <1>6, <1>7

\* ls -l adds to the store and to what was printed, and so does the list of
\* those that a reference may stand for.
LEMMA PrintingShows ==
    ASSUME CInv, SelInv, Digested(refs), Digested(refs)', NEW c \in Clients,
           PrintDocument(c) \/ PrintList(c) \/ Choose(c)
    PROVE  /\ Extended(refs, refs') /\ shown \subseteq shown'
           /\ \A s \in shown' : ShownFor(s, refs')
<1>1. PICK new : new = refs'
  OBVIOUS
<1>2. PICK entries :
        /\ shown' = shown \/ shown' = shown \cup Printed(new, entries)
        /\ new = refs \/ (new = Assigned(refs, entries) /\ TrueListing(entries))
  <2>1. CASE PrintDocument(c)
    BY <1>1, <2>1, SeenIsListing DEF PrintDocument, PrintEntries
  <2>2. CASE PrintList(c)
    <3>1. Ok(reply[c]) => TrueListing(reply[c].found)
      BY <2>2, ReadFacts DEF PrintList, Awaits
    <3>2. QED
      BY <1>1, <2>2, <3>1 DEF PrintList, PrintEntries, Ends, Becomes
  <2>3. CASE Choose(c)
    BY <1>1, <2>3 DEF Choose, Becomes
  <2>4. QED
    BY <2>1, <2>2, <2>3
<1>3. \A n \in DOMAIN refs : n \in DOMAIN new /\ new[n] = refs[n]
  BY <1>2, AssignedIsOK DEF CInv
<1>4. Digested(new) /\ Extended(refs, new)
  BY <1>1, <1>3 DEF Digested, Extended
<1>5. ASSUME NEW s \in shown' PROVE ShownFor(s, new)
  <2>1. CASE s \in shown
    BY <1>4, <2>1, ShownStays DEF SelInv
  <2>2. CASE s \notin shown
    <3>1. s \in Printed(new, entries)
      BY <1>2, <1>5, <2>2
    <3>2. QED
      BY <1>4, <3>1, PrintedIsShown
  <2>3. QED
    BY <2>1, <2>2
<1>6. QED
  BY <1>1, <1>2, <1>4, <1>5

\* Every step of a user, as the references see it.
LEMMA UserKeepsSelInv ==
    ASSUME CInv, SelInv, Digested(refs), Digested(refs)', NEW c \in Clients, UserStep(c)
    PROVE  SelInv'
<1>1. CInv' /\ Moves(c) /\ Others(c)
  BY UserKeepsCInv DEF Moves, Rests, Starts, GoesOn
<1>2. DeviceInv' /\ StoreGrows
  BY <1>1 DEF CInv, IInv, Others, StoreGrows, DeviceInv, StoreTypes
<1>3. PrintDocument(c) \/ PrintList(c) \/ Choose(c) \/ UNCHANGED <<refs, shown>>
  BY DEF UserStep, Begin, Select, LookUpObject, ObjectKnown, FetchNext, Fetched, Choose,
    FindPlace, LookUpDestination, DestinationKnown, LookUpParent, ParentKnown,
    Act, RemoveDocument, RemoveFolder, MakeFolder, CopyObject, MoveObject, Put, Open, Opened, Acted, List,
    GetInto, Downloaded, Discard, LibraryStep, Becomes, Stage, Ends, commandVars
<1>4. Extended(refs, refs') /\ shown \subseteq shown' /\ \A s \in shown' : ShownFor(s, refs')
  BY <1>3, PrintingShows DEF Extended, SelInv
<1>5. ASSUME NEW d \in Clients \ {c}, command'[d] = command[d] PROVE SelectingOK(d)'
  <2>1. request'[d] = request[d] /\ reply'[d] = reply[d] /\ pc'[d] = pc[d]
    BY <1>1 DEF Others, Channels
  <2>2. QED
    BY <1>2, <1>4, <1>5, <2>1, SelectionStays
<1>6. ASSUME NEW m, command' = [command EXCEPT ![c] = m]
      PROVE  command'[c] = m /\ \A d \in Clients \ {c} : command'[d] = command[d]
  BY <1>6 DEF CInv
<1>7. CASE PlainStep(c)
  <2>1. ~Selecting(c)' /\ \A d \in Clients \ {c} : command'[d] = command[d]
    BY <1>7, PlainStages DEF Selecting
  <2>2. QED
    BY <1>4, <1>5, <2>1 DEF SelInv, SelectingOK
<1>8. CASE Begin(c) \/ FetchNext(c) \/ Fetched(c)
  <2>1. SelectingOK(c)'
    BY <1>8, BeginSelects, FetchNextSelects, FetchedSelects
  <2>2. \E m : command' = [command EXCEPT ![c] = m]
    BY <1>8 DEF Begin, FetchNext, Fetched, Becomes, Stage, Ends
  <2>3. QED
    BY <1>4, <1>5, <1>6, <2>1, <2>2 DEF SelInv
<1>9. CASE (GetInto(c) /\ Available(command[c].local)) \/ Downloaded(c) \/ Discard(c)
  <2>1. command[c].stage \in {"act", "downloading", "discard"}
    BY <1>9 DEF GetInto, Doing, Downloaded, Discard, At
  <2>2. "stage" \in DOMAIN command[c]
    BY <2>1 DEF CInv, CommandOK, WellFormed, CommandFields
  <2>3. PICK m : command' = [command EXCEPT ![c] = m]
                 /\ (m = NoCommand \/ m = [command[c] EXCEPT !.stage = "downloading"]
                     \/ m = [command[c] EXCEPT !.stage = "discard"])
    BY <1>9, <2>2 DEF GetInto, Downloaded, Discard
  <2>4. m.stage \in {"none", "downloading", "discard"}
    BY <2>2, <2>3 DEF NoCommand
  <2>5. ~Selecting(c)' /\ \A d \in Clients \ {c} : command'[d] = command[d]
    BY <1>6, <2>3, <2>4 DEF Selecting
  <2>6. QED
    BY <1>4, <1>5, <2>5 DEF SelInv, SelectingOK
<1>10. CASE UNCHANGED commandVars /\ (Opened(c) \/ At(c, "acting"))
  <2>1. UNCHANGED command
    BY <1>10 DEF commandVars
  <2>2. ~At(c, "fetching")
    BY <1>10 DEF Opened, Heard, At, SelInv, SelectingOK, Selecting
  <2>3. SelectingOK(c)'
    BY <1>2, <1>4, <2>1, <2>2, SelectionStays
  <2>4. QED
    BY <1>4, <1>5, <2>1, <2>3 DEF SelInv
<1>11. QED
  BY <1>7, <1>8, <1>9, <1>10 DEF UserStep, Select, Act, PlainStep, LibraryStep, Opened

LEMMA InitSelInv ==
    ASSUME CommandsInit, Digested(refs)
    PROVE  SelInv
<1>1. PICK known : known = refs /\ known = Seeded /\ known \in Seq(Item) /\ Digested(known)
  BY InitCInv DEF CommandsInit, CInv, RefsOK
<1>2. ASSUME NEW s \in shown PROVE ShownFor(s, known)
  <2>1. PICK n \in DOMAIN known : s \in Printed(SubSeq(known, 1, n), {known[n]})
    BY <1>1, <1>2 DEF CommandsInit
  <2>2. n \in 1 .. Len(known) /\ Len(known) \in Nat /\ DOMAIN known = 1 .. Len(known)
    BY <1>1, <2>1
  <2>3. PICK first : first = SubSeq(known, 1, n)
    OBVIOUS
  <2>4. DOMAIN first = 1 .. n /\ \A i \in 1 .. n : first[i] = known[i]
    BY <1>1, <2>2, <2>3
  <2>5. Extended(first, known) /\ Digested(first)
    BY <1>1, <2>2, <2>4 DEF Extended, Digested
  <2>6. QED
    BY <1>1, <2>1, <2>3, <2>5, PrintedIsShown, ShownStays
<1>3. \A c \in Clients : ~Selecting(c)
  BY DEF CommandsInit, Selecting, NoCommand
<1>4. QED
  BY <1>1, <1>2, <1>3 DEF SelInv, SelectingOK

LEMMA NextSelInv ==
    ASSUME CInv, SelInv, Digested(refs), Digested(refs)', [CommandsNext]_allVars
    PROVE  SelInv'
<1>1. CASE DeviceStep /\ UNCHANGED commandVars
  BY <1>1, ServingKeepsSelInv DEF DeviceStep
<1>2. ASSUME NEW c \in Clients, UserStep(c) PROVE SelInv'
  BY <1>2, UserKeepsSelInv
<1>3. ASSUME NEW c \in Clients, Network(c) /\ UNCHANGED commandVars PROVE SelInv'
  BY <1>3, NetworkKeepsSelInv
<1>4. CASE UNCHANGED allVars
  <2>1. UNCHANGED <<nextID, folders, documents, versions, request, reply, pc, command, refs, shown>>
    BY <1>4 DEF allVars, vars, deviceVars, store, history, clientVars, commandVars
  <2>2. CInv' /\ StoreGrows
    BY <1>4, <2>1, NextCInv DEF StoreGrows, CInv, IInv, DeviceInv, StoreTypes
  <2>3. \A c \in Clients : SelectingOK(c)'
    BY <2>1, <2>2, SelectionStays DEF Extended, CInv, IInv
  <2>4. QED
    BY <2>1, <2>3 DEF SelInv
<1>5. QED
  BY <1>1, <1>2, <1>3, <1>4 DEF CommandsNext, UserStep

\* ReferencesSelectTheirObject: as long as the object exists for which ls -l
\* printed a reference, a command that accepts its type works on that object
\* or on none (selectors.go resolveObject), whatever was listed, created or
\* deleted since; a number never leads to another object.  Assumed is that
\* every object of the reference store has a digest.
THEOREM ReferencesAreKept ==
    CommandsSpec /\ []Digested(refs) => ReferencesSelectTheirObject
<1> DEFINE Selects == \A c \in Clients :
              At(c, "fetch") /\ command'[c].stage \in {"act", "destination"} =>
                LET meant == command[c].typed.object IN
                \/ command'[c].chosen = meant.id
                \/ command[c].typed.kind = "hex" /\ (meant.id \notin Ids \/ ~Compatible(c, meant))
<1>1. CommandsInit /\ Digested(refs) => CInv /\ SelInv
  BY InitCInv, InitSelInv
<1>2. CInv /\ SelInv /\ Digested(refs) /\ Digested(refs)' /\ [CommandsNext]_allVars => CInv' /\ SelInv'
  BY NextCInv, NextSelInv
<1>3. CInv /\ SelInv /\ [CommandsNext]_allVars => Selects
  <2> SUFFICES ASSUME CInv, SelInv, [CommandsNext]_allVars, NEW c \in Clients,
                      At(c, "fetch"), command'[c].stage \in {"act", "destination"}
               PROVE  \/ command'[c].chosen = Meant(c).id
                      \/ command[c].typed.kind = "hex" /\ (Meant(c).id \notin Ids \/ ~Compatible(c, Meant(c)))
    BY DEF Meant
  <2>1. command'[c] # command[c]
    BY DEF At
  <2>2. PICK d \in Clients : UserStep(d)
    BY <2>1 DEF CommandsNext, UserStep, allVars, commandVars
  <2>3. d = c
    <3>1. \A m : command' = [command EXCEPT ![d] = m] => d = c
      BY <2>1 DEF CInv
    <3>2. \E m : command' = [command EXCEPT ![d] = m]
      BY <2>1, <2>2 DEF UserStep, Begin, Select, LookUpObject, ObjectKnown, FetchNext, Fetched, Choose,
        FindPlace, LookUpDestination, DestinationKnown, LookUpParent, ParentKnown,
        Act, RemoveDocument, RemoveFolder, MakeFolder, CopyObject, MoveObject, Put, Open, Opened, Acted,
        PrintDocument, List, PrintList, PrintEntries, GetInto, Downloaded, Discard, LibraryStep, Becomes, Stage, Ends, commandVars
    <3>3. QED
      BY <3>1, <3>2
  <2>4. CASE Choose(c)
    BY <2>4, ChosenIsMeant
  <2>5. CASE FetchNext(c)
    <3>1. WellFormed(command[c])
      BY DEF CInv, CommandOK, At
    <3>2. PICK w : command' = [command EXCEPT ![c] = [command[c] EXCEPT !.stage = "fetching", !.waiting = w]]
      BY <2>5 DEF FetchNext, Becomes
    <3>3. command'[c].stage = "fetching"
      BY <3>1, <3>2 DEF WellFormed, CommandFields, CInv
    <3>4. QED
      BY <3>3
  <2>6. CASE ~Choose(c) /\ ~FetchNext(c)
    BY <2>1, <2>2, <2>3, <2>6 DEF At, UserStep, Begin, Select, LookUpObject, ObjectKnown, Fetched,
        FindPlace, LookUpDestination, DestinationKnown, LookUpParent, ParentKnown, Doing,
        Act, RemoveDocument, RemoveFolder, MakeFolder, CopyObject, MoveObject, Put, Open, Opened, Acted,
        PrintDocument, List, PrintList, PrintEntries, GetInto, Downloaded, Discard, LibraryStep, commandVars
  <2>7. QED
    BY <2>4, <2>5, <2>6
<1>4. CInv /\ SelInv /\ [CommandsNext]_allVars => [Selects]_allVars
  BY <1>3
<1>5. QED
  BY <1>1, <1>2, <1>4, PTL DEF CommandsSpec, ReferencesSelectTheirObject
=============================================================================
