----------------------------- MODULE SafeWrites -----------------------------
(***************************************************************************)
(* The library's safe writes (write.go, delete.go): every operation is a   *)
(* chain of HTTP exchanges with the Device, and other clients work on the  *)
(* same device between any two of them.  An exchange may fail before the   *)
(* device handles it, its answer may be lost or unusable, and a request    *)
(* whose sender gave up may still be handled later.                        *)
(*                                                                         *)
(* A caller takes the identifiers it writes to from what it has read       *)
(* before: the commands resolve a path first, and everything may change    *)
(* between the two calls.                                                  *)
(***************************************************************************)
EXTENDS Device

CONSTANTS
    Paths,          \* paths the callers resolve
    Operations,     \* operations the callers use in this instance
    MoveTargets,    \* folders a folder may be moved to
    MaxCalls,       \* bound: calls per client
    MaxFailures     \* bound: exchanges that go wrong

\* Those of the last line only read; of them this module starts no call, but
\* Commands does.
Calls == {"resolve", "createFolder", "put", "copy", "replace", "updateDocument", "updateFolder",
          "delete", "deleteEmpty",
          "get", "list", "open", "download"}
Call == [op : Calls, id : Nat \cup {None}, parent : Nat \cup {None}, name : AllNames \cup {None},
         body : Contents \cup {None}, revision : Nat \cup {None}]

SafeWritesAssumption ==
    /\ None \notin Call
    /\ Paths \subseteq Seq(AllNames) /\ MoveTargets \subseteq Nat
    /\ MaxCalls \in Nat /\ MaxFailures \in Nat
ASSUME SafeWritesAssumption

VARIABLES
    pc,         \* the answer a client is waiting for, or "idle"
    call,       \* the arguments and intermediate results of its call
    calls,      \* how many calls it has started
    seen,       \* the document its caller looked at last, or None
    place,      \* the folder its caller looked at last
    outcome,    \* how its last call ended, or None
    failures,   \* how many exchanges went wrong
    deleted,    \* history: entries whose deletion was reported as a success
    published   \* history: <<id, revision, body>> of uploads reported as a success

clientVars == <<pc, call, calls, seen, place, outcome, deleted, published>>
vars == <<deviceVars, clientVars, failures>>

-----------------------------------------------------------------------------
(* Starting a call, and going from one exchange to the next. *)

Ask(c, q) ==
    /\ request' = [request EXCEPT ![c] = q]
    /\ reply' = [reply EXCEPT ![c] = None]

Tag(c) == <<c, calls'[c]>>

\* What a call was asked, and what it has learned on the way.
Asked(op) == [op |-> op, id |-> None, parent |-> None, name |-> None, body |-> None, revision |-> None]

Start(c, op, args, step) ==
    /\ op \in Operations /\ pc[c] = "idle" /\ calls[c] < MaxCalls
    /\ calls' = [calls EXCEPT ![c] = @ + 1]
    /\ pc' = [pc EXCEPT ![c] = step]
    /\ call' = [call EXCEPT ![c] = args]
    /\ outcome' = [outcome EXCEPT ![c] = None]
    /\ UNCHANGED <<store, history, seen, place, failures, deleted, published>>

Heard(c, step) == pc[c] = step /\ reply[c] # None

Continue(c, q, args, step) ==
    /\ Ask(c, q)
    /\ pc' = [pc EXCEPT ![c] = step]
    /\ call' = [call EXCEPT ![c] = args]
    /\ UNCHANGED <<store, history, calls, seen, place, outcome, failures, deleted, published>>

End(c, result) ==
    /\ pc' = [pc EXCEPT ![c] = "idle"]
    /\ call' = [call EXCEPT ![c] = None]
    /\ outcome' = [outcome EXCEPT ![c] = result]
    /\ reply' = [reply EXCEPT ![c] = None]
    /\ UNCHANGED <<store, history, request, calls, failures>>

Learned == <<seen, place>>
Reported == <<deleted, published>>

\* publicError: what an error answer turns into.
ErrorOf(r) ==
    CASE r.code \in {"40007", "40017"} -> "conflict"
      [] r.code = "40018"              -> "not empty"
      [] r.code = "40401"              -> "not found"
      [] OTHER                         -> "error"

Ok(r) == r.status = "ok"
Succeeded(op) == [op |-> op, error |-> "none", names |-> None]
Failed(op, error) == [op |-> op, error |-> error, names |-> None]
\* PartialFailureError names the entry that survives.
Partial(op, id) == [op |-> op, error |-> "partial", names |-> id]

Fail(c, result) == End(c, result) /\ UNCHANGED <<Learned, Reported>>

-----------------------------------------------------------------------------
(* Documents.Resolve: how a caller learns what is where. *)

ResolvePath(c, path) ==
    /\ Start(c, "resolve", Asked("resolve"), "resolve")
    /\ Ask(c, [op |-> "resolve", path |-> path])

Resolve(c) == \E path \in Paths : ResolvePath(c, path)

Resolved(c) ==
    LET r == reply[c] IN
    /\ Heard(c, "resolve")
    /\ IF ~Ok(r) THEN Fail(c, Failed("resolve", ErrorOf(r)))
       ELSE /\ End(c, Succeeded("resolve"))
            /\ seen' = [seen EXCEPT ![c] = IF r.type = "document" THEN r ELSE @]
            /\ place' = [place EXCEPT ![c] = IF r.type = "folder" THEN r.id ELSE @]
            /\ UNCHANGED Reported

-----------------------------------------------------------------------------
(* Folders.Create and Documents.CreateMetadata: create, then look. *)

CreateFolderIn(c, parent, name) ==
    /\ Start(c, "createFolder", [Asked("createFolder") EXCEPT !.parent = parent, !.name = name],
             "created")
    /\ Ask(c, [op |-> "createFolder", parent |-> parent, name |-> name])

CreateFolder(c) == \E name \in Names : CreateFolderIn(c, place[c], name)

\* CreateAndUpload, the "put" of the command line.
CreateAndUpload(c) ==
    \E name \in Names, body \in Contents :
        /\ Start(c, "put", [Asked("put") EXCEPT !.parent = place[c], !.name = name, !.body = body],
                 "created")
        /\ Ask(c, [op |-> "createDocument", parent |-> place[c], name |-> name,
                   tag |-> Tag(c)])

Copy(c) ==
    \E name \in Names \cup {None} :
        /\ seen[c] # None
        /\ Start(c, "copy", [Asked("copy") EXCEPT !.parent = place[c], !.name = name], "created")
        /\ Ask(c, [op |-> "copy", id |-> seen[c].id, parent |-> place[c], name |-> name,
                   tag |-> Tag(c)])

\* The answer to a creating request: look the new entry up.
LookAtCreated(c) ==
    LET r == reply[c]
        a == call[c]
    IN  /\ Heard(c, "created")
        /\ IF ~Ok(r) THEN Fail(c, Failed(a.op, ErrorOf(r)))
           ELSE Continue(c, [op |-> IF a.op = "createFolder" THEN "getFolder" ELSE "getDocument",
                             id |-> r.id],
                         [a EXCEPT !.id = r.id], "verifyCreated")

AsAsked(a, r) == r.parent = a.parent /\ (a.name # None => r.name = a.name)

\* CreateMetadata's check; a put goes on to upload without a target revision.
VerifyCreated(c) ==
    LET r == reply[c]
        a == call[c]
    IN  /\ Heard(c, "verifyCreated")
        /\ IF ~Ok(r) \/ ~AsAsked(a, r) THEN Fail(c, Partial(a.op, a.id))
           ELSE IF a.op # "put" THEN Fail(c, Succeeded(a.op))
           ELSE Continue(c, [op |-> "upload", id |-> a.id, body |-> a.body,
                             target |-> None, seen |-> None], a, "uploaded")

-----------------------------------------------------------------------------
(* Documents.Replace, and the upload shared with CreateAndUpload. *)

\* The revision check travels with the body: "seen" is what the caller had
\* looked at when it learned that revision.
Replace(c) ==
    \E body \in Contents :
        /\ seen[c] # None
        /\ Start(c, "replace", [Asked("replace") EXCEPT !.id = seen[c].id, !.body = body], "uploaded")
        /\ Ask(c, [op |-> "upload", id |-> seen[c].id, body |-> body,
                   target |-> seen[c].revision, seen |-> seen[c].body])

UploadError(a, error) ==
    IF a.op = "put" THEN Partial("put", a.id) ELSE Failed(a.op, error)

LookAtUploaded(c) ==
    LET r == reply[c]
        a == call[c]
    IN  /\ Heard(c, "uploaded")
        /\ IF ~Ok(r) THEN Fail(c, UploadError(a, ErrorOf(r)))
           ELSE IF r.size # Size(a.body) THEN Fail(c, UploadError(a, "verification"))
           ELSE Continue(c, [op |-> "getDocument", id |-> a.id],
                         [a EXCEPT !.revision = r.revision], "verifyUploaded")

StillThere_BySize(a, r) == r.size = Size(a.body)
StillThere(a, r) == r.size = Size(a.body) /\ r.revision = a.revision

VerifyUploaded(c) ==
    LET r == reply[c]
        a == call[c]
    IN  /\ Heard(c, "verifyUploaded")
        /\ IF ~Ok(r) THEN Fail(c, UploadError(a, ErrorOf(r)))
           ELSE IF ~StillThere(a, r) THEN Fail(c, UploadError(a, "verification"))
           ELSE /\ End(c, Succeeded(a.op))
                /\ published' = published \cup {<<a.id, r.revision, a.body>>}
                /\ UNCHANGED <<Learned, deleted>>

-----------------------------------------------------------------------------
(* Documents.Update and Folders.Update: rename and/or move, then look. *)

UpdateDocument(c) ==
    \E parent \in {None, place[c]}, name \in Names \cup {None} :
        /\ seen[c] # None /\ <<parent, name>> # <<None, None>>
        /\ Start(c, "updateDocument",
                 [Asked("updateDocument") EXCEPT !.id = seen[c].id, !.parent = parent, !.name = name], "updated")
        /\ Ask(c, [op |-> "updateDocument", id |-> seen[c].id,
                   parent |-> parent, name |-> name])

UpdateFolder(c) ==
    \E parent \in MoveTargets \cup {None}, name \in Names \cup {None} :
        /\ place[c] # Root /\ <<parent, name>> # <<None, None>>
        /\ Start(c, "updateFolder",
                 [Asked("updateFolder") EXCEPT !.id = place[c], !.parent = parent, !.name = name], "updated")
        /\ Ask(c, [op |-> "updateFolder", id |-> place[c],
                   parent |-> parent, name |-> name])

LookAtUpdated(c) ==
    LET r == reply[c]
        a == call[c]
    IN  /\ Heard(c, "updated")
        /\ IF ~Ok(r) THEN Fail(c, Failed(a.op, ErrorOf(r)))
           ELSE Continue(c, [op |-> IF a.op = "updateFolder" THEN "getFolder" ELSE "getDocument",
                             id |-> a.id], a, "verifyUpdated")

VerifyUpdated(c) ==
    LET r == reply[c]
        a == call[c]
    IN  /\ Heard(c, "verifyUpdated")
        /\ IF ~Ok(r) THEN Fail(c, Failed(a.op, ErrorOf(r)))
           ELSE IF \/ a.parent # None /\ r.parent # a.parent
                   \/ a.name # None /\ r.name # a.name
           THEN Fail(c, Failed(a.op, "verification"))
           ELSE Fail(c, Succeeded(a.op))

-----------------------------------------------------------------------------
(* Documents.Delete and Folders.DeleteEmpty. *)

Delete(c) ==
    /\ seen[c] # None
    /\ Start(c, "delete", [Asked("delete") EXCEPT !.id = seen[c].id], "deleted")
    /\ Ask(c, [op |-> "deleteDocument", id |-> seen[c].id,
               target |-> seen[c].revision, seen |-> seen[c].body])

\* DeleteEmpty looks for children itself before it asks for a deletion that
\* the device must refuse if a child has appeared since.
DeleteEmpty(c) ==
    /\ Start(c, "deleteEmpty", [Asked("deleteEmpty") EXCEPT !.id = place[c]], "isFolder")
    /\ Ask(c, [op |-> "getFolder", id |-> place[c]])

ListBeforeDelete(c) ==
    LET r == reply[c]
        a == call[c]
    IN  /\ Heard(c, "isFolder")
        /\ IF ~Ok(r) THEN Fail(c, Failed(a.op, ErrorOf(r)))
           ELSE IF r.id = Root THEN Fail(c, Failed(a.op, "root"))
           ELSE Continue(c, [op |-> "list", id |-> a.id], a, "listed")

DeleteIfEmpty(c) ==
    LET r == reply[c]
        a == call[c]
    IN  /\ Heard(c, "listed")
        /\ IF ~Ok(r) THEN Fail(c, Failed(a.op, ErrorOf(r)))
           ELSE IF r.found # {} THEN Fail(c, Failed(a.op, "not empty"))
           ELSE Continue(c, [op |-> "deleteFolder", id |-> a.id, force |-> "false"],
                         a, "deleted")

LookForDeleted(c) ==
    LET r == reply[c]
        a == call[c]
    IN  /\ Heard(c, "deleted")
        /\ IF ~Ok(r) THEN Fail(c, Failed(a.op, ErrorOf(r)))
           ELSE Continue(c, [op |-> IF a.op = "delete" THEN "getDocument" ELSE "getFolder",
                             id |-> a.id], a, "verifyDeleted")

\* Only "not found" proves absence.
VerifyDeleted(c) ==
    LET r == reply[c]
        a == call[c]
    IN  /\ Heard(c, "verifyDeleted")
        /\ IF Ok(r) THEN Fail(c, Failed(a.op, "verification"))
           ELSE IF ErrorOf(r) # "not found" THEN Fail(c, Failed(a.op, "unverified"))
           ELSE /\ End(c, Succeeded(a.op))
                /\ deleted' = deleted \cup {a.id}
                /\ UNCHANGED <<Learned, published>>

-----------------------------------------------------------------------------
(* What the network may do. *)

GoesWrong == failures < MaxFailures /\ failures' = failures + 1

\* The request never reaches the device, or the device answers with a fault
\* before it looks at it.
LoseRequest(c) ==
    /\ GoesWrong /\ request[c] # None
    /\ Answer(c, Failure)
    /\ UNCHANGED <<store, history, clientVars>>

\* The device handles the request, but the answer is lost, cut short or not
\* decodable.
LoseReply(c) ==
    /\ GoesWrong /\ reply[c] # None /\ reply[c] # Failure
    /\ reply' = [reply EXCEPT ![c] = Failure]
    /\ UNCHANGED <<store, history, request, clientVars>>

\* The client stops waiting; the request is still under way.
Abandon(c) ==
    /\ GoesWrong /\ request[c] # None
    /\ \E s \in Strays :
          /\ request[s] = None
          /\ request' = [request EXCEPT ![c] = None, ![s] = request[c]]
    /\ reply' = [reply EXCEPT ![c] = Failure]
    /\ UNCHANGED <<store, history, clientVars>>

-----------------------------------------------------------------------------

Init ==
    /\ DeviceInit
    /\ pc = [c \in Clients |-> "idle"]
    /\ call = [c \in Clients |-> None]
    /\ calls = [c \in Clients |-> 0]
    /\ seen = [c \in Clients |-> None]
    /\ place = [c \in Clients |-> Root]
    /\ outcome = [c \in Clients |-> None]
    /\ failures = 0
    /\ deleted = {} /\ published = {}

ClientStart(c) ==
    \/ Resolve(c) \/ CreateFolder(c) \/ CreateAndUpload(c) \/ Copy(c) \/ Replace(c)
    \/ UpdateDocument(c) \/ UpdateFolder(c) \/ Delete(c) \/ DeleteEmpty(c)

ClientStep(c) ==
    \/ Resolved(c) \/ LookAtCreated(c) \/ VerifyCreated(c)
    \/ LookAtUploaded(c) \/ VerifyUploaded(c)
    \/ LookAtUpdated(c) \/ VerifyUpdated(c)
    \/ ListBeforeDelete(c) \/ DeleteIfEmpty(c) \/ LookForDeleted(c) \/ VerifyDeleted(c)

Network(c) == LoseRequest(c) \/ LoseReply(c) \/ Abandon(c)

DeviceStep == \E k \in Channels : Serve(k) /\ UNCHANGED <<clientVars, failures>>

Next ==
    \/ DeviceStep
    \/ \E c \in Clients : ClientStart(c) \/ ClientStep(c) \/ Network(c)

Spec == Init /\ [][Next]_vars

-----------------------------------------------------------------------------
(* What the operations promise. *)

\* Type correctness: the store is in order (StoreOK), a client waits exactly
\* when it has a call, and never has a request and its answer at once.
ClientOK ==
    /\ StoreOK
    /\ \A c \in Clients :
          /\ (pc[c] = "idle") <=> (call[c] = None)
          /\ pc[c] = "idle" => request[c] = None /\ reply[c] = None
          /\ pc[c] # "idle" => (request[c] = None) # (reply[c] = None)
          /\ place[c] \in Nat /\ calls[c] \in 0 .. MaxCalls

\* A guarded write (Replace, Delete) destroys only the body its caller was
\* looking at when it learned the revision, however long ago that was and
\* even when the request arrives after the caller gave up.
GuardedWritesDestroyWhatWasSeen ==
    \A d \in destroyed : d[1] = d[2]

\* Once Delete or DeleteEmpty has reported success, the entry never comes
\* back: neither a late upload or update nor a new entry takes its number.
DeletedStaysDeleted ==
    deleted \cap Ids = {}

\* Success of CreateAndUpload or Replace means that the device really held the
\* caller's body under the revision the caller was given.  Every body here has
\* the same size, so the size check alone would not do.
PublishedWasThere ==
    published \subseteq versions

\* The entry a PartialFailureError names was created by that very call, so its
\* later cleanup never removes anybody else's document.
PartialNamesOwnEntry ==
    \A c \in Clients :
        outcome[c] # None /\ outcome[c].names \in DOMAIN documents =>
            documents[outcome[c].names].maker = <<c, calls[c]>>

\* docs/protocol.md: "A failure after metadata creation returns
\* PartialFailureError with the surviving entry ID".  An entry made by a
\* CreateAndUpload that has failed is named by the error.
SurvivorIsNamed ==
    \A c \in Clients, i \in DOMAIN documents :
        /\ outcome[c] # None /\ outcome[c].op = "put" /\ outcome[c].error # "none"
        /\ documents[i].maker = <<c, calls[c]>>
        => outcome[c].names = i

\* A folder leaves the device only when nothing is in it, and takes nothing
\* with it (DeleteEmpty's check and force_delete_flag=false together).
FoldersVanishEmpty ==
    [][\A f \in DOMAIN folders \ DOMAIN folders' :
          /\ Children(folders, f) \cup Children(documents, f) = {}
          /\ DOMAIN documents \subseteq DOMAIN documents'
          /\ DOMAIN folders \ {f} \subseteq DOMAIN folders']_vars

=============================================================================
