------------------------------ MODULE Commands ------------------------------
(***************************************************************************)
(* The commands of dp that work on one object (cmd/dp/main.go): each       *)
(* selects it (selectors.go) by path or by a reference that ls -l printed  *)
(* (profiles/object_references.go), finds its destination if it has one,   *)
(* and then makes one call of the library (SafeWrites).  The users are     *)
(* Clients: one process after the other at a terminal, beside others.      *)
(*                                                                         *)
(* The reference store is shared and taken at its word: NumberAllocator,   *)
(* which ReferenceStore implements.  A device identifier's SHA-256 is a    *)
(* short sequence of digits.  Globs are in Selection, sessions in Session. *)
(***************************************************************************)
EXTENDS SafeWrites

CONSTANTS
    CommandLines,   \* what users may type: [op, by, path, dest, local]
    Locals,         \* names of local files
    Digest,         \* identifier -> digits of its digest
    MinDigits,      \* digits a reference has at least
    MaxCommands     \* commands of each user

VARIABLES
    command,    \* the command each user is running, or NoCommand
    commands,   \* how many each user has started
    refs,       \* the reference store: [id, type] by number
    shown,      \* history: references that were printed, and for what
    local       \* local files: who made it, from what, and what is in it

commandVars == <<command, commands, refs, shown, local>>
allVars == <<vars, commandVars>>

CommandLine == [op : {"ls", "get", "put", "rm", "rmdir", "mkdir", "cp", "mv", "open"},
                by : {"path", "reference"}, path : Seq(AllNames), dest : Seq(AllNames),
                local : Locals \cup AllNames \cup {None}]

CommandsAssumption ==
    /\ MinDigits \in Nat \ {0}
    /\ \A i \in DOMAIN Digest : Digest[i] \in Seq(Nat)
    /\ \A i, j \in DOMAIN Digest : Digest[i] = Digest[j] => i = j
    /\ CommandLines \subseteq CommandLine
    /\ \A line \in CommandLines :
          (line.op = "mkdir" => line.dest # << >>) /\ (line.op = "get" => line.local \in Locals)
    /\ None \notin [by : Clients, from : Nat, body : Bodies \cup {"part"}]
ASSUME CommandsAssumption

-----------------------------------------------------------------------------
(* References. *)

CommonPrefixLength(a, b) ==
    Max({n \in 0 .. Len(a) : n <= Len(b) /\ SubSeq(a, 1, n) = SubSeq(b, 1, n)})

\* As many digits as tell the object from all others that are known.
HexOf(id, records) ==
    LET others == {r.id : r \in Range(records)} \ {id}
        digits == Max({MinDigits} \cup {CommonPrefixLength(Digest[id], Digest[o]) + 1 : o \in others})
    IN  SubSeq(Digest[id], 1, Min({digits, Len(Digest[id])}))

\* Assign: new objects get the next numbers.
Assigned(records, entries) ==
    records \o SetToSeq({e \in entries : e.id \notin {r.id : r \in Range(records)}})

\* What ls -l prints beside the entries, with the object each stands for.
Printed(records, entries) ==
    UNION { {[kind |-> "number", digits |-> <<n>>, object |-> records[n]],
             [kind |-> "hex", digits |-> HexOf(records[n].id, records), object |-> records[n]]}
            : n \in {m \in DOMAIN records : records[m].id \in {e.id : e \in entries}} }

\* The numbers of the objects that a reference may stand for.
Candidates(typed) ==
    {n \in DOMAIN refs : IF typed.kind = "number" THEN typed.digits = <<n>>
                         ELSE IsPrefix(typed.digits, HexOf(refs[n].id, refs))}

-----------------------------------------------------------------------------
(* From one stage of a command to the next. *)

NoCommand == [stage |-> "none"]

Becomes(c, cmd) ==
    /\ command' = [command EXCEPT ![c] = cmd]
    /\ UNCHANGED <<commands, refs, shown, local>>
Stage(c, stage) == Becomes(c, [command[c] EXCEPT !.stage = stage])
Ends(c) == Becomes(c, NoCommand)
At(c, stage) == command[c].stage = stage

Expected(op) ==
    CASE op \in {"get", "rm", "cp", "mv", "open"} -> {"document"}
      [] op = "rmdir"                             -> {"folder"}
      [] OTHER                                    -> {"document", "folder"}
Compatible(c, entry) == entry.type \in Expected(command[c].op)

FirstStage(line) ==
    IF line.op = "put" THEN "destination"
    ELSE IF line.op = "mkdir" THEN "parent"
    ELSE IF line.by = "path" THEN "select" ELSE "fetch"

\* Of the candidates of a reference those of the expected type are looked up;
\* "typed" is what stands for them on the command line.
Begin(c) ==
    /\ At(c, "none") /\ commands[c] < MaxCommands[c]
    /\ commands' = [commands EXCEPT ![c] = @ + 1]
    /\ \E line \in CommandLines :
       \E typed \in IF line.by = "reference" THEN shown ELSE {None} :
          command' = [command EXCEPT ![c] =
            [op |-> line.op, path |-> line.path, dest |-> line.dest, local |-> line.local,
             stage |-> FirstStage(line), chosen |-> None, found |-> {}, typed |-> typed,
             name |-> IF line.dest = << >> THEN None ELSE Last(line.dest),
             waiting |-> IF line.by = "path" THEN {}
                         ELSE {n \in Candidates(typed) : refs[n].type \in Expected(line.op)}]]
    /\ UNCHANGED <<vars, refs, shown, local>>

-----------------------------------------------------------------------------
(* resolveObject. *)

Choice(c, entry) ==
    [command[c] EXCEPT !.chosen = entry.id,
                       !.stage = IF command[c].op \in {"cp", "mv"} THEN "destination" ELSE "act"]

LookUpObject(c) ==
    /\ At(c, "select") /\ ResolvePath(c, command[c].path) /\ Stage(c, "selecting")

ObjectKnown(c) ==
    /\ At(c, "selecting") /\ Resolved(c)
    /\ IF Ok(reply[c]) /\ Compatible(c, reply[c]) THEN Becomes(c, Choice(c, reply[c])) ELSE Ends(c)

GetByReference(r) ==
    [op |-> IF r.type = "folder" THEN "getFolder" ELSE "getDocument", id |-> r.id]

\* In the order of their numbers, which never stand for anything else.
FetchNext(c) ==
    /\ At(c, "fetch")
    /\ \E n \in command[c].waiting :
          /\ \A m \in command[c].waiting : n <= m
          /\ Start(c, "get", Asked("get"), "fetched")
          /\ Ask(c, GetByReference(refs[n]))
          /\ Becomes(c, [command[c] EXCEPT !.stage = "fetching", !.waiting = @ \ {n}])

\* A candidate that is gone is passed over; any other error ends the command.
PassedOver_AnyError(r) == ~Ok(r)
PassedOver(r) == ~Ok(r) /\ ErrorOf(r) = "not found"

Fetched(c) ==
    LET r == reply[c] IN
    /\ At(c, "fetching") /\ Heard(c, "fetched")
    /\ Fail(c, Succeeded("get"))
    /\ IF Ok(r) THEN Becomes(c, [command[c] EXCEPT !.stage = "fetch", !.found = @ \cup {r}])
       ELSE IF PassedOver(r) THEN Stage(c, "fetch") ELSE Ends(c)

\* Exactly one must be left.  That several are is reported with the references
\* they have now; Assign knows them all, so it numbers nothing.
Choose(c) ==
    LET good == {e \in command[c].found : Compatible(c, e)} IN
    /\ At(c, "fetch") /\ command[c].waiting = {}
    /\ \/ /\ \A e \in good : good # {e}
          /\ command' = [command EXCEPT ![c] = NoCommand]
          /\ shown' = shown \cup Printed(refs, good)
          /\ UNCHANGED <<vars, commands, refs, local>>
       \/ \E e \in good :
             /\ good = {e} /\ Becomes(c, Choice(c, e))
             /\ seen' = [seen EXCEPT ![c] = IF e.type = "document" THEN e ELSE @]
             /\ place' = [place EXCEPT ![c] = IF e.type = "folder" THEN e.id ELSE @]
             /\ UNCHANGED <<deviceVars, pc, call, calls, outcome, Reported, failures>>

-----------------------------------------------------------------------------
(* resolveDestination and mkdir's parent. *)

LookUpDestination(c) ==
    /\ At(c, "destination") /\ ResolvePath(c, command[c].dest) /\ Stage(c, "resolving")

\* A folder takes the object under its own name; what exists otherwise is no
\* destination.
DestinationKnown(c) ==
    LET r == reply[c]
        ownName == IF command[c].op = "put" THEN command[c].local ELSE seen[c].name
    IN  /\ At(c, "resolving") /\ Resolved(c)
        /\ IF Ok(r) /\ r.type = "folder"
           THEN Becomes(c, [command[c] EXCEPT !.stage = "act", !.name = ownName])
           ELSE IF ~Ok(r) /\ ErrorOf(r) = "not found" THEN Stage(c, "parent")
           ELSE Ends(c)

LookUpParent(c) ==
    /\ At(c, "parent") /\ ResolvePath(c, Front(command[c].dest)) /\ Stage(c, "placing")

\* mkdir leaves it to the device to refuse a parent that is a document.
ParentKnown(c) ==
    LET r == reply[c] IN
    /\ At(c, "placing") /\ Resolved(c)
    /\ IF Ok(r) /\ (r.type = "folder" \/ command[c].op = "mkdir")
       THEN Becomes(c, IF command[c].op = "mkdir" THEN Choice(c, r)
                       ELSE [command[c] EXCEPT !.stage = "act"])
       ELSE Ends(c)

-----------------------------------------------------------------------------
(* What the commands then do. *)

Doing(c, op) == At(c, "act") /\ command[c].op = op

RemoveDocument(c) == Doing(c, "rm") /\ Delete(c) /\ Stage(c, "acting")

RemoveFolder(c) ==
    /\ Doing(c, "rmdir")
    /\ IF command[c].chosen = Root THEN Ends(c) /\ UNCHANGED vars
       ELSE DeleteEmpty(c) /\ Stage(c, "acting")

MakeFolder(c) ==
    Doing(c, "mkdir") /\ CreateFolderIn(c, command[c].chosen, command[c].name) /\ Stage(c, "acting")

CopyObject(c) == Doing(c, "cp") /\ Copy(c) /\ call'[c].name = command[c].name /\ Stage(c, "acting")

MoveObject(c) ==
    /\ Doing(c, "mv") /\ UpdateDocument(c)
    /\ call'[c].parent = place[c] /\ call'[c].name = command[c].name
    /\ Stage(c, "acting")

Put(c) ==
    /\ Doing(c, "put") /\ CreateAndUpload(c) /\ call'[c].name = command[c].name
    /\ Stage(c, "acting")

Open(c) ==
    /\ Doing(c, "open")
    /\ Start(c, "open", Asked("open"), "opened")
    /\ Ask(c, [op |-> "open", id |-> command[c].chosen])
    /\ Stage(c, "acting")
Opened(c) == Heard(c, "opened") /\ Fail(c, Succeeded("open")) /\ UNCHANGED commandVars

\* The call of the library is over, and so is the command.
Acted(c) == At(c, "acting") /\ pc[c] = "idle" /\ Ends(c) /\ UNCHANGED vars

\* ls -l: number and print the document that was selected, or list the folder
\* and number and print what is in it.
PrintEntries(c, entries) ==
    /\ command' = [command EXCEPT ![c] = NoCommand]
    /\ refs' = Assigned(refs, entries) /\ shown' = shown \cup Printed(refs', entries)
    /\ UNCHANGED <<commands, local>>

DocumentChosen(c) == seen[c] # None /\ seen[c].id = command[c].chosen

PrintDocument(c) ==
    /\ Doing(c, "ls") /\ DocumentChosen(c)
    /\ PrintEntries(c, {[id |-> seen[c].id, type |-> "document"]})
    /\ UNCHANGED vars

List(c) ==
    /\ Doing(c, "ls") /\ ~DocumentChosen(c)
    /\ Start(c, "list", Asked("list"), "printed")
    /\ Ask(c, [op |-> "list", id |-> command[c].chosen])
    /\ Stage(c, "listing")
PrintList(c) ==
    /\ At(c, "listing") /\ Heard(c, "printed") /\ Fail(c, Succeeded("list"))
    /\ IF Ok(reply[c]) THEN PrintEntries(c, reply[c].found) ELSE Ends(c)

-----------------------------------------------------------------------------
(* get: the local file is made before the body is asked for. *)

File(c, body) == [by |-> c, from |-> command[c].chosen, body |-> body]
Write(c, body) == local' = [local EXCEPT ![command[c].local] = body]

Available_Always(name) == TRUE
Available(name) == local[name] = None

GetInto(c) ==
    /\ Doing(c, "get")
    /\ IF ~Available(command[c].local) THEN Ends(c) /\ UNCHANGED vars
       ELSE /\ Start(c, "download", Asked("download"), "downloaded")
            /\ Ask(c, [op |-> "download", id |-> command[c].chosen])
            /\ command' = [command EXCEPT ![c].stage = "downloading"]
            /\ Write(c, File(c, Blank))
            /\ UNCHANGED <<commands, refs, shown>>

\* A body that does not begin like a PDF, an error, or the end of the answer
\* before its length is reached: the file holds nothing or some of the body.
Downloaded(c) ==
    LET r == reply[c]
        whole == Ok(r) /\ r.body # Blank
    IN  /\ At(c, "downloading") /\ Heard(c, "downloaded") /\ Fail(c, Succeeded("download"))
        /\ command' = [command EXCEPT ![c] = IF whole THEN NoCommand ELSE [@ EXCEPT !.stage = "discard"]]
        /\ IF whole THEN Write(c, File(c, r.body))
           ELSE IF Ok(r) THEN UNCHANGED local
           ELSE \E some \in {Blank, "part"} : Write(c, File(c, some))
        /\ UNCHANGED <<commands, refs, shown>>

Discard(c) ==
    /\ At(c, "discard")
    /\ command' = [command EXCEPT ![c] = NoCommand] /\ Write(c, None)
    /\ UNCHANGED <<vars, commands, refs, shown>>

-----------------------------------------------------------------------------

\* What is there at the start has been listed, one entry after the other.
Seeded == [n \in 1 .. Cardinality(Ids) |->
    [id |-> n, type |-> IF n \in DOMAIN folders THEN "folder" ELSE "document"]]

CommandsInit ==
    /\ Init
    /\ command = [c \in Clients |-> NoCommand]
    /\ commands = [c \in Clients |-> 0]
    /\ refs = Seeded
    /\ shown = UNION {Printed(SubSeq(Seeded, 1, n), {Seeded[n]}) : n \in DOMAIN Seeded}
    /\ local = [name \in Locals |-> None]

Select(c) == LookUpObject(c) \/ ObjectKnown(c) \/ FetchNext(c) \/ Fetched(c) \/ Choose(c)

FindPlace(c) ==
    LookUpDestination(c) \/ DestinationKnown(c) \/ LookUpParent(c) \/ ParentKnown(c)

Act(c) ==
    \/ RemoveDocument(c) \/ RemoveFolder(c) \/ MakeFolder(c) \/ CopyObject(c) \/ MoveObject(c) \/ Put(c)
    \/ Open(c) \/ Opened(c) \/ Acted(c) \/ PrintDocument(c) \/ List(c) \/ PrintList(c)
    \/ GetInto(c) \/ Downloaded(c) \/ Discard(c)

\* The rest of a library call, which no command looks into.
LibraryStep(c) == At(c, "acting") /\ ClientStep(c) /\ UNCHANGED commandVars

CommandsNext ==
    \/ DeviceStep /\ UNCHANGED commandVars
    \/ \E c \in Clients : Begin(c) \/ Select(c) \/ FindPlace(c) \/ Act(c) \/ LibraryStep(c)
    \/ \E c \in Clients : Network(c) /\ UNCHANGED commandVars

CommandsSpec == CommandsInit /\ [][CommandsNext]_allVars

-----------------------------------------------------------------------------
(* What the commands promise. *)

\* While the object exists that a reference was printed for, a command that
\* accepts its type works on that object or on none: however many objects
\* with similar digests have come since, and whatever fails.  A number never
\* stands for another object at all.
ReferencesSelectTheirObject ==
    [][\A c \in Clients :
          At(c, "fetch") /\ command'[c].stage \in {"act", "destination"} =>
            LET meant == command[c].typed.object IN
            \/ command'[c].chosen = meant.id
            \/ command[c].typed.kind = "hex" /\ (meant.id \notin Ids \/ ~Compatible(c, meant))]_allVars

\* "create and upload without overwriting": the upload of a put names no
\* revision, but among commands it only ever fills the document that this
\* put has created, and no command changes a body that was uploaded.
CommandsNeverOverwrite ==
    [][\A i \in DOMAIN documents \cap DOMAIN documents' :
          documents'[i].revision # documents[i].revision => contents[i] = Blank]_allVars

\* "download PDF without overwriting": a local file that get has left behind
\* is a whole body the device held for the selected document, and stays.
GottenFilesStayWhole ==
    [][\A name \in Locals :
          LET file == local[name] IN
          file # None /\ (At(file.by, "none") \/ command[file.by].op # "get"
                             \/ command[file.by].local # name) =>
            /\ local'[name] = file
            /\ \E v \in versions : v[1] = file.from /\ v[3] = file.body]_allVars

=============================================================================
