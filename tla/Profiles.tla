------------------------------ MODULE Profiles ------------------------------
(***************************************************************************)
(* The profile store (profiles/profiles.go, profile.go, WriteNew of        *)
(* internal/atomicfile): several dp processes import, pair, select and     *)
(* list profiles in one configuration directory without any lock.  Each    *)
(* system call that others can see is a step; any step may fail, and a     *)
(* process may be killed between two of them.                              *)
(*                                                                         *)
(* Pairing registers with the device between making the directory and      *)
(* writing it; the exchange itself is the module Registration.             *)
(***************************************************************************)
EXTENDS Integers, FiniteSets, Sequences

CONSTANTS
    Processes,
    Names,          \* profile names
    MaxCalls,       \* bound: commands per process
    MaxFailures,    \* bound: steps that fail
    MaxKills,       \* bound: processes that are killed
    None

\* The calls, what a file and a directory say, and the variables of a command.
Files == {"key", "profile"}
Tags == Processes \X Nat
FileType == [by : Tags, whole : BOOLEAN]
Directory == [owner : Tags, files : [Files -> FileType \cup {None}]]
Job == [op : {"import", "pair", "use", "list", "current"}, name : Names \cup {None},
        written : Nat, saw : Names \cup {None},
        left : SUBSET Names, shown : SUBSET Names, owed : SUBSET Names]

ProfilesAssumption ==
    /\ None \notin Names \cup FileType \cup Directory \cup Job
    /\ MaxCalls \in Nat /\ MaxFailures \in Nat /\ MaxKills \in Nat
ASSUME ProfilesAssumption

VARIABLES
    dirs,       \* the profile directories: who made each, and its files
    config,     \* the default_profile of config.json, or None
    identities, \* calls whose identity the device has registered
    pc,         \* the next step of a process, or "idle"
    job,        \* the arguments and variables of its command
    calls,      \* how many commands it has started
    outcome,    \* how its last command ended, or None
    failures, kills,
    created     \* history: <<name, call>> of imports and pairings reported as a success

disk == <<dirs, config>>
process == <<pc, job, calls, outcome>>
vars == <<disk, identities, process, failures, kills, created>>

-----------------------------------------------------------------------------
(* Files. *)

NoFiles == [f \in Files |-> None]

WriteOrder_Swapped == <<"profile", "key">>
WriteOrder == <<"key", "profile">>

\* LoadProfile: profile.json is there and complete.
Loadable(n) ==
    /\ dirs[n] # None /\ dirs[n].files["profile"] # None
    /\ dirs[n].files["profile"].whole

Tag(p) == <<p, calls[p]>>
Creating(p) == pc[p] # "idle" /\ job[p].op \in {"import", "pair"}

Goto(p, step) == pc' = [pc EXCEPT ![p] = step]
Stay == UNCHANGED <<calls, outcome, failures, kills, created>>

End(p, result) ==
    /\ Goto(p, "idle")
    /\ job' = [job EXCEPT ![p] = None]
    /\ outcome' = [outcome EXCEPT ![p] = [op |-> job[p].op, result |-> result,
                                          shown |-> job[p].shown, owed |-> job[p].owed]]
    /\ UNCHANGED <<calls, failures, kills>>

\* "saw" is the default when the command began, "owed" the profiles that
\* existed then.
Begin(p, op, n, step) ==
    /\ pc[p] = "idle" /\ calls[p] < MaxCalls
    /\ calls' = [calls EXCEPT ![p] = @ + 1]
    /\ job' = [job EXCEPT ![p] = [op |-> op, name |-> n, written |-> 0, saw |-> config,
                                  left |-> {}, shown |-> {}, owed |-> {c[1] : c \in created}]]
    /\ outcome' = [outcome EXCEPT ![p] = None]
    /\ Goto(p, step)
    /\ UNCHANGED <<disk, identities, failures, kills, created>>

-----------------------------------------------------------------------------
(* ImportSony and Pair. *)

Create(p) == \E op \in {"import", "pair"}, n \in Names : Begin(p, op, n, "mkdir")

NewDirectory(p) == dirs' = [dirs EXCEPT ![job[p].name] = [owner |-> Tag(p), files |-> NoFiles]]
AfterMkdir(p) == Goto(p, IF job[p].op = "pair" THEN "register" ELSE "write")

\* Mkdir, not MkdirAll: a name that is taken ends the command.
MakeDirectory_Always(p) ==
    /\ pc[p] = "mkdir" /\ UNCHANGED <<config, identities>>
    /\ IF dirs[job[p].name] = None THEN NewDirectory(p) ELSE UNCHANGED dirs
    /\ AfterMkdir(p) /\ UNCHANGED job /\ Stay
MakeDirectory(p) ==
    /\ pc[p] = "mkdir" /\ UNCHANGED <<config, identities>>
    /\ IF dirs[job[p].name] = None
       THEN NewDirectory(p) /\ AfterMkdir(p) /\ UNCHANGED job /\ Stay
       ELSE End(p, "exists") /\ UNCHANGED <<dirs, created>>

RegisterWithDevice(p) ==
    /\ pc[p] = "register"
    /\ identities' = identities \cup {Tag(p)}
    /\ Goto(p, "write") /\ UNCHANGED <<disk, job>> /\ Stay

\* WriteNew creates a file that must not exist, and then fills and syncs it.
Writes(p) == WriteOrder[job[p].written + 1]
Put(p, whole) ==
    dirs' = [n \in Names |->
        IF n = job[p].name /\ dirs[n] # None
        THEN [dirs[n] EXCEPT !.files[Writes(p)] = [by |-> Tag(p), whole |-> whole]]
        ELSE dirs[n]]

CreateFile(p) ==
    /\ pc[p] = "write" /\ UNCHANGED <<config, identities, job>> /\ Stay
    /\ IF dirs[job[p].name] # None /\ dirs[job[p].name].files[Writes(p)] = None
       THEN Put(p, FALSE) /\ Goto(p, "fill")
       ELSE Goto(p, "undo") /\ UNCHANGED dirs

FillFile(p) ==
    /\ pc[p] = "fill" /\ UNCHANGED <<config, identities>> /\ Stay
    /\ Put(p, TRUE)
    /\ job' = [job EXCEPT ![p].written = @ + 1]
    /\ Goto(p, IF job[p].written + 1 = Len(WriteOrder) THEN "default" ELSE "write")

\* The first profile becomes the default.
NeedsDefault_Always(default) == TRUE
NeedsDefault(default) == default = None

LookUpDefault(p) ==
    /\ pc[p] = "default"
    /\ Goto(p, IF NeedsDefault(config) THEN "load" ELSE "complete")
    /\ UNCHANGED <<disk, identities, job>> /\ Stay

\* From here on nothing is undone; the new profile is loaded once more.
Complete(p) ==
    /\ pc[p] = "complete"
    /\ End(p, IF Loadable(job[p].name) THEN "ok" ELSE "failed")
    /\ created' = created \cup {<<job[p].name, Tag(p)>>}
    /\ UNCHANGED <<disk, identities>>

\* A failed command removes the directory it has made, file by file.
Owns_FromTheStart(p) == Creating(p)
Owns(p) == Creating(p) /\ pc[p] # "mkdir"

RemoveFile(p) ==
    /\ pc[p] = "undo" /\ dirs[job[p].name] # None
    /\ \E f \in Files :
          /\ dirs[job[p].name].files[f] # None
          /\ dirs' = [dirs EXCEPT ![job[p].name].files[f] = None]
    /\ UNCHANGED <<config, identities, pc, job>> /\ Stay

RemoveDirectory(p) ==
    /\ pc[p] = "undo"
    /\ dirs[job[p].name] # None => dirs[job[p].name].files = NoFiles
    /\ dirs' = [dirs EXCEPT ![job[p].name] = None]
    /\ End(p, "failed")
    /\ UNCHANGED <<config, identities, created>>

-----------------------------------------------------------------------------
(* Use: by itself, and at the end of a first import or pairing. *)

UseProfile(p) == \E n \in Names : Begin(p, "use", n, "load")

LoadBeforeUse_Unchecked(p) ==
    /\ pc[p] = "load"
    /\ Goto(p, "replace") /\ UNCHANGED <<disk, identities, job>> /\ Stay
LoadBeforeUse(p) ==
    /\ pc[p] = "load" /\ UNCHANGED <<disk, identities>>
    /\ IF Loadable(job[p].name) THEN Goto(p, "replace") /\ UNCHANGED job /\ Stay
       ELSE IF Creating(p) THEN Goto(p, "undo") /\ UNCHANGED job /\ Stay
       ELSE End(p, "failed") /\ UNCHANGED created

\* atomicfile.Replace; its steps are those of the module ReferenceStore.
ReplaceConfig(p) ==
    /\ pc[p] = "replace" /\ config' = job[p].name
    /\ UNCHANGED <<dirs, identities, created>>
    /\ IF Creating(p) THEN Goto(p, "complete") /\ UNCHANGED <<job, calls, outcome, failures, kills>>
       ELSE End(p, "ok")

-----------------------------------------------------------------------------
(* List and Current. *)

ListProfiles(p) == Begin(p, "list", None, "readdir")

ReadDirectory(p) ==
    /\ pc[p] = "readdir"
    /\ job' = [job EXCEPT ![p].left = {n \in Names : dirs[n] # None}]
    /\ Goto(p, "loadall") /\ UNCHANGED <<disk, identities>> /\ Stay

\* One directory that does not load ends the whole listing.
LoadNext_SwallowsErrors(p) ==
    /\ pc[p] = "loadall" /\ UNCHANGED <<disk, identities>>
    /\ IF job[p].left = {} THEN End(p, "ok") /\ UNCHANGED created
       ELSE \E n \in job[p].left :
            IF Loadable(n)
            THEN /\ job' = [job EXCEPT ![p].left = @ \ {n}, ![p].shown = @ \cup {n}]
                 /\ UNCHANGED pc /\ Stay
            ELSE End(p, "ok") /\ UNCHANGED created
LoadNext(p) ==
    /\ pc[p] = "loadall" /\ UNCHANGED <<disk, identities>>
    /\ IF job[p].left = {} THEN End(p, "ok") /\ UNCHANGED created
       ELSE \E n \in job[p].left :
            IF Loadable(n)
            THEN /\ job' = [job EXCEPT ![p].left = @ \ {n}, ![p].shown = @ \cup {n}]
                 /\ UNCHANGED pc /\ Stay
            ELSE End(p, "failed") /\ UNCHANGED created

CurrentProfile(p) == config # None /\ Begin(p, "current", config, "show")

LoadCurrent(p) ==
    /\ pc[p] = "show"
    /\ End(p, IF Loadable(job[p].name) THEN "ok" ELSE "failed")
    /\ UNCHANGED <<disk, identities, created>>

-----------------------------------------------------------------------------
(* What goes wrong. *)

\* A system call, or the registration, fails.
Fail(p) ==
    /\ pc[p] \notin {"idle", "undo"}
    /\ failures < MaxFailures /\ failures' = failures + 1
    /\ UNCHANGED <<disk, identities, calls, kills>>
    /\ IF Owns(p) /\ pc[p] # "complete"
       THEN Goto(p, "undo") /\ UNCHANGED <<job, outcome, created>>
       ELSE /\ Goto(p, "idle")
            /\ job' = [job EXCEPT ![p] = None]
            /\ outcome' = [outcome EXCEPT ![p] = [op |-> job[p].op, result |-> "failed",
                                                  shown |-> {}, owed |-> {}]]
            /\ created' = IF pc[p] = "complete" THEN created \cup {<<job[p].name, Tag(p)>>} ELSE created

Kill(p) ==
    /\ pc[p] # "idle" /\ kills < MaxKills /\ kills' = kills + 1
    /\ Goto(p, "idle")
    /\ job' = [job EXCEPT ![p] = None]
    /\ UNCHANGED <<disk, identities, calls, outcome, failures, created>>

-----------------------------------------------------------------------------

Init ==
    /\ dirs = [n \in Names |-> None] /\ config = None /\ identities = {}
    /\ pc = [p \in Processes |-> "idle"] /\ job = [p \in Processes |-> None]
    /\ calls = [p \in Processes |-> 0] /\ outcome = [p \in Processes |-> None]
    /\ failures = 0 /\ kills = 0 /\ created = {}

Command(p) == Create(p) \/ UseProfile(p) \/ ListProfiles(p) \/ CurrentProfile(p)

Step(p) ==
    \/ MakeDirectory(p) \/ RegisterWithDevice(p) \/ CreateFile(p) \/ FillFile(p)
    \/ LookUpDefault(p) \/ Complete(p) \/ RemoveFile(p) \/ RemoveDirectory(p)
    \/ LoadBeforeUse(p) \/ ReplaceConfig(p)
    \/ ReadDirectory(p) \/ LoadNext(p) \/ LoadCurrent(p)

Next == \E p \in Processes : Command(p) \/ Step(p) \/ Fail(p) \/ Kill(p)

Spec == Init /\ [][Next]_vars

-----------------------------------------------------------------------------
(* Properties. *)

\* Type correctness; nobody writes into a directory that another call made.
ProfilesOK ==
    /\ config \in Names \cup {None}
    /\ \A p \in Processes : (pc[p] = "idle") <=> (job[p] = None)
    /\ \A n \in Names : dirs[n] # None =>
          \A f \in Files : dirs[n].files[f] # None => dirs[n].files[f].by = dirs[n].owner

\* A profile that loads has its private key beside it, complete and of the
\* same identity, wherever a process was killed; only the removal after a
\* failed step, under way or killed itself, may have taken the key away first.
ProfileHasItsKey ==
    \A n \in Names :
        /\ Loadable(n) /\ (failures = 0 \/ kills = 0)
        /\ ~\E p \in Processes : pc[p] = "undo" /\ job[p].name = n
        => /\ dirs[n].files["key"] # None /\ dirs[n].files["key"].whole
           /\ dirs[n].files["key"].by = dirs[n].files["profile"].by

\* "An existing profile is never overwritten": once an import or pairing has
\* got through, no other command changes or removes its files, not even one
\* that fails to create the same name.
CreatedProfilesStay ==
    [][\A c \in created : dirs'[c[1]] = dirs[c[1]]]_vars

\* An import or pairing that begins when there is a default leaves it alone.
DefaultIsKept ==
    [][\A p \in Processes : Creating(p) /\ pc[p] = "replace" /\ pc'[p] = "complete"
                               => job[p].saw = None]_vars

\* docs/cli.md: "The first imported profile becomes the default".  As soon as
\* one profile has been created there is a default; and the default names a
\* profile that loads, unless some step failed: a profile that another process
\* selects before its creation has failed is removed all the same.  Killing
\* processes does no harm here.
DefaultIsUsable ==
    /\ created # {} => config # None
    /\ failures = 0 /\ config # None => Loadable(config)

\* docs/cli.md: "If a profile name already exists, the command stops before
\* contacting the device".  The device registers an identity only for a call
\* that has reserved the name.
DeviceIsContactedForOwnName ==
    [][\A i \in identities' \ identities :
          \E n \in Names : dirs[n] # None /\ dirs[n].owner = i]_vars

\* A listing that succeeds shows every profile that existed when it began.
ListingsAreComplete ==
    \A p \in Processes : outcome[p] # None /\ outcome[p].op = "list" /\ outcome[p].result = "ok"
        => outcome[p].owed \subseteq outcome[p].shown

\* docs/cli.md: pairing "generates a new RSA-2048 identity, and stores it
\* atomically".  An identity that the device has registered, and whose pairing
\* has reserved a profile directory that nobody is working on any more, is
\* stored there completely.
StoredAtomically ==
    \A n \in Names :
        /\ dirs[n] # None /\ dirs[n].owner \in identities
        /\ \A p \in Processes : pc[p] # "idle" => job[p].name # n
        => Loadable(n)

=============================================================================
