--------------------------- MODULE ProfilesProofs ---------------------------
(***************************************************************************)
(* Machine-checked proofs about Profiles, for any processes and names and  *)
(* any numbers of commands, failed steps and kills.                        *)
(***************************************************************************)
EXTENDS Profiles, TLAPS

-----------------------------------------------------------------------------
(* The inductive invariant. *)

CreateSteps == {"mkdir", "register", "write", "fill", "default", "load", "replace", "complete", "undo"}
Steps == CreateSteps \cup {"idle", "readdir", "loadall", "show"}

TypeInv ==
    /\ dirs \in [Names -> Directory \cup {None}]
    /\ config \in Names \cup {None}
    /\ pc \in [Processes -> Steps] /\ job \in [Processes -> Job \cup {None}]
    /\ calls \in [Processes -> Nat]
    /\ outcome = [p \in Processes |-> outcome[p]]
    /\ created \subseteq Names \X Tags
    /\ failures \in Nat /\ kills \in Nat

\* Which steps each command takes.
StepInv(p) ==
    /\ (pc[p] = "idle") <=> (job[p] = None)
    /\ pc[p] # "idle" =>
        /\ Creating(p) => pc[p] \in CreateSteps /\ job[p].name \in Names
        /\ job[p].op = "use" => pc[p] \in {"load", "replace"} /\ job[p].name \in Names
        /\ job[p].op = "list" => pc[p] \in {"readdir", "loadall"}
        /\ job[p].op = "current" => pc[p] = "show" /\ job[p].name \in Names
        /\ pc[p] = "mkdir" => job[p].written = 0

\* A command that has made its directory still has it, with the files it has
\* written and no others.
Done(p) == [by |-> Tag(p), whole |-> TRUE]
FilesOf(p) == dirs[job[p].name].files

OwnInv(p) == Owns(p) =>
    /\ dirs[job[p].name] # None /\ dirs[job[p].name].owner = Tag(p)
    /\ pc[p] \in {"register", "write", "fill"} => job[p].written \in {0, 1}
    /\ pc[p] = "register" => job[p].written = 0
    /\ pc[p] \in {"register", "write"} => FilesOf(p)["profile"] = None
    /\ pc[p] \in {"register", "write"} /\ job[p].written = 0 => FilesOf(p)["key"] = None
    /\ pc[p] = "fill" => FilesOf(p)[Writes(p)] # None
    /\ pc[p] = "fill" /\ job[p].written = 0 => FilesOf(p)["profile"] = None
    /\ pc[p] \in {"write", "fill"} /\ job[p].written = 1 => FilesOf(p)["key"] = Done(p)
    /\ pc[p] \in {"default", "load", "replace", "complete"} => FilesOf(p) = [f \in Files |-> Done(p)]

DirInv == \A n \in Names : dirs[n] # None =>
    \A f \in Files : dirs[n].files[f] # None => dirs[n].files[f].by = dirs[n].owner

\* A removal takes place only after a failed step, and only a removal that was
\* killed leaves a profile without its key.
UndoInv(p) == pc[p] = "undo" => failures > 0 /\ Creating(p)
KeyInv == \A n \in Names : Loadable(n) =>
    \/ dirs[n].files["key"] # None /\ dirs[n].files["key"].whole
    \/ \E p \in Processes : pc[p] = "undo" /\ job[p].name = n
    \/ failures > 0 /\ kills > 0

\* What was created is complete, and the call that created it is over.
Whole(tag) == [f \in Files |-> [by |-> tag, whole |-> TRUE]]
CreatedInv == \A c \in created :
    /\ dirs[c[1]] # None /\ dirs[c[1]].owner = c[2] /\ dirs[c[1]].files = Whole(c[2])
    /\ c[2][2] <= calls[c[2][1]]
    /\ \A p \in Processes : pc[p] # "idle" => Tag(p) # c[2]

\* The default, once there is one, stays one; and nobody selects a profile that
\* does not load.
DefaultInv(p) ==
    /\ Creating(p) /\ pc[p] = "complete" => config # None
    /\ pc[p] # "idle" /\ job[p].saw # None => config # None
    /\ Creating(p) /\ pc[p] \in {"load", "replace"} => job[p].saw = None
    /\ failures = 0 /\ pc[p] = "replace" => Loadable(job[p].name)

\* A listing still has every name before it that it owes.
ListInv(p) ==
    /\ pc[p] # "idle" => \A n \in job[p].owed : \E c \in created : c[1] = n
    /\ pc[p] = "loadall" => job[p].owed \subseteq job[p].left \cup job[p].shown
    /\ outcome[p] # None /\ outcome[p].op = "list" /\ outcome[p].result = "ok"
        => outcome[p].owed \subseteq outcome[p].shown

OneInv(p) == StepInv(p) /\ OwnInv(p) /\ UndoInv(p) /\ DefaultInv(p) /\ ListInv(p)

IInv ==
    /\ TypeInv /\ DirInv /\ KeyInv /\ CreatedInv /\ DefaultIsUsable
    /\ \A p \in Processes : OneInv(p)

-----------------------------------------------------------------------------
(* Frames: what a step of one process leaves alone. *)

\* Nobody else's variables change.
OnlyOwn(p) == \A q \in Processes \ {p} :
    pc'[q] = pc[q] /\ job'[q] = job[q] /\ calls'[q] = calls[q] /\ outcome'[q] = outcome[q]

\* Two commands never hold one directory.
LEMMA OwnersDiffer ==
    ASSUME IInv, NEW p \in Processes, NEW q \in Processes, p # q, Owns(p), Owns(q)
    PROVE  job[p].name # job[q].name
  BY DEF IInv, OneInv, OwnInv, Tag

\* Nobody holds the directory of a profile that was created.
LEMMA CreatedAreNotOwned ==
    ASSUME IInv, NEW c \in created, NEW p \in Processes, Owns(p)
    PROVE  job[p].name # c[1]
  BY DEF IInv, OneInv, OwnInv, CreatedInv, Owns, Creating

LEMMA OthersKeep ==
    ASSUME IInv, NEW p \in Processes, OnlyOwn(p), NEW q \in Processes, q # p,
           created \subseteq created', failures' >= failures, failures' \in Nat,
           config # None => config' # None,
           Owns(q) => dirs'[job[q].name] = dirs[job[q].name],
           failures' = 0 => \A n \in Names : Loadable(n) => Loadable(n)'
    PROVE  OneInv(q)'
<1>1. /\ OneInv(q) /\ pc'[q] = pc[q] /\ job'[q] = job[q] /\ calls'[q] = calls[q]
      /\ outcome'[q] = outcome[q]
  BY DEF IInv, OnlyOwn
<1>2. Tag(q)' = Tag(q) /\ Creating(q)' = Creating(q) /\ Owns(q)' = Owns(q) /\ Writes(q)' = Writes(q)
  BY <1>1 DEF Tag, Creating, Owns, Writes
<1>3. StepInv(q)'
  BY <1>1, <1>2 DEF OneInv, StepInv
<1>4. OwnInv(q)'
  BY <1>1, <1>2 DEF OneInv, OwnInv, FilesOf, Done
<1>5. UndoInv(q)'
  BY <1>1, <1>2 DEF OneInv, UndoInv, IInv, TypeInv
<1>6. DefaultInv(q)'
  <2>1. failures' = 0 => failures = 0
    BY DEF IInv, TypeInv
  <2>2. pc[q] = "replace" => job[q].name \in Names
    BY <1>1, SMT DEF OneInv, StepInv, IInv, TypeInv, Job, CreateSteps, Creating
  <2>3. QED
    BY <1>1, <1>2, <2>1, <2>2 DEF OneInv, DefaultInv
<1>7. ListInv(q)'
  BY <1>1 DEF OneInv, ListInv
<1>8. QED
  BY <1>3, <1>4, <1>5, <1>6, <1>7 DEF OneInv

\* Created profiles stay as they were.
LEMMA CreatedStay ==
    ASSUME IInv, NEW p \in Processes, OnlyOwn(p), TypeInv', UNCHANGED created,
           \A c \in created : dirs'[c[1]] = dirs[c[1]],
           \/ calls'[p] = calls[p] /\ (pc'[p] # "idle" => pc[p] # "idle")
           \/ calls'[p] = calls[p] + 1
    PROVE  CreatedInv'
<1> SUFFICES ASSUME NEW c \in created
             PROVE  /\ dirs'[c[1]] # None /\ dirs'[c[1]].owner = c[2] /\ dirs'[c[1]].files = Whole(c[2])
                    /\ c[2][2] <= calls'[c[2][1]]
                    /\ \A q \in Processes : pc'[q] # "idle" => <<q, calls'[q]>> # c[2]
  BY DEF CreatedInv, Tag, Whole
<1>1. /\ dirs[c[1]] # None /\ dirs[c[1]].owner = c[2] /\ dirs[c[1]].files = Whole(c[2])
      /\ c[2][2] <= calls[c[2][1]]
      /\ \A q \in Processes : pc[q] # "idle" => <<q, calls[q]>> # c[2]
  BY DEF IInv, CreatedInv, Tag
<1>2. c[2] \in Processes \X Nat /\ calls \in [Processes -> Nat] /\ calls' \in [Processes -> Nat]
  BY DEF IInv, TypeInv, Tags
<1>3. \A q \in Processes : calls'[q] >= calls[q]
  BY <1>2 DEF OnlyOwn
<1>4. c[2][2] <= calls'[c[2][1]]
  BY <1>1, <1>2, <1>3
<1>5. ASSUME NEW q \in Processes, pc'[q] # "idle" PROVE <<q, calls'[q]>> # c[2]
  BY <1>1, <1>2, <1>5 DEF OnlyOwn
<1>6. QED
  BY <1>1, <1>4, <1>5

\* A step that touches neither the disk nor the history keeps the invariant if it
\* keeps its own part.
LEMMA QuietKeeps ==
    ASSUME IInv, NEW p \in Processes, OnlyOwn(p), TypeInv', UNCHANGED <<dirs, config, created>>,
           failures' >= failures, kills' >= kills,
           \/ calls'[p] = calls[p] /\ (pc'[p] # "idle" => pc[p] # "idle")
           \/ calls'[p] = calls[p] + 1,
           pc[p] = "undo" => \/ pc'[p] = "undo" /\ job'[p].name = job[p].name
                             \/ kills' > 0,
           OneInv(p)'
    PROVE  IInv'
<1>1. \A n : Loadable(n)' <=> Loadable(n)
  BY DEF Loadable
<1>2. \A q \in Processes : OneInv(q)'
  BY <1>1, OthersKeep DEF TypeInv
<1>3. CreatedInv'
  BY CreatedStay
<1>4. KeyInv'
  <2> SUFFICES ASSUME NEW n \in Names, Loadable(n)
               PROVE  \/ dirs[n].files["key"] # None /\ dirs[n].files["key"].whole
                      \/ \E q \in Processes : pc'[q] = "undo" /\ job'[q].name = n
                      \/ failures' > 0 /\ kills' > 0
    BY <1>1 DEF KeyInv
  <2>1. failures \in Nat /\ failures' \in Nat /\ kills \in Nat /\ kills' \in Nat
    BY DEF IInv, TypeInv
  <2>2. \A q \in Processes : pc[q] = "undo" => failures > 0
    BY DEF IInv, OneInv, UndoInv
  <2>3. QED
    BY <2>1, <2>2 DEF IInv, KeyInv, OnlyOwn
<1>5. DirInv' /\ DefaultIsUsable'
  BY <1>1 DEF IInv, TypeInv, DirInv, DefaultIsUsable
<1>6. QED
  BY <1>2, <1>3, <1>4, <1>5 DEF IInv

\* A command that is over, one way or another.
LEMMA StopKeeps ==
    ASSUME IInv, NEW p \in Processes, NEW o, pc[p] # "idle",
           pc' = [pc EXCEPT ![p] = "idle"], job' = [job EXCEPT ![p] = None],
           outcome' = [outcome EXCEPT ![p] = o],
           o # None /\ o.op = "list" /\ o.result = "ok" => o.owed \subseteq o.shown,
           UNCHANGED <<dirs, config, created, calls>>,
           failures' \in Nat, failures' >= failures, kills' \in Nat, kills' >= kills,
           pc[p] = "undo" => kills' > 0
    PROVE  IInv'
<1>1. TypeInv'
  BY DEF IInv, TypeInv, Steps, Job
<1>2. pc'[p] = "idle" /\ job'[p] = None /\ outcome'[p] = o /\ OnlyOwn(p)
  BY DEF IInv, TypeInv, OnlyOwn
<1>3. OneInv(p)'
  BY <1>2 DEF OneInv, StepInv, OwnInv, Owns, Creating, UndoInv, DefaultInv, ListInv
<1>4. calls'[p] = calls[p]
  OBVIOUS
<1>5. QED
  BY <1>1, <1>2, <1>3, <1>4, QuietKeeps

LEMMA EndKeeps ==
    ASSUME IInv, NEW p \in Processes, NEW result, pc[p] \notin {"idle", "undo"}, End(p, result),
           UNCHANGED <<dirs, config, created>>,
           job[p].op = "list" /\ result = "ok" => job[p].owed \subseteq job[p].shown
    PROVE  IInv'
<1> DEFINE o == [op |-> job[p].op, result |-> result, shown |-> job[p].shown, owed |-> job[p].owed]
<1>1. /\ pc' = [pc EXCEPT ![p] = "idle"] /\ job' = [job EXCEPT ![p] = None]
      /\ outcome' = [outcome EXCEPT ![p] = o] /\ UNCHANGED <<calls, failures, kills>>
  BY DEF End, Goto
<1>2. o # None /\ o.op = "list" /\ o.result = "ok" => o.owed \subseteq o.shown
  OBVIOUS
<1>3. failures \in Nat /\ kills \in Nat
  BY DEF IInv, TypeInv
<1> HIDE DEF o
<1>4. /\ pc[p] # "idle" /\ (pc[p] = "undo" => kills' > 0) /\ UNCHANGED <<dirs, config, created, calls>>
      /\ failures' \in Nat /\ failures' >= failures /\ kills' \in Nat /\ kills' >= kills
  BY <1>1, <1>3
<1>5. QED
  BY <1>1, <1>2, <1>4, StopKeeps

\* What a running command has.
LEMMA Running ==
    ASSUME IInv, NEW p \in Processes, pc[p] # "idle"
    PROVE  /\ job[p] \in Job /\ job[p] # None /\ OneInv(p) /\ Tag(p) \in Tags
           /\ job[p].op # "list" /\ job[p].op # "current" => job[p].name \in Names
<1>1. OneInv(p) /\ job[p] \in Job
  BY DEF IInv, OneInv, StepInv, TypeInv
<1>2. job[p] # None
  BY <1>1, ProfilesAssumption DEF ProfilesAssumption
<1>3. Tag(p) \in Tags
  BY DEF IInv, TypeInv, Tag, Tags
<1>4. job[p].op \in {"import", "pair", "use", "list", "current"}
  BY <1>1 DEF Job
<1>5. job[p].op # "list" /\ job[p].op # "current" => job[p].name \in Names
  BY <1>1, <1>4 DEF OneInv, StepInv, Creating
<1>6. QED
  BY <1>1, <1>2, <1>3, <1>5

\* A command that takes the next step without touching anything else.
LEMMA GoKeeps ==
    ASSUME IInv, NEW p \in Processes, NEW step \in Steps \ {"idle"}, pc[p] \notin {"idle", "undo"},
           Goto(p, step), UNCHANGED <<dirs, config, created, job, calls, outcome, kills>>,
           failures' \in Nat, failures' >= failures,
           StepInv(p)', OwnInv(p)', UndoInv(p)', DefaultInv(p)',
           step = "loadall" => pc[p] = "loadall"
    PROVE  IInv'
<1>1. pc' = [pc EXCEPT ![p] = step]
  BY DEF Goto
<1>2. TypeInv'
  BY <1>1 DEF IInv, TypeInv
<1>3. pc'[p] = step /\ OnlyOwn(p)
  BY <1>1 DEF IInv, TypeInv, OnlyOwn
<1>4. ListInv(p)'
  BY <1>3, Running DEF OneInv, ListInv
<1>5. OneInv(p)'
  BY <1>4 DEF OneInv
<1>6. kills \in Nat /\ calls'[p] = calls[p]
  BY DEF IInv, TypeInv
<1>7. QED
  BY <1>2, <1>3, <1>5, <1>6, QuietKeeps

-----------------------------------------------------------------------------
(* The steps that leave the disk alone. *)

LEMMA BeginKeeps ==
    ASSUME IInv, NEW p \in Processes, NEW op, NEW n, NEW step, Begin(p, op, n, step),
           \/ op \in {"import", "pair"} /\ n \in Names /\ step = "mkdir"
           \/ op = "use" /\ n \in Names /\ step = "load"
           \/ op = "list" /\ n = None /\ step = "readdir"
           \/ op = "current" /\ n \in Names /\ step = "show"
    PROVE  IInv'
<1> DEFINE j == [op |-> op, name |-> n, written |-> 0, saw |-> config,
                 left |-> {}, shown |-> {}, owed |-> {c[1] : c \in created}]
<1>1. /\ pc[p] = "idle" /\ pc' = [pc EXCEPT ![p] = step] /\ job' = [job EXCEPT ![p] = j]
      /\ calls' = [calls EXCEPT ![p] = @ + 1] /\ outcome' = [outcome EXCEPT ![p] = None]
      /\ UNCHANGED <<dirs, config, created, failures, kills>>
  BY DEF Begin, Goto, disk
<1>2. j \in Job /\ j # None /\ j.owed = {c[1] : c \in created} /\ j.op = op /\ j.name = n
      /\ j.saw = config /\ j.written = 0
  <2>1. {c[1] : c \in created} \subseteq Names
    BY DEF IInv, TypeInv
  <2>2. j \in Job
    BY <2>1 DEF IInv, TypeInv, Job
  <2>3. j # None
    BY <2>2, ProfilesAssumption DEF ProfilesAssumption
  <2>4. QED
    BY <2>2, <2>3
<1> HIDE DEF j
<1>3. TypeInv'
  BY <1>1, <1>2 DEF IInv, TypeInv, Steps, CreateSteps
<1>4. /\ pc'[p] = step /\ job'[p] = j /\ calls'[p] = calls[p] + 1 /\ outcome'[p] = None
      /\ OnlyOwn(p)
  BY <1>1 DEF IInv, TypeInv, OnlyOwn
<1>5. StepInv(p)'
  BY <1>2, <1>4 DEF StepInv, Creating, CreateSteps
<1>6. OwnInv(p)' /\ UndoInv(p)'
  BY <1>2, <1>4 DEF OwnInv, Owns, Creating, UndoInv
<1>7. DefaultInv(p)'
  BY <1>1, <1>2, <1>4 DEF DefaultInv, Creating
<1>8. ListInv(p)'
  BY <1>1, <1>2, <1>4 DEF ListInv
<1>9. failures \in Nat /\ kills \in Nat
  BY DEF IInv, TypeInv
<1>10. QED
  BY <1>1, <1>3, <1>4, <1>5, <1>6, <1>7, <1>8, <1>9, QuietKeeps DEF OneInv

LEMMA CommandKeeps ==
    ASSUME IInv, NEW p \in Processes, Command(p)
    PROVE  IInv'
<1>1. CASE Create(p)
  BY <1>1, BeginKeeps DEF Create
<1>2. CASE UseProfile(p)
  BY <1>2, BeginKeeps DEF UseProfile
<1>3. CASE ListProfiles(p)
  BY <1>3, BeginKeeps DEF ListProfiles
<1>4. CASE CurrentProfile(p)
  BY <1>4, BeginKeeps DEF CurrentProfile, IInv, TypeInv
<1>5. QED
  BY <1>1, <1>2, <1>3, <1>4 DEF Command

LEMMA RegisterWithDeviceKeeps ==
    ASSUME IInv, NEW p \in Processes, RegisterWithDevice(p)
    PROVE  IInv'
<1>1. /\ pc[p] = "register" /\ Goto(p, "write") /\ pc' = [pc EXCEPT ![p] = "write"]
      /\ UNCHANGED <<dirs, config, created, job, calls, outcome, failures, kills>>
  BY DEF RegisterWithDevice, Goto, Stay, disk
<1>2. pc'[p] = "write" /\ OneInv(p) /\ failures \in Nat
  BY <1>1 DEF IInv, TypeInv
<1>3. job[p].op \in {"import", "pair", "use", "list", "current"} /\ Creating(p)
  BY <1>1, <1>2, Running DEF Job, OneInv, StepInv, Creating
<1>4. StepInv(p)'
  BY <1>1, <1>2, <1>3 DEF OneInv, StepInv, Creating, CreateSteps
<1>5. OwnInv(p)'
  BY <1>1, <1>2, <1>3 DEF OneInv, OwnInv, Owns, Creating, FilesOf, Done, Tag
<1>6. UndoInv(p)' /\ DefaultInv(p)'
  BY <1>1, <1>2, <1>3 DEF OneInv, UndoInv, DefaultInv, Creating
<1>7. QED
  BY <1>1, <1>2, <1>4, <1>5, <1>6, GoKeeps DEF Steps, CreateSteps

-----------------------------------------------------------------------------
(* The steps on the disk. *)

\* A step on the directory of a command, or on a name that is free: no other
\* command holds it and no created profile is in it.
LEMMA DirectoryKeeps ==
    ASSUME IInv, NEW p \in Processes, NEW n \in Names, NEW d \in Directory \cup {None},
           dirs' = [dirs EXCEPT ![n] = d], OnlyOwn(p), TypeInv', OneInv(p)',
           UNCHANGED <<config, created, calls, failures, kills>>,
           pc'[p] # "idle" => pc[p] # "idle",
           dirs[n] = None \/ (Owns(p) /\ n = job[p].name),
           pc[p] = "undo" => n = job[p].name,
           d # None => \A f \in Files : d.files[f] # None => d.files[f].by = d.owner,
           failures = 0 /\ Loadable(n) => Loadable(n)',
           Loadable(n)' => \/ d.files["key"] # None /\ d.files["key"].whole
                           \/ pc'[p] = "undo" /\ job'[p].name = n
                           \/ failures > 0 /\ kills > 0
    PROVE  IInv'
<1>1. dirs'[n] = d /\ \A m \in Names \ {n} : dirs'[m] = dirs[m]
  BY DEF IInv, TypeInv
<1>2. \A m \in Names \ {n} : Loadable(m)' <=> Loadable(m)
  BY <1>1 DEF Loadable
<1>3. ASSUME NEW q \in Processes, q # p PROVE OneInv(q)'
  <2>1. Owns(q) => job[q].name # n /\ job[q].name \in Names
    <3>1. Owns(q) => dirs[job[q].name] # None
      BY DEF IInv, OneInv, OwnInv
    <3>2. Owns(q) => job[q].name \in Names
      BY <1>3, Running DEF Owns, Creating
    <3>3. QED
      BY <3>1, <3>2, <1>3, OwnersDiffer
  <2>2. Owns(q) => dirs'[job[q].name] = dirs[job[q].name]
    BY <2>1, <1>1
  <2>3. failures' = 0 => \A m \in Names : Loadable(m) => Loadable(m)'
    BY <1>2
  <2>4. failures' \in Nat /\ failures' >= failures
    BY DEF IInv, TypeInv
  <2>5. QED
    BY <1>3, <2>2, <2>3, <2>4, OthersKeep
<1>4. CreatedInv'
  <2>1. \A c \in created : c[1] \in Names /\ dirs[c[1]] # None
    BY DEF IInv, TypeInv, CreatedInv
  <2>2. \A c \in created : c[1] # n
    BY <2>1, CreatedAreNotOwned
  <2>3. \A c \in created : dirs'[c[1]] = dirs[c[1]]
    BY <2>1, <2>2, <1>1
  <2>4. calls'[p] = calls[p]
    OBVIOUS
  <2>5. QED
    BY <2>3, <2>4, CreatedStay
<1>5. DirInv'
  BY <1>1 DEF IInv, DirInv
<1>6. KeyInv'
  <2> SUFFICES ASSUME NEW m \in Names, Loadable(m)'
               PROVE  \/ dirs'[m].files["key"] # None /\ dirs'[m].files["key"].whole
                      \/ \E q \in Processes : pc'[q] = "undo" /\ job'[q].name = m
                      \/ failures' > 0 /\ kills' > 0
    BY DEF KeyInv
  <2>1. CASE m = n
    BY <2>1, <1>1
  <2>2. CASE m # n
    <3>1. \/ dirs[m].files["key"] # None /\ dirs[m].files["key"].whole
          \/ \E q \in Processes : pc[q] = "undo" /\ job[q].name = m
          \/ failures > 0 /\ kills > 0
      BY <2>2, <1>2 DEF IInv, KeyInv
    <3>2. ASSUME NEW q \in Processes, pc[q] = "undo", job[q].name = m
          PROVE  pc'[q] = "undo" /\ job'[q].name = m
      BY <2>2, <3>2 DEF OnlyOwn
    <3>3. QED
      BY <3>1, <3>2, <2>2, <1>1
  <2>3. QED
    BY <2>1, <2>2
<1>7. DefaultIsUsable'
  <2>1. failures' = 0 /\ config # None => Loadable(config) /\ config \in Names
    BY DEF IInv, TypeInv, DefaultIsUsable
  <2>2. failures' = 0 /\ config # None => Loadable(config)'
    BY <2>1, <1>2
  <2>3. QED
    BY <2>2 DEF IInv, DefaultIsUsable
<1>8. QED
  BY <1>3, <1>4, <1>5, <1>6, <1>7 DEF IInv

LEMMA MakeDirectoryKeeps ==
    ASSUME IInv, NEW p \in Processes, MakeDirectory(p)
    PROVE  IInv'
<1>1. pc[p] = "mkdir" /\ UNCHANGED config
  BY DEF MakeDirectory
<1>2. job[p] \in Job /\ OneInv(p) /\ Tag(p) \in Tags
  BY <1>1, Running
<1>3. Creating(p) /\ job[p].name \in Names /\ job[p].op \in {"import", "pair"}
  BY <1>1, <1>2 DEF Job, OneInv, StepInv, Creating
<1>4. CASE dirs[job[p].name] # None
  <2>1. End(p, "exists") /\ UNCHANGED <<dirs, created>>
    BY <1>4 DEF MakeDirectory
  <2>2. job[p].op # "list" /\ pc[p] \notin {"idle", "undo"}
    BY <1>3, <1>1
  <2>3. QED
    BY <1>1, <2>1, <2>2, EndKeeps
<1>5. CASE dirs[job[p].name] = None
  <2> DEFINE n == job[p].name
             d == [owner |-> Tag(p), files |-> NoFiles]
             step == IF job[p].op = "pair" THEN "register" ELSE "write"
  <2>1. /\ dirs' = [dirs EXCEPT ![n] = d] /\ pc' = [pc EXCEPT ![p] = step]
        /\ UNCHANGED <<job, calls, outcome, failures, kills, created>>
    BY <1>5 DEF MakeDirectory, NewDirectory, AfterMkdir, Goto, Stay
  <2>2. d \in Directory /\ d.owner = Tag(p) /\ d.files = NoFiles
    BY <1>2 DEF Directory, NoFiles
  <2>3. step \in {"register", "write"} /\ (step = "register" => job[p].op = "pair")
    OBVIOUS
  <2>4. job[p].written = 0 /\ n \in Names /\ d # None /\ \A f \in Files : d.files[f] = None
    BY <1>1, <1>2, <1>3, <2>2, ProfilesAssumption DEF OneInv, StepInv, ProfilesAssumption, NoFiles
  <2> HIDE DEF d, step
  <2>5. /\ dirs'[n] = d /\ pc'[p] = step /\ job'[p] = job[p] /\ Tag(p)' = Tag(p) /\ OnlyOwn(p)
        /\ outcome'[p] = outcome[p]
    BY <2>1, <2>4 DEF IInv, TypeInv, OnlyOwn, Tag
  <2>6. TypeInv'
    BY <1>1, <2>1, <2>2, <2>3, <2>4 DEF IInv, TypeInv, Steps, CreateSteps
  <2>7. StepInv(p)'
    BY <1>1, <1>2, <1>3, <2>3, <2>4, <2>5 DEF OneInv, StepInv, Creating, CreateSteps
  <2>8. OwnInv(p)'
    BY <2>2, <2>3, <2>4, <2>5 DEF OwnInv, FilesOf, NoFiles, Files
  <2>9. UndoInv(p)' /\ DefaultInv(p)' /\ ListInv(p)'
    BY <1>1, <1>2, <2>1, <2>3, <2>5 DEF OneInv, UndoInv, DefaultInv, ListInv
  <2>10. ~Loadable(n) /\ ~Loadable(n)'
    BY <1>5, <2>4, <2>5 DEF Loadable, Files
  <2>11. QED
    BY <1>1, <1>5, <2>1, <2>2, <2>4, <2>5, <2>6, <2>7, <2>8, <2>9, <2>10, DirectoryKeeps DEF OneInv
<1>6. QED
  BY <1>4, <1>5

\* The commands that take these steps import or pair.
LEMMA Making ==
    ASSUME IInv, NEW p \in Processes, pc[p] \in CreateSteps \ {"load", "replace"}
    PROVE  /\ Creating(p) /\ job[p].op \in {"import", "pair"} /\ job[p].name \in Names
           /\ job[p] \in Job /\ OneInv(p) /\ Tag(p) \in Tags
  BY Running DEF CreateSteps, Job, OneInv, StepInv, Creating

LEMMA LookUpDefaultKeeps ==
    ASSUME IInv, NEW p \in Processes, LookUpDefault(p)
    PROVE  IInv'
<1> DEFINE step == IF NeedsDefault(config) THEN "load" ELSE "complete"
<1>1. /\ pc[p] = "default" /\ Goto(p, step) /\ pc' = [pc EXCEPT ![p] = step]
      /\ UNCHANGED <<dirs, config, created, job, calls, outcome, failures, kills>>
      /\ step \in {"load", "complete"} /\ (step = "load" => config = None)
      /\ (step = "complete" => config # None)
  BY DEF LookUpDefault, Goto, Stay, disk, NeedsDefault
<1> HIDE DEF step
<1>2. pc'[p] = step /\ failures \in Nat /\ job'[p] = job[p]
  BY <1>1 DEF IInv, TypeInv
<1>3. Creating(p) /\ OneInv(p) /\ job[p].op \in {"import", "pair"} /\ job[p].name \in Names
  BY <1>1, Making DEF CreateSteps
<1>4. StepInv(p)'
  BY <1>1, <1>2, <1>3 DEF OneInv, StepInv, Creating, CreateSteps
<1>5. OwnInv(p)'
  BY <1>1, <1>2, <1>3 DEF OneInv, OwnInv, Owns, Creating, FilesOf, Done, Tag
<1>6. UndoInv(p)' /\ DefaultInv(p)'
  BY <1>1, <1>2, <1>3 DEF OneInv, UndoInv, DefaultInv, Creating
<1>7. QED
  BY <1>1, <1>2, <1>4, <1>5, <1>6, GoKeeps DEF Steps, CreateSteps

\* While a profile is being made its own part is complete: only a profile that
\* somebody else makes can fail to load here.
LEMMA LoadBeforeUseKeeps ==
    ASSUME IInv, NEW p \in Processes, LoadBeforeUse(p)
    PROVE  IInv'
<1>1. pc[p] = "load" /\ UNCHANGED <<dirs, config>> /\ OneInv(p) /\ job[p] \in Job
  BY Running DEF LoadBeforeUse, disk
<1>2. job[p].op \in {"import", "pair", "use"} /\ job[p].name \in Names
  BY <1>1, Running DEF Job, OneInv, StepInv, Creating
<1>3. CASE Loadable(job[p].name)
  <2>1. /\ Goto(p, "replace") /\ pc' = [pc EXCEPT ![p] = "replace"]
        /\ UNCHANGED <<job, calls, outcome, failures, kills, created>>
    BY <1>3 DEF LoadBeforeUse, Goto, Stay
  <2>2. pc'[p] = "replace" /\ failures \in Nat /\ Loadable(job[p].name)'
    BY <1>1, <1>3, <2>1 DEF IInv, TypeInv, Loadable
  <2>3. StepInv(p)'
    BY <1>1, <1>2, <2>1, <2>2 DEF OneInv, StepInv, Creating, CreateSteps
  <2>4. OwnInv(p)'
    BY <1>1, <2>1, <2>2 DEF OneInv, OwnInv, Owns, Creating, FilesOf, Done, Tag
  <2>5. UndoInv(p)' /\ DefaultInv(p)'
    BY <1>1, <2>1, <2>2 DEF OneInv, UndoInv, DefaultInv, Creating
  <2>6. QED
    BY <1>1, <2>1, <2>2, <2>3, <2>4, <2>5, GoKeeps DEF Steps, CreateSteps
<1>4. CASE ~Loadable(job[p].name)
  <2>1. ~Creating(p)
    <3> SUFFICES ASSUME Creating(p) PROVE FALSE
      OBVIOUS
    <3>1. /\ dirs[job[p].name] # None
          /\ dirs[job[p].name].files = [f \in Files |-> Done(p)]
      BY <1>1 DEF OneInv, OwnInv, Owns, FilesOf
    <3>2. dirs[job[p].name].files["profile"] = Done(p)
      BY <3>1 DEF Files
    <3>3. dirs[job[p].name] \in Directory /\ Done(p).whole
      BY <1>2, <3>1 DEF IInv, TypeInv, Done
    <3>4. Done(p) \in FileType
      BY <1>1, Running DEF Done, FileType
    <3>5. QED
      BY <1>4, <3>1, <3>2, <3>3, <3>4, ProfilesAssumption DEF Loadable, ProfilesAssumption
  <2>2. End(p, "failed") /\ UNCHANGED created
    BY <1>4, <2>1 DEF LoadBeforeUse
  <2>3. QED
    BY <1>1, <2>2, EndKeeps
<1>5. QED
  BY <1>3, <1>4

LEMMA ReadDirectoryKeeps ==
    ASSUME IInv, NEW p \in Processes, ReadDirectory(p)
    PROVE  IInv'
<1> DEFINE j == [job[p] EXCEPT !.left = {n \in Names : dirs[n] # None}]
<1>1. /\ pc[p] = "readdir" /\ pc' = [pc EXCEPT ![p] = "loadall"] /\ job' = [job EXCEPT ![p] = j]
      /\ UNCHANGED <<dirs, config, created, calls, outcome, failures, kills>>
  BY DEF ReadDirectory, Goto, Stay, disk
<1>2. job[p] \in Job /\ OneInv(p) /\ job[p] # None
  BY <1>1, Running
<1>3. job[p].op = "list"
  BY <1>1, <1>2 DEF Job, OneInv, StepInv, Creating, CreateSteps
<1>4. /\ j \in Job /\ j.left = {n \in Names : dirs[n] # None} /\ j.op = "list"
      /\ j.saw = job[p].saw /\ j.owed = job[p].owed
  BY <1>2, <1>3 DEF Job
<1>5. j # None
  BY <1>4, ProfilesAssumption DEF ProfilesAssumption
<1> HIDE DEF j
<1>6. TypeInv'
  BY <1>1, <1>4 DEF IInv, TypeInv, Steps
<1>7. pc'[p] = "loadall" /\ job'[p] = j /\ OnlyOwn(p) /\ outcome'[p] = outcome[p]
  BY <1>1 DEF IInv, TypeInv, OnlyOwn
<1>8. StepInv(p)' /\ OwnInv(p)' /\ UndoInv(p)' /\ DefaultInv(p)'
  BY <1>1, <1>2, <1>4, <1>5, <1>7 DEF OneInv, StepInv, OwnInv, Owns, Creating, UndoInv, DefaultInv
<1>9. ListInv(p)'
  <2>1. \A n \in job[p].owed : n \in Names /\ dirs[n] # None
    BY <1>1, <1>2 DEF OneInv, ListInv, IInv, TypeInv, CreatedInv
  <2>2. j.owed \subseteq j.left
    BY <2>1, <1>4
  <2>3. QED
    BY <1>1, <1>2, <1>4, <1>7, <2>2 DEF OneInv, ListInv
<1>10. calls'[p] = calls[p] /\ failures \in Nat /\ kills \in Nat
  BY <1>1 DEF IInv, TypeInv
<1>11. QED
  BY <1>1, <1>6, <1>7, <1>8, <1>9, <1>10, QuietKeeps DEF OneInv

LEMMA LoadNextKeeps ==
    ASSUME IInv, NEW p \in Processes, LoadNext(p)
    PROVE  IInv'
<1>1. pc[p] = "loadall" /\ UNCHANGED <<dirs, config>>
  BY DEF LoadNext, disk
<1>2. job[p] \in Job /\ OneInv(p) /\ job[p] # None
  BY <1>1, Running
<1>3. job[p].op = "list"
  BY <1>1, <1>2 DEF Job, OneInv, StepInv, Creating, CreateSteps
<1>4. job[p].owed \subseteq job[p].left \cup job[p].shown
  BY <1>1, <1>2 DEF OneInv, ListInv
<1>5. CASE job[p].left = {}
  <2>1. End(p, "ok") /\ UNCHANGED created
    BY <1>5 DEF LoadNext
  <2>2. job[p].owed \subseteq job[p].shown
    BY <1>4, <1>5
  <2>3. QED
    BY <1>1, <2>1, <2>2, EndKeeps
<1>6. ASSUME NEW n \in job[p].left, ~Loadable(n), End(p, "failed"), UNCHANGED created
      PROVE  IInv'
  BY <1>1, <1>6, EndKeeps
<1>7. ASSUME NEW n \in job[p].left, UNCHANGED pc, Stay,
             job' = [job EXCEPT ![p].left = @ \ {n}, ![p].shown = @ \cup {n}]
      PROVE  IInv'
  <2> DEFINE j == [job[p] EXCEPT !.left = @ \ {n}, !.shown = @ \cup {n}]
  <2>1. /\ job' = [job EXCEPT ![p] = j]
        /\ UNCHANGED <<dirs, config, created, pc, calls, outcome, failures, kills>>
    BY <1>1, <1>7 DEF Stay
  <2>2. /\ j \in Job /\ j.left = job[p].left \ {n} /\ j.shown = job[p].shown \cup {n}
        /\ j.op = "list" /\ j.saw = job[p].saw /\ j.owed = job[p].owed
    BY <1>2, <1>3 DEF Job
  <2>3. j # None
    BY <2>2, ProfilesAssumption DEF ProfilesAssumption
  <2> HIDE DEF j
  <2>4. TypeInv'
    BY <2>1, <2>2 DEF IInv, TypeInv
  <2>5. pc'[p] = "loadall" /\ job'[p] = j /\ OnlyOwn(p) /\ outcome'[p] = outcome[p]
    BY <1>1, <2>1 DEF IInv, TypeInv, OnlyOwn
  <2>6. StepInv(p)' /\ OwnInv(p)' /\ UndoInv(p)' /\ DefaultInv(p)'
    BY <1>1, <1>2, <2>1, <2>2, <2>3, <2>5
    DEF OneInv, StepInv, OwnInv, Owns, Creating, UndoInv, DefaultInv
  <2>7. ListInv(p)'
    <3>1. j.owed \subseteq j.left \cup j.shown
      BY <1>4, <2>2
    <3>2. QED
      BY <1>1, <1>2, <2>1, <2>2, <2>5, <3>1 DEF OneInv, ListInv
  <2>8. calls'[p] = calls[p] /\ failures \in Nat /\ kills \in Nat
    BY <2>1 DEF IInv, TypeInv
  <2>9. QED
    BY <1>1, <2>1, <2>4, <2>5, <2>6, <2>7, <2>8, QuietKeeps DEF OneInv
<1>8. QED
  BY <1>5, <1>6, <1>7 DEF LoadNext

LEMMA LoadCurrentKeeps ==
    ASSUME IInv, NEW p \in Processes, LoadCurrent(p)
    PROVE  IInv'
<1>1. /\ pc[p] = "show" /\ UNCHANGED <<dirs, config, created>>
      /\ End(p, IF Loadable(job[p].name) THEN "ok" ELSE "failed")
  BY DEF LoadCurrent, disk
<1>2. job[p].op # "list"
  BY <1>1, Running DEF OneInv, StepInv
<1>3. QED
  BY <1>1, <1>2, EndKeeps

LEMMA KillKeeps ==
    ASSUME IInv, NEW p \in Processes, Kill(p)
    PROVE  IInv'
<1>1. /\ pc[p] # "idle" /\ kills' = kills + 1 /\ pc' = [pc EXCEPT ![p] = "idle"]
      /\ job' = [job EXCEPT ![p] = None]
      /\ UNCHANGED <<dirs, config, created, calls, outcome, failures>>
  BY DEF Kill, Goto, disk
<1>2. /\ outcome' = [outcome EXCEPT ![p] = outcome[p]] /\ failures \in Nat /\ kills \in Nat
      /\ kills' \in Nat /\ kills' >= kills /\ kills' > 0 /\ failures' = failures
  BY <1>1 DEF IInv, TypeInv
<1>3. outcome[p] # None /\ outcome[p].op = "list" /\ outcome[p].result = "ok"
        => outcome[p].owed \subseteq outcome[p].shown
  BY DEF IInv, OneInv, ListInv
<1>4. failures' \in Nat /\ failures' >= failures
  BY <1>2
<1>5. UNCHANGED <<dirs, config, created, calls>>
  BY <1>1
<1>6. QED
  BY <1>1, <1>2, <1>3, <1>4, <1>5, StopKeeps

\* An import or pairing that has got through, whatever loading its profile once
\* more says: what it created is complete.
LEMMA CreateKeeps ==
    ASSUME IInv, NEW p \in Processes, NEW o, pc[p] = "complete",
           pc' = [pc EXCEPT ![p] = "idle"], job' = [job EXCEPT ![p] = None],
           outcome' = [outcome EXCEPT ![p] = o], o # None => o.op # "list",
           created' = created \cup {<<job[p].name, Tag(p)>>},
           UNCHANGED <<dirs, config, calls, kills>>, failures' \in Nat, failures' >= failures
    PROVE  IInv'
<1>1. Creating(p) /\ OneInv(p) /\ job[p].name \in Names /\ Tag(p) \in Tags
  BY Making DEF CreateSteps
<1>2. TypeInv'
  BY <1>1 DEF IInv, TypeInv, Steps
<1>3. pc'[p] = "idle" /\ job'[p] = None /\ outcome'[p] = o /\ OnlyOwn(p)
  BY DEF IInv, TypeInv, OnlyOwn
<1>4. OneInv(p)'
  BY <1>3 DEF OneInv, StepInv, OwnInv, Owns, Creating, UndoInv, DefaultInv, ListInv
<1>5. \A n : Loadable(n)' <=> Loadable(n)
  BY DEF Loadable
<1>6. \A q \in Processes : OneInv(q)'
  BY <1>3, <1>4, <1>5, OthersKeep
<1>7. /\ dirs[job[p].name] # None /\ dirs[job[p].name].owner = Tag(p)
      /\ dirs[job[p].name].files = Whole(Tag(p)) /\ config # None
  BY <1>1 DEF OneInv, OwnInv, Owns, FilesOf, Whole, Done, DefaultInv
<1>8. CreatedInv'
  <2> SUFFICES ASSUME NEW c \in created'
               PROVE  /\ dirs[c[1]] # None /\ dirs[c[1]].owner = c[2] /\ dirs[c[1]].files = Whole(c[2])
                      /\ c[2][2] <= calls[c[2][1]]
                      /\ \A q \in Processes : pc'[q] # "idle" => <<q, calls[q]>> # c[2]
    BY DEF CreatedInv, Tag, Whole
  <2>1. CASE c \in created
    BY <2>1, <1>3 DEF IInv, CreatedInv, Tag, OnlyOwn
  <2>2. CASE c = <<job[p].name, Tag(p)>>
    <3>1. c[1] = job[p].name /\ c[2] = Tag(p) /\ c[2][1] = p /\ c[2][2] = calls[p] /\ calls[p] \in Nat
      BY <2>2 DEF Tag, IInv, TypeInv
    <3>2. \A q \in Processes : pc'[q] # "idle" => <<q, calls[q]>> # c[2]
      BY <3>1, <1>3 DEF Tag
    <3>3. QED
      BY <3>1, <3>2, <1>7
  <2>3. QED
    BY <2>1, <2>2
<1>9. KeyInv'
  <2> SUFFICES ASSUME NEW n \in Names, Loadable(n)
               PROVE  \/ dirs[n].files["key"] # None /\ dirs[n].files["key"].whole
                      \/ \E q \in Processes : pc'[q] = "undo" /\ job'[q].name = n
                      \/ failures' > 0 /\ kills' > 0
    BY <1>5 DEF KeyInv
  <2>1. failures \in Nat
    BY DEF IInv, TypeInv
  <2>2. QED
    BY <2>1, <1>3 DEF IInv, KeyInv, OnlyOwn
<1>10. DirInv' /\ DefaultIsUsable'
  <2>1. failures \in Nat
    BY DEF IInv, TypeInv
  <2>2. QED
    BY <2>1, <1>5, <1>7 DEF IInv, DirInv, DefaultIsUsable
<1>11. QED
  BY <1>2, <1>6, <1>8, <1>9, <1>10 DEF IInv

LEMMA CompleteKeeps ==
    ASSUME IInv, NEW p \in Processes, Complete(p)
    PROVE  IInv'
<1> DEFINE result == IF Loadable(job[p].name) THEN "ok" ELSE "failed"
           o == [op |-> job[p].op, result |-> result, shown |-> job[p].shown, owed |-> job[p].owed]
<1>1. /\ pc[p] = "complete" /\ pc' = [pc EXCEPT ![p] = "idle"] /\ job' = [job EXCEPT ![p] = None]
      /\ outcome' = [outcome EXCEPT ![p] = o]
      /\ created' = created \cup {<<job[p].name, Tag(p)>>}
      /\ UNCHANGED <<dirs, config, calls, failures, kills>>
  BY DEF Complete, End, Goto, disk
<1>2. o.op # "list"
  BY <1>1, Making DEF CreateSteps
<1>3. failures \in Nat
  BY DEF IInv, TypeInv
<1> HIDE DEF o
<1>4. failures' \in Nat /\ failures' >= failures
  BY <1>1, <1>3
<1>5. UNCHANGED <<dirs, config, calls, kills>>
  BY <1>1
<1>6. QED
  BY <1>1, <1>2, <1>4, <1>5, CreateKeeps

LEMMA FailKeeps ==
    ASSUME IInv, NEW p \in Processes, Fail(p)
    PROVE  IInv'
<1>1. /\ pc[p] \notin {"idle", "undo"} /\ failures' = failures + 1
      /\ UNCHANGED <<dirs, config, calls, kills>>
  BY DEF Fail, disk
<1>2. failures \in Nat /\ failures' \in Nat /\ failures' >= failures /\ failures' > 0
      /\ kills \in Nat /\ kills' \in Nat /\ kills' >= kills
  BY <1>1 DEF IInv, TypeInv
<1>3. CASE Owns(p) /\ pc[p] # "complete"
  <2>1. Goto(p, "undo") /\ pc' = [pc EXCEPT ![p] = "undo"] /\ UNCHANGED <<job, outcome, created>>
    BY <1>3 DEF Fail, Goto
  <2>2. pc'[p] = "undo" /\ OneInv(p)
    BY <2>1 DEF IInv, TypeInv
  <2>3. job[p].name \in Names /\ job[p] # None
    BY <1>1, <1>3, Running DEF Owns, Creating
  <2>4. StepInv(p)'
    BY <1>1, <1>3, <2>1, <2>2, <2>3 DEF OneInv, StepInv, Owns, Creating, CreateSteps
  <2>5. OwnInv(p)'
    BY <1>1, <1>3, <2>1, <2>2 DEF OneInv, OwnInv, Owns, Creating, Tag
  <2>6. UndoInv(p)' /\ DefaultInv(p)'
    BY <1>1, <1>2, <1>3, <2>1, <2>2 DEF OneInv, UndoInv, DefaultInv, Owns, Creating
  <2>7. UNCHANGED <<dirs, config, created, job, calls, outcome, kills>>
    BY <1>1, <2>1
  <2>8. QED
    BY <1>1, <1>2, <2>1, <2>4, <2>5, <2>6, <2>7, GoKeeps DEF Steps, CreateSteps
<1>4. CASE ~(Owns(p) /\ pc[p] # "complete")
  <2> DEFINE o == [op |-> job[p].op, result |-> "failed", shown |-> {}, owed |-> {}]
  <2>1. /\ pc' = [pc EXCEPT ![p] = "idle"] /\ job' = [job EXCEPT ![p] = None]
        /\ outcome' = [outcome EXCEPT ![p] = o]
        /\ created' = IF pc[p] = "complete" THEN created \cup {<<job[p].name, Tag(p)>>} ELSE created
    BY <1>4 DEF Fail, Goto
  <2>2. o.op = job[p].op /\ o.result # "ok"
    OBVIOUS
  <2> HIDE DEF o
  <2>3. CASE pc[p] = "complete"
    <3>1. o.op # "list"
      BY <2>2, <2>3, Making DEF CreateSteps
    <3>2. created' = created \cup {<<job[p].name, Tag(p)>>} /\ UNCHANGED <<dirs, config, calls, kills>>
      BY <1>1, <2>1, <2>3
    <3>3. QED
      BY <1>2, <2>1, <2>3, <3>1, <3>2, CreateKeeps
  <2>4. CASE pc[p] # "complete"
    <3>1. UNCHANGED <<dirs, config, created, calls>>
      BY <1>1, <2>1, <2>4
    <3>2. QED
      BY <1>1, <1>2, <2>1, <2>2, <3>1, StopKeeps
  <2>5. QED
    BY <2>3, <2>4
<1>5. QED
  BY <1>3, <1>4

LEMMA ReplaceConfigKeeps ==
    ASSUME IInv, NEW p \in Processes, ReplaceConfig(p)
    PROVE  IInv'
<1>1. /\ pc[p] = "replace" /\ config' = job[p].name
      /\ UNCHANGED <<dirs, created, calls, failures, kills>>
  BY DEF ReplaceConfig, End
<1>2. OneInv(p) /\ job[p] \in Job /\ job[p] # None
  BY <1>1, Running
<1>3. job[p].op \in {"import", "pair", "use"} /\ job[p].name \in Names /\ config' # None
  BY <1>1, <1>2, Running, ProfilesAssumption
  DEF Job, OneInv, StepInv, Creating, CreateSteps, ProfilesAssumption
<1>4. TypeInv' /\ OnlyOwn(p) /\ OneInv(p)' /\ (pc'[p] # "idle" => pc[p] # "idle") /\ pc[p] # "undo"
  <2>1. CASE Creating(p)
    <3>1. pc' = [pc EXCEPT ![p] = "complete"] /\ UNCHANGED <<job, outcome>>
      BY <1>1, <2>1 DEF ReplaceConfig, Goto
    <3>2. TypeInv'
      BY <1>1, <1>3, <3>1 DEF IInv, TypeInv, Steps, CreateSteps
    <3>3. pc'[p] = "complete" /\ OnlyOwn(p)
      BY <1>1, <3>1 DEF IInv, TypeInv, OnlyOwn
    <3>4. StepInv(p)'
      BY <1>1, <1>2, <2>1, <3>1, <3>3 DEF OneInv, StepInv, Creating, CreateSteps
    <3>5. OwnInv(p)'
      BY <1>1, <1>2, <2>1, <3>1, <3>3 DEF OneInv, OwnInv, Owns, Creating, FilesOf, Done, Tag
    <3>6. UndoInv(p)' /\ DefaultInv(p)' /\ ListInv(p)'
      BY <1>1, <1>2, <1>3, <3>1, <3>3 DEF OneInv, UndoInv, DefaultInv, ListInv
    <3>7. QED
      BY <1>1, <3>2, <3>3, <3>4, <3>5, <3>6 DEF OneInv
  <2>2. CASE ~Creating(p)
    <3> DEFINE o == [op |-> job[p].op, result |-> "ok", shown |-> job[p].shown, owed |-> job[p].owed]
    <3>1. /\ pc' = [pc EXCEPT ![p] = "idle"] /\ job' = [job EXCEPT ![p] = None]
          /\ outcome' = [outcome EXCEPT ![p] = o]
      BY <1>1, <2>2 DEF ReplaceConfig, End, Goto
    <3>2. o.op # "list"
      BY <1>3
    <3> HIDE DEF o
    <3>3. TypeInv'
      BY <1>1, <1>3, <3>1 DEF IInv, TypeInv, Steps
    <3>4. pc'[p] = "idle" /\ job'[p] = None /\ outcome'[p] = o /\ OnlyOwn(p)
      BY <1>1, <3>1 DEF IInv, TypeInv, OnlyOwn
    <3>5. OneInv(p)'
      BY <3>2, <3>4 DEF OneInv, StepInv, OwnInv, Owns, Creating, UndoInv, DefaultInv, ListInv
    <3>6. QED
      BY <1>1, <3>3, <3>4, <3>5
  <2>3. QED
    BY <2>1, <2>2
<1>5. \A n : Loadable(n)' <=> Loadable(n)
  BY <1>1 DEF Loadable
<1>6. \A q \in Processes : OneInv(q)'
  <2>1. failures' \in Nat /\ failures' >= failures /\ created \subseteq created'
    BY <1>1 DEF IInv, TypeInv
  <2>2. QED
    BY <2>1, <1>1, <1>3, <1>4, <1>5, OthersKeep
<1>7. CreatedInv'
  BY <1>1, <1>4, CreatedStay
<1>8. KeyInv'
  BY <1>1, <1>4, <1>5 DEF IInv, KeyInv, OnlyOwn
<1>9. DirInv' /\ DefaultIsUsable'
  BY <1>1, <1>2, <1>3, <1>5 DEF IInv, DirInv, DefaultIsUsable, OneInv, DefaultInv
<1>10. QED
  BY <1>4, <1>6, <1>7, <1>8, <1>9 DEF IInv

\* What Put writes: one file of the command's own directory.
LEMMA PutWrites ==
    ASSUME IInv, NEW p \in Processes, NEW whole \in BOOLEAN, Put(p, whole),
           pc[p] \in {"write", "fill"}
    PROVE  \E d \in Directory :
              /\ dirs' = [dirs EXCEPT ![job[p].name] = d] /\ d # None
              /\ d.owner = Tag(p) /\ d.files[Writes(p)] = [by |-> Tag(p), whole |-> whole]
              /\ \A f \in Files \ {Writes(p)} : d.files[f] = FilesOf(p)[f]
<1> DEFINE n == job[p].name
           f == [by |-> Tag(p), whole |-> whole]
           d == [dirs[n] EXCEPT !.files[Writes(p)] = f]
<1>1. Creating(p) /\ OneInv(p) /\ n \in Names /\ Tag(p) \in Tags
  BY Making DEF CreateSteps
<1>2. dirs[n] # None /\ dirs[n].owner = Tag(p) /\ job[p].written \in {0, 1}
  BY <1>1 DEF OneInv, OwnInv, Owns
<1>3. Writes(p) \in Files
  BY <1>2 DEF Writes, WriteOrder, Files
<1>4. dirs[n] \in Directory /\ dirs \in [Names -> Directory \cup {None}]
  BY <1>1, <1>2 DEF IInv, TypeInv
<1>5. f \in FileType
  BY <1>1 DEF FileType
<1> HIDE DEF f
<1>6. /\ d \in Directory /\ d.owner = Tag(p) /\ d.files[Writes(p)] = f
      /\ \A g \in Files \ {Writes(p)} : d.files[g] = dirs[n].files[g]
  BY <1>2, <1>3, <1>4, <1>5 DEF Directory
<1>7. d # None
  BY <1>6, ProfilesAssumption DEF ProfilesAssumption
<1>8. dirs' = [dirs EXCEPT ![n] = d]
  <2>1. dirs' = [m \in Names |-> IF m = n /\ dirs[m] # None THEN [dirs[m] EXCEPT !.files[Writes(p)] = f]
                                 ELSE dirs[m]]
    BY DEF Put, f
  <2> HIDE DEF d, n
  <2>2. d = [dirs[n] EXCEPT !.files[Writes(p)] = f]
    BY DEF d
  <2>3. QED
    BY <1>2, <1>4, <2>1, <2>2
<1>9. QED
  BY <1>6, <1>7, <1>8 DEF FilesOf, f

\* A file of the type of files is not the absence of one.
LEMMA FilesAreThere ==
    ASSUME IInv, NEW p \in Processes, pc[p] # "idle", NEW whole \in BOOLEAN
    PROVE  [by |-> Tag(p), whole |-> whole] \in FileType /\ [by |-> Tag(p), whole |-> whole] # None
<1>1. [by |-> Tag(p), whole |-> whole] \in FileType
  BY Running DEF FileType
<1>2. QED
  BY <1>1, ProfilesAssumption DEF ProfilesAssumption

LEMMA CreateFileKeeps ==
    ASSUME IInv, NEW p \in Processes, CreateFile(p)
    PROVE  IInv'
<1>1. pc[p] = "write" /\ UNCHANGED <<config, job, calls, outcome, failures, kills, created>>
  BY DEF CreateFile, Stay
<1>2. Creating(p) /\ OneInv(p) /\ job[p].name \in Names /\ Tag(p) \in Tags /\ Owns(p)
  BY <1>1, Making DEF CreateSteps, Owns
<1>3. /\ dirs[job[p].name] # None /\ dirs[job[p].name].owner = Tag(p)
      /\ job[p].written \in {0, 1} /\ FilesOf(p)["profile"] = None
      /\ job[p].written = 0 => FilesOf(p)["key"] = None
      /\ job[p].written = 1 => FilesOf(p)["key"] = Done(p)
  BY <1>1, <1>2 DEF OneInv, OwnInv
<1>4. Writes(p) = IF job[p].written = 0 THEN "key" ELSE "profile"
  BY <1>3 DEF Writes, WriteOrder
<1>5. Put(p, FALSE) /\ pc' = [pc EXCEPT ![p] = "fill"]
  BY <1>3, <1>4 DEF CreateFile, FilesOf, Goto
<1>6. PICK d \in Directory :
              /\ dirs' = [dirs EXCEPT ![job[p].name] = d] /\ d # None
              /\ d.owner = Tag(p) /\ d.files[Writes(p)] = [by |-> Tag(p), whole |-> FALSE]
              /\ \A f \in Files \ {Writes(p)} : d.files[f] = FilesOf(p)[f]
  BY <1>1, <1>5, PutWrites
<1>7. d.files[Writes(p)] # None /\ d.files[Writes(p)].by = d.owner /\ ~d.files[Writes(p)].whole
  <2>1. [by |-> Tag(p), whole |-> FALSE] # None
    BY <1>1, FilesAreThere
  <2>2. QED
    BY <2>1, <1>6
<1>8. /\ dirs'[job[p].name] = d /\ pc'[p] = "fill" /\ Tag(p)' = Tag(p) /\ Writes(p)' = Writes(p)
      /\ job'[p] = job[p] /\ outcome'[p] = outcome[p] /\ OnlyOwn(p)
  BY <1>1, <1>2, <1>5, <1>6 DEF IInv, TypeInv, OnlyOwn, Tag, Writes
<1>9. TypeInv'
  BY <1>1, <1>2, <1>5, <1>6 DEF IInv, TypeInv, Steps, CreateSteps
<1>10. StepInv(p)'
  BY <1>1, <1>2, <1>8 DEF OneInv, StepInv, Creating, CreateSteps
<1>11. OwnInv(p)'
  BY <1>3, <1>4, <1>6, <1>7, <1>8 DEF OwnInv, FilesOf, Done, Files
<1>12. UndoInv(p)' /\ DefaultInv(p)' /\ ListInv(p)'
  BY <1>1, <1>2, <1>8 DEF OneInv, UndoInv, DefaultInv, ListInv
<1>13. ~Loadable(job[p].name)
  BY <1>3 DEF Loadable, FilesOf
<1>14. ~Loadable(job[p].name)'
  BY <1>3, <1>4, <1>6, <1>7, <1>8 DEF Loadable, Files
<1>15. \A f \in Files : d.files[f] # None => d.files[f].by = d.owner
  BY <1>2, <1>3, <1>6, <1>7 DEF IInv, DirInv, FilesOf
<1>16. OneInv(p)' /\ pc[p] # "undo"
  BY <1>1, <1>10, <1>11, <1>12 DEF OneInv
<1>17. UNCHANGED <<config, created, calls, failures, kills>>
  BY <1>1
<1>18. QED
  BY <1>1, <1>2, <1>6, <1>8, <1>9, <1>13, <1>14, <1>15, <1>16, <1>17, DirectoryKeeps

LEMMA FillFileKeeps ==
    ASSUME IInv, NEW p \in Processes, FillFile(p)
    PROVE  IInv'
<1> DEFINE j == [job[p] EXCEPT !.written = @ + 1]
           step == IF job[p].written + 1 = Len(WriteOrder) THEN "default" ELSE "write"
<1>1. /\ pc[p] = "fill" /\ Put(p, TRUE) /\ UNCHANGED <<config, calls, outcome, failures, kills, created>>
      /\ job' = [job EXCEPT ![p] = j] /\ pc' = [pc EXCEPT ![p] = step]
  BY DEF FillFile, Stay, Goto
<1>2. Creating(p) /\ OneInv(p) /\ job[p].name \in Names /\ Tag(p) \in Tags /\ Owns(p) /\ job[p] \in Job
  BY <1>1, Making DEF CreateSteps, Owns
<1>3. /\ dirs[job[p].name] # None /\ dirs[job[p].name].owner = Tag(p)
      /\ job[p].written \in {0, 1} /\ FilesOf(p)[Writes(p)] # None
      /\ job[p].written = 0 => FilesOf(p)["profile"] = None
      /\ job[p].written = 1 => FilesOf(p)["key"] = Done(p)
  BY <1>1, <1>2 DEF OneInv, OwnInv
<1>4. Writes(p) = IF job[p].written = 0 THEN "key" ELSE "profile"
  BY <1>3 DEF Writes, WriteOrder
<1>5. step = IF job[p].written = 0 THEN "write" ELSE "default"
  BY <1>3 DEF WriteOrder
<1>6. /\ j \in Job /\ j.op = job[p].op /\ j.name = job[p].name /\ j.written = job[p].written + 1
      /\ j.saw = job[p].saw /\ j.owed = job[p].owed
  BY <1>2 DEF Job
<1>7. j # None
  BY <1>6, ProfilesAssumption DEF ProfilesAssumption
<1> HIDE DEF j, step
<1>8. PICK d \in Directory :
              /\ dirs' = [dirs EXCEPT ![job[p].name] = d] /\ d # None
              /\ d.owner = Tag(p) /\ d.files[Writes(p)] = [by |-> Tag(p), whole |-> TRUE]
              /\ \A f \in Files \ {Writes(p)} : d.files[f] = FilesOf(p)[f]
  BY <1>1, PutWrites
<1>9. d.files[Writes(p)] # None /\ d.files[Writes(p)] = Done(p) /\ d.files[Writes(p)].by = d.owner
      /\ Done(p) # None /\ Done(p).whole
  <2>1. Done(p) # None
    BY <1>1, FilesAreThere DEF Done
  <2>2. QED
    BY <2>1, <1>8 DEF Done
<1>10. /\ dirs'[job[p].name] = d /\ pc'[p] = step /\ Tag(p)' = Tag(p) /\ Done(p)' = Done(p)
       /\ job'[p] = j /\ outcome'[p] = outcome[p] /\ OnlyOwn(p)
  BY <1>1, <1>2, <1>8 DEF IInv, TypeInv, OnlyOwn, Tag, Done
<1>11. TypeInv'
  BY <1>1, <1>2, <1>5, <1>6, <1>8 DEF IInv, TypeInv, Steps, CreateSteps
<1>12. StepInv(p)'
  BY <1>1, <1>2, <1>5, <1>6, <1>7, <1>10 DEF OneInv, StepInv, Creating, CreateSteps
<1>13. OwnInv(p)'
  <2>1. /\ dirs'[job'[p].name] = d /\ d # None /\ d.owner = Tag(p)'
        /\ pc'[p] = "write" \/ pc'[p] = "default"
    BY <1>5, <1>6, <1>8, <1>10
  <2>2. CASE job[p].written = 0
    <3>1. pc'[p] = "write" /\ job'[p].written = 1
      BY <2>2, <1>5, <1>6, <1>10
    <3>2. d.files["profile"] = None /\ d.files["key"] = Done(p)'
      BY <2>2, <1>3, <1>4, <1>8, <1>9, <1>10 DEF Files
    <3>3. QED
      BY <2>1, <3>1, <3>2 DEF OwnInv, FilesOf
  <2>3. CASE job[p].written = 1
    <3>1. pc'[p] = "default"
      BY <2>3, <1>5, <1>10
    <3>2. d.files["profile"] = Done(p)' /\ d.files["key"] = Done(p)'
      BY <2>3, <1>3, <1>4, <1>8, <1>9, <1>10 DEF Files
    <3>3. d.files = [f \in Files |-> Done(p)']
      BY <3>2 DEF Directory, Files
    <3>4. QED
      BY <2>1, <3>1, <3>3 DEF OwnInv, FilesOf
  <2>4. QED
    BY <1>3, <2>2, <2>3
<1>14. UndoInv(p)' /\ DefaultInv(p)' /\ ListInv(p)'
  BY <1>1, <1>2, <1>5, <1>6, <1>10 DEF OneInv, UndoInv, DefaultInv, ListInv
<1>15. PICK n \in Names : n = job[p].name
  BY <1>2
<1>16. /\ Loadable(n) => Loadable(n)'
       /\ Loadable(n)' => d.files["key"] # None /\ d.files["key"].whole
  <2>1. /\ dirs'[n] = d /\ d # None /\ dirs[n] = dirs[job[p].name] /\ dirs[n].files = FilesOf(p)
    BY <1>8, <1>10, <1>15 DEF FilesOf
  <2>2. CASE job[p].written = 0
    <3>1. ~Loadable(n) /\ d.files["key"] = Done(p)
      BY <2>1, <2>2, <1>3, <1>4, <1>9 DEF Loadable
    <3>2. QED
      BY <3>1, <1>9
  <2>3. CASE job[p].written = 1
    <3>1. d.files["profile"] = Done(p) /\ d.files["key"] = Done(p)
      BY <2>3, <1>3, <1>4, <1>8, <1>9 DEF Files
    <3>2. QED
      BY <2>1, <3>1, <1>9 DEF Loadable
  <2>4. QED
    BY <1>3, <2>2, <2>3
<1>17. \A f \in Files : d.files[f] # None => d.files[f].by = d.owner
  BY <1>2, <1>3, <1>8, <1>9 DEF IInv, DirInv, FilesOf
<1>18. OneInv(p)' /\ pc[p] # "undo" /\ pc[p] # "idle"
  BY <1>1, <1>12, <1>13, <1>14 DEF OneInv
<1>19. UNCHANGED <<config, created, calls, failures, kills>>
  BY <1>1
<1>20. dirs' = [dirs EXCEPT ![n] = d] /\ (dirs[n] = None \/ (Owns(p) /\ n = job[p].name))
  BY <1>2, <1>8, <1>15
<1>21. OnlyOwn(p) /\ d \in Directory \cup {None}
  BY <1>10
<1>22. QED
  BY <1>11, <1>16, <1>17, <1>18, <1>19, <1>20, <1>21, DirectoryKeeps

LEMMA RemoveFileKeeps ==
    ASSUME IInv, NEW p \in Processes, RemoveFile(p)
    PROVE  IInv'
<1>1. /\ pc[p] = "undo" /\ dirs[job[p].name] # None
      /\ UNCHANGED <<config, pc, job, calls, outcome, failures, kills, created>>
  BY DEF RemoveFile, Stay
<1>2. Creating(p) /\ OneInv(p) /\ job[p].name \in Names /\ Owns(p) /\ failures > 0 /\ failures \in Nat
  BY <1>1, Making DEF CreateSteps, Owns, OneInv, UndoInv, IInv, TypeInv
<1>3. PICK g \in Files : dirs' = [dirs EXCEPT ![job[p].name].files[g] = None]
  BY DEF RemoveFile
<1> DEFINE d == [dirs[job[p].name] EXCEPT !.files[g] = None]
<1>4. dirs[job[p].name] \in Directory /\ dirs[job[p].name].owner = Tag(p)
  BY <1>1, <1>2 DEF IInv, TypeInv, OneInv, OwnInv
<1>5. /\ d \in Directory /\ d.owner = Tag(p)
      /\ \A f \in Files : d.files[f] # None => d.files[f] = dirs[job[p].name].files[f]
  BY <1>4 DEF Directory
<1>6. d # None
  BY <1>5, ProfilesAssumption DEF ProfilesAssumption
<1>7. dirs' = [dirs EXCEPT ![job[p].name] = d]
  BY <1>3
<1> HIDE DEF d
<1>8. dirs'[job[p].name] = d /\ OnlyOwn(p)
  BY <1>1, <1>2, <1>7 DEF IInv, TypeInv, OnlyOwn
<1>9. TypeInv'
  BY <1>1, <1>2, <1>5, <1>7 DEF IInv, TypeInv
<1>10. StepInv(p)' /\ UndoInv(p)' /\ DefaultInv(p)' /\ ListInv(p)'
  BY <1>1, <1>2 DEF OneInv, StepInv, Creating, UndoInv, DefaultInv, ListInv
<1>11. OwnInv(p)'
  BY <1>1, <1>5, <1>6, <1>8 DEF OwnInv, Tag
<1>12. \A f \in Files : d.files[f] # None => d.files[f].by = d.owner
  BY <1>1, <1>2, <1>4, <1>5 DEF IInv, DirInv
<1>13. OneInv(p)'
  BY <1>10, <1>11 DEF OneInv
<1>14. UNCHANGED <<config, created, calls, failures, kills>> /\ pc'[p] = "undo" /\ job'[p] = job[p]
  BY <1>1
<1>15. PICK n \in Names : n = job[p].name
  BY <1>2
<1>16. dirs' = [dirs EXCEPT ![n] = d] /\ job'[p].name = n /\ Owns(p) /\ failures # 0
  BY <1>2, <1>7, <1>14, <1>15
<1>17. OnlyOwn(p) /\ d \in Directory \cup {None}
  BY <1>5, <1>8
<1>18. Loadable(n)' => pc'[p] = "undo" /\ job'[p].name = n
  BY <1>14, <1>16
<1>19. (pc'[p] # "idle" => pc[p] # "idle") /\ (failures = 0 /\ Loadable(n) => Loadable(n)')
  BY <1>1, <1>16
<1>20. QED
  BY <1>9, <1>12, <1>13, <1>14, <1>16, <1>17, <1>18, <1>19, DirectoryKeeps

LEMMA RemoveDirectoryKeeps ==
    ASSUME IInv, NEW p \in Processes, RemoveDirectory(p)
    PROVE  IInv'
<1> DEFINE o == [op |-> job[p].op, result |-> "failed", shown |-> job[p].shown, owed |-> job[p].owed]
<1>1. /\ pc[p] = "undo" /\ dirs' = [dirs EXCEPT ![job[p].name] = None]
      /\ pc' = [pc EXCEPT ![p] = "idle"] /\ job' = [job EXCEPT ![p] = None]
      /\ outcome' = [outcome EXCEPT ![p] = o]
      /\ UNCHANGED <<config, calls, failures, kills, created>>
  BY DEF RemoveDirectory, End, Goto
<1>2. o.result # "ok"
  OBVIOUS
<1> HIDE DEF o
<1>3. Creating(p) /\ OneInv(p) /\ job[p].name \in Names /\ Owns(p) /\ failures > 0 /\ failures \in Nat
  BY <1>1, Making DEF CreateSteps, Owns, OneInv, UndoInv, IInv, TypeInv
<1>4. TypeInv'
  BY <1>1, <1>3 DEF IInv, TypeInv, Steps
<1>5. pc'[p] = "idle" /\ job'[p] = None /\ outcome'[p] = o /\ OnlyOwn(p) /\ dirs'[job[p].name] = None
  BY <1>1, <1>3 DEF IInv, TypeInv, OnlyOwn
<1>6. OneInv(p)'
  BY <1>2, <1>5 DEF OneInv, StepInv, OwnInv, Owns, Creating, UndoInv, DefaultInv, ListInv
<1>7. PICK n \in Names : n = job[p].name
  BY <1>3
<1>8. ~Loadable(n)' /\ dirs' = [dirs EXCEPT ![n] = None] /\ failures # 0
  BY <1>1, <1>3, <1>5, <1>7 DEF Loadable
<1>9. UNCHANGED <<config, created, calls, failures, kills>>
  BY <1>1
<1>10. QED
  BY <1>3, <1>4, <1>5, <1>6, <1>7, <1>8, <1>9, DirectoryKeeps

-----------------------------------------------------------------------------
(* The invariant and what follows from it. *)

LEMMA InitKeeps == Init => IInv
<1> SUFFICES ASSUME Init PROVE IInv
  OBVIOUS
<1>1. TypeInv
  BY DEF Init, TypeInv, Steps
<1>2. DirInv /\ KeyInv /\ CreatedInv /\ DefaultIsUsable
  BY DEF Init, DirInv, KeyInv, Loadable, CreatedInv, DefaultIsUsable
<1>3. ASSUME NEW p \in Processes PROVE OneInv(p)
  BY <1>3 DEF Init, OneInv, StepInv, OwnInv, Owns, Creating, UndoInv, DefaultInv, ListInv
<1>4. QED
  BY <1>1, <1>2, <1>3 DEF IInv

LEMMA NextKeeps == IInv /\ Next => IInv'
<1> SUFFICES ASSUME IInv, NEW p \in Processes, Command(p) \/ Step(p) \/ Fail(p) \/ Kill(p)
             PROVE  IInv'
  BY DEF Next
<1>1. CASE Command(p)
  BY <1>1, CommandKeeps
<1>2. CASE Step(p)
  BY <1>2, MakeDirectoryKeeps, RegisterWithDeviceKeeps, CreateFileKeeps, FillFileKeeps,
     LookUpDefaultKeeps, CompleteKeeps, RemoveFileKeeps, RemoveDirectoryKeeps, LoadBeforeUseKeeps,
     ReplaceConfigKeeps, ReadDirectoryKeeps, LoadNextKeeps, LoadCurrentKeeps DEF Step
<1>3. CASE Fail(p) \/ Kill(p)
  BY <1>3, FailKeeps, KillKeeps
<1>4. QED
  BY <1>1, <1>2, <1>3

LEMMA StutterKeeps == IInv /\ UNCHANGED vars => IInv'
<1> SUFFICES ASSUME IInv, UNCHANGED vars PROVE IInv'
  OBVIOUS
<1>1. /\ UNCHANGED <<dirs, config, pc, job, calls, outcome, failures, kills, created>>
      /\ \A n : Loadable(n)' <=> Loadable(n)
  BY DEF vars, disk, process, Loadable
<1>2. TypeInv'
  BY <1>1 DEF IInv, TypeInv
<1>3. DirInv' /\ KeyInv' /\ DefaultIsUsable'
  BY <1>1 DEF IInv, DirInv, KeyInv, DefaultIsUsable
<1>4. CreatedInv'
  BY <1>1 DEF IInv, CreatedInv, Tag
<1>5. ASSUME NEW p \in Processes PROVE OneInv(p)'
  <2>1. OneInv(p)
    BY DEF IInv
  <2>2. StepInv(p)' /\ UndoInv(p)' /\ DefaultInv(p)' /\ ListInv(p)'
    BY <1>1, <2>1 DEF OneInv, StepInv, UndoInv, DefaultInv, ListInv, Creating
  <2>3. OwnInv(p)'
    BY <1>1, <2>1 DEF OneInv, OwnInv, Owns, Creating, FilesOf, Done, Tag, Writes
  <2>4. QED
    BY <2>2, <2>3 DEF OneInv
<1>6. QED
  BY <1>2, <1>3, <1>4, <1>5 DEF IInv

THEOREM Invariance == Spec => []IInv
<1>1. IInv /\ [Next]_vars => IInv'
  BY NextKeeps, StutterKeeps
<1>2. QED
  BY InitKeeps, <1>1, PTL DEF Spec

\* Nobody writes into a directory that another call has made: WriteNew only
\* ever creates files in the directory that Mkdir reserved for the same call.
THEOREM ProfilesStayApart == Spec => []ProfilesOK
<1>1. IInv => ProfilesOK
  BY DEF IInv, TypeInv, DirInv, OneInv, StepInv, ProfilesOK
<1>2. QED
  BY <1>1, Invariance, PTL

\* A profile that loads has its private key: the key is written first, and only
\* the removal after a failed step takes files away.
THEOREM KeysStayWithProfiles == Spec => []ProfileHasItsKey
<1>1. IInv => ProfileHasItsKey
  <2> SUFFICES ASSUME IInv, NEW n \in Names, Loadable(n), failures = 0 \/ kills = 0,
                      ~\E p \in Processes : pc[p] = "undo" /\ job[p].name = n
               PROVE  /\ dirs[n].files["key"] # None /\ dirs[n].files["key"].whole
                      /\ dirs[n].files["key"].by = dirs[n].files["profile"].by
    BY DEF ProfileHasItsKey
  <2>1. dirs[n].files["key"] # None /\ dirs[n].files["key"].whole
    BY DEF IInv, TypeInv, KeyInv
  <2>2. dirs[n].files["key"].by = dirs[n].owner /\ dirs[n].files["profile"].by = dirs[n].owner
    BY <2>1 DEF IInv, DirInv, Loadable, Files
  <2>3. QED
    BY <2>1, <2>2
<1>2. QED
  BY <1>1, Invariance, PTL

\* Once a profile has been created there is a default, and unless a step has
\* failed the default loads: Use loads the profile before it replaces config.json.
THEOREM TheDefaultIsUsable == Spec => []DefaultIsUsable
<1>1. IInv => DefaultIsUsable
  BY DEF IInv
<1>2. QED
  BY <1>1, Invariance, PTL

\* List gives up rather than leaving a profile out: what it shows contains every
\* profile that existed when it read the directory.
THEOREM SuccessfulListingsAreComplete == Spec => []ListingsAreComplete
<1>1. IInv => ListingsAreComplete
  BY DEF IInv, OneInv, ListInv, ListingsAreComplete
<1>2. QED
  BY <1>1, Invariance, PTL

\* What a step may do to a directory: make it where there is none, or change
\* that of the command that takes the step.
LEMMA StepsTouchOwnDirectory ==
    ASSUME IInv, [Next]_vars, NEW n \in Names, dirs'[n] # dirs[n]
    PROVE  dirs[n] = None \/ \E p \in Processes : Owns(p) /\ job[p].name = n
<1>1. PICK p \in Processes : Command(p) \/ Step(p) \/ Fail(p) \/ Kill(p)
  BY DEF Next, vars, disk
<1>2. CASE MakeDirectory(p)
  BY <1>2 DEF MakeDirectory, NewDirectory, End, IInv, TypeInv
<1>3. CASE CreateFile(p) \/ FillFile(p) \/ RemoveFile(p) \/ RemoveDirectory(p)
  <2>1. pc[p] \in {"write", "fill", "undo"}
    BY <1>3 DEF CreateFile, FillFile, RemoveFile, RemoveDirectory
  <2>2. Owns(p)
    BY <2>1, Making DEF CreateSteps, Owns
  <2>3. dirs'[n] = dirs[n] \/ n = job[p].name
    BY <1>3 DEF CreateFile, FillFile, RemoveFile, RemoveDirectory, Put, IInv, TypeInv
  <2>4. QED
    BY <2>2, <2>3
<1>4. CASE Command(p)
  BY <1>4 DEF Command, Create, UseProfile, ListProfiles, CurrentProfile, Begin, disk
<1>5. CASE \/ RegisterWithDevice(p) \/ LookUpDefault(p) \/ Complete(p) \/ LoadBeforeUse(p)
           \/ ReplaceConfig(p) \/ ReadDirectory(p) \/ LoadNext(p) \/ LoadCurrent(p)
  BY <1>5 DEF RegisterWithDevice, LookUpDefault, Complete, LoadBeforeUse, ReplaceConfig,
     ReadDirectory, LoadNext, LoadCurrent, disk
<1>6. CASE Fail(p) \/ Kill(p)
  BY <1>6 DEF Fail, Kill, disk
<1>7. QED
  BY <1>1, <1>2, <1>3, <1>4, <1>5, <1>6 DEF Step

\* "An existing profile is never overwritten": no step of any command changes or
\* removes a profile whose import or pairing got through.
THEOREM CreatedProfilesAreKept == Spec => CreatedProfilesStay
<1>1. IInv /\ [Next]_vars => \A c \in created : dirs'[c[1]] = dirs[c[1]]
  <2> SUFFICES ASSUME IInv, [Next]_vars, NEW c \in created, dirs'[c[1]] # dirs[c[1]]
               PROVE  FALSE
    OBVIOUS
  <2>1. c[1] \in Names /\ dirs[c[1]] # None
    BY DEF IInv, TypeInv, CreatedInv
  <2>2. PICK p \in Processes : Owns(p) /\ job[p].name = c[1]
    BY <2>1, StepsTouchOwnDirectory
  <2>3. QED
    BY <2>2, CreatedAreNotOwned
<1>2. QED
  BY <1>1, Invariance, PTL DEF Spec, CreatedProfilesStay

\* An import or pairing replaces config.json only if there was no default when it
\* began, however many commands run in between.
THEOREM TheDefaultIsKept == Spec => DefaultIsKept
<1>1. IInv => \A p \in Processes : Creating(p) /\ pc[p] = "replace" /\ pc'[p] = "complete"
                               => job[p].saw = None
  BY DEF IInv, OneInv, DefaultInv
<1>2. QED
  BY <1>1, Invariance, PTL DEF Spec, DefaultIsKept

\* "The command stops before contacting the device": Pair registers only from a
\* directory that it has made under the name it was given.
THEOREM DeviceIsContactedOnlyForReservedNames == Spec => DeviceIsContactedForOwnName
<1>1. IInv /\ [Next]_vars => \A i \in identities' \ identities :
          \E n \in Names : dirs[n] # None /\ dirs[n].owner = i
  <2> SUFFICES ASSUME IInv, [Next]_vars, NEW i \in identities', i \notin identities
               PROVE  \E n \in Names : dirs[n] # None /\ dirs[n].owner = i
    OBVIOUS
  <2>1. PICK p \in Processes : Command(p) \/ Step(p) \/ Fail(p) \/ Kill(p)
    BY DEF Next, vars
  <2>2. RegisterWithDevice(p)
    BY <2>1 DEF Command, Create, UseProfile, ListProfiles, CurrentProfile, Begin, Step, Fail, Kill,
       MakeDirectory, CreateFile, FillFile, RemoveFile, RemoveDirectory, LookUpDefault, Complete,
       LoadBeforeUse, ReplaceConfig, ReadDirectory, LoadNext, LoadCurrent
  <2>3. pc[p] = "register" /\ i = Tag(p)
    BY <2>2 DEF RegisterWithDevice
  <2>4. Owns(p) /\ OneInv(p) /\ job[p].name \in Names
    BY <2>3, Making DEF CreateSteps, Owns
  <2>5. QED
    BY <2>3, <2>4 DEF OneInv, OwnInv
<1>2. QED
  BY <1>1, Invariance, PTL DEF Spec, DeviceIsContactedForOwnName
=============================================================================
