--------------------------- MODULE ReferenceStore ---------------------------
(***************************************************************************)
(* The persistent object references (profiles/object_references.go) over   *)
(* the atomic file replacement (internal/atomicfile): threads of several   *)
(* processes give numbers to device objects through one file.              *)
(*                                                                         *)
(* Assign takes the mutex of its ObjectReferenceStore, then the advisory   *)
(* lock of the file, and then uses the store's cached copy of the file if  *)
(* the file still looks the same (inode, size, modification time).         *)
(* Candidates reads the file without any lock.  A process may be killed    *)
(* between any two steps.                                                  *)
(***************************************************************************)
EXTENDS Integers, FiniteSets, Sequences

CONSTANTS
    Threads, Stores,    \* a store is one ObjectReferenceStore of one process
    StoreOf,            \* the store a thread uses
    IDs, ValidIDs,      \* object IDs, and those the store accepts
    Batches,            \* the sequences of entries given to Assign
    Inodes,             \* inode numbers of the file system
    ClockSteps,         \* how far the file clock moves from write to write
    MaxNumber,          \* ^uint64(0), the number that is never handed out
    MaxSize,            \* maxObjectReferenceSize, the longest file that is read
    PowerLoss,          \* whether the machine may lose power
    MaxCalls, MaxCrashes,   \* bounds: calls per thread, crashes in all
    None

Types == {"document", "folder"}
Entry == [id : IDs, type : Types]
Record == [number : Nat, id : ValidIDs, type : Types]
State == [next : 0 .. MaxNumber, objects : SUBSET Record]
File == [inode : Inodes, mtime : Nat, whole : BOOLEAN, state : State]

ReferenceStoreAssumption ==
    /\ None \notin Threads /\ None \notin File /\ None \notin Nat
    /\ StoreOf \in [Threads -> Stores] /\ ValidIDs \subseteq IDs
    /\ Batches \subseteq Seq(Entry)
    /\ ClockSteps \subseteq Nat /\ MaxNumber \in Nat /\ MaxSize \in Nat /\ PowerLoss \in BOOLEAN
ASSUME ReferenceStoreAssumption

VARIABLES
    file,       \* the reference file, or None
    durable,    \* the file a power loss would leave behind
    clock,      \* the clock that stamps files
    flock,      \* the thread that holds the advisory lock, or None
    mutex,      \* the thread that holds a store's cacheMu, or None
    cache,      \* a store's cacheValid, cacheInfo and cacheState
    pc,         \* what a thread does next
    batch,      \* the entries its Assign was given
    position,   \* the next of them
    work,       \* its working copy of the file
    changed,    \* whether the working copy differs from the file
    temp,       \* its temporary file, or None
    result,     \* what its Assign will return
    answer,     \* what its last Candidates returned
    calls, crashes,
    issued      \* history: the <<number, id>> pairs Assign has returned

disk == <<file, durable, clock>>
locks == <<flock, mutex>>
bounds == <<calls, crashes>>
vars == <<disk, locks, cache, pc, batch, position, work, changed, temp,
          result, answer, bounds, issued>>

-----------------------------------------------------------------------------
(* The contents of the file. *)

Empty == [next |-> 0, objects |-> {}]
FileState == IF file = None THEN Empty ELSE file.state
Pairs(state) == {<<o.number, o.id>> : o \in state.objects}

\* validateObjectReferenceFile
WellFormed(state) ==
    /\ \A o \in state.objects : o.number < state.next
    /\ \A o, p \in state.objects : o.number = p.number \/ o.id = p.id => o = p

\* The encoding grows with every record, and a little with a longer type name.
RecordSize == 10
EncodedSize(state) ==
    RecordSize * Cardinality(state.objects)
        + Cardinality({o \in state.objects : o.type = "document"})

\* load: what cannot be read is an error.  save never looks at the limit.
Readable ==
    file # None => file.whole /\ WellFormed(file.state) /\ EncodedSize(file.state) <= MaxSize

InfoOf(f) == IF f = None THEN None
             ELSE [inode |-> f.inode, mtime |-> f.mtime, size |-> EncodedSize(f.state)]

NoCache == [valid |-> FALSE, info |-> None, state |-> Empty]
Dropped(c) == [valid |-> FALSE, info |-> c.info, state |-> c.state]

\* os.SameFile, size and modification time; or no file then and now.
SameFile_NoSize(info, f) ==
    IF f = None THEN info = None
    ELSE info # None /\ info.inode = f.inode /\ info.mtime = f.mtime
SameFile(info, f) ==
    IF f = None THEN info = None
    ELSE /\ info # None /\ info.inode = f.inode /\ info.mtime = f.mtime
         /\ info.size = EncodedSize(f.state)

-----------------------------------------------------------------------------
(* Assign, up to the loop. *)

At(t, step) == pc[t] = step
Goto(t, step) == pc' = [pc EXCEPT ![t] = step]

Call(t) ==
    /\ At(t, "idle") /\ calls[t] < MaxCalls
    /\ calls' = [calls EXCEPT ![t] = @ + 1]
    /\ \E b \in Batches : batch' = [batch EXCEPT ![t] = b]
    /\ answer' = [answer EXCEPT ![t] = None]
    /\ Goto(t, "mutex")
    /\ UNCHANGED <<disk, locks, cache, position, work, changed, temp, result, crashes, issued>>

LockCache(t) ==
    /\ At(t, "mutex") /\ mutex[StoreOf[t]] = None
    /\ mutex' = [mutex EXCEPT ![StoreOf[t]] = t]
    /\ Goto(t, "flock")
    /\ UNCHANGED <<disk, flock, cache, batch, position, work, changed, temp, result, answer, bounds, issued>>

Unlocked_Always == TRUE
Unlocked == flock = None

LockFile(t) ==
    /\ At(t, "flock") /\ Unlocked
    /\ flock' = t
    /\ Goto(t, "load")
    /\ UNCHANGED <<disk, mutex, cache, batch, position, work, changed, temp, result, answer, bounds, issued>>

\* The local variables of the calls that ended are gone.
Forget(ended) ==
    /\ batch' = [t \in Threads |-> IF t \in ended THEN << >> ELSE batch[t]]
    /\ position' = [t \in Threads |-> IF t \in ended THEN 1 ELSE position[t]]
    /\ work' = [t \in Threads |-> IF t \in ended THEN Empty ELSE work[t]]
    /\ changed' = [t \in Threads |-> IF t \in ended THEN FALSE ELSE changed[t]]
    /\ result' = [t \in Threads |-> IF t \in ended THEN {} ELSE result[t]]

\* The lock file cannot be opened or locked: only the mutex is given back.
LockFails_KeepsMutex(t) ==
    /\ At(t, "flock")
    /\ Forget({t}) /\ Goto(t, "idle")
    /\ UNCHANGED <<disk, locks, cache, temp, answer, bounds, issued>>
LockFails(t) ==
    /\ At(t, "flock")
    /\ mutex' = [mutex EXCEPT ![StoreOf[t]] = None]
    /\ Forget({t}) /\ Goto(t, "idle")
    /\ UNCHANGED <<disk, flock, cache, temp, answer, bounds, issued>>

\* loadCached.  The file cannot change in here: whoever replaces it holds the
\* lock.  Each of the system calls may fail.
LoadCached(t) ==
    LET c == cache[StoreOf[t]] IN
    /\ At(t, "load")
    /\ position' = [position EXCEPT ![t] = 1]
    /\ changed' = [changed EXCEPT ![t] = FALSE]
    /\ \/ /\ c.valid /\ SameFile(c.info, file)
          /\ work' = [work EXCEPT ![t] = c.state]
          /\ Goto(t, "entries")
       \/ /\ ~(c.valid /\ SameFile(c.info, file))
          /\ Readable
          /\ work' = [work EXCEPT ![t] = FileState]
          /\ Goto(t, "entries")
       \/ Goto(t, "failed") /\ UNCHANGED work
    /\ UNCHANGED <<disk, locks, cache, batch, temp, result, answer, bounds, issued>>

-----------------------------------------------------------------------------
(* The loop over the entries: one step per entry. *)

NextEntry(t) == batch[t][position[t]]
Known(t) == {o \in work[t].objects : o.id = NextEntry(t).id}

InLoop(t) == At(t, "entries") /\ position[t] <= Len(batch[t])

RejectEntry(t) ==
    /\ InLoop(t)
    /\ \/ NextEntry(t).id \notin ValidIDs
       \/ Known(t) = {} /\ work[t].next = MaxNumber
    /\ Goto(t, "failed")
    /\ UNCHANGED <<disk, locks, cache, batch, position, work, changed, temp, result, answer, bounds, issued>>

Retype(o, e) == IF o.id = e.id THEN [o EXCEPT !.type = e.type] ELSE o
Retyped(state, e) ==
    [next |-> state.next, objects |-> {Retype(o, e) : o \in state.objects}]

\* The working copy is a clone: the cache stays as it was.
KeepEntry_SharedWithCache(t) ==
    LET e == NextEntry(t) IN
    /\ InLoop(t) /\ e.id \in ValidIDs /\ Known(t) # {}
    /\ work' = [work EXCEPT ![t] = Retyped(@, e)]
    /\ cache' = [cache EXCEPT ![StoreOf[t]].state = Retyped(@, e)]
    /\ changed' = [changed EXCEPT ![t] = @ \/ \E o \in Known(t) : o.type # e.type]
    /\ position' = [position EXCEPT ![t] = @ + 1]
    /\ UNCHANGED <<disk, locks, pc, batch, temp, result, answer, bounds, issued>>
KeepEntry(t) ==
    LET e == NextEntry(t) IN
    /\ InLoop(t) /\ e.id \in ValidIDs /\ Known(t) # {}
    /\ work' = [work EXCEPT ![t] = Retyped(@, e)]
    /\ changed' = [changed EXCEPT ![t] = @ \/ \E o \in Known(t) : o.type # e.type]
    /\ position' = [position EXCEPT ![t] = @ + 1]
    /\ UNCHANGED <<disk, locks, cache, pc, batch, temp, result, answer, bounds, issued>>

\* The counter is a uint64.
Successor(n) == IF n = MaxNumber THEN 0 ELSE n + 1

Numbered(state, e) ==
    [next |-> Successor(state.next),
     objects |-> state.objects \cup {[number |-> state.next, id |-> e.id, type |-> e.type]}]

AddEntry(t) ==
    LET e == NextEntry(t) IN
    /\ InLoop(t) /\ e.id \in ValidIDs /\ Known(t) = {} /\ work[t].next # MaxNumber
    /\ work' = [work EXCEPT ![t] = Numbered(@, e)]
    /\ changed' = [changed EXCEPT ![t] = TRUE]
    /\ position' = [position EXCEPT ![t] = @ + 1]
    /\ UNCHANGED <<disk, locks, cache, pc, batch, temp, result, answer, bounds, issued>>

EndLoop(t) ==
    /\ At(t, "entries") /\ position[t] > Len(batch[t])
    /\ Goto(t, IF changed[t] THEN "create" ELSE "remember")
    /\ UNCHANGED <<disk, locks, cache, batch, position, work, changed, temp, result, answer, bounds, issued>>

-----------------------------------------------------------------------------
(* save: atomicfile.Replace creates a temporary file, fills and syncs it,  *)
(* and renames it over the old one.  Each of these may fail, and then the  *)
(* cache is dropped.                                                       *)

FreeInodes == Inodes \ (IF file = None THEN {} ELSE {file.inode})

CreateTemp_InPlace(t) ==
    /\ At(t, "create")
    /\ \E i \in Inodes, d \in ClockSteps :
          /\ clock' = clock + d
          /\ temp' = [temp EXCEPT ![t] = [inode |-> i, mtime |-> clock', whole |-> FALSE, state |-> work[t]]]
          /\ file' = [inode |-> i, mtime |-> clock', whole |-> FALSE, state |-> Empty]
    /\ Goto(t, "fill")
    /\ UNCHANGED <<durable, locks, cache, batch, position, work, changed, result, answer, bounds, issued>>
CreateTemp(t) ==
    /\ At(t, "create")
    /\ \E i \in FreeInodes, d \in ClockSteps :
          /\ clock' = clock + d
          /\ temp' = [temp EXCEPT ![t] = [inode |-> i, mtime |-> clock', whole |-> FALSE, state |-> work[t]]]
    /\ Goto(t, "fill")
    /\ UNCHANGED <<file, durable, locks, cache, batch, position, work, changed, result, answer, bounds, issued>>

FillTemp(t) ==
    /\ At(t, "fill")
    /\ temp' = [temp EXCEPT ![t] = [inode |-> @.inode, mtime |-> @.mtime, whole |-> TRUE, state |-> @.state]]
    /\ Goto(t, "rename")
    /\ UNCHANGED <<disk, locks, cache, batch, position, work, changed, result, answer, bounds, issued>>

Rename(t) ==
    /\ At(t, "rename")
    /\ file' = temp[t]
    /\ temp' = [temp EXCEPT ![t] = None]
    /\ Goto(t, "remember")
    /\ UNCHANGED <<durable, clock, locks, cache, batch, position, work, changed, result, answer, bounds, issued>>

SaveFails_Ignored(t) ==
    /\ pc[t] \in {"create", "fill", "rename"}
    /\ temp' = [temp EXCEPT ![t] = None]
    /\ Goto(t, "remember")
    /\ UNCHANGED <<disk, locks, cache, batch, position, work, changed, result, answer, bounds, issued>>
SaveFails(t) ==
    /\ pc[t] \in {"create", "fill", "rename"}
    /\ temp' = [temp EXCEPT ![t] = None]
    /\ cache' = [cache EXCEPT ![StoreOf[t]] = Dropped(@)]
    /\ Goto(t, "failed")
    /\ UNCHANGED <<disk, locks, batch, position, work, changed, result, answer, bounds, issued>>

-----------------------------------------------------------------------------
(* The end of Assign. *)

Asked(t) == {batch[t][i].id : i \in DOMAIN batch[t]}

Cached(state) == [valid |-> TRUE, info |-> InfoOf(file), state |-> state]

\* remember stats the file again; if that fails the cache is dropped.
Remember(t) ==
    /\ At(t, "remember")
    /\ \E c \in {Cached(work[t]), Dropped(cache[StoreOf[t]])} :
          cache' = [cache EXCEPT ![StoreOf[t]] = c]
    /\ result' = [result EXCEPT ![t] = {o \in work[t].objects : o.id \in Asked(t)}]
    /\ Goto(t, "return")
    /\ UNCHANGED <<disk, locks, batch, position, work, changed, temp, answer, bounds, issued>>

\* The deferred calls give up the lock and then the mutex.
Release(t) ==
    /\ flock' = None
    /\ mutex' = [mutex EXCEPT ![StoreOf[t]] = None]

Return(t) ==
    /\ At(t, "return")
    /\ Release(t) /\ Forget({t}) /\ Goto(t, "idle")
    /\ issued' = issued \cup {<<o.number, o.id>> : o \in result[t]}
    /\ UNCHANGED <<disk, cache, temp, answer, bounds>>

ReturnError(t) ==
    /\ At(t, "failed")
    /\ Release(t) /\ Forget({t}) /\ Goto(t, "idle")
    /\ UNCHANGED <<disk, cache, temp, answer, bounds, issued>>

-----------------------------------------------------------------------------
(* Candidates looks a number up without any lock.  "told" is history: what *)
(* Assign had told callers about that number by then.                      *)

Candidates(t) ==
    /\ At(t, "idle") /\ calls[t] < MaxCalls
    /\ calls' = [calls EXCEPT ![t] = @ + 1]
    /\ \E n \in {p[1] : p \in issued} :
          answer' = [answer EXCEPT ![t] =
            [found |-> IF ~Readable THEN {}
                       ELSE {o.id : o \in {r \in FileState.objects : r.number = n}},
             told |-> {p[2] : p \in {q \in issued : q[1] = n}}]]
    /\ UNCHANGED <<disk, locks, cache, pc, batch, position, work, changed, temp, result, crashes, issued>>

-----------------------------------------------------------------------------
(* Crashes. *)

Users(s) == {t \in Threads : StoreOf[t] = s}

\* Its process dies: the kernel drops its locks, its memory is gone, and a
\* temporary file stays behind under a name nobody will use.
Die(gone) ==
    /\ flock' = IF flock # None /\ StoreOf[flock] \in gone THEN None ELSE flock
    /\ mutex' = [s \in Stores |-> IF s \in gone THEN None ELSE mutex[s]]
    /\ cache' = [s \in Stores |-> IF s \in gone THEN NoCache ELSE cache[s]]
    /\ pc' = [t \in Threads |-> IF StoreOf[t] \in gone THEN "idle" ELSE pc[t]]
    /\ temp' = [t \in Threads |-> IF StoreOf[t] \in gone THEN None ELSE temp[t]]
    /\ Forget(UNION {Users(s) : s \in gone})
    /\ UNCHANGED <<clock, answer, calls, issued>>

Crash(s) ==
    /\ crashes < MaxCrashes /\ crashes' = crashes + 1
    /\ Die({s})
    /\ UNCHANGED <<file, durable>>

\* The system writes the directory back when it likes: Replace syncs the
\* file, but not the directory that the rename changed.
Writeback ==
    /\ PowerLoss /\ durable # file
    /\ durable' = file
    /\ UNCHANGED <<file, clock, locks, cache, pc, batch, position, work, changed, temp,
                   result, answer, bounds, issued>>

LosePower ==
    /\ PowerLoss /\ crashes < MaxCrashes /\ crashes' = crashes + 1
    /\ Die(Stores)
    /\ file' = durable
    /\ UNCHANGED durable

-----------------------------------------------------------------------------

Init ==
    /\ file = None /\ durable = None /\ clock = 0
    /\ flock = None /\ mutex = [s \in Stores |-> None]
    /\ cache = [s \in Stores |-> NoCache]
    /\ pc = [t \in Threads |-> "idle"]
    /\ batch = [t \in Threads |-> << >>]
    /\ position = [t \in Threads |-> 1]
    /\ work = [t \in Threads |-> Empty]
    /\ changed = [t \in Threads |-> FALSE]
    /\ temp = [t \in Threads |-> None]
    /\ result = [t \in Threads |-> {}]
    /\ answer = [t \in Threads |-> None]
    /\ calls = [t \in Threads |-> 0] /\ crashes = 0
    /\ issued = {}

Progress(t) ==
    \/ LockCache(t) \/ LockFile(t) \/ LoadCached(t)
    \/ RejectEntry(t) \/ KeepEntry(t) \/ AddEntry(t) \/ EndLoop(t)
    \/ CreateTemp(t) \/ FillTemp(t) \/ Rename(t) \/ SaveFails(t)
    \/ Remember(t) \/ Return(t) \/ ReturnError(t)
Step(t) == Progress(t) \/ LockFails(t)

Next ==
    \/ \E t \in Threads : Call(t) \/ Step(t) \/ Candidates(t)
    \/ \E s \in Stores : Crash(s)
    \/ Writeback \/ LosePower

Spec == Init /\ [][Next]_vars

\* A thread inside Assign keeps running, and whoever waits for a lock that is
\* free gets it: only finitely many calls compete for it.  Nobody is owed the
\* failure that would end the wait for the lock.
Fairness == \A t \in Threads : WF_vars(Progress(t))
LiveSpec == Spec /\ Fairness

-----------------------------------------------------------------------------
(* Properties. *)

Locked == {"load", "entries", "create", "fill", "rename", "remember", "return", "failed"}
Steps == {"idle", "mutex", "flock"} \cup Locked

CacheTypeOK ==
    /\ cache = [s \in Stores |-> [valid |-> cache[s].valid, info |-> cache[s].info,
                                  state |-> cache[s].state]]
    /\ \A s \in Stores : /\ cache[s].valid \in BOOLEAN /\ cache[s].state \in State
                         /\ cache[s].info # None => cache[s].info.mtime \in Nat

TypeOK ==
    /\ file \in File \cup {None} /\ durable \in File \cup {None}
    /\ clock \in Nat
    /\ flock \in Threads \cup {None} /\ mutex \in [Stores -> Threads \cup {None}]
    /\ CacheTypeOK
    /\ pc \in [Threads -> Steps]
    /\ batch \in [Threads -> Seq(Entry)] /\ position \in [Threads -> Nat \ {0}]
    /\ work \in [Threads -> State] /\ changed \in [Threads -> BOOLEAN]
    /\ temp \in [Threads -> File \cup {None}]
    /\ \A t \in Threads : pc[t] \in {"fill", "rename"} => temp[t] # None
    /\ result \in [Threads -> SUBSET Record]
    /\ issued \subseteq Nat \X ValidIDs

\* docs/adr/0011: numbers increase monotonically and are never reused.  Among
\* everything that Assign ever returned, in any process, before or after any
\* crash, a number stands for one object and an object has one number.
NumbersNeverReused ==
    \A p, q \in issued : p[1] = q[1] <=> p[2] = q[2]

\* Whatever Assign has returned is in the file, so no later process can give
\* the number away again.
IssuedIsOnDisk ==
    issued \subseteq Pairs(FileState)

\* Anyone who opens the file, with or without the lock, finds a complete
\* encoding that validateObjectReferenceFile accepts.
FileIsValid ==
    file # None => file.whole /\ WellFormed(file.state)

\* What Assign is about to return, types included, is what the file says: a
\* call that failed half-way has left nothing behind in the cache.
ResultIsOnDisk ==
    \A t \in Threads : pc[t] = "return" => result[t] \subseteq FileState.objects

\* A number that a caller was told is found by Candidates, and found for the
\* object it was told, whatever other processes are writing meanwhile.
CandidatesFindWhatWasTold ==
    \A t \in Threads : answer[t] # None => answer[t].found = answer[t].told

\* Every Assign ends, even when a process that holds the lock is killed.
AssignEnds == \A t \in Threads : pc[t] # "idle" ~> pc[t] = "idle"

\* The store implements the number allocator.
Allocator == INSTANCE NumberAllocator WITH
    assigned <- Pairs(FileState), next <- FileState.next
AllocatorSpec == Allocator!AllocatorSpec

\* g is f with more objects, all of them numbered from f.next on.
Extends(f, g) ==
    /\ f.next <= g.next /\ Pairs(f) \subseteq Pairs(g)
    /\ \A p \in Pairs(g) \ Pairs(f) : f.next <= p[1]

\* A power loss takes the store back to a valid earlier state of itself, never
\* to one that was lost from it: the temporary file is synced before the rename.
PowerLossGoesBack ==
    /\ durable # None => durable.whole /\ WellFormed(durable.state)
    /\ Extends(IF durable = None THEN Empty ELSE durable.state, FileState)

-----------------------------------------------------------------------------
(* The inductive invariant behind the properties, for a clock that moves   *)
(* with every write.                                                       *)

\* Whoever is inside the critical section holds both locks.
LockInv ==
    /\ \A t \in Threads : pc[t] \in Locked <=> flock = t
    /\ \A t \in Threads : pc[t] \in Locked \cup {"flock"} <=> mutex[StoreOf[t]] = t

\* The file is valid, and a temporary file is younger and holds the working
\* copy of the thread that will rename it.
FileInv ==
    /\ FileIsValid
    /\ file # None => file.mtime <= clock
    /\ \A t \in Threads : pc[t] \in {"fill", "rename"} =>
          /\ temp[t].state = work[t]
          /\ temp[t].mtime <= clock /\ (file # None => file.mtime < temp[t].mtime)
          /\ pc[t] = "rename" => temp[t].whole

\* The working copy extends the file, and is the file's contents whenever
\* nothing remains to be saved.
WorkInv ==
    \A t \in Threads :
        /\ pc[t] \in {"entries", "create", "fill", "rename"} =>
              WellFormed(work[t]) /\ Extends(FileState, work[t])
        /\ pc[t] = "entries" /\ ~changed[t] => work[t] = FileState
        /\ pc[t] \in {"remember", "return"} => work[t] = FileState

\* A cache that still matches the file holds its contents: no file that was
\* ever replaced can match again, because the file in place is younger.
CacheInv ==
    \A s \in Stores : cache[s].valid =>
        /\ SameFile(cache[s].info, file) => cache[s].state = FileState
        /\ cache[s].info # None => file # None /\ cache[s].info.mtime <= file.mtime

StoreInv == TypeOK /\ LockInv /\ FileInv /\ WorkInv /\ CacheInv /\ ResultIsOnDisk

\* For a machine that keeps its power.
IInv == StoreInv /\ IssuedIsOnDisk
=============================================================================
