------------------------ MODULE ReferenceStoreProofs ------------------------
(***************************************************************************)
(* Machine-checked proofs about ReferenceStore, for any number of          *)
(* processes, threads and objects.                                         *)
(***************************************************************************)
EXTENDS ReferenceStore, TLAPS

-----------------------------------------------------------------------------
(* The contents of the file. *)

\* The empty file state is valid: what a process starts from before the first
\* save.
LEMMA EmptyIsValid == Empty \in State /\ WellFormed(Empty) /\ Pairs(Empty) = {}
  BY ReferenceStoreAssumption DEF Empty, State, WellFormed, Pairs, ReferenceStoreAssumption

\* Changing the type of an object keeps every number: KeepEntry.
LEMMA RetypedKeepsNumbers ==
    ASSUME NEW f \in State, NEW e \in Entry
    PROVE  /\ Retyped(f, e) \in State
           /\ Retyped(f, e).next = f.next
           /\ Pairs(Retyped(f, e)) = Pairs(f)
           /\ WellFormed(f) => WellFormed(Retyped(f, e))
<1> DEFINE objects == {Retype(o, e) : o \in f.objects}
           g == [next |-> f.next, objects |-> objects]
<1>1. \A o \in f.objects :
        Retype(o, e) \in Record /\ Retype(o, e).number = o.number /\ Retype(o, e).id = o.id
  BY DEF State, Record, Entry, Retype
<1>2. g \in State
  BY <1>1 DEF State
<1>3. {<<o.number, o.id>> : o \in objects} = {<<o.number, o.id>> : o \in f.objects}
  BY <1>1
<1>4. Pairs(g) = Pairs(f)
  BY <1>3 DEF Pairs
<1>5. ASSUME WellFormed(f) PROVE WellFormed(g)
  BY <1>1, <1>5 DEF WellFormed
<1>6. QED
  BY <1>2, <1>4, <1>5 DEF Retyped

\* A new object gets a number that no object had: AddEntry.
LEMMA NumberedIsFresh ==
    ASSUME NEW f \in State, NEW e \in Entry, WellFormed(f), e.id \in ValidIDs,
           \A o \in f.objects : o.id # e.id, f.next # MaxNumber
    PROVE  /\ Numbered(f, e) \in State
           /\ WellFormed(Numbered(f, e))
           /\ Extends(f, Numbered(f, e))
<1> DEFINE r == [number |-> f.next, id |-> e.id, type |-> e.type]
           g == [next |-> f.next + 1, objects |-> f.objects \cup {r}]
<1>1. Numbered(f, e) = g
  BY DEF Numbered, Successor
<1>2. f.next \in 0 .. MaxNumber /\ f.next + 1 \in 0 .. MaxNumber /\ MaxNumber \in Nat
  BY ReferenceStoreAssumption DEF ReferenceStoreAssumption, State
<1>3. r \in Record
  BY <1>2 DEF Record, Entry
<1>4. g \in State
  BY <1>2, <1>3 DEF State
<1>5. \A o \in f.objects : o.number \in Nat /\ o.number < f.next
  BY DEF WellFormed, State, Record
<1>6. WellFormed(g)
  BY <1>2, <1>5 DEF WellFormed
<1>7. Pairs(g) = Pairs(f) \cup {<<r.number, r.id>>}
  <2> HIDE DEF r
  <2>1. {<<o.number, o.id>> : o \in f.objects \cup {r}}
            = {<<o.number, o.id>> : o \in f.objects} \cup {<<r.number, r.id>>}
    OBVIOUS
  <2>2. QED
    BY <2>1 DEF Pairs
<1>8. Extends(f, g)
  <2>1. \A p \in Pairs(g) \ Pairs(f) : p = <<f.next, e.id>>
    BY <1>7
  <2>2. \A p \in Pairs(g) \ Pairs(f) : f.next <= p[1]
    BY <1>2, <2>1
  <2>3. f.next <= g.next
    BY <1>2
  <2>4. Pairs(f) \subseteq Pairs(g)
    BY <1>7
  <2>5. QED
    BY <2>2, <2>3, <2>4 DEF Extends
<1>9. QED
  BY <1>1, <1>4, <1>6, <1>8

\* Growth in several steps is growth: the loop of Assign.
LEMMA ExtendsIsTransitive ==
    ASSUME NEW f \in State, NEW g \in State, NEW h \in State, Extends(f, g), Extends(g, h)
    PROVE  Extends(f, h)
<1>1. \A p \in Pairs(h) : p[1] \in Nat
  BY DEF Pairs, State, Record
<1>2. f.next \in Int /\ g.next \in Int /\ h.next \in Int
  BY ReferenceStoreAssumption DEF State, ReferenceStoreAssumption
<1>3. QED
  BY <1>1, <1>2 DEF Extends

\* A working copy that was just loaded extends the file: LoadCached.
LEMMA ExtendsIsReflexive ==
    ASSUME NEW f \in State
    PROVE  Extends(f, f)
  BY ReferenceStoreAssumption DEF Extends, State, ReferenceStoreAssumption

-----------------------------------------------------------------------------
(* Types. *)

\* What a clone of the file can become in the loop is a file state: AddEntry.
LEMMA NumberedIsState ==
    ASSUME NEW f \in State, NEW e \in Entry, e.id \in ValidIDs, f.next # MaxNumber
    PROVE  Numbered(f, e) \in State
  BY ReferenceStoreAssumption
  DEF ReferenceStoreAssumption, Numbered, Successor, State, Record, Entry

\* Ending a call leaves well-typed local variables: Return, ReturnError, Die.
LEMMA ForgetTypeOK ==
    ASSUME TypeOK, NEW ended, Forget(ended)
    PROVE  /\ batch' \in [Threads -> Seq(Entry)] /\ position' \in [Threads -> Nat \ {0}]
           /\ work' \in [Threads -> State] /\ changed' \in [Threads -> BOOLEAN]
           /\ result' \in [Threads -> SUBSET Record]
<1>1. batch' \in [Threads -> Seq(Entry)]
  BY DEF Forget, TypeOK
<1>2. position' \in [Threads -> Nat \ {0}]
  BY DEF Forget, TypeOK
<1>3. work' \in [Threads -> State]
  BY EmptyIsValid DEF Forget, TypeOK
<1>4. changed' \in [Threads -> BOOLEAN]
  BY DEF Forget, TypeOK
<1>5. result' \in [Threads -> SUBSET Record]
  BY DEF Forget, TypeOK
<1>6. QED
  BY <1>1, <1>2, <1>3, <1>4, <1>5

\* A missing file reads like an empty one: load.
LEMMA FileStateIsState == TypeOK => FileState \in State
  BY EmptyIsValid DEF TypeOK, FileState, File

\* An entry of the loop is an entry of the batch.
LEMMA NextEntryIsEntry ==
    ASSUME TypeOK, NEW t \in Threads, InLoop(t)
    PROVE  NextEntry(t) \in Entry
  BY DEF TypeOK, InLoop, NextEntry

\* The references to return come from the working copy: Remember.
LEMMA ResultTypeOK ==
    ASSUME TypeOK, NEW t \in Threads, Remember(t)
    PROVE  result' \in [Threads -> SUBSET Record]
  BY DEF Remember, TypeOK, State

\* The store starts well typed, with no file and no cache.
LEMMA InitTypeOK == Init => TypeOK
<1> SUFFICES ASSUME Init PROVE TypeOK
  OBVIOUS
<1>1. CacheTypeOK
  BY EmptyIsValid DEF Init, CacheTypeOK, NoCache
<1>2. QED
  BY <1>1, EmptyIsValid DEF Init, TypeOK, Steps

\* A cache entry that is dropped or refilled is well typed: SaveFails, Remember.
LEMMA CacheUpdateTypeOK ==
    ASSUME CacheTypeOK, NEW s \in Stores, NEW valid \in BOOLEAN, NEW info, NEW state \in State,
           info # None => info.mtime \in Nat,
           cache' = [cache EXCEPT ![s] = [valid |-> valid, info |-> info, state |-> state]]
    PROVE  CacheTypeOK'
  BY DEF CacheTypeOK

\* So is the cache of a store whose save has failed: SaveFails, Remember.
LEMMA DroppedTypeOK ==
    ASSUME TypeOK, NEW s \in Stores, cache' = [cache EXCEPT ![s] = Dropped(@)]
    PROVE  CacheTypeOK'
  BY CacheUpdateTypeOK DEF Dropped, TypeOK, CacheTypeOK

\* A dying process leaves well-typed variables behind: Crash, LosePower.
LEMMA DieTypeOK ==
    ASSUME TypeOK, NEW gone \in SUBSET Stores, Die(gone),
           file' \in File \cup {None}, durable' \in File \cup {None}
    PROVE  TypeOK'
<1> USE ReferenceStoreAssumption DEF ReferenceStoreAssumption
<1>1. CacheTypeOK'
  BY EmptyIsValid DEF TypeOK, CacheTypeOK, Die, NoCache
<1>2. /\ clock' \in Nat /\ issued' \subseteq Nat \X ValidIDs
      /\ flock' \in Threads \cup {None} /\ mutex' \in [Stores -> Threads \cup {None}]
  BY DEF TypeOK, Die
<1>3. /\ pc' \in [Threads -> Steps] /\ temp' \in [Threads -> File \cup {None}]
      /\ \A u \in Threads : pc'[u] \in {"fill", "rename"} => temp'[u] # None
  BY DEF TypeOK, Die, Steps
<1>4. /\ batch' \in [Threads -> Seq(Entry)] /\ position' \in [Threads -> Nat \ {0}]
      /\ work' \in [Threads -> State] /\ changed' \in [Threads -> BOOLEAN]
      /\ result' \in [Threads -> SUBSET Record]
  BY EmptyIsValid, ForgetTypeOK DEF Die, TypeOK
<1>5. QED
  BY <1>1, <1>2, <1>3, <1>4 DEF TypeOK

\* No step breaks the types: one step of the proof per action.
LEMMA NextTypeOK == TypeOK /\ [Next]_vars => TypeOK'
<1> SUFFICES ASSUME TypeOK, [Next]_vars PROVE TypeOK'
  OBVIOUS
<1> USE ReferenceStoreAssumption DEF ReferenceStoreAssumption
<1>1. ASSUME NEW t \in Threads, Call(t) PROVE TypeOK'
  BY <1>1 DEF Call, TypeOK, CacheTypeOK, At, Goto, disk, locks, Steps
<1>2. ASSUME NEW t \in Threads, LockCache(t) PROVE TypeOK'
  BY <1>2 DEF LockCache, TypeOK, CacheTypeOK, At, Goto, disk, bounds, Steps, Locked
<1>3. ASSUME NEW t \in Threads, LockFile(t) PROVE TypeOK'
  BY <1>3 DEF LockFile, TypeOK, CacheTypeOK, At, Goto, disk, bounds, Steps, Locked
<1>0. ASSUME NEW t \in Threads, LockFails(t) PROVE TypeOK'
  <2>1. /\ mutex' \in [Stores -> Threads \cup {None}] /\ pc' \in [Threads -> Steps]
        /\ \A u \in Threads : pc'[u] \in {"fill", "rename"} => temp'[u] # None
    BY <1>0 DEF LockFails, TypeOK, Goto, Steps
  <2>2. QED
    BY <1>0, <2>1, ForgetTypeOK DEF LockFails, TypeOK, CacheTypeOK, disk, bounds
<1>4. ASSUME NEW t \in Threads, LoadCached(t) PROVE TypeOK'
  <2>1. /\ UNCHANGED <<disk, locks, cache, batch, temp, result, answer, bounds, issued>>
        /\ position' = [position EXCEPT ![t] = 1] /\ changed' = [changed EXCEPT ![t] = FALSE]
        /\ pc' \in [Threads -> Steps]
        /\ \A u \in Threads : pc'[u] \in {"fill", "rename"} => temp'[u] # None
    BY <1>4 DEF LoadCached, TypeOK, Goto, Steps, Locked
  <2>2. work' \in [Threads -> State]
    BY <1>4, FileStateIsState DEF LoadCached, TypeOK, CacheTypeOK
  <2>3. position' \in [Threads -> Nat \ {0}] /\ changed' \in [Threads -> BOOLEAN]
    BY <2>1 DEF TypeOK
  <2>4. /\ UNCHANGED <<file, durable, clock, flock, mutex, cache, batch, temp, result, issued>>
    BY <2>1 DEF disk, locks
  <2>5. QED
    BY <2>1, <2>2, <2>3, <2>4 DEF TypeOK, CacheTypeOK
<1>5. ASSUME NEW t \in Threads, RejectEntry(t) PROVE TypeOK'
  BY <1>5 DEF RejectEntry, TypeOK, CacheTypeOK, At, Goto, disk, locks, bounds, Steps, Locked
<1>6. ASSUME NEW t \in Threads, KeepEntry(t) PROVE TypeOK'
  <2>1. Retyped(work[t], NextEntry(t)) \in State
    BY <1>6, NextEntryIsEntry, RetypedKeepsNumbers DEF KeepEntry, TypeOK
  <2>2. QED
    BY <1>6, <2>1 DEF KeepEntry, TypeOK, CacheTypeOK, disk, locks, bounds
<1>7. ASSUME NEW t \in Threads, AddEntry(t) PROVE TypeOK'
  <2>1. Numbered(work[t], NextEntry(t)) \in State
    BY <1>7, NextEntryIsEntry, NumberedIsState DEF AddEntry, TypeOK
  <2>2. QED
    BY <1>7, <2>1 DEF AddEntry, TypeOK, CacheTypeOK, disk, locks, bounds
<1>8. ASSUME NEW t \in Threads, EndLoop(t) PROVE TypeOK'
  BY <1>8 DEF EndLoop, TypeOK, CacheTypeOK, At, Goto, disk, locks, bounds, Steps, Locked
<1>9. ASSUME NEW t \in Threads, CreateTemp(t) PROVE TypeOK'
  <2>1. PICK i \in FreeInodes, d \in ClockSteps :
          /\ clock' = clock + d
          /\ temp' = [temp EXCEPT ![t] = [inode |-> i, mtime |-> clock', whole |-> FALSE, state |-> work[t]]]
    BY <1>9 DEF CreateTemp
  <2>2. clock' \in Nat
    BY <2>1 DEF TypeOK
  <2>3. [inode |-> i, mtime |-> clock', whole |-> FALSE, state |-> work[t]] \in File
    BY <2>2 DEF TypeOK, File, FreeInodes
  <2>4. /\ pc' \in [Threads -> Steps] /\ temp' \in [Threads -> File \cup {None}]
        /\ \A u \in Threads : pc'[u] \in {"fill", "rename"} => temp'[u] # None
    BY <1>9, <2>1, <2>3 DEF CreateTemp, TypeOK, Goto, Steps, Locked
  <2>5. QED
    BY <1>9, <2>2, <2>4 DEF CreateTemp, TypeOK, CacheTypeOK, locks, bounds
<1>10. ASSUME NEW t \in Threads, FillTemp(t) PROVE TypeOK'
  <2>1. temp[t] # None
    BY <1>10 DEF FillTemp, TypeOK, At
  <2>2. temp' \in [Threads -> File \cup {None}] /\ temp'[t] # None
    <3> DEFINE f == [inode |-> temp[t].inode, mtime |-> temp[t].mtime, whole |-> TRUE, state |-> temp[t].state]
    <3>1. f \in File
      BY <2>1 DEF TypeOK, File
    <3>2. temp' = [temp EXCEPT ![t] = f]
      BY <1>10 DEF FillTemp
    <3>3. QED
      BY <3>1, <3>2 DEF TypeOK
  <2>3. /\ pc' \in [Threads -> Steps]
        /\ \A u \in Threads : pc'[u] \in {"fill", "rename"} => temp'[u] # None
    BY <1>10, <2>2 DEF FillTemp, TypeOK, Goto, Steps, Locked
  <2>4. QED
    BY <1>10, <2>2, <2>3 DEF FillTemp, TypeOK, CacheTypeOK, disk, locks, bounds
<1>11. ASSUME NEW t \in Threads, Rename(t) PROVE TypeOK'
  BY <1>11 DEF Rename, TypeOK, CacheTypeOK, At, Goto, File, locks, bounds, Steps, Locked
<1>12. ASSUME NEW t \in Threads, SaveFails(t) PROVE TypeOK'
  <2>1. CacheTypeOK'
    BY <1>12, DroppedTypeOK DEF SaveFails
  <2>2. /\ temp' \in [Threads -> File \cup {None}] /\ pc' \in [Threads -> Steps]
        /\ \A u \in Threads : pc'[u] \in {"fill", "rename"} => temp'[u] # None
    BY <1>12 DEF SaveFails, TypeOK, Goto, Steps, Locked
  <2>3. QED
    BY <1>12, <2>1, <2>2 DEF SaveFails, TypeOK, disk, locks, bounds
<1>13. ASSUME NEW t \in Threads, Remember(t) PROVE TypeOK'
  <2>1. CASE cache' = [cache EXCEPT ![StoreOf[t]] = Cached(work[t])]
    <3>1. InfoOf(file) # None => InfoOf(file).mtime \in Nat
      BY DEF InfoOf, TypeOK, File
    <3>2. CacheTypeOK'
      BY <2>1, <3>1, CacheUpdateTypeOK DEF Cached, TypeOK
    <3>3. QED
      BY <1>13, <3>2, ResultTypeOK DEF Remember, TypeOK, Goto, disk, locks, bounds, Steps, Locked
  <2>2. CASE cache' = [cache EXCEPT ![StoreOf[t]] = Dropped(@)]
    <3>1. CacheTypeOK'
      BY <2>2, DroppedTypeOK
    <3>2. QED
      BY <1>13, <3>1, ResultTypeOK DEF Remember, TypeOK, Goto, disk, locks, bounds, Steps, Locked
  <2>3. QED
    BY <1>13, <2>1, <2>2 DEF Remember
<1>14. ASSUME NEW t \in Threads, Return(t) PROVE TypeOK'
  <2>1. issued' \subseteq Nat \X ValidIDs
    BY <1>14 DEF Return, TypeOK, Record
  <2>2. /\ flock' \in Threads \cup {None} /\ mutex' \in [Stores -> Threads \cup {None}]
        /\ pc' \in [Threads -> Steps]
        /\ \A u \in Threads : pc'[u] \in {"fill", "rename"} => temp'[u] # None
    BY <1>14 DEF Return, TypeOK, Release, Goto, Steps
  <2>3. QED
    BY <1>14, <2>1, <2>2, ForgetTypeOK DEF Return, TypeOK, CacheTypeOK, disk, bounds
<1>15. ASSUME NEW t \in Threads, ReturnError(t) PROVE TypeOK'
  <2>1. /\ flock' \in Threads \cup {None} /\ mutex' \in [Stores -> Threads \cup {None}]
        /\ pc' \in [Threads -> Steps]
        /\ \A u \in Threads : pc'[u] \in {"fill", "rename"} => temp'[u] # None
    BY <1>15 DEF ReturnError, TypeOK, Release, Goto, Steps
  <2>2. QED
    BY <1>15, <2>1, ForgetTypeOK DEF ReturnError, TypeOK, CacheTypeOK, disk, bounds
<1>16. ASSUME NEW t \in Threads, Candidates(t) PROVE TypeOK'
  BY <1>16 DEF Candidates, TypeOK, CacheTypeOK, disk, locks
<1>17. ASSUME NEW s \in Stores, Crash(s) PROVE TypeOK'
  BY <1>17, DieTypeOK DEF Crash, TypeOK
<1>18. ASSUME Writeback PROVE TypeOK'
  BY <1>18 DEF Writeback, TypeOK, CacheTypeOK, locks, bounds
<1>19. ASSUME LosePower PROVE TypeOK'
  BY <1>19, DieTypeOK DEF LosePower, TypeOK
<1>20. ASSUME UNCHANGED vars PROVE TypeOK'
  BY <1>20 DEF vars, TypeOK, CacheTypeOK, disk, locks, bounds
<1>21. QED
  BY <1>0, <1>1, <1>2, <1>3, <1>4, <1>5, <1>6, <1>7, <1>8, <1>9, <1>10, <1>11, <1>12, <1>13, <1>14,
     <1>15, <1>16, <1>17, <1>18, <1>19, <1>20 DEF Next, Step, Progress

\* Every reachable state of the store is well typed: in particular the numbers
\* stay below the limit of the counter, and only accepted objects get one.
THEOREM TypeCorrect == Spec => []TypeOK
  BY InitTypeOK, NextTypeOK, PTL DEF Spec

-----------------------------------------------------------------------------
(* The inductive invariant.                                                *)

\* A thread in the critical section is alone there.
LEMMA Alone ==
    ASSUME LockInv, NEW t \in Threads, pc[t] \in Locked
    PROVE  \A u \in Threads \ {t} :
              pc[u] \notin Locked /\ (StoreOf[u] = StoreOf[t] => pc[u] # "flock")
  BY ReferenceStoreAssumption DEF LockInv, ReferenceStoreAssumption

Aside == {"idle", "mutex", "flock", "load", "failed"}

\* A step that leaves the file alone and at most puts threads aside or drops
\* caches: everything but the locks survives it.
LEMMA QuietStep ==
    ASSUME StoreInv, UNCHANGED <<file, clock>>,
           \A u \in Threads :
              \/ pc'[u] \in Aside
              \/ /\ pc'[u] = pc[u] /\ work'[u] = work[u] /\ temp'[u] = temp[u]
                 /\ changed'[u] = changed[u] /\ result'[u] = result[u],
           \A s \in Stores : cache'[s].valid => cache'[s] = cache[s]
    PROVE  FileInv' /\ WorkInv' /\ CacheInv' /\ ResultIsOnDisk'
<1>0. FileState' = FileState
  BY DEF FileState
<1>1. FileInv'
  BY DEF StoreInv, FileInv, FileIsValid, Aside
<1>2. WorkInv'
  BY <1>0 DEF StoreInv, WorkInv, Aside
<1>3. CacheInv'
  <2> SUFFICES ASSUME NEW s \in Stores, cache'[s].valid
               PROVE  /\ SameFile(cache'[s].info, file) => cache'[s].state = FileState
                      /\ cache'[s].info # None => file # None /\ cache'[s].info.mtime <= file.mtime
    BY <1>0 DEF CacheInv
  <2>1. cache'[s] = cache[s]
    OBVIOUS
  <2>2. QED
    BY <2>1 DEF StoreInv, CacheInv
<1>4. ResultIsOnDisk'
  BY <1>0 DEF StoreInv, ResultIsOnDisk, Aside
<1>5. QED
  BY <1>1, <1>2, <1>3, <1>4

\* Nothing is locked, cached or written at first.
LEMMA InitStoreInv == Init => StoreInv
<1> SUFFICES ASSUME Init PROVE StoreInv
  OBVIOUS
<1> USE ReferenceStoreAssumption DEF ReferenceStoreAssumption
<1>1. LockInv
  BY DEF Init, LockInv, Locked
<1>2. FileInv /\ WorkInv
  BY DEF Init, FileInv, FileIsValid, WorkInv
<1>3. CacheInv /\ ResultIsOnDisk
  BY DEF Init, CacheInv, NoCache, ResultIsOnDisk
<1>4. QED
  BY <1>1, <1>2, <1>3, InitTypeOK DEF StoreInv

\* The locks are kept by steps that stay inside the critical section.
LEMMA StayLocked ==
    ASSUME TypeOK, LockInv, UNCHANGED locks, NEW t \in Threads, pc[t] \in Locked,
           NEW step \in Locked, pc' = [pc EXCEPT ![t] = step]
    PROVE  LockInv'
  BY DEF TypeOK, LockInv, locks

\* Leaving the critical section gives up both locks: Return, ReturnError.
LEMMA LeaveUnlocked ==
    ASSUME TypeOK, LockInv, NEW t \in Threads, pc[t] \in Locked, Release(t), Goto(t, "idle")
    PROVE  LockInv'
<1> USE ReferenceStoreAssumption DEF ReferenceStoreAssumption
<1>1. \A u \in Threads : pc'[u] = IF u = t THEN "idle" ELSE pc[u]
  BY DEF Goto, TypeOK
<1>2. \A u \in Threads : pc'[u] \notin Locked
  BY <1>1, Alone DEF Locked
<1>3. \A u \in Threads : pc'[u] \in Locked \cup {"flock"} <=> mutex'[StoreOf[u]] = u
  <2> SUFFICES ASSUME NEW u \in Threads
               PROVE  pc'[u] = "flock" <=> mutex'[StoreOf[u]] = u
    BY <1>2
  <2>1. CASE StoreOf[u] = StoreOf[t]
    BY <2>1, <1>1, Alone DEF Release, TypeOK
  <2>2. CASE StoreOf[u] # StoreOf[t]
    <3>1. mutex'[StoreOf[u]] = mutex[StoreOf[u]] /\ pc'[u] = pc[u] /\ pc[u] \notin Locked
      BY <2>2, <1>1, Alone DEF Release, TypeOK
    <3>2. QED
      BY <3>1 DEF LockInv
  <2>3. QED
    BY <2>1, <2>2
<1>4. QED
  BY <1>2, <1>3 DEF LockInv, Release

\* The kernel drops the locks of the dead: Crash, LosePower.
LEMMA DieUnlocks ==
    ASSUME TypeOK, LockInv, NEW gone \in SUBSET Stores, Die(gone)
    PROVE  LockInv'
<1> USE ReferenceStoreAssumption DEF ReferenceStoreAssumption
<1>1. \A u \in Threads : pc'[u] = IF StoreOf[u] \in gone THEN "idle" ELSE pc[u]
  BY DEF Die
<1>2. \A u \in Threads : pc'[u] \in Locked <=> flock' = u
  <2> SUFFICES ASSUME NEW u \in Threads PROVE pc'[u] \in Locked <=> flock' = u
    OBVIOUS
  <2>1. CASE StoreOf[u] \in gone
    BY <2>1, <1>1 DEF Die, Locked
  <2>2. CASE StoreOf[u] \notin gone
    BY <2>2, <1>1 DEF Die, LockInv
  <2>3. QED
    BY <2>1, <2>2
<1>3. \A u \in Threads : pc'[u] \in Locked \cup {"flock"} <=> mutex'[StoreOf[u]] = u
  BY <1>1 DEF Die, LockInv, Locked
<1>4. QED
  BY <1>2, <1>3 DEF LockInv

\* A retyped copy of a state is the state itself if the type was the same.
LEMMA RetypedUnchanged ==
    ASSUME NEW f \in State, NEW e \in Entry, \A o \in f.objects : o.id = e.id => o.type = e.type
    PROVE  Retyped(f, e) = f
<1>1. \A o \in f.objects : Retype(o, e) = o
  BY DEF State, Record, Retype
<1>2. {Retype(o, e) : o \in f.objects} = f.objects
  BY <1>1
<1>3. f = [next |-> f.next, objects |-> f.objects]
  BY DEF State
<1>4. QED
  BY <1>2, <1>3 DEF Retyped

-----------------------------------------------------------------------------
(* The steps. *)

\* Before the critical section, and a lookup.
LEMMA OutsideSteps ==
    ASSUME StoreInv, NEW t \in Threads,
           Call(t) \/ LockCache(t) \/ LockFile(t) \/ Candidates(t)
    PROVE  StoreInv'
<1> USE ReferenceStoreAssumption DEF ReferenceStoreAssumption
<1>1. TypeOK'
  BY NextTypeOK DEF StoreInv, Next, Step, Progress
<1>2. LockInv'
  <2>1. CASE Call(t)
    BY <2>1 DEF StoreInv, TypeOK, LockInv, Call, At, Goto, locks, Locked
  <2>2. CASE LockCache(t)
    BY <2>2 DEF StoreInv, TypeOK, LockInv, LockCache, At, Goto, Locked
  <2>3. CASE LockFile(t)
    BY <2>3 DEF StoreInv, TypeOK, LockInv, LockFile, Unlocked, At, Goto, Locked
  <2>4. CASE Candidates(t)
    BY <2>4 DEF StoreInv, LockInv, Candidates, locks
  <2>5. QED
    BY <2>1, <2>2, <2>3, <2>4
<1>3. /\ UNCHANGED <<file, clock, cache, work, temp, changed, result, issued>>
      /\ \A u \in Threads : pc'[u] = pc[u] \/ pc'[u] \in Aside
  BY DEF StoreInv, TypeOK, Call, LockCache, LockFile, Candidates, At, Goto, disk, Aside
<1>4. FileInv' /\ WorkInv' /\ CacheInv' /\ ResultIsOnDisk'
  BY <1>3, QuietStep
<1>5. QED
  BY <1>1, <1>2, <1>4 DEF StoreInv

\* Whoever cannot get the lock gives the mutex back.
LEMMA LockFailsStep ==
    ASSUME StoreInv, NEW t \in Threads, LockFails(t)
    PROVE  StoreInv'
<1> USE ReferenceStoreAssumption DEF ReferenceStoreAssumption
<1>1. TypeOK'
  BY NextTypeOK DEF StoreInv, Next, Step, Progress
<1>2. pc[t] = "flock" /\ \A u \in Threads : pc'[u] = IF u = t THEN "idle" ELSE pc[u]
  BY DEF StoreInv, TypeOK, LockFails, At, Goto
<1>3. LockInv'
  <2>1. \A u \in Threads : pc'[u] \in Locked <=> flock' = u
    BY <1>2 DEF StoreInv, LockInv, LockFails, Locked
  <2>2. ASSUME NEW u \in Threads
        PROVE  pc'[u] \in Locked \cup {"flock"} <=> mutex'[StoreOf[u]] = u
    <3>1. CASE StoreOf[u] = StoreOf[t]
      <4>1. mutex'[StoreOf[u]] = None /\ mutex[StoreOf[u]] = t
        BY <1>2, <3>1 DEF StoreInv, TypeOK, LockInv, LockFails
      <4>2. QED
        BY <1>2, <4>1 DEF StoreInv, LockInv, Locked
    <3>2. CASE StoreOf[u] # StoreOf[t]
      BY <1>2, <3>2 DEF StoreInv, TypeOK, LockInv, LockFails
    <3>3. QED
      BY <3>1, <3>2
  <2>3. QED
    BY <2>1, <2>2 DEF LockInv
<1>4. UNCHANGED <<file, clock, cache, temp, issued>> /\ FileState' = FileState
  BY DEF LockFails, disk, FileState
<1>5. FileInv' /\ WorkInv' /\ CacheInv' /\ ResultIsOnDisk'
  <2>1. \A u \in Threads :
          \/ pc'[u] \in Aside
          \/ /\ pc'[u] = pc[u] /\ work'[u] = work[u] /\ temp'[u] = temp[u]
             /\ changed'[u] = changed[u] /\ result'[u] = result[u]
    BY <1>2, <1>4 DEF LockFails, Forget, Aside
  <2>2. QED
    BY <1>4, <2>1, QuietStep
<1>6. QED
  BY <1>1, <1>3, <1>4, <1>5 DEF StoreInv

\* The cached copy is used only if it is what the file holds.
LEMMA LoadCachedStep ==
    ASSUME StoreInv, NEW t \in Threads, LoadCached(t)
    PROVE  StoreInv'
<1> USE ReferenceStoreAssumption DEF ReferenceStoreAssumption
<1>1. TypeOK'
  BY NextTypeOK DEF StoreInv, Next, Step, Progress
<1>2. pc[t] \in Locked
  BY DEF LoadCached, At, Locked
<1>3. LockInv'
  BY <1>2, StayLocked DEF StoreInv, LoadCached, Goto, Locked
<1>4. UNCHANGED <<file, clock, cache, temp, result, issued>> /\ FileState' = FileState
  BY DEF LoadCached, disk, FileState
<1>5. CASE pc' = [pc EXCEPT ![t] = "failed"]
  <2>1. \A u \in Threads : \/ pc'[u] \in Aside
                           \/ pc'[u] = pc[u] /\ work'[u] = work[u] /\ changed'[u] = changed[u]
    BY <1>5 DEF StoreInv, TypeOK, LoadCached, Goto, Aside
  <2>2. FileInv' /\ WorkInv' /\ CacheInv' /\ ResultIsOnDisk'
    BY <1>4, <2>1, QuietStep
  <2>3. QED
    BY <1>1, <1>3, <1>4, <2>2 DEF StoreInv
<1>6. CASE pc' = [pc EXCEPT ![t] = "entries"]
  <2>1. work' = [work EXCEPT ![t] = FileState]
    BY <1>6 DEF StoreInv, CacheInv, TypeOK, LoadCached, Goto
  <2>2. WellFormed(FileState) /\ Extends(FileState, FileState)
    BY EmptyIsValid, FileStateIsState, ExtendsIsReflexive DEF StoreInv, FileInv, FileIsValid, FileState
  <2>3. WorkInv'
    BY <1>4, <1>6, <2>1, <2>2 DEF StoreInv, TypeOK, WorkInv, LoadCached
  <2>4. FileInv' /\ CacheInv' /\ ResultIsOnDisk'
    BY <1>4, <1>6, <2>1
    DEF StoreInv, TypeOK, FileInv, FileIsValid, CacheInv, ResultIsOnDisk
  <2>5. QED
    BY <1>1, <1>3, <2>3, <2>4 DEF StoreInv
<1>7. QED
  BY <1>5, <1>6 DEF LoadCached, Goto

\* The loop changes the working copy, never the file.
LEMMA LoopSteps ==
    ASSUME StoreInv, NEW t \in Threads, KeepEntry(t) \/ AddEntry(t)
    PROVE  StoreInv'
<1> USE ReferenceStoreAssumption DEF ReferenceStoreAssumption
<1>1. TypeOK'
  BY NextTypeOK DEF StoreInv, Next, Step, Progress
<1>2. /\ UNCHANGED <<file, clock, locks, cache, pc, temp, result, issued>>
      /\ FileState' = FileState /\ pc[t] = "entries"
      /\ \A u \in Threads \ {t} : work'[u] = work[u] /\ changed'[u] = changed[u]
  BY DEF StoreInv, TypeOK, KeepEntry, AddEntry, InLoop, At, disk, FileState
<1>3. LockInv'
  BY <1>2 DEF StoreInv, LockInv, locks
<1>4. /\ WellFormed(work'[t]) /\ Extends(FileState, work'[t])
      /\ ~changed'[t] => work'[t] = FileState
  <2> DEFINE e == NextEntry(t)
  <2>1. /\ e \in Entry /\ work[t] \in State /\ WellFormed(work[t]) /\ Extends(FileState, work[t])
        /\ ~changed[t] => work[t] = FileState
    BY <1>2, NextEntryIsEntry DEF StoreInv, TypeOK, WorkInv, KeepEntry, AddEntry
  <2>2. CASE KeepEntry(t)
    <3>1. /\ work'[t] = Retyped(work[t], e)
          /\ changed'[t] = (changed[t] \/ \E o \in Known(t) : o.type # e.type)
      BY <2>2 DEF StoreInv, TypeOK, KeepEntry
    <3>2. WellFormed(work'[t]) /\ Extends(FileState, work'[t])
      BY <2>1, <3>1, RetypedKeepsNumbers DEF Extends
    <3>3. ASSUME ~changed'[t] PROVE work'[t] = FileState
      BY <2>1, <3>1, <3>3, RetypedUnchanged DEF Known
    <3>4. QED
      BY <3>2, <3>3
  <2>3. CASE AddEntry(t)
    <3>1. /\ work'[t] = Numbered(work[t], e) /\ changed'[t]
          /\ e.id \in ValidIDs /\ work[t].next # MaxNumber
          /\ \A o \in work[t].objects : o.id # e.id
      BY <2>3 DEF StoreInv, TypeOK, AddEntry, Known
    <3>2. work'[t] \in State /\ WellFormed(work'[t]) /\ Extends(work[t], work'[t])
      BY <2>1, <3>1, NumberedIsFresh
    <3>3. FileState \in State
      BY FileStateIsState DEF StoreInv
    <3>4. QED
      BY <2>1, <3>1, <3>2, <3>3, ExtendsIsTransitive
  <2>4. QED
    BY <2>2, <2>3
<1>5. WorkInv'
  BY <1>2, <1>4 DEF StoreInv, WorkInv
<1>6. FileInv'
  BY <1>2 DEF StoreInv, FileInv, FileIsValid
<1>7. CacheInv' /\ ResultIsOnDisk'
  BY <1>2 DEF StoreInv, CacheInv, ResultIsOnDisk
<1>8. QED
  BY <1>1, <1>3, <1>5, <1>6, <1>7 DEF StoreInv

\* A call that gives up drops the cache or leaves it alone.
LEMMA FailingSteps ==
    ASSUME StoreInv, NEW t \in Threads, RejectEntry(t) \/ SaveFails(t)
    PROVE  StoreInv'
<1> USE ReferenceStoreAssumption DEF ReferenceStoreAssumption
<1>1. TypeOK'
  BY NextTypeOK DEF StoreInv, Next, Step, Progress
<1>2. /\ pc[t] \in Locked /\ pc' = [pc EXCEPT ![t] = "failed"]
      /\ UNCHANGED <<file, clock, locks, work, changed, result, issued>>
      /\ \A u \in Threads \ {t} : temp'[u] = temp[u]
      /\ \A s \in Stores : cache'[s].valid => cache'[s] = cache[s]
  <2>1. CASE RejectEntry(t)
    BY <2>1 DEF RejectEntry, InLoop, At, Goto, disk, Locked
  <2>2. CASE SaveFails(t)
    <3>1. \A s \in Stores : cache'[s].valid => cache'[s] = cache[s]
      BY <2>2 DEF StoreInv, TypeOK, CacheTypeOK, SaveFails, Dropped
    <3>2. \A u \in Threads \ {t} : temp'[u] = temp[u]
      BY <2>2 DEF StoreInv, TypeOK, SaveFails
    <3>3. QED
      BY <2>2, <3>1, <3>2 DEF SaveFails, Goto, disk, Locked
  <2>3. QED
    BY <2>1, <2>2
<1>3. LockInv'
  BY <1>2, StayLocked DEF StoreInv, Locked
<1>4. \A u \in Threads : pc'[u] \in Aside \/ (pc'[u] = pc[u] /\ temp'[u] = temp[u])
  BY <1>2 DEF StoreInv, TypeOK, Aside
<1>5. FileInv' /\ WorkInv' /\ CacheInv' /\ ResultIsOnDisk'
  BY <1>2, <1>4, QuietStep
<1>6. QED
  BY <1>1, <1>3, <1>5 DEF StoreInv

\* The loop ends: with the file's contents, or with more to save.
LEMMA EndLoopStep ==
    ASSUME StoreInv, NEW t \in Threads, EndLoop(t)
    PROVE  StoreInv'
<1> USE ReferenceStoreAssumption DEF ReferenceStoreAssumption
<1>1. TypeOK'
  BY NextTypeOK DEF StoreInv, Next, Step, Progress
<1>2. /\ UNCHANGED <<file, clock, locks, cache, work, changed, temp, result, issued>>
      /\ FileState' = FileState /\ pc[t] = "entries"
      /\ pc' = [pc EXCEPT ![t] = IF changed[t] THEN "create" ELSE "remember"]
  BY DEF EndLoop, At, Goto, disk, FileState
<1>3. LockInv'
  BY <1>2, StayLocked DEF StoreInv, Locked
<1>4. FileInv' /\ WorkInv'
  BY <1>2 DEF StoreInv, TypeOK, FileInv, FileIsValid, WorkInv
<1>5. CacheInv' /\ ResultIsOnDisk'
  BY <1>2 DEF StoreInv, TypeOK, CacheInv, ResultIsOnDisk
<1>6. QED
  BY <1>1, <1>3, <1>4, <1>5 DEF StoreInv

\* The temporary file is younger than the file it will replace.
LEMMA CreateTempStep ==
    ASSUME StoreInv, 0 \notin ClockSteps, NEW t \in Threads, CreateTemp(t)
    PROVE  StoreInv'
<1> USE ReferenceStoreAssumption DEF ReferenceStoreAssumption
<1>1. TypeOK'
  BY NextTypeOK DEF StoreInv, Next, Step, Progress
<1>2. /\ UNCHANGED <<file, locks, cache, work, changed, result, issued>>
      /\ FileState' = FileState /\ pc[t] = "create" /\ pc' = [pc EXCEPT ![t] = "fill"]
  BY DEF CreateTemp, At, Goto, FileState
<1>3. LockInv'
  BY <1>2, StayLocked DEF StoreInv, Locked
<1>4. PICK i \in FreeInodes, d \in ClockSteps :
        /\ clock' = clock + d
        /\ temp' = [temp EXCEPT ![t] = [inode |-> i, mtime |-> clock', whole |-> FALSE, state |-> work[t]]]
  BY DEF CreateTemp
<1>5. clock' > clock /\ clock \in Nat /\ clock' \in Nat
  BY <1>4 DEF StoreInv, TypeOK
<1>6. FileInv'
  <2>1. temp'[t].state = work[t] /\ temp'[t].mtime = clock'
    BY <1>4 DEF StoreInv, TypeOK
  <2>2. \A u \in Threads \ {t} : pc'[u] \notin {"fill", "rename"}
    BY <1>2, Alone DEF StoreInv, TypeOK, Locked
  <2>3. file # None => file.mtime \in Nat /\ file.mtime <= clock
    BY DEF StoreInv, TypeOK, FileInv, File
  <2>4. QED
    BY <1>2, <1>5, <2>1, <2>2, <2>3 DEF StoreInv, TypeOK, FileInv, FileIsValid
<1>7. WorkInv'
  BY <1>2 DEF StoreInv, TypeOK, WorkInv
<1>8. CacheInv' /\ ResultIsOnDisk'
  BY <1>2 DEF StoreInv, TypeOK, CacheInv, ResultIsOnDisk
<1>9. QED
  BY <1>1, <1>3, <1>6, <1>7, <1>8 DEF StoreInv

\* The temporary file is complete once it is written and synced.
LEMMA FillTempStep ==
    ASSUME StoreInv, NEW t \in Threads, FillTemp(t)
    PROVE  StoreInv'
<1> USE ReferenceStoreAssumption DEF ReferenceStoreAssumption
<1>1. TypeOK'
  BY NextTypeOK DEF StoreInv, Next, Step, Progress
<1>2. /\ UNCHANGED <<file, clock, locks, cache, work, changed, result, issued>>
      /\ FileState' = FileState /\ pc[t] = "fill" /\ pc' = [pc EXCEPT ![t] = "rename"]
  BY DEF FillTemp, At, Goto, disk, FileState
<1>3. LockInv'
  BY <1>2, StayLocked DEF StoreInv, Locked
<1>4. FileInv'
  <2>1. /\ temp'[t].state = temp[t].state /\ temp'[t].mtime = temp[t].mtime /\ temp'[t].whole
        /\ \A u \in Threads \ {t} : temp'[u] = temp[u]
    BY DEF StoreInv, TypeOK, FillTemp
  <2>2. QED
    BY <1>2, <2>1 DEF StoreInv, TypeOK, FileInv, FileIsValid
<1>5. WorkInv'
  BY <1>2 DEF StoreInv, TypeOK, WorkInv
<1>6. CacheInv' /\ ResultIsOnDisk'
  BY <1>2 DEF StoreInv, TypeOK, CacheInv, ResultIsOnDisk
<1>7. QED
  BY <1>1, <1>3, <1>4, <1>5, <1>6 DEF StoreInv

\* The rename makes the working copy the file.  No cached copy matches the new
\* file, which is younger than every file that was ever there.
LEMMA RenameStep ==
    ASSUME StoreInv, NEW t \in Threads, Rename(t)
    PROVE  StoreInv'
<1> USE ReferenceStoreAssumption DEF ReferenceStoreAssumption
<1>1. TypeOK'
  BY NextTypeOK DEF StoreInv, Next, Step, Progress
<1>2. /\ UNCHANGED <<clock, locks, cache, work, changed, result, issued>>
      /\ pc[t] = "rename" /\ pc' = [pc EXCEPT ![t] = "remember"]
      /\ file' = temp[t] /\ \A u \in Threads \ {t} : temp'[u] = temp[u] /\ pc'[u] = pc[u]
  BY DEF StoreInv, TypeOK, Rename, At, Goto
<1>3. LockInv'
  BY <1>2, StayLocked DEF StoreInv, Locked
<1>4. \A u \in Threads \ {t} : pc'[u] \notin Locked
  BY <1>2, Alone DEF StoreInv, Locked
<1>5. /\ file' \in File /\ file'.whole /\ file'.state = work[t] /\ file'.mtime <= clock
      /\ file # None => file.mtime < file'.mtime
  BY <1>2 DEF StoreInv, TypeOK, FileInv
<1>6. FileState' = work[t] /\ WellFormed(work[t]) /\ Extends(FileState, work[t])
  BY <1>2, <1>5 DEF StoreInv, WorkInv, FileState
<1>7. pc'[t] = "remember"
  BY <1>2 DEF StoreInv, TypeOK
<1>8. FileInv'
  BY <1>2, <1>4, <1>5, <1>6, <1>7 DEF FileInv, FileIsValid, Locked
<1>9. WorkInv'
  BY <1>2, <1>4, <1>6, <1>7 DEF WorkInv, Locked
<1>10. CacheInv'
  <2> SUFFICES ASSUME NEW s \in Stores, cache[s].valid
               PROVE  /\ ~SameFile(cache[s].info, file')
                      /\ cache[s].info # None => cache[s].info.mtime <= file'.mtime
    BY <1>2, <1>5 DEF CacheInv
  <2>1. cache[s].info # None => cache[s].info.mtime < file'.mtime
    BY <1>5 DEF StoreInv, TypeOK, CacheTypeOK, CacheInv, File
  <2>2. file'.mtime \in Nat /\ (cache[s].info # None => cache[s].info.mtime \in Nat)
    BY <1>5 DEF StoreInv, TypeOK, CacheTypeOK, File
  <2>3. QED
    BY <1>5, <2>1, <2>2 DEF SameFile
<1>11. ResultIsOnDisk'
  BY <1>4, <1>7 DEF ResultIsOnDisk, Locked
<1>12. QED
  BY <1>1, <1>3, <1>8, <1>9, <1>10, <1>11 DEF StoreInv

\* What Assign caches and returns is the file's contents.
LEMMA RememberStep ==
    ASSUME StoreInv, NEW t \in Threads, Remember(t)
    PROVE  StoreInv'
<1> USE ReferenceStoreAssumption DEF ReferenceStoreAssumption
<1>1. TypeOK'
  BY NextTypeOK DEF StoreInv, Next, Step, Progress
<1>2. /\ UNCHANGED <<file, clock, locks, work, changed, temp, issued>>
      /\ FileState' = FileState /\ pc[t] = "remember" /\ pc' = [pc EXCEPT ![t] = "return"]
      /\ work[t] = FileState
  BY DEF StoreInv, WorkInv, Remember, At, Goto, disk, FileState
<1>3. LockInv'
  BY <1>2, StayLocked DEF StoreInv, Locked
<1>4. FileInv' /\ WorkInv'
  BY <1>2 DEF StoreInv, TypeOK, FileInv, FileIsValid, WorkInv
<1>5. CacheInv'
  <2> SUFFICES ASSUME NEW s \in Stores, cache'[s].valid
               PROVE  /\ SameFile(cache'[s].info, file) => cache'[s].state = FileState
                      /\ cache'[s].info # None => file # None /\ cache'[s].info.mtime <= file.mtime
    BY <1>2 DEF CacheInv
  <2>1. CASE cache'[s] = cache[s]
    BY <2>1 DEF StoreInv, CacheInv
  <2>2. CASE cache'[s] = Cached(work[t])
    BY <1>2, <2>2 DEF Cached, InfoOf, StoreInv, TypeOK, File
  <2>3. cache'[s] \in {cache[s], Cached(work[t]), Dropped(cache[s])}
    BY DEF Remember, StoreInv, TypeOK, CacheTypeOK
  <2>4. QED
    BY <2>1, <2>2, <2>3 DEF Dropped
<1>6. ResultIsOnDisk'
  BY <1>2 DEF StoreInv, TypeOK, ResultIsOnDisk, Remember
<1>7. QED
  BY <1>1, <1>3, <1>4, <1>5, <1>6 DEF StoreInv

\* Assign returns, with references or with an error.
LEMMA ReturnSteps ==
    ASSUME StoreInv, NEW t \in Threads, Return(t) \/ ReturnError(t)
    PROVE  StoreInv'
<1> USE ReferenceStoreAssumption DEF ReferenceStoreAssumption
<1>1. TypeOK'
  BY NextTypeOK DEF StoreInv, Next, Step, Progress
<1>2. /\ UNCHANGED <<file, clock, cache, temp>> /\ FileState' = FileState
      /\ pc[t] \in Locked /\ Release(t) /\ Forget({t}) /\ Goto(t, "idle")
  <2>1. CASE Return(t)
    BY <2>1 DEF Return, At, Locked, disk, FileState
  <2>2. CASE ReturnError(t)
    BY <2>2 DEF ReturnError, At, Locked, disk, FileState
  <2>3. QED
    BY <2>1, <2>2
<1>3. LockInv'
  BY <1>2, LeaveUnlocked DEF StoreInv
<1>4. FileInv' /\ WorkInv' /\ CacheInv' /\ ResultIsOnDisk'
  <2>1. \A u \in Threads :
          \/ pc'[u] \in Aside
          \/ /\ pc'[u] = pc[u] /\ work'[u] = work[u] /\ temp'[u] = temp[u]
             /\ changed'[u] = changed[u] /\ result'[u] = result[u]
    BY <1>2 DEF StoreInv, TypeOK, Goto, Forget, Aside
  <2>2. QED
    BY <1>2, <2>1, QuietStep
<1>5. QED
  BY <1>1, <1>3, <1>4 DEF StoreInv

\* A killed process leaves the file and a temporary file nobody uses.
LEMMA CrashStep ==
    ASSUME StoreInv, NEW s \in Stores, Crash(s)
    PROVE  StoreInv'
<1> USE ReferenceStoreAssumption DEF ReferenceStoreAssumption
<1>1. TypeOK'
  BY NextTypeOK DEF StoreInv, Next, Step, Progress
<1>2. LockInv'
  BY DieUnlocks DEF StoreInv, Crash
<1>3. FileInv' /\ WorkInv' /\ CacheInv' /\ ResultIsOnDisk'
  <2>1. \A u \in Threads :
          \/ pc'[u] \in Aside
          \/ /\ pc'[u] = pc[u] /\ work'[u] = work[u] /\ temp'[u] = temp[u]
             /\ changed'[u] = changed[u] /\ result'[u] = result[u]
    BY DEF Crash, Die, Forget, Users, Aside
  <2>2. \A r \in Stores : cache'[r].valid => cache'[r] = cache[r]
    BY DEF Crash, Die, NoCache
  <2>3. UNCHANGED <<file, clock>>
    BY DEF Crash, Die
  <2>4. QED
    BY <2>1, <2>2, <2>3, QuietStep
<1>4. QED
  BY <1>1, <1>2, <1>3 DEF StoreInv

\* What a power loss would leave behind is where the store once was.
DurableInv ==
    /\ PowerLossGoesBack
    /\ durable # None => durable.mtime <= clock

DurableState == IF durable = None THEN Empty ELSE durable.state

\* The power may fail from the first step on: nothing is lost by it then.
LEMMA InitDurableInv == Init => DurableInv
  BY EmptyIsValid, ExtendsIsReflexive DEF Init, DurableInv, PowerLossGoesBack, FileState

\* What a power loss leaves behind is a file state like any other: LosePower.
LEMMA DurableStateIsState == TypeOK => DurableState \in State
  BY EmptyIsValid DEF TypeOK, DurableState, File

\* The machine stops, and finds the file that had been written back.
LEMMA LosePowerStep ==
    ASSUME StoreInv, DurableInv, LosePower
    PROVE  StoreInv'
<1> USE ReferenceStoreAssumption DEF ReferenceStoreAssumption
<1>1. TypeOK'
  BY NextTypeOK DEF StoreInv, Next
<1>2. LockInv'
  BY DieUnlocks DEF StoreInv, LosePower
<1>3. file' = durable /\ clock' = clock /\ \A t \in Threads : pc'[t] = "idle"
  BY DEF LosePower, Die
<1>4. FileInv' /\ WorkInv' /\ ResultIsOnDisk'
  BY <1>3 DEF DurableInv, PowerLossGoesBack, FileInv, FileIsValid, WorkInv, ResultIsOnDisk
<1>5. CacheInv'
  BY DEF LosePower, Die, NoCache, CacheInv
<1>6. QED
  BY <1>1, <1>2, <1>4, <1>5 DEF StoreInv

\* No step breaks the invariant, for a clock that moves with every write: one
\* step of the proof per action.
LEMMA NextStoreInv ==
    ASSUME 0 \notin ClockSteps, StoreInv, DurableInv, [Next]_vars
    PROVE  StoreInv'
<1>1. ASSUME NEW t \in Threads, Call(t) \/ LockCache(t) \/ LockFile(t) \/ Candidates(t)
      PROVE  StoreInv'
  BY <1>1, OutsideSteps
<1>2. ASSUME NEW t \in Threads, LockFails(t) PROVE StoreInv'
  BY <1>2, LockFailsStep
<1>3. ASSUME NEW t \in Threads, LoadCached(t) PROVE StoreInv'
  BY <1>3, LoadCachedStep
<1>4. ASSUME NEW t \in Threads, KeepEntry(t) \/ AddEntry(t) PROVE StoreInv'
  BY <1>4, LoopSteps
<1>5. ASSUME NEW t \in Threads, RejectEntry(t) \/ SaveFails(t) PROVE StoreInv'
  BY <1>5, FailingSteps
<1>6. ASSUME NEW t \in Threads, EndLoop(t) PROVE StoreInv'
  BY <1>6, EndLoopStep
<1>7. ASSUME NEW t \in Threads, CreateTemp(t) PROVE StoreInv'
  BY <1>7, CreateTempStep
<1>8. ASSUME NEW t \in Threads, FillTemp(t) PROVE StoreInv'
  BY <1>8, FillTempStep
<1>9. ASSUME NEW t \in Threads, Rename(t) PROVE StoreInv'
  BY <1>9, RenameStep
<1>10. ASSUME NEW t \in Threads, Remember(t) PROVE StoreInv'
  BY <1>10, RememberStep
<1>11. ASSUME NEW t \in Threads, Return(t) \/ ReturnError(t) PROVE StoreInv'
  BY <1>11, ReturnSteps
<1>12. ASSUME NEW s \in Stores, Crash(s) PROVE StoreInv'
  BY <1>12, CrashStep
<1>13. ASSUME Writeback \/ UNCHANGED vars PROVE StoreInv'
  <2>1. TypeOK'
    BY NextTypeOK DEF StoreInv
  <2>2. UNCHANGED <<file, clock, flock, mutex, cache, pc, work, changed, temp, result>>
    BY <1>13 DEF Writeback, vars, disk, locks
  <2>3. LockInv'
    BY <2>2 DEF StoreInv, LockInv
  <2>4. FileInv' /\ WorkInv' /\ CacheInv' /\ ResultIsOnDisk'
    BY <2>2, QuietStep
  <2>5. QED
    BY <2>1, <2>3, <2>4 DEF StoreInv
<1>14. ASSUME LosePower PROVE StoreInv'
  BY <1>14, LosePowerStep
<1>15. QED
  BY <1>1, <1>2, <1>3, <1>4, <1>5, <1>6, <1>7, <1>8, <1>9, <1>10, <1>11, <1>12, <1>13, <1>14
  DEF Next, Step, Progress

\* Only a rename, the system's own writing back and a power loss touch the
\* file or what is durable of it, and the clock never goes back.
LEMMA OthersKeepTheDisk ==
    ASSUME TypeOK, [Next]_vars, ~LosePower, ~Writeback, ~\E t \in Threads : Rename(t)
    PROVE  UNCHANGED <<file, durable>> /\ clock <= clock'
<1> USE ReferenceStoreAssumption DEF ReferenceStoreAssumption
<1>1. clock \in Nat
  BY DEF TypeOK
<1>2. CASE \E t \in Threads : CreateTemp(t)
  BY <1>1, <1>2 DEF CreateTemp
<1>3. CASE ~\E t \in Threads : CreateTemp(t)
  <2>1. UNCHANGED <<file, durable, clock>>
    BY <1>3
    DEF Next, Step, Progress, Call, LockCache, LockFile, LockFails, LoadCached, RejectEntry,
        KeepEntry, AddEntry, EndLoop, FillTemp, SaveFails, Remember, Return, ReturnError,
        Candidates, Crash, Die, vars, disk
  <2>2. QED
    BY <1>1, <2>1
<1>4. QED
  BY <1>2, <1>3

\* A rename only adds to what a power loss would leave behind.
LEMMA NextDurableInv ==
    ASSUME StoreInv, DurableInv, [Next]_vars
    PROVE  DurableInv'
<1>1. CASE \E t \in Threads : Rename(t)
  <2>1. PICK t \in Threads : Rename(t)
    BY <1>1
  <2>2. UNCHANGED <<durable, clock>> /\ pc[t] = "rename" /\ file' = temp[t] /\ temp[t] # None
    BY <2>1 DEF Rename, At, StoreInv, TypeOK
  <2>3. FileState' = work[t] /\ work[t] \in State /\ Extends(FileState, work[t])
    BY <2>2 DEF FileState, StoreInv, FileInv, WorkInv, TypeOK
  <2>4. Extends(DurableState, FileState) /\ DurableState \in State /\ FileState \in State
    BY FileStateIsState, DurableStateIsState
    DEF DurableInv, PowerLossGoesBack, DurableState, StoreInv
  <2>5. Extends(DurableState, FileState')
    BY <2>3, <2>4, ExtendsIsTransitive
  <2>6. QED
    BY <2>2, <2>5 DEF DurableInv, PowerLossGoesBack, DurableState
<1>2. CASE Writeback
  <2>1. UNCHANGED <<file, clock>> /\ durable' = file /\ FileState' = FileState
    BY <1>2 DEF Writeback, FileState
  <2>2. Extends(FileState, FileState)
    BY FileStateIsState, ExtendsIsReflexive DEF StoreInv
  <2>3. QED
    BY <2>1, <2>2 DEF DurableInv, PowerLossGoesBack, FileState, StoreInv, FileInv, FileIsValid
<1>3. CASE LosePower
  <2>1. UNCHANGED <<durable, clock>> /\ FileState' = DurableState
    BY <1>3 DEF LosePower, Die, FileState, DurableState
  <2>2. Extends(DurableState, DurableState)
    BY DurableStateIsState, ExtendsIsReflexive DEF StoreInv
  <2>3. QED
    BY <2>1, <2>2 DEF DurableInv, PowerLossGoesBack, DurableState
<1>4. CASE ~LosePower /\ ~Writeback /\ ~\E t \in Threads : Rename(t)
  <2>1. UNCHANGED <<file, durable>> /\ clock <= clock' /\ clock \in Nat /\ clock' \in Nat
    BY <1>4, OthersKeepTheDisk, NextTypeOK DEF StoreInv, TypeOK
  <2>2. durable # None => durable.mtime \in Nat
    BY DEF StoreInv, TypeOK, File
  <2>3. QED
    BY <2>1, <2>2 DEF DurableInv, PowerLossGoesBack, FileState
<1>5. QED
  BY <1>1, <1>2, <1>3, <1>4

\* Only returning tells anybody anything.
LEMMA OthersTellNothing ==
    ASSUME [Next]_vars, ~\E t \in Threads : Return(t)
    PROVE  issued' = issued
<1>1. ASSUME NEW t \in Threads, Call(t) \/ Step(t) \/ Candidates(t) PROVE issued' = issued
  <2>1. CASE Progress(t)
    BY <2>1 DEF Progress, LockCache, LockFile, LoadCached, RejectEntry, KeepEntry, AddEntry,
                EndLoop, CreateTemp, FillTemp, Rename, SaveFails, Remember, ReturnError
  <2>2. CASE ~Progress(t)
    BY <1>1, <2>2 DEF Step, Call, LockFails, Candidates
  <2>3. QED
    BY <2>1, <2>2
<1>2. CASE LosePower \/ Writeback \/ \E s \in Stores : Crash(s)
  BY <1>2 DEF Crash, Die, Writeback, LosePower
<1>3. CASE UNCHANGED vars
  BY <1>3 DEF vars
<1>4. QED
  BY <1>1, <1>2, <1>3 DEF Next

\* On a machine that keeps its power nothing told is ever lost.
LEMMA NextIssuedIsOnDisk ==
    ASSUME ~PowerLoss, StoreInv, IssuedIsOnDisk, [Next]_vars
    PROVE  IssuedIsOnDisk'
<1>1. CASE \E t \in Threads : Return(t)
  <2>1. PICK t \in Threads : Return(t)
    BY <1>1
  <2>2. /\ pc[t] = "return" /\ FileState' = FileState
        /\ issued' = issued \cup {<<o.number, o.id>> : o \in result[t]}
    BY <2>1 DEF Return, At, disk, FileState
  <2>3. {<<o.number, o.id>> : o \in result[t]} \subseteq Pairs(FileState)
    BY <2>2 DEF StoreInv, ResultIsOnDisk, Pairs
  <2>4. QED
    BY <2>2, <2>3 DEF IssuedIsOnDisk
<1>2. CASE \E t \in Threads : Rename(t)
  <2>1. PICK t \in Threads : Rename(t)
    BY <1>2
  <2>2. issued' = issued /\ pc[t] = "rename" /\ file' = temp[t] /\ temp[t] # None
    BY <2>1 DEF Rename, At, StoreInv, TypeOK
  <2>3. FileState' = work[t] /\ Extends(FileState, work[t])
    BY <2>2 DEF FileState, StoreInv, FileInv, WorkInv
  <2>4. QED
    BY <2>2, <2>3 DEF Extends, IssuedIsOnDisk
<1>3. CASE ~\E t \in Threads : Return(t) \/ Rename(t)
  <2>1. file' = file /\ issued' = issued
    BY <1>3, OthersKeepTheDisk, OthersTellNothing DEF StoreInv, Writeback, LosePower
  <2>2. QED
    BY <2>1 DEF IssuedIsOnDisk, FileState
<1>4. QED
  BY <1>1, <1>2, <1>3

-----------------------------------------------------------------------------
(* What a careful user may rely on.                                        *)

\* The invariant behind everything below, with or without power failures: the
\* locks exclude, the file is valid, the working copy extends it, no stale
\* cache matches it, and what is durable is an earlier state of it.
THEOREM StoreInvariance ==
    ASSUME 0 \notin ClockSteps PROVE Spec => [](StoreInv /\ DurableInv)
<1>1. StoreInv /\ DurableInv /\ [Next]_vars => StoreInv' /\ DurableInv'
  BY NextStoreInv, NextDurableInv
<1>2. QED
  BY <1>1, InitStoreInv, InitDurableInv, PTL DEF Spec

\* The same where the machine keeps its power, with everything that was ever
\* told to a caller.
THEOREM Invariance == ASSUME ~PowerLoss, 0 \notin ClockSteps PROVE Spec => []IInv
<1>1. Init => IssuedIsOnDisk
  BY DEF Init, IssuedIsOnDisk
<1>2. StoreInv /\ IssuedIsOnDisk /\ [Next]_vars => IssuedIsOnDisk'
  BY NextIssuedIsOnDisk
<1>3. StoreInv /\ IssuedIsOnDisk => IInv
  BY DEF IInv
<1>4. QED
  BY <1>1, <1>2, <1>3, StoreInvariance, PTL DEF Spec

\* A power loss takes the store back to a valid earlier state of itself.
THEOREM PowerLossLosesOnlyTheLatest ==
    ASSUME 0 \notin ClockSteps PROVE Spec => []PowerLossGoesBack
<1>1. DurableInv => PowerLossGoesBack
  BY DEF DurableInv
<1>2. QED
  BY <1>1, StoreInvariance, PTL

\* Every reference that Assign has returned is in the file, whatever process
\* wrote it and whatever was killed since.
THEOREM IssuedStayOnDisk == ASSUME ~PowerLoss, 0 \notin ClockSteps PROVE Spec => []IssuedIsOnDisk
<1>1. IInv => IssuedIsOnDisk
  BY DEF IInv
<1>2. QED
  BY <1>1, Invariance, PTL

\* Anyone who opens the file, locked or not, finds a complete and valid one,
\* even after a power loss.
THEOREM FileStaysValid == ASSUME 0 \notin ClockSteps PROVE Spec => []FileIsValid
<1>1. StoreInv => FileIsValid
  BY DEF StoreInv, FileInv
<1>2. QED
  BY <1>1, StoreInvariance, PTL

\* A call returns what the file says, types included.
THEOREM ResultsAreOnDisk == ASSUME 0 \notin ClockSteps PROVE Spec => []ResultIsOnDisk
<1>1. StoreInv => ResultIsOnDisk
  BY DEF StoreInv
<1>2. QED
  BY <1>1, StoreInvariance, PTL

\* In a valid file a number stands for one object and an object has one number.
LEMMA PairsAreUnique ==
    ASSUME NEW f \in State, WellFormed(f), NEW p \in Pairs(f), NEW q \in Pairs(f)
    PROVE  p[1] = q[1] <=> p[2] = q[2]
<1>1. PICK o \in f.objects : p = <<o.number, o.id>>
  BY DEF Pairs
<1>2. PICK r \in f.objects : q = <<r.number, r.id>>
  BY DEF Pairs
<1>3. QED
  BY <1>1, <1>2 DEF WellFormed

\* ADR 0011: of everything Assign ever returned, in any process, a number
\* stands for one object and an object has one number.
THEOREM NumbersAreNeverReused ==
    ASSUME ~PowerLoss, 0 \notin ClockSteps PROVE Spec => []NumbersNeverReused
<1>1. IInv => NumbersNeverReused
  <2> SUFFICES ASSUME IInv, NEW p \in issued, NEW q \in issued
               PROVE  p[1] = q[1] <=> p[2] = q[2]
    BY DEF NumbersNeverReused
  <2>1. FileState \in State /\ WellFormed(FileState)
    BY FileStateIsState, EmptyIsValid DEF IInv, StoreInv, FileInv, FileIsValid, FileState
  <2>2. p \in Pairs(FileState) /\ q \in Pairs(FileState)
    BY DEF IInv, IssuedIsOnDisk
  <2>3. QED
    BY <2>1, <2>2, PairsAreUnique
<1>2. QED
  BY <1>1, Invariance, PTL

-----------------------------------------------------------------------------
(* Lookups without the lock.                                               *)

\* The file is one that load does not refuse for its length.
FileFits == file # None => EncodedSize(file.state) <= MaxSize

AnswerInv ==
    /\ answer = [t \in Threads |-> answer[t]]
    /\ CandidatesFindWhatWasTold

\* A number that was told is found in the file, and found for one object.
LEMMA NumberFindsItsObject ==
    ASSUME IInv, NEW n \in {p[1] : p \in issued}
    PROVE  {o.id : o \in {r \in FileState.objects : r.number = n}}
              = {p[2] : p \in {q \in issued : q[1] = n}}
<1> DEFINE found == {o.id : o \in {r \in FileState.objects : r.number = n}}
           told == {p[2] : p \in {q \in issued : q[1] = n}}
<1>1. FileState \in State /\ WellFormed(FileState)
  BY FileStateIsState, EmptyIsValid DEF IInv, StoreInv, FileInv, FileIsValid, FileState
<1>2. PICK p \in issued : p[1] = n
  OBVIOUS
<1>3. ASSUME NEW q \in issued, q[1] = n
      PROVE  q[2] = p[2]
  <2>1. p \in Pairs(FileState) /\ q \in Pairs(FileState)
    BY <1>2, <1>3 DEF IInv, IssuedIsOnDisk
  <2>2. QED
    BY <1>1, <1>2, <1>3, <2>1, PairsAreUnique
<1>4. told = {p[2]}
  BY <1>2, <1>3
<1>5. PICK o \in FileState.objects : p = <<o.number, o.id>>
  BY <1>2 DEF IInv, IssuedIsOnDisk, Pairs
<1>6. \A r \in FileState.objects : r.number = n <=> r = o
  BY <1>1, <1>2, <1>5 DEF WellFormed
<1>7. found = {p[2]}
  BY <1>5, <1>6
<1>8. QED
  BY <1>4, <1>7

\* No step makes an answer wrong: only Candidates gives one.
LEMMA NextAnswerInv ==
    ASSUME IInv, FileFits, AnswerInv, [Next]_vars
    PROVE  AnswerInv'
<1>1. CASE \E t \in Threads : Candidates(t)
  <2>1. PICK t \in Threads : Candidates(t)
    BY <1>1
  <2>2. Readable
    BY DEF Readable, FileFits, IInv, StoreInv, FileInv, FileIsValid
  <2>3. PICK n \in {p[1] : p \in issued} :
          answer' = [answer EXCEPT ![t] =
            [found |-> IF ~Readable THEN {}
                       ELSE {o.id : o \in {r \in FileState.objects : r.number = n}},
             told |-> {p[2] : p \in {q \in issued : q[1] = n}}]]
    BY <2>1 DEF Candidates
  <2>4. {o.id : o \in {r \in FileState.objects : r.number = n}}
            = {p[2] : p \in {q \in issued : q[1] = n}}
    BY NumberFindsItsObject
  <2>5. PICK found : answer' = [answer EXCEPT ![t] = [found |-> found, told |-> found]]
    BY <2>2, <2>3, <2>4
  <2>6. \A u \in Threads : answer'[u] = IF u = t THEN [found |-> found, told |-> found] ELSE answer[u]
    BY <2>5 DEF AnswerInv
  <2>7. QED
    BY <2>5, <2>6 DEF AnswerInv, CandidatesFindWhatWasTold
<1>2. CASE \E t \in Threads : Call(t)
  <2>1. PICK t \in Threads : answer' = [answer EXCEPT ![t] = None]
    BY <1>2 DEF Call
  <2>2. \A u \in Threads : answer'[u] = IF u = t THEN None ELSE answer[u]
    BY <2>1 DEF AnswerInv
  <2>3. QED
    BY <2>1, <2>2 DEF AnswerInv, CandidatesFindWhatWasTold
<1>3. CASE ~\E t \in Threads : Candidates(t) \/ Call(t)
  <2>1. answer' = answer
    BY <1>3
    DEF Next, Step, Progress, LockCache, LockFile, LockFails, LoadCached, RejectEntry, KeepEntry,
        AddEntry, EndLoop, CreateTemp, FillTemp, Rename, SaveFails, Remember, Return, ReturnError,
        Crash, Die, Writeback, LosePower, vars
  <2>2. QED
    BY <2>1 DEF AnswerInv, CandidatesFindWhatWasTold
<1>4. QED
  BY <1>1, <1>2, <1>3

\* A number that a caller was told is found for the object it was told, without
\* any lock, as long as the file stays below the limit of load.
THEOREM CandidatesAreTrue ==
    ASSUME ~PowerLoss, 0 \notin ClockSteps
    PROVE  Spec /\ []FileFits => []CandidatesFindWhatWasTold
<1>1. Init => AnswerInv
  BY DEF Init, AnswerInv, CandidatesFindWhatWasTold
<1>2. IInv /\ FileFits /\ AnswerInv /\ [Next]_vars => AnswerInv'
  BY NextAnswerInv
<1>3. AnswerInv => CandidatesFindWhatWasTold
  BY DEF AnswerInv
<1>4. QED
  BY <1>1, <1>2, <1>3, Invariance, PTL DEF Spec

-----------------------------------------------------------------------------
(* The store implements the number allocator.                              *)

\* The store starts as an allocator that has handed out nothing.
LEMMA InitRefines == Init => Allocator!AllocatorInit
  BY EmptyIsValid DEF Init, Allocator!AllocatorInit, FileState, Empty

\* The rename puts new numbers in force: Reserve.
LEMMA RenameReserves ==
    ASSUME IInv, NEW t \in Threads, Rename(t)
    PROVE  Allocator!Reserve
<1>1. pc[t] = "rename" /\ file' = temp[t] /\ issued' = issued
  BY DEF Rename, At
<1>2. FileState' = work[t]
  BY <1>1, ReferenceStoreAssumption
  DEF ReferenceStoreAssumption, FileState, IInv, StoreInv, TypeOK, FileInv
<1>3. work[t] \in State /\ WellFormed(work[t]) /\ Extends(FileState, work[t])
  BY <1>1 DEF IInv, StoreInv, TypeOK, WorkInv
<1>4. \A p \in Pairs(work[t]) : p[1] < work[t].next /\ p[2] \in IDs
  BY <1>3, ReferenceStoreAssumption
  DEF ReferenceStoreAssumption, Pairs, WellFormed, State, Record
<1>5. work[t].next \in Nat
  BY <1>3, ReferenceStoreAssumption DEF ReferenceStoreAssumption, State
<1>6. \A p, q \in Pairs(work[t]) : p[1] = q[1] <=> p[2] = q[2]
  BY <1>3, PairsAreUnique
<1>7. QED
  BY <1>1, <1>2, <1>3, <1>4, <1>5, <1>6 DEF Allocator!Reserve, Extends

\* Returning tells numbers that are in force: Tell.
LEMMA ReturnTells ==
    ASSUME IInv, NEW t \in Threads, Return(t)
    PROVE  Allocator!Tell
<1>1. /\ pc[t] = "return" /\ FileState' = FileState
      /\ issued' = issued \cup {<<o.number, o.id>> : o \in result[t]}
  BY DEF Return, At, disk, FileState
<1>2. {<<o.number, o.id>> : o \in result[t]} \subseteq Pairs(FileState)
  BY <1>1 DEF IInv, StoreInv, ResultIsOnDisk, Pairs
<1>3. QED
  BY <1>1, <1>2 DEF Allocator!Tell, IInv, IssuedIsOnDisk

\* No other step changes the file or tells anyone anything.
LEMMA OthersStutter ==
    ASSUME ~PowerLoss, [Next]_vars, ~\E t \in Threads : Rename(t) \/ Return(t)
    PROVE  UNCHANGED <<file, issued>>
  BY DEF Next, Step, Progress, Call, LockCache, LockFile, LockFails, LoadCached, RejectEntry, KeepEntry,
         AddEntry, EndLoop, CreateTemp, FillTemp, SaveFails, Remember, ReturnError, Candidates, Crash, Die,
         Writeback, LosePower, vars, disk

\* Every behaviour of the store is one of the allocator: numbers only grow, a
\* pair in force stays in force, and only pairs in force are told to anyone.
THEOREM StoreImplementsAllocator ==
    ASSUME ~PowerLoss, 0 \notin ClockSteps PROVE Spec => AllocatorSpec
<1>1. IInv /\ [Next]_vars => [Allocator!AllocatorNext]_(Allocator!allocatorVars)
  <2> SUFFICES ASSUME IInv, [Next]_vars
               PROVE  [Allocator!AllocatorNext]_(Allocator!allocatorVars)
    OBVIOUS
  <2>1. CASE \E t \in Threads : Rename(t)
    BY <2>1, RenameReserves DEF Allocator!AllocatorNext
  <2>2. CASE \E t \in Threads : Return(t)
    BY <2>2, ReturnTells DEF Allocator!AllocatorNext
  <2>3. CASE ~\E t \in Threads : Rename(t) \/ Return(t)
    <3>1. UNCHANGED <<file, issued>>
      BY <2>3, OthersStutter
    <3>2. QED
      BY <3>1 DEF FileState, Allocator!allocatorVars
  <2>4. QED
    BY <2>1, <2>2, <2>3
<1>2. QED
  BY <1>1, InitRefines, Invariance, PTL DEF Spec, AllocatorSpec, Allocator!AllocatorSpec

=============================================================================
