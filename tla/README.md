# A verification project for dpwire

dpwire is a Go client (library and `dp` command) for a reader device that
stores PDF documents in folders, together with a simulator of that device
(`dptest`).  This directory holds TLA+ modules of the parts where something
can go wrong that a test would hardly reach, the TLC configurations that check
them on small instances, and TLAPS proofs about the reference store,
authentication, registration, the profile store, safe writes with the device
below them, paginated listings, and the commands on one object.

All paths below are relative to `src/`.

## The system

| part | state | operations | what makes it hard | what makes it correct |
|---|---|---|---|---|
| device simulator, `dptest/state.go`, `dptest/emulator.go` | `nextID`, folders, documents, contents under one mutex | create folder / document, upload, copy, update (rename, move), delete, list, look up, download, open | several clients; a path is stored in every entry and must be rewritten below a renamed folder; listings take two critical sections | paths unique and in agreement with the parents, nothing orphaned, identifiers never reused, a folder vanishes only empty |
| safe writes, `write.go`, `delete.go` | none between calls; a call is a chain of exchanges | CreateFolder, CreateAndUpload, Copy, Replace, Update, Delete, DeleteEmpty | other clients between the exchanges; lost requests, lost answers, requests handled after their sender gave up | a guarded write destroys only what its caller saw; success means the device held the body; an error names only the call's own entry |
| paginated listing, `entries.go` | offset, entries so far | listEntries | the folder changes between pages and inside one | exact when undisturbed; an empty listing overlooks nothing |
| glob selection, `cmd/dp/selectors.go` | folders of the level, matches | globDevice, resolveGlobObjects, resolveObject | listings of changing folders, one after the other | exact when undisturbed, within the limit |
| recursive listings, `cmd/dp/main.go` | visited folders, seen documents, count | printRecursiveEntries, collectGlobalDocuments | folders move during the walk, even below themselves | ends whatever changes; exact and without repetition when undisturbed |
| object references, `profiles/object_references.go` | a JSON file, a cache per store object, a mutex, an advisory file lock | Assign, Candidates | several processes and threads, crashes, readers without a lock, a cache validated by inode, size and time | a number stands for one object for ever |
| atomic files, `internal/atomicfile` | temporary and final file | WriteNew, Replace | crashes between the system calls, power loss | readers see a complete old or new file |
| registration, `internal/wire/registration`, `pairing` | device: PIN and one transcript; client: its position in M1..M6 | Register; cleanup, PIN, hash, CA and registration handlers | another client's cleanup, a PIN that changes, lost answers, killed clients | success means this call's identity is registered, under the PIN in force; nothing settled comes back |
| profile store, `profiles/profiles.go`, `profile.go` | a directory per profile, `config.json` | ImportSony, Pair, Use, List, Current, Load | several processes, failed steps that are undone, kills | a profile that was created stays as it is; the default can be used |
| authentication and sessions, `internal/wire/auth`, `transport`, `dptest` | device: a nonce per client identifier, session tokens; client: the credential of a `Client`, shared by goroutines | Authenticate, any other operation; nonce and authentication handlers, the session check | two authentications with one identifier, requests given up or sent twice, a credential replaced while it is in use, a registration meanwhile | a `Client` holds a session of its own identity; a nonce is good once; a refusal has a reason |
| single-object commands, `cmd/dp` | the reference store, local files | ls -l, mkdir, put, get, cp, mv, rm, rmdir, open | selection, destination and act are exchanges of their own, and references outlive what they were printed for | a reference selects its object or none; nothing is overwritten; a local file is whole |
| cryptography, credentials, capabilities, paths, tools, `cmd/dp-sim` | none | | | not modelled, see below |

How they interact: every operation of the library is a sequence of HTTP
exchanges over `transport`, each of which the device handles atomically (the
listing handler in two steps).  The commands select objects through listings,
look-ups or the reference store, and then call the operations.  `dp ls -l`
gives every listed entry a number through the reference store.  `pairing` runs
the registration and the profile store keeps its result.  A profile's identifier and
key go into `auth.Authenticate`, whose credential `transport` sends with every
request after that.  The reference store
and `config.json` are written with `atomicfile.Replace`, the files of a profile
with `atomicfile.WriteNew`.

## The modules

| module | models | state and actions |
|---|---|---|
| `Device` | `dptest/state.go` and the document and folder handlers of `emulator.go` | `folders`, `documents`, `contents`, `nextID` are the maps of `State`; `request` and `reply` are the channels of `transport`; `Serve(k)` is one handler run, with its error codes in the order the code checks them |
| `SafeWrites` (extends `Device`) | `write.go`, `delete.go`, and the calls of `documents.go`, `folders.go` | one starting action per operation and one action per answer it reacts to: `CreateAndUpload`, then `LookAtCreated`, `VerifyCreated`, `LookAtUploaded`, `VerifyUploaded`; and so on.  `Resolve` is a user who looks at an entry and later acts on what was `seen` |
| `Listing` | `entries.go` `listEntries`, `State.folderEntries`, `writeEntryList` | `TakeDocuments` and `TakePage` are the two halves of the handler, the second with the client's decision to go on |
| `Selection` (extends `Listing`) | `globDevice`, `resolveGlobObjects` | `Glob`, `ListNext`, `Examine`, `Descend`, `Select`: a segment is the set of names it lets through |
| `Traversal` (extends `Selection`) | `printRecursiveEntries`, `collectGlobalDocuments`, and the branch of `ls` that calls them | the recursion is a stack; `WalkFromMatches` starts where a glob ended |
| `NumberAllocator` | the promise of `Assign`: numbers are given out once and in increasing order | `assigned`, `next` |
| `ReferenceStore` | `object_references.go` and `atomicfile.Replace` | a process is a set of threads that share a store object; every lock, system call and return is an action; `Crash` and `LosePower` hit between any two |
| `SafeWritesProofs`, `TreeProofs` | theorems about `Device` and `SafeWrites`: what a handler may change; what a client knows; paths and parents | |
| `TraversalProofs` | theorems about `Listing`, `Selection` and `Traversal` | |
| `ReferenceStoreProofs` | theorems about `ReferenceStore` | |
| `RegistrationProofs` | theorems about `Registration` | |
| `ProfilesProofs` | theorems about `Profiles` | |
| `Registration` | `registration.go` `Register`, `emulator.go`, `pairing.go` `Register` | one action per message sent or answer taken; keys and hashes are symbolic terms, so an answer fits only the call it was made for |
| `Registrar` | the promise of pairing, without transcripts and messages | `identities`, `running`, `outcome`; `Begin`, `Enroll`, `End`, `Die`, `ChangePIN` |
| `Session` | `auth.go`, the credential of `transport.go`, the nonces, tokens and clients of `dptest/state.go` and their handlers | a handler takes the store's mutex once per lookup, so `LookUpClient`, `IssueNonce`, `LookUpKey`, `TakeNonce`, `OpenSession` are steps of their own; `Authenticate`, `SignNonce`, `SetCredential` are the client's; `Use` and `Used` stand for every other operation; `Abandon` leaves a request (or a second copy of a GET) under way |
| `SessionProofs` | theorems about `Session` | |
| `Commands` (extends `SafeWrites`) | the commands of `cmd/dp/main.go` on one object, `resolveObject` and the look-up of references of `selectors.go`, `resolveDestination` | `command[c]` is the position of a user in its command; `Begin`, then a selection by path (`LookUpObject`) or reference (`FetchNext`, `Fetched`, `Choose`), `LookUpDestination`, `LookUpParent`, then one call of the library.  The reference store is `NumberAllocator`'s promise (`Assigned`), with the hexadecimal forms and `Candidates`; `local` are files of the user |
| `CommandsProofs` | theorems about `Commands`, on top of those about `SafeWrites` | |
| `Profiles` | `profiles.go`, `profile.go`, `atomicfile.WriteNew` | one action per system call of `ImportSony`, `Pair`, `Use`, `List`, `Current`; a failure leads to the removal the deferred function does |

The `MC` modules hold the seeds and other values the configurations need.
Mutants of a definition stand directly above it (`FreshID_ByCount` above
`FreshID`): each is a plausible mistake in the code the definition models, and
for every checked property at least one of them makes TLC find a violation.

### What the models abstract from

- Names, bodies, keys and identifiers are numbers or model values.  Names that
  differ only in case are kept apart where paths are compared (`alpha` and
  `Alpha` in the runs), since the device ignores case.  All bodies have the
  same size in the runs, the worst case for the size check after an upload.
- An exchange that fails is `LoseRequest`, `LoseReply` or `Abandon` (the
  request may be handled later).  The simulator's configurable faults (wrong
  status, cut short, not JSON) have one of these effects and are not told
  apart.
- `MoveTargets` are the folders that folders are moved to.  In the runs of
  `SafeWrites` it has the root only: the simulator does not look for cycles, and
  a cycle has no path.  The theorems about paths leave it open.  Cycles are in
  `Listing`, where entries have a parent and no path.
- The choice between the current and the legacy configuration directory, PDF
  preparation, name validation and the sort by modification time change none
  of what the properties speak about.

## The runs

Run one with `tlc -workers 2 -config <run>.cfg <module>`.  Deadlock is not
checked: every client has a bound on its calls, after which the system stops.

| run | question | bounds, and why they are enough |
|---|---|---|
| `SafeWrites_clients` | Can an operation destroy or report something it should not, or leave paths and parents in disagreement? | Two clients, two calls each with every operation of the library, two failed exchanges, a folder and a document, one new name that differs from an old one in case only.  The races are between two calls; two calls each let one put, replace, rename, remove or delete what the other has looked at, and a lost request may still arrive during any of them.  0.5 million states |
| `SafeWrites_survivor` | violation, see Findings | one call each |
| `Commands_terminal` | Do commands act on what was selected, overwrite nothing, and leave whole files? | Two users, three commands in all, one failed exchange, references to all objects printed before, digests that begin alike so that short references become ambiguous.  A command needs up to four exchanges, and the other user's two commands can delete an object and create another one between any two.  A request that arrives after its sender gave up is in `SafeWrites_clients`.  0.8 million states |
| `Session_sharing` | Whose credential does a Client hold, which nonce opens a session, who may be refused? | Two callers that share a Client and one of another identifier, four calls in all, one event (a request given up or sent twice, or a pairing).  Two authentications overlap in every way, with a leftover of a third, and a use holds the older session.  More events are covered by the proof.  0.7 million states |
| `ReferenceStore_batches` | Does the store keep its promises with batches, does every `Assign` end, and does the invariant of the proofs hold? | Two processes with a thread each, two calls each, one of them killed at any point, a moving clock, numbers run out at 2, two inodes so that a number comes back at once; batches that fail half-way, exhaust the numbers or change a type.  Two calls let a cache be filled, go stale and be trusted again.  Two threads that share one store object are covered by the proof |
| `ReferenceStore_crashes` | What does a power loss or a kill leave, if the clock stands still as well? | `ClockSteps = {0}`, two calls each, one crash or power loss |
| `ReferenceStore_powerloss` | violation, see Findings | two calls each |
| `Traversal_walk` | Are globs and recursive listings exact and without repetition when nothing changes, and do they end and keep to their limits when much does? | A folder in a folder, three documents, one entry per page, two changes, limit 4.  With two changes a folder can be moved below itself and a document from a listed folder to one that is listed later.  The five entries below the root exceed the limit, the four below the first folder just meet it; a folder below itself with a document in it could be listed twice within the limit, so that it is not is the visited folders' doing.  That a cyclic walk ends has two reasons, the visited folders and the limit, in the code as here.  0.2 million states |
| `Listing_skipping` | violation, see Findings | three documents that take all the names, no folder, one change, which can therefore only be a deletion; one entry per page |
| `Registration_pairing` | Can registrations that share the device's one transcript mix, and do they amount to what `Registrar` promises? | Two clients, two calls in all, two failed messages or kills, one change of the PIN.  Two calls meet in every order, and one finds what the other left; more calls are covered by the proof |
| `Profiles_sharing` | Is the profile directory safe between processes? | Two processes, two names, two commands each, one failed step and one kill |
| `Profiles_killed` | violation, see Findings | one kill; the property speaks of directories whose pairing the device has registered |

The inode, size and time check of the cache (`SameFile`) needs either a clock
that moves with every write (`ClockSteps` without 0) or files that differ in
size.  A type change is the only save that may leave the size alone (when the
two encodings are equally long), and then the stale copy differs in that type
only; the numbers would be right all the same.  The types are therefore
checked with a moving clock (`ResultIsOnDisk`, a conjunct of `IInv`, in
`ReferenceStore_batches`).

### Fairness

`ReferenceStore`: weak fairness of each thread's own steps (`Progress(t)`), not of
the failure to open or lock the file (`LockFails`) nor of crashes.  A Go thread
that can run gets to run, `flock` blocks until the lock is free, and the kernel
releases the lock of a dead process.  Weak fairness is enough because the calls
are bounded; for an unbounded stream of rivals the property would need a fair
lock queue, which neither `sync.Mutex` nor `flock` is asked for here.  `SafeWrites`,
`Commands`, `Session` and `Profiles` state safety only and assume no fairness.  `Registration`: the
device answers while it has a request, and a client with an answer goes on
(`WF_vars(Serving \/ Proceeding)`); nobody has to type a PIN, so
`RegisterGoesOn` ends at "waits for the user".  `Traversal`: the command that
runs, goes on, and the device answers it (`WF_vars(Run)`); no fairness among
the changes of others.

## What is proved

TLAPS checks the following for every value of the constants that meets the
assumptions of the module (`ReferenceStoreAssumption`, `SessionAssumption`,
`RegistrationAssumption`, `ProfilesAssumption`, `SeedAssumption` and
`SafeWritesAssumption`, `ListingAssumption`, `PatternAssumption`, `CommandsAssumption`); TLC evaluates them in the runs.  They
say what kind of thing each constant is, and of the seeds what the device
itself maintains.

| module | theorems | hypotheses beyond the assumptions |
|---|---|---|
| `SafeWritesProofs` | `TypeCorrect`, `GuardedWritesAreSafe`, `DeletionIsFinal`, `PublishedIsReal`, `CleanupIsOwn`, `FoldersGoEmpty` | none |
| `TreeProofs` | `TreeStaysInOrder`, `PathsAgreeWithParents`, `PathsNameOneEntry`; `MovesToTheRootAreHarmless` | no folder is moved below itself; `MoveTargets \subseteq {Root}` for the last, which proves the hypothesis of the others for the runs |
| `TraversalProofs` | `UndisturbedListingsAreExact`, `EmptyListingsMissNothing`, `UndisturbedSearchesAreExact`, `UndisturbedWalksAreExact`, `FlatListingsShowDocumentsOnce`, `UndisturbedWalksShowOnce` | none |
| `ReferenceStoreProofs` | `TypeCorrect`, `PowerLossLosesOnlyTheLatest`; `NumbersAreNeverReused`, `IssuedStayOnDisk`, `FileStaysValid`, `ResultsAreOnDisk`, `CandidatesAreTrue`, `StoreImplementsAllocator` | none for the first; a clock that moves for all others, and no power loss but in `PowerLossLosesOnlyTheLatest`; for `CandidatesAreTrue` a file below the limit of `load` |
| `CommandsProofs` | `CommandsInvariance`, `NothingIsOverwritten`, `FilesAreWhole`, `ReferencesAreKept` | none; for `ReferencesAreKept` every object of the reference store has a digest |
| `SessionProofs` | `CredentialsAreOwn`, `NoncesGoodOnce`, `CredentialsStay`, `RefusalsHaveReasons` | none |
| `RegistrationProofs` | `SuccessIsReal`, `FailuresAreExplained`, `RegisteredUnderTheCurrentPIN`, `CleanupIsFinal`, `RegisteredOnce`, `RegistrationImplementsRegistrar` | none |
| `ProfilesProofs` | `ProfilesStayApart`, `KeysStayWithProfiles`, `TheDefaultIsUsable`, `SuccessfulListingsAreComplete`, `CreatedProfilesAreKept`, `TheDefaultIsKept`, `DeviceIsContactedOnlyForReservedNames` | none |

The hypotheses are needed.  `ReferenceStore_powerloss` is the counterexample
without the first of the store's, the mutant `SameFile_NoSize` in
`ReferenceStore_crashes` shows what a clock that stands still relies on, and
`save` writes a file that `load` refuses (Findings).  The simulator accepts a
folder as its own descendant; what becomes of paths then is no property anybody
promised.  A digest exists for every object of the program; the model gives one to
the few identifiers of a run only (`Digest`), hence the hypothesis `Digested`.  In every module the properties are not inductive, and the theorem
`Invariance` (`StoreInvariance` for what survives a power loss) proves an invariant that is.
Each action has one lemma, and frame lemmas say once what the step of one
process leaves alone.

### Safe writes and the device

What makes a guarded deletion safe is spread over two processes: the client
asks with a revision it has seen, and the request may arrive much later, when
others have written and deleted.  `DeviceInv` has the device's half.
Identifiers lie below the counter; `VersionsInv` says that a revision of a
document has had one body, and that the current one is the latest; `RequestFits`
says of every request under way, those included whose sender has given up, that
its target revision goes with the body its sender saw.  `StoreGrows` is what no
handler ever takes back (an identifier is not handed out again, a document keeps
its maker, what was gone stays gone), so facts about the past stay true
(`FactsStay`).  `IInv` adds the client's half, `ClientInv`: `Waiting` (one request
under way, or one answer, for a client that has a call), `Knows` (what a call
may rely on at each of its steps: that the entry is its own, that the body under
this revision was seen), `Expects` (the request is the one the step calls for),
`Hears` (an answer tells the truth and goes on doing so until it is heard) and
`Keeps` (what a client keeps from a look-up).  `GuardedWritesDestroyWhatWasSeen`
then follows from `RequestFits` at the step in which the device handles the
request.

### Paths

`PathsFollowParents` and `PathsAreUnique` hold together or not at all, and need
`AncestorsExist`: each folder that a path mentions is there.  A rename checks the
new path of the folder itself only, and rewrites all paths below it; that none of
the new paths is taken follows since, were there an entry below the new path, there
would be a folder at it.  The lemmas about prefixes (`Moved`, and what it keeps)
carry most of the proof.  That the ancestors of the seeds exist is an induction over the length of
a path, done as the search for a shortest counterexample
(`WFMin`, `NatLessThanWellFounded`).  A folder moved below itself would rewrite its own parent's path, so
the theorems assume `NoFolderMovesIntoItself`: no update that the device handles
asks for it.  Moves into folders of others are all there.  Where folders are moved to
the root only, as in the runs, no such update exists (`MovesToTheRootAreHarmless`; `MovesAllowed`:
no request under way asks for one).

### Listings

A page is cut from the folder as it is then, by an offset that stems from the
folder as it was.  `PagesInv`: the offset is the length of what has been
collected, and while nobody has changed anything (`before`), that is the beginning
of the folder.  `HalfInv`: between the two critical sections the handler holds the documents
that were in the folder, hence all that stay.  `InOrderSorts` proves of the sort that
each row of a folder has one place, in the order of names (a row's rank is the number of
rows before it, ranks are injective, and an injection between finite sets of one
size is a surjection); `UndisturbedPage` that the order does not depend on how equal
paths are sorted.  `InOrder` is therefore defined by ranks, and `Keep` and `Arranged`,
what a filter and a stable sort do to a sequence, by the order of positions:
`KeepCuts` and `ByNamePicks` say that no position is dropped or taken twice.

### Globs and recursive listings

`CalmInv`: while nobody changes the tree, the listing under way is of the folder as
it is; so what `Examine` and `Collect` take is its entries, each once (`GotTheFolder`).
That a search or walk is exact then is a matter of sets.

A search: `SearchOK` says of level l that the folders already listed there gave
what fits segment l, that the rest are still pending, and that `visitedEntries` is the
number of entries in the folders listed so far.  Nothing is counted or found twice because an entry
lies in one folder, and a folder on one level (`LevelsAreApart`: its parents
lead to the root in so many steps; cycles are elsewhere).  A level without folders
ends the expansion (`ExpansionEnds`), so a search may stop there.

A walk: `WalkAt` says that what was met, the roots and what lies in the folders that
are done, has been shown if it is a document and is visited or on the stack if it is a
folder; and that all of it is reachable.  When the stack is empty, the set of what was met is
closed, so it contains the least closed set with the roots, `Reachable`.  The limit counts the entries of
the folders that are done, and the documents a walk starts from besides; hence the
claim about the limit is for a single root, which is either a document or a folder.  `UnderOneMore` is why
the count is exact: `visited` keeps a folder from being counted twice.

`FlatInv` for `FlatListingsShowDocumentsOnce` needs no calm: a document is shown if it
is not known, and none before it in the same listing is the same (`ShownFacts`, `FirstExists`).
A recursive listing prints without looking back, and `OnceInv` for
`UndisturbedWalksShowOnce` needs the calm: the documents of a listing are distinct, and none of
them was shown.  Not from a folder that is done, since a document lies in one folder and a
folder is listed once; and not as a root (`RootsAside`), since a single document leads to
nothing, and what a glob has found lies on one level while a walk only goes further down
(`MatchesAreAside`, from `LevelsAreApart`).

### Commands

A command makes calls of its own and starts calls of the library, so `CInv` contains `IInv`, and
each step of a command is one of three moves of the client below it (`Moves`): it rests, starts
a call, or goes on with one.  `RefsOK`: the store lists objects that have existed, with their type.
`CommandOK`: what was selected is such an object, and at each stage the fields the code reads there
are set.  `Awaits` ties a stage to the call under way.

`PutInv` for `NothingIsOverwritten`: tags are of past calls and name one document each, a document that its put
is still to fill is blank, and every upload under way is for such a document.  `FileInv` for `FilesAreWhole`: a local
file is a whole body, or the get that loads it is not over; of two gets with one
file name the second finds the file there.

`SelInv` for `ReferencesAreKept`.  Of a number (`NumberOK`): what is still to be looked up, on its way or
found is the object it was printed for.  Of digits (`HexOK`): as long as that object
exists, it is among these.  Both rest on `ShownFor`: what was printed, digits included, still leads to the object.
The objects that are listed later can only make the digits an object needs more
(`HexGrows`), so the digits that were printed remain a prefix of its digest.

### The reference store

`NumbersNeverReused` speaks of the answers only: whether the next answer is right
depends on the working copy it is taken from, and that on the cache.  `IInv`
adds what ties them together.
`LockInv`: whoever is in the critical section holds the mutex of its store and
the file lock, so no two are.  `FileInv`: the file is complete and valid, and a
temporary file is younger than the file.  `WorkInv`: the working copy extends
the file, that is, it has the same numbers and new ones only from `next` on; so
a rename never takes a number back.  `CacheInv`: a cache whose recorded inode,
size and time match the file holds the file's contents.  It survives a rename
because the new file is younger than every recorded time, so no stale cache can
match it, whatever inode it got.  With `IssuedIsOnDisk`, every number told is in a
well-formed file, where a number stands for one object.  `Extends` is transitive
and reflexive (lemmas), and `Numbered` extends a well-formed state by a fresh number
(`NumberedIsFresh`).  For the refinement, `Rename` is the allocator's allocation,
`Return` its answer, and all else stutters.  All of it but `IssuedIsOnDisk` survives
a power loss (`StoreInvariance`): what the disk falls back to is a file it once
had, and the later ones extend that (`DurableInv`).  `CandidatesAreTrue` says that a
reader that takes no lock sees one complete file, and that this one has
every number told before the reader began.

### Sessions

What a Client keeps depends on the answer under way, and that on the nonces.
`NonceInv` says that a
nonce is in one place at a time: outstanding, held by a handler that has
verified its signature, replaced, or granted; with `FreshInv`, that all of them
were drawn before, a new nonce is none of these.  `WaitInv` says that what a caller is
answered belongs to what it asked, in particular that the token in a cookie is a
session for its own identifier and key; the parser returns that token or nothing
(`ParsedIsToken`).  `CalmInv` says that an authentication nothing has interfered
with (`Calm`) is alone with its identifier and that its nonce is the outstanding
one, so a refusal refutes calm.

### Registration

The device has one transcript for all.  `TranscriptInv`: it is that of the latest
sequence, and once it has a key it commits to the PIN in force.  `AskedInv`, `HeardInv` and
`LocalInv` say that a message under way belongs to the step of its sender.  `LateInv`:
a registration message that was given up names a sequence that had begun, and if
its call is over, one that is over too; so it finds another transcript or none, which is
`SettledStaysSettled`.  `CalmInv` says of a call nothing has disturbed that the
transcript is its own at every step, so a failure refutes calm.

`Registrar` says in five actions what the seven exchanges amount to: a call takes
effect at most once, in one step, under the PIN shown then; it may do so after its client has
given up, but not after its cleanup was acknowledged, and it succeeds only if it did.  A client
runs there while its `pc` is not `"idle"`; `Enroll` is the handler of the last message, and
every other exchange stutters.  The refinement needs `OnceInv` besides: the
registration message of a call is not yet sent, under way in one place (perhaps without its
sender), or answered, and only then the device may have the call's identity.
`RegisteredWithThePINInForce` is part of the promise, so no run checks it on its own; it
remains a theorem (`RegisteredUnderTheCurrentPIN`).

### Profiles

`OwnInv`: a command that has made its directory still has it, with the files it has
written and no others, since nobody else's `mkdir` of that name succeeds.  `DirInv`: all
files of a directory are its maker's.  `KeyInv`: only a removal, under way or
killed, leaves a profile without its key.  `CreatedInv`: what was reported as created
is complete, and the call that may still remove it is over.  `DefaultInv` and `ListInv` say
what a command that has looked at the default, or read the directory, may rely on.

### Only model-checked

- The liveness properties `AssignEnds`, `WalkEnds` and `RegisterGoesOn`: the prover
  does not do fairness or ENABLED.

Every invariant and every other action property of a passing run is a theorem.
No module declares a RECURSIVE operator.

## Findings

- `SafeWrites_survivor`: when the answer to the creating request of a put is
  lost, the document is on the device and the error names no entry, while
  `docs/protocol.md` says that a failure after metadata creation names the
  survivor.
- `ReferenceStore_powerloss`: `atomicfile.Replace` syncs the file and not the
  directory, so a power loss may undo a rename, and a number that was already
  printed is given out again.
- `Listing_skipping`: pages are offsets into a folder that may shrink.  When a
  document is deleted between the copy for the first page and the one for the
  second, the listing skips a document that was there all the time, and succeeds.
- `Profiles_killed`: `Pair` makes the profile directory before it registers and
  writes the profile after, so a pairing that is killed once the device has
  registered it leaves a name that cannot be used again and a `List` that fails;
  the documentation of pairing says "stores it atomically".

Met on the way, and not a run of its own:

- `save` writes a reference file of any length, `load` refuses one above
  `maxObjectReferenceSize`.  With `MaxSize = 20` in `ReferenceStore_batches`,
  `CandidatesFindWhatWasTold` does not hold: the `Assign` that crosses the limit
  succeeds and is the last one that does.
- `cmd/dp` handles no signal, so an interrupted registration leaves its
  transcript on the device until the next one cleans up; `FailuresHaveReasons`
  says that this does no harm.  A lost answer to the last message leaves an
  identity on the device that no client knows of.
- An import that fails may remove a profile that another process has just made
  the default; `DefaultIsUsable` is stated for runs without a failed step.
- A hexadecimal reference may select another object than it was printed for, once
  that object is deleted (a candidate that is not found is passed over) or when
  the command wants another type than it has: `rm --id 0x...` then removes the
  other one.  `ReferencesSelectTheirObject` states exactly what remains true.
- The upload of a put carries no target revision.  Commands never overwrite each
  other all the same (`CommandsNeverOverwrite`): none of them uploads into a document it has not made.  Another
  program that replaces the fresh document through the library loses its body.
- Two authentications with one identifier may both fail, and a nonce request that
  was given up, or sent again by `net/http`, may spoil the next authentication:
  `RefusedForAReason` lists these reasons and excludes all others.
- The simulator compares paths with their case when it looks for a conflict and
  without it when it looks one up, over a map in random order: with `alpha` and
  `Alpha` in one folder a path may find either.
- A `get` that is killed leaves a partial file under the final name.
- A glob or a flat walk over a tree that changes may meet an object twice.  The
  flat walk shows it once; a glob then calls a single object ambiguous, which is
  the safe side.

## Not modelled

- Registration cryptography and AES key wrap: pure functions of byte strings
  whose correctness is cryptographic; `Registration` takes them as symbolic.
- Credentials, capability discovery, device information, path normalisation, and
  the status endpoints of the simulator: no state, a single exchange or none.
- `dp stat`, `dp file`, `dp profile` and the option parser: a selection that is
  printed, or a call of a component that is modelled.  The glob dialogue (the
  warning about a questionable pattern) asks and changes nothing.
- TLS, certificate pinning, discovery of the device: I/O.
- `cmd/dp-sim` and `tools/`: they start the simulator and check the repository.
- The limit of 16 MiB on answers and other size limits of `transport`: an answer
  that exceeds one is a failed exchange.

## Plan

Done: `Device`, `SafeWrites`, `Listing`, `Selection`, `Traversal`,
`NumberAllocator`, `ReferenceStore`, `Registrar`, `Registration`, `Profiles`, `Session`,
`Commands`, and the proofs above: every safety property of a passing run.

Left:

1. An abstract specification of `Device` (a tree without paths), with its
   refinement, which rests on `PathsFollowParents`.
