------------------------------ MODULE Listing ------------------------------
(***************************************************************************)
(* A paginated folder listing (entries.go: listEntries) over a device      *)
(* whose folders change between the pages.                                 *)
(*                                                                         *)
(* The device keeps no cursor: every page is cut out of the folder as it   *)
(* is when the page is asked for (dptest: folderEntries, writeEntryList).  *)
(* The handler copies the documents and the folders in two critical        *)
(* sections, so a page is two steps.  Entries are sorted by path; inside   *)
(* one folder that is the order of their names, here their ranks.          *)
(***************************************************************************)
EXTENDS Integers, FiniteSets, Sequences, SequencesExt

CONSTANTS
    Documents, Folders,     \* entries that exist or may still be created
    Root,                   \* the device root, always there
    Names,                  \* entry names: numbers, in sorting order
    PageSize,               \* the limit of one page
    SeedPlaces,             \* where the entries are at the start
    MaxChanges,             \* bound: changes made by other clients
    New, Gone               \* places of entries not made yet and deleted

Entries == Documents \cup Folders
Nowhere == {New, Gone}
Places == [parent : {Root} \cup Folders, name : Names]

\* No two entries of a folder have one name.
Apart(places) ==
    \A d, e \in Entries :
        d # e /\ places[d] \in Places /\ places[e] \in Places /\ places[d].parent = places[e].parent =>
            places[d].name # places[e].name

ASSUME ListingAssumption ==
    /\ IsFiniteSet(Entries) /\ Documents \cap Folders = {} /\ Root \notin Entries
    /\ Names \subseteq Nat /\ PageSize \in Nat \ {0} /\ MaxChanges \in Nat
    /\ Nowhere \cap Places = {}
    /\ SeedPlaces \in [Entries -> Nowhere \cup Places] /\ Apart(SeedPlaces)

VARIABLES
    place,      \* entry -> its parent folder and its name, or Nowhere
    changes,    \* how many changes others have made
    folder,     \* the folder being listed
    state,      \* "idle", "asked", "half", or how the listing ended
    found,      \* the documents of the half-made page
    offset,     \* where the next page starts
    got,        \* the entries collected so far, each with the name it had
    stayed,     \* history: entries that never left the folder meanwhile
    before      \* history: what a listing that nobody disturbs would return, or None

device == <<place, changes>>
listing == <<folder, state, found, offset, got, stayed, before>>
listingVars == <<device, listing>>

None == << <<Root, -1>> >>

-----------------------------------------------------------------------------
(* The device. *)

Exists(e) == place[e] \notin Nowhere
Parents == {Root} \cup {f \in Folders : Exists(f)}
In(f, entries) == {e \in entries : Exists(e) /\ place[e].parent = f}
Taken(f, name) == \E e \in In(f, Entries) : place[e].name = name

Row(e) == <<e, place[e].name>>

\* Sorting puts a row behind as many others as precede it.
InOrder(rows, Precedes(_, _)) ==
    [i \in 1 .. Cardinality(rows) |->
        CHOOSE e \in rows : Cardinality({d \in rows : Precedes(d, e)}) = i - 1]

\* The elements of a sequence that are at some of its positions, in an order
\* of the positions, or as they come.
Arranged(s, positions, Precedes(_, _)) ==
    LET at == InOrder(positions, Precedes) IN [n \in DOMAIN at |-> s[at[n]]]
Keep(s, positions) == Arranged(s, positions, LAMBDA i, j : i < j)

EntriesOf(f) == InOrder({Row(e) : e \in In(f, Entries)}, LAMBDA d, e : d[2] < e[2])
EntriesIn(rows) == [i \in DOMAIN rows |-> rows[i][1]]

\* Another client creates, renames or moves an entry (a folder even below
\* itself: updateEntry does not look for cycles), or deletes it.
PutEntry(e) ==
    /\ place[e] # Gone
    /\ \E f \in Parents, n \in Names :
          /\ ~Taken(f, n)
          /\ place' = [place EXCEPT ![e] = [parent |-> f, name |-> n]]
RemoveEntry(e) ==
    /\ Exists(e) /\ In(e, Entries) = {}
    /\ place' = [place EXCEPT ![e] = Gone]

Change(e) == changes < MaxChanges /\ changes' = changes + 1 /\ (PutEntry(e) \/ RemoveEntry(e))

\* What the change does to the histories of the listing under way.
Witness ==
    LET now == {e \in Entries : place'[e] \notin Nowhere /\ place'[e].parent = folder} IN
    /\ stayed' = stayed \cap now
    /\ before' = None

-----------------------------------------------------------------------------
(* The listing. *)

Start(f) ==
    /\ folder' = f /\ state' = "asked"
    /\ offset' = 0 /\ got' = << >> /\ found' = {}
    /\ stayed' = In(f, Entries) /\ before' = EntriesOf(f)

\* The handler copies the documents ...
TakeDocuments ==
    /\ state = "asked" /\ state' = "half"
    /\ found' = {Row(e) : e \in In(folder, Documents)}
    /\ UNCHANGED <<folder, offset, got, stayed, before>>

\* ... and then the folders, and sorts them.  A document and a folder that
\* had the same path one after the other come in either order.
Sections_FoldersOnly == {Row(e) : e \in In(folder, Folders)}
Sections == found \cup {Row(e) : e \in In(folder, Folders)}
Listed(documentsFirst) ==
    InOrder(Sections, LAMBDA d, e :
        \/ d[2] < e[2]
        \/ d[2] = e[2] /\ d[1] # e[1] /\ (d[1] \in Documents) = documentsFirst)

Page(entries) ==
    LET end == offset + PageSize
    IN  SubSeq(entries, offset + 1, IF end > Len(entries) THEN Len(entries) ELSE end)

\* The client appends the page and decides by the count the page came with.
\* An empty page although the count promises more ends the listing.
Enough(collected, count) == Len(collected) >= count

Advance_ByOneMore(page) == offset + Len(page) + 1
Advance(page) == offset + Len(page)

TakePage ==
    \E documentsFirst \in BOOLEAN :
        LET page == Page(Listed(documentsFirst))
            count == Cardinality(Sections)
        IN  /\ state = "half"
            /\ got' = got \o page
            /\ IF Enough(got', count)
               THEN state' = "ok" /\ UNCHANGED offset
               ELSE /\ state' = IF page = << >> THEN "stopped" ELSE "asked"
                    /\ offset' = Advance(page)
            /\ found' = {}
            /\ UNCHANGED <<folder, stayed, before>>

\* The request fails, and the listing with it.
PageFails_Retried ==
    /\ state \in {"asked", "half"} /\ state' = "asked"
    /\ UNCHANGED <<folder, found, offset, got, stayed, before>>
PageFails ==
    /\ state \in {"asked", "half"} /\ state' = "failed"
    /\ UNCHANGED <<folder, found, offset, got, stayed, before>>

Read == TakeDocuments \/ TakePage

-----------------------------------------------------------------------------

ListingInit ==
    /\ place = SeedPlaces /\ changes = 0
    /\ folder = Root /\ state = "idle"
    /\ found = {} /\ offset = 0 /\ got = << >>
    /\ stayed = {} /\ before = None

ListFolder ==
    /\ state = "idle" /\ UNCHANGED device
    /\ \E f \in Parents : Start(f)

Others == \E e \in Entries : Change(e) /\ Witness /\ UNCHANGED <<folder, state, found, offset, got>>

ListingNext == ListFolder \/ Others \/ ((Read \/ PageFails) /\ UNCHANGED device)

ListingSpec == ListingInit /\ [][ListingNext]_listingVars

-----------------------------------------------------------------------------
(* Properties. *)

\* A listing nobody disturbs returns the folder's entries in their order,
\* whatever the page size; and even one that is disturbed never runs into the
\* end of the folder before it has as many entries as the last page announced.
UndisturbedListingIsExact ==
    /\ before # None /\ state = "ok" => got = before
    /\ state # "stopped"

\* An empty listing, after which DeleteEmpty asks for the deletion, overlooks
\* no entry that was in the folder all the time.
EmptyListingMissesNothing ==
    state = "ok" /\ got = << >> => stayed = {}

\* folders.go: "List retrieves all direct entries in one folder using bounded
\* pagination".  An entry that is in the folder from the beginning to the end
\* of the listing is in the result.
ListRetrievesAll ==
    state = "ok" => stayed \subseteq ToSet(EntriesIn(got))

=============================================================================
