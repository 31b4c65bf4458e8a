----------------------------- MODULE Selection -----------------------------
(***************************************************************************)
(* How a glob selects objects (cmd/dp/selectors.go: globDevice,            *)
(* resolveGlobObjects): one segment of the pattern at a time, from the     *)
(* root, one paginated Listing per folder that matched so far, while other *)
(* clients rearrange the tree.  A segment is the set of the names that     *)
(* path.Match lets through.                                                *)
(***************************************************************************)
EXTENDS Listing

CONSTANTS
    Limit,          \* maximumGlobEntries
    Patterns        \* the patterns asked for: sequences of sets of names

ASSUME PatternAssumption ==
    /\ Limit \in Nat \ {0}
    /\ Patterns \subseteq Seq(SUBSET Names) /\ << >> \notin Patterns

VARIABLES
    search,         \* "idle", "searching", or how the search ended
    pattern,        \* the segments
    wanted,         \* the entries of the type asked for
    level,          \* the segment that is being matched
    folders,        \* the folders still to be listed on this level
    nextFolders,    \* the folders that match, for the next level
    matches,        \* the entries that match the whole pattern
    visitedEntries, \* how many entries counted towards the limit
    calm            \* history: nothing has changed since the search began

selection == <<search, pattern, wanted, level, folders, nextFolders, matches, visitedEntries>>

-----------------------------------------------------------------------------

Over(n) == n > Limit

OfType(rows, entries) == Keep(rows, {i \in DOMAIN rows : rows[i][1] \in entries})

Fits_LastSegment(row) == row[2] \in pattern[Len(pattern)]
Fits(row) == row[2] \in pattern[level]

\* The types are those of get and rm, of rmdir and of a pattern that ends in
\* a slash, and of ls.  The exchange that looks the root up may fail.
Glob ==
    /\ search = "idle" /\ search' \in {"searching", "failed"}
    /\ pattern' \in Patterns /\ wanted' \in {Documents, Folders, Entries}
    /\ level' = 1 /\ folders' = <<Root>> /\ nextFolders' = << >>
    /\ matches' = << >> /\ visitedEntries' = 0
    /\ calm' = TRUE /\ UNCHANGED listingVars

ListNext ==
    /\ search = "searching" /\ state = "idle" /\ folders # << >>
    /\ Start(Head(folders)) /\ folders' = Tail(folders)
    /\ UNCHANGED <<device, search, pattern, wanted, level, nextFolders, matches, visitedEntries, calm>>

\* The limit is checked before the names are.
Examine ==
    /\ search = "searching" /\ state = "ok"
    /\ visitedEntries' = visitedEntries + Len(got)
    /\ LET fitting == Keep(got, {i \in DOMAIN got : Fits(got[i])})
       IN  \/ /\ Over(visitedEntries') /\ search' = "limit"
              /\ UNCHANGED <<nextFolders, matches>>
           \/ /\ ~Over(visitedEntries') /\ UNCHANGED search
              /\ IF level = Len(pattern)
                 THEN matches' = matches \o fitting /\ UNCHANGED nextFolders
                 ELSE /\ nextFolders' = nextFolders \o EntriesIn(OfType(fitting, Folders))
                      /\ UNCHANGED matches
    /\ state' = "idle" /\ got' = << >>
    /\ UNCHANGED <<device, folder, found, offset, stayed, before>>
    /\ UNCHANGED <<pattern, wanted, level, folders, calm>>

Descend ==
    /\ search = "searching" /\ state = "idle" /\ folders = << >>
    /\ level < Len(pattern) /\ nextFolders # << >>
    /\ level' = level + 1 /\ folders' = nextFolders /\ nextFolders' = << >>
    /\ UNCHANGED <<listingVars, search, pattern, wanted, matches, visitedEntries, calm>>

\* A search that finds nothing of the type asked for is an error.
Select ==
    /\ search = "searching" /\ state = "idle" /\ folders = << >>
    /\ level = Len(pattern) \/ nextFolders = << >>
    /\ matches' = OfType(matches, wanted)
    /\ search' = IF matches' = << >> THEN "none" ELSE "found"
    /\ UNCHANGED <<listingVars, pattern, wanted, level, folders, nextFolders, visitedEntries, calm>>

SearchFails ==
    /\ search = "searching" /\ state \in {"stopped", "failed"}
    /\ search' = "failed" /\ state' = "idle" /\ got' = << >>
    /\ UNCHANGED <<device, folder, found, offset, stayed, before>>
    /\ UNCHANGED <<pattern, wanted, level, folders, nextFolders, matches, visitedEntries, calm>>

Search == ListNext \/ Examine \/ Descend \/ Select \/ SearchFails

SelectionInit ==
    /\ ListingInit
    /\ search = "idle" /\ pattern = << >> /\ wanted = {} /\ level = 1
    /\ folders = << >> /\ nextFolders = << >> /\ matches = << >>
    /\ visitedEntries = 0 /\ calm = TRUE

-----------------------------------------------------------------------------
(* Properties. *)

\* The reference definition of a pathname expansion: the ends of all paths
\* from the root whose names fit the first segments of a pattern.
Paths(p, n) ==
    {path \in [0 .. n -> Entries \cup {Root}] :
        /\ path[0] = Root
        /\ \A k \in 1 .. n : path[k] \in In(path[k - 1], Entries) /\ place[path[k]].name \in p[k]}
Expansion(p, n) == {path[n] : path \in Paths(p, n)}
Examined ==
    UNION {In(f, Entries) : f \in UNION {Expansion(pattern, n) : n \in 0 .. Len(pattern) - 1}}

\* docs/cli.md: "A glob is expanded one path segment at a time from the fixed
\* device root".  When nobody disturbs it, the search finds each object of the
\* expansion that has the wanted type, once, so a command that requires one
\* object goes on exactly when one matches; and the search is given up exactly
\* when it has looked at more than Limit entries.
UndisturbedSearchIsExact ==
    calm =>
        /\ search \in {"found", "none"} =>
              /\ IsInjective(EntriesIn(matches))
              /\ ToSet(EntriesIn(matches)) = Expansion(pattern, Len(pattern)) \cap wanted
              /\ Cardinality(Examined) <= Limit
        /\ search = "limit" => Cardinality(Examined) > Limit

=============================================================================
