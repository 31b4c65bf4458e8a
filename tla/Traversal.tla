----------------------------- MODULE Traversal -----------------------------
(***************************************************************************)
(* The recursive listings of the command line (cmd/dp/main.go):            *)
(* collectGlobalDocuments ("flat") and printRecursiveEntries ("recursive") *)
(* walk the folders depth first, one paginated Listing per folder, while   *)
(* other clients rearrange the tree.  Folders already visited are skipped  *)
(* and a walk that has observed more than Limit entries is given up.       *)
(* The recursion is a stack of the folders still to be visited.  A walk    *)
(* starts from one object or from what a glob has selected.                *)
(***************************************************************************)
EXTENDS Selection

VARIABLES
    mode,           \* "flat" or "recursive"
    roots,          \* the entries the walk started from
    status,         \* "idle", "walking", or how the walk ended
    stack,          \* the folders still to be visited
    visited,        \* the folders that were visited
    shown,          \* the documents collected (flat) or printed (recursive)
    observed        \* how many entries counted towards the limit

walk == <<mode, roots, status, stack, visited, shown, observed>>
vars == <<listingVars, selection, calm, walk>>

-----------------------------------------------------------------------------

\* sortDeviceEntries; entries of the same name come in the order they had.
ByName(rows) ==
    Arranged(rows, DOMAIN rows, LAMBDA i, j :
        rows[i][2] < rows[j][2] \/ (rows[i][2] = rows[j][2] /\ i < j))
DocumentsOf(rows) == EntriesIn(OfType(ByName(rows), Documents))
FoldersOf(rows) == EntriesIn(OfType(ByName(rows), Folders \cup {Root}))

\* The flat listing shows a document once, wherever it was met: in another
\* folder, or twice in one listing whose pages have shifted.
Known_Never(d, row) == FALSE
Known(d, row) == \E i \in DOMAIN row : row[i] = d
Shown(m, printed, documents) ==
    LET first(i) == ~Known(documents[i], printed \o SubSeq(documents, 1, i - 1))
    IN  printed \o IF m = "flat" THEN Keep(documents, {i \in DOMAIN documents : first(i)}) ELSE documents

\* The roots are one object that a path or a number stands for, or whatever
\* a glob has found: a search that was disturbed may have met one twice.
StartFrom(rows) ==
    /\ status = "idle" /\ mode' \in {"flat", "recursive"}
    /\ roots' = ToSet(EntriesIn(rows))
    /\ shown' = Shown(mode', << >>, DocumentsOf(rows))
    /\ observed' = Len(shown')
    /\ status' = IF Over(observed') THEN "limit" ELSE "walking"
    /\ stack' = FoldersOf(rows) /\ visited' = {}
    /\ UNCHANGED <<listingVars, selection>>

WalkFromObject ==
    /\ search = "idle" /\ calm' = TRUE
    /\ \E e \in Entries : Exists(e) /\ StartFrom(<<Row(e)>>)
WalkFromRoot ==
    /\ search = "idle" /\ calm' = TRUE
    /\ StartFrom(<< <<Root, 0>> >>)
WalkFromMatches ==
    /\ search = "found" /\ UNCHANGED calm
    /\ StartFrom(matches)
StartWalk == WalkFromObject \/ WalkFromRoot \/ WalkFromMatches

Seen_Never(f) == FALSE
Seen(f) == f \in visited

Visit ==
    /\ status = "walking" /\ state = "idle" /\ stack # << >>
    /\ stack' = Tail(stack)
    /\ IF Seen(Head(stack))
       THEN UNCHANGED <<listing, visited>>
       ELSE Start(Head(stack)) /\ visited' = visited \cup {Head(stack)}
    /\ UNCHANGED <<device, selection, calm, mode, roots, status, shown, observed>>

\* Sub-folders are visited before the rest.
Below_Dropped(inside) == IF inside = << >> THEN stack ELSE <<Head(inside)>> \o stack
Below(inside) == inside \o stack

Collect ==
    /\ status = "walking" /\ state = "ok"
    /\ observed' = observed + Len(got)
    /\ \/ /\ Over(observed') /\ status' = "limit"
          /\ UNCHANGED <<shown, stack>>
       \/ /\ ~Over(observed')
          /\ shown' = Shown(mode, shown, DocumentsOf(got))
          /\ stack' = Below(FoldersOf(got))
          /\ UNCHANGED status
    /\ state' = "idle" /\ got' = << >>
    /\ UNCHANGED <<device, folder, found, offset, stayed, before>>
    /\ UNCHANGED <<selection, calm, mode, roots, visited>>

\* A page that cannot be read ends the walk.
GiveUp ==
    /\ status = "walking" /\ state \in {"stopped", "failed"}
    /\ status' = "failed" /\ state' = "idle" /\ got' = << >>
    /\ UNCHANGED <<device, folder, found, offset, stayed, before>>
    /\ UNCHANGED <<selection, calm, mode, roots, stack, visited, shown, observed>>

Finish ==
    /\ status = "walking" /\ state = "idle" /\ stack = << >>
    /\ status' = "ok"
    /\ UNCHANGED <<listingVars, selection, calm, mode, roots, stack, visited, shown, observed>>

Disturb ==
    /\ \E e \in Entries : Change(e)
    /\ Witness /\ calm' = FALSE
    /\ UNCHANGED <<folder, state, found, offset, got, selection, walk>>

Running == search = "searching" \/ status = "walking"

ReadPage == Running /\ (Read \/ PageFails) /\ UNCHANGED <<device, selection, calm, walk>>

-----------------------------------------------------------------------------

Init ==
    /\ SelectionInit
    /\ mode = "flat" /\ roots = {} /\ status = "idle"
    /\ stack = << >> /\ visited = {} /\ shown = << >> /\ observed = 0

Walk == Visit \/ Collect \/ GiveUp \/ Finish
Run == (Search /\ UNCHANGED walk) \/ Walk \/ ReadPage
Next == (status = "idle" /\ Glob /\ UNCHANGED walk) \/ StartWalk \/ Run \/ Disturb

\* The command runs on and the device answers it.
Spec == Init /\ [][Next]_vars /\ WF_vars(Run)

-----------------------------------------------------------------------------
(* Properties. *)

\* What lies in or below the entries of a set: the reference definition of a
\* recursive listing, the least set with them that no folder leads out of.
Closed(set) == \A f \in set : In(f, Entries) \subseteq set
Reachable(entries) ==
    {e \in Entries \cup {Root} :
        \A set \in SUBSET (Entries \cup {Root}) : entries \subseteq set /\ Closed(set) => e \in set}

Beneath == UNION {In(f, Entries) : f \in Reachable(roots)}

\* A walk nobody disturbs shows exactly the documents in and below its roots,
\* cycles in the tree included, and never more than Limit entries lie below
\* them; one that starts from a single object is given up for the limit only
\* when more do.
UndisturbedWalkIsExact ==
    calm => /\ status = "ok" =>
                  /\ ToSet(shown) = Reachable(roots) \cap Documents
                  /\ Cardinality(Beneath) <= Limit
            /\ status = "limit" /\ Cardinality(roots) = 1 => Cardinality(Beneath) > Limit

\* ls -G shows a document once, even when it moves from a folder that was
\* listed to one that is listed later,
\* or is listed twice in one folder because it was renamed meanwhile.
FlatShowsDocumentsOnce ==
    mode = "flat" => IsInjective(shown)

\* docs/adr/0011-object-selection.md: "Traversal lists each folder once by device
\* ID".  A walk nobody disturbs, flat or recursive, shows no document twice, from
\* whatever roots it starts and wherever folders have been moved below themselves.
UndisturbedWalkShowsOnce ==
    calm => IsInjective(shown)

\* docs/cli.md: skipping visited folders keeps an anomalous cycle from running
\* indefinitely; a glob ends because its pattern does.
WalkEnds == Running ~> ~Running

=============================================================================
