---------------------------- MODULE PipelineLibrary ----------------------------
(***************************************************************************)
(* The library of pipeline designs: authors edit a design they have loaded *)
(* and save, rename, archive or publish it with the version they saw; its  *)
(* published revisions, the arrangement of a monitor's graph and the       *)
(* history of its runs are read in pages.                                  *)
(***************************************************************************)
EXTENDS Integers, Sequences, FiniteSets

CONSTANTS
  Author,        \* members who edit
  Draft,         \* what a design may be edited to
  Compiles,      \* the drafts that compile
  Histories,     \* the runs of monitors: functions from a run to its predecessor, or 0
  Limit,         \* entries of a page
  MaxEdits       \* commits

LibraryAssumption == Compiles \subseteq Draft /\ Limit \in Nat \ {0} /\ MaxEdits \in Nat

VARIABLES
  row,         \* the design's row
  revisions,   \* what was published, by number
  layout,      \* the version of a run's arrangement
  loaded,      \* the row, and the version of the arrangement, as each author last loaded them
  write,       \* the transaction of each author, once what it expects was checked
  edits,
  page         \* a reader of the revisions: where it is and what it has seen

libraryVars == <<row, revisions, layout, loaded, write, edits, page>>

NoWrite == [kind |-> "none", draft |-> "none", archived |-> FALSE]
NoPage == [open |-> FALSE, newest |-> 0, before |-> 0, seen |-> << >>]

-----------------------------------------------------------------------------
(* Authors.                                                                *)
Load(a) ==
  /\ write[a].kind = "none" /\ edits < MaxEdits
  /\ loaded' = [loaded EXCEPT ![a] = [row |-> row, layout |-> layout]]
  /\ UNCHANGED <<row, revisions, layout, write, edits, page>>

\* as mutated: the row is read without a lock
LockUnneeded(a) == write[a].kind = "none"

\* one transaction at a time holds the lock of the configuration and of the design's row
LockFree(a) == \A b \in Author : write[b].kind = "none"

\* the row is read afresh under the lock; what the author saw must still hold
Expected(a) == loaded[a].row.version = row.version

Locked(a, kind, draft, archived) ==
  /\ LockFree(a) /\ edits < MaxEdits
  /\ write' = [write EXCEPT ![a] = [kind |-> kind, draft |-> draft, archived |-> archived]]
  /\ UNCHANGED <<row, revisions, layout, loaded, edits, page>>

SaveDraft(a) == Expected(a) /\ \E draft \in Draft : Locked(a, "draft", draft, row.archived)

Metadata(a) ==
  Expected(a) /\ \E archived \in BOOLEAN : Locked(a, "metadata", row.draft, archived)

Publish(a) ==
  /\ Expected(a) /\ ~row.archived /\ row.draft \in Compiles
  /\ Locked(a, "publish", row.draft, FALSE)

Arrange(a) == loaded[a].layout = layout /\ Locked(a, "layout", row.draft, row.archived)

\* as mutated: what is published leaves the version of the design as it was
PublishedQuietly(kind) == kind \in {"draft", "metadata"}

\* every write of a design is a version of its own
NewVersion(kind) == kind \in {"draft", "metadata", "publish"}

Commit(a) ==
  LET w == write[a]
  IN  /\ w.kind # "none"
      /\ row' = IF w.kind = "layout" THEN row
                ELSE [version |-> row.version + (IF NewVersion(w.kind) THEN 1 ELSE 0),
                      draft |-> w.draft, archived |-> w.archived]
      /\ revisions' = IF w.kind = "publish" THEN Append(revisions, w.draft) ELSE revisions
      /\ layout' = IF w.kind = "layout" THEN layout + 1 ELSE layout
      /\ write' = [write EXCEPT ![a] = NoWrite]
      \* the answer shows the author what was stored
      /\ loaded' = [loaded EXCEPT ![a] =
                      CASE w.kind = "layout"  -> [@ EXCEPT !.layout = layout']
                        [] w.kind = "publish" -> @
                        [] OTHER              -> [@ EXCEPT !.row = row']]
      /\ edits' = edits + 1
  /\ UNCHANGED page

-----------------------------------------------------------------------------
(* Pages.                                                                  *)
\* the revisions before a number, newest first, and where the next page begins
Before(before) == [k \in 1 .. (IF before - 1 <= Limit THEN before - 1 ELSE Limit) |-> before - k]

\* as mutated: the next page begins before the row that only told there is one
AfterTheExtraRow(before) == IF before - 1 > Limit THEN before - Limit - 1 ELSE 0

NextBefore(before) == IF before - 1 > Limit THEN before - Limit ELSE 0

ListRevisions ==
  /\ page.open => page.before > 0
  /\ LET before == IF page.open THEN page.before ELSE Len(revisions) + 1
     IN  page' = [open |-> TRUE, before |-> NextBefore(before), seen |-> page.seen \o Before(before),
                  newest |-> IF page.open THEN page.newest ELSE Len(revisions)]
  /\ UNCHANGED <<row, revisions, layout, loaded, write, edits>>

\* a run and those before it, up to one more than a page holds
Chain(runs, run) ==
  LET up[k \in 0 .. Limit] == IF k = 0 THEN run
                              ELSE IF up[k - 1] = 0 THEN 0 ELSE runs[up[k - 1]]
  IN  [k \in 1 .. Cardinality({k \in 0 .. Limit : up[k] # 0}) |-> up[k - 1]]

RunHistory(runs, run) ==
  LET rows == Chain(runs, run)
      more == Len(rows) > Limit
  IN  [items |-> SubSeq(rows, 1, IF more THEN Limit ELSE Len(rows)),
       next |-> IF more THEN rows[Limit + 1] ELSE 0]

-----------------------------------------------------------------------------
Init ==
  /\ row \in [version : {1}, draft : Draft, archived : {FALSE}]
  /\ revisions = << >> /\ layout = 0 /\ edits = 0
  /\ loaded = [a \in Author |-> [row |-> row, layout |-> 0]]
  /\ write = [a \in Author |-> NoWrite]
  /\ page = NoPage

Next ==
  \/ \E a \in Author : Load(a) \/ SaveDraft(a) \/ Metadata(a) \/ Publish(a) \/ Arrange(a) \/ Commit(a)
  \/ ListRevisions

Spec == Init /\ [][Next]_libraryVars

-----------------------------------------------------------------------------
(* What an author writes, or publishes, is written over what that author   *)
(* saw: nobody's change is lost to one who has not seen it, and a revision *)
(* is the draft its author looked at (_version, save_draft, metadata,      *)
(* publish, layout).                                                       *)
OverWhatWasSeen ==
  \A a \in Author :
    /\ write[a].kind \in {"draft", "metadata", "publish"} =>
         /\ loaded[a].row.draft = row.draft /\ loaded[a].row.archived = row.archived
         /\ loaded[a].row.version = row.version
    /\ write[a].kind = "layout" => loaded[a].layout = layout

(* A version names one state of the design: whoever has the current        *)
(* version has the current draft, and whatever was published compiles.     *)
VersionsTrue ==
  /\ \A a \in Author : loaded[a].row.version = row.version => loaded[a].row = row
  /\ \A n \in 1 .. Len(revisions) : revisions[n] \in Compiles

(* A design is published once for every version that is looked at: two     *)
(* revisions are never made by one who looked once.                        *)
PublishedOnce == Len(revisions) < row.version

(* Whoever pages through the revisions sees every one there was at first,  *)
(* newest first and once, whatever is published meanwhile                  *)
(* (list_revisions).                                                       *)
PagesWhole ==
  page.open =>
    /\ \A k \in 1 .. Len(page.seen) : page.seen[k] = page.newest - k + 1
    /\ page.before = 0 => Len(page.seen) = page.newest

(* A walk through the history of a run passes each of its predecessors,    *)
(* page after page, up to one that has none (run_history).                 *)
HistoryWalked ==
  \A runs \in Histories : \A run \in DOMAIN runs :
    LET pages[k \in 1 .. Len(runs)] ==
          IF k = 1 THEN RunHistory(runs, run)
          ELSE IF pages[k - 1].next = 0 THEN [items |-> << >>, next |-> 0]
          ELSE RunHistory(runs, pages[k - 1].next)
        seen[k \in 0 .. Len(runs)] == IF k = 0 THEN << >> ELSE seen[k - 1] \o pages[k].items
        all == seen[Len(runs)]
    IN  /\ all[1] = run /\ runs[all[Len(all)]] = 0
        /\ \A k \in 1 .. Len(all) - 1 : all[k + 1] = runs[all[k]]
=============================================================================
