---------------------------- MODULE StatusServer ----------------------------
(***************************************************************************)
(* The status page, status-server.cc, over the cache of file handlers. The *)
(* cache tells the server of every handler it erases, with its mutex held; *)
(* a page first lists what is in the cache and later, without keeping the  *)
(* cache's mutex, what the server remembers of the erased ones.            *)
(*                                                                         *)
(* Pages are made by the thread of the HTTP daemon and by whoever opens    *)
(* the status file. A row of a page is the name of a file, its key. What a *)
(* row says, forms and styles are left out.                                *)
(***************************************************************************)
EXTENDS FileHandlerCache, Sequences

CONSTANTS
  Viewer,       \* who makes a page: the HTTP daemon, readers of the status file
  kMaxRetired   \* how many erased handlers are remembered

ASSUME StatusAssumption == kMaxRetired \in Nat \ {0}

VARIABLES
  retired_,           \* the handlers erased last, the newest first
  expunged_retired_,  \* how many were forgotten
  opened,             \* how many there have been in the cache at all
  page                \* page[v]: the page v makes

vars == <<cache_vars, retired_, expunged_retired_, opened, page>>

\* open: what was in the cache, and forgotten: what was forgotten, when the
\* page was begun. files and retired are its two tables.
NoPage == [step |-> "none", open |-> {}, forgotten |-> 0, files |-> {},
           retired |-> <<>>, more |-> 0]

Init ==
  /\ CacheInit
  /\ retired_ = <<>> /\ expunged_retired_ = 0 /\ opened = 0
  /\ page = [v \in Viewer |-> NoPage]

-----------------------------------------------------------------------------
(* The observer.                                                           *)

\* The keys gone in an order s, each put in front, and the oldest forgotten.
Orders(gone) ==
  {s \in [1 .. Cardinality(gone) -> gone] : {s[i] : i \in DOMAIN s} = gone}
Fronted(list, s) == [i \in DOMAIN s |-> s[Len(s) + 1 - i]] \o list
Excess(list) == IF Len(list) > kMaxRetired THEN Len(list) - kMaxRetired ELSE 0

\* Mutant: what is forgotten is not counted.
Uncounted(list) == 0
Expunged(list) == Excess(list)

RetireHandlerEvents(gone) ==
  \E s \in Orders(gone) :
    LET list == Fronted(retired_, s)
    IN  /\ retired_' = SubSeq(list, 1, Len(list) - Excess(list))
        /\ expunged_retired_' = expunged_retired_ + Expunged(list)

\* Whatever the cache does, it tells of what it erases.
CacheStep ==
  /\ CacheNext
  /\ RetireHandlerEvents(DOMAIN cache \ DOMAIN cache')
  /\ opened' = opened + Cardinality(DOMAIN cache' \ DOMAIN cache)
  /\ UNCHANGED page

-----------------------------------------------------------------------------
(* CreatePage.                                                             *)

\* Mutant: the list of the erased ones comes first.
RetiredFirst(step) ==
  CASE step = "begin" -> "retired" [] step = "retired" -> "GetStats"
    [] step = "GetStats" -> "done"
After(step) ==
  CASE step = "begin" -> "GetStats" [] step = "GetStats" -> "retired"
    [] step = "retired" -> "done"

Begin(v) ==
  /\ page[v].step \in {"none", "done"}
  /\ page' = [page EXCEPT ![v] = [NoPage EXCEPT !.step = After("begin"),
                                                !.open = DOMAIN cache,
                                                !.forgotten = expunged_retired_]]
  /\ UNCHANGED <<cache_vars, retired_, expunged_retired_, opened>>

\* FileHandlerCache::GetStats: what is in the cache, under its mutex.
GetStats(v) ==
  /\ page[v].step = "GetStats"
  /\ page' = [page EXCEPT ![v].step = After("GetStats"), ![v].files = DOMAIN cache]
  /\ UNCHANGED <<cache_vars, retired_, expunged_retired_, opened>>

\* The list is looked at without its mutex first, and skipped if it is empty.
SkipRetired(v) ==
  /\ page[v].step = "retired" /\ retired_ = <<>>
  /\ page' = [page EXCEPT ![v].step = After("retired")]
  /\ UNCHANGED <<cache_vars, retired_, expunged_retired_, opened>>

ListRetired(v) ==
  /\ page[v].step = "retired" /\ retired_ # <<>>
  /\ page' = [page EXCEPT ![v].step = After("retired"), ![v].retired = retired_,
                          ![v].more = expunged_retired_]
  /\ UNCHANGED <<cache_vars, retired_, expunged_retired_, opened>>

CreatePage(v) == Begin(v) \/ GetStats(v) \/ SkipRetired(v) \/ ListRetired(v)

Next == CacheStep \/ \E v \in Viewer : CreatePage(v)

Spec == Init /\ [][Next]_vars

-----------------------------------------------------------------------------
(* Properties.                                                             *)

\* A file that was open when the page was begun is on it, in one of its tables
\* or in both, however many files are opened, closed and erased while the page
\* is made - unless more were erased than are remembered, and then the page
\* says so.
PageMissesNoHandler ==
  \A v \in Viewer : page[v].step = "done" =>
    \A k \in page[v].open :
      \/ k \in page[v].files \/ \E i \in DOMAIN page[v].retired : page[v].retired[i] = k
      \/ page[v].more > page[v].forgotten

\* "Retired ... (n more)": every handler the cache ever had is in it, or
\* remembered, or counted, once.
EveryHandlerAccounted ==
  /\ opened = Cardinality(DOMAIN cache) + Len(retired_) + expunged_retired_
  /\ Len(retired_) <= kMaxRetired
=============================================================================
