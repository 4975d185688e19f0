-------------------------- MODULE FileHandlerCache --------------------------
(***************************************************************************)
(* The cache of open file handlers: file-handler-cache.cc.                 *)
(*                                                                         *)
(* The cache owns every handler it is given and decides when to delete it. *)
(* Each operation is one critical section of mutex_, and so one action;    *)
(* the deletes that the code moves behind the critical section are steps   *)
(* of their own, taken by the calling thread before its call returns.      *)
(*                                                                         *)
(* CacheSpec runs the cache under the most general client that keeps to    *)
(* its contract: construct a handler, hand it over, unpin what is pinned.  *)
(***************************************************************************)
EXTENDS Naturals, FiniteSets

CONSTANTS
  Key,        \* the strings handlers are filed under
  Handler,    \* the addresses a handler object can have
  Caller,     \* threads calling into the cache
  MaxSize,    \* max_size_: how many handlers the cache wants to keep
  MaxTime     \* bound on the clock

ASSUME CacheAssumption == MaxSize \in Nat /\ MaxTime \in Nat

VARIABLES
  cache,       \* cache_: the entries, by key; DOMAIN cache is what is present
  alive,       \* handlers that are constructed and not deleted
  in_gapless,  \* handlers whose is_gapless() holds
  created,     \* created[c]: what c constructed and has not handed over yet
  to_delete,   \* to_delete[c]: erased by c, deleted when c has left the lock
  now          \* folve::CurrentTime(); two calls may read the same value

cache_vars == <<cache, alive, in_gapless, created, to_delete, now>>

Entry == [handler : Handler, references : Nat, last_access : 0 .. MaxTime]

CacheTypeOK ==
  /\ DOMAIN cache \subseteq Key
  /\ IsFiniteSet(DOMAIN cache)
  /\ cache \in [DOMAIN cache -> Entry]
  /\ alive \subseteq Handler
  /\ in_gapless \subseteq alive
  /\ created \in [Caller -> SUBSET Handler]
  /\ to_delete \in [Caller -> SUBSET Handler]
  /\ now \in 0 .. MaxTime

CacheInit ==
  /\ cache = [k \in {} |-> {}]
  /\ alive = {}
  /\ in_gapless = {}
  /\ created = [c \in Caller |-> {}]
  /\ to_delete = [c \in Caller |-> {}]
  /\ now = 0

-----------------------------------------------------------------------------
(* Tables: what an operation makes of the entries c.                       *)

\* Mutant: cleaning up does not look at the reference counts.
EverythingIdle(c) == DOMAIN c
Idle(c) == {k \in DOMAIN c : c[k].references = 0}
HandlersOf(c, ks) == {c[k].handler : k \in ks}
Erase(c, ks) == [k \in DOMAIN c \ ks |-> c[k]]
Store(c, k, e) == [x \in DOMAIN c \cup {k} |-> IF x = k THEN e ELSE c[x]]

\* A use of the handler in entry e begins, or ends.
Pinned(e) == [handler |-> e.handler, references |-> e.references + 1,
              last_access |-> now]
\* Mutant: a use is given back twice.
UnpinnedTwice(e) == [handler |-> e.handler, references |-> e.references - 2,
                     last_access |-> e.last_access]
Unpinned(e) == [handler |-> e.handler, references |-> e.references - 1,
                last_access |-> e.last_access]

\* The entry InsertPinned leaves under k: the one already there, or a new one.
\* Mutants: the new handler takes the place of the one there; an entry already
\* there is returned without counting the use.
InsertedOver(c, k, h) == Pinned([handler |-> h, references |-> 0, last_access |-> 0])
InsertedUncounted(c, k, h) ==
  IF k \in DOMAIN c
  THEN c[k]
  ELSE Pinned([handler |-> h, references |-> 0, last_access |-> 0])
Inserted(c, k, h) ==
  IF k \in DOMAIN c
  THEN Pinned(c[k])
  ELSE Pinned([handler |-> h, references |-> 0, last_access |-> 0])

\* CleanupOldestUnreferenced_Locked removes as many idle entries as the cache
\* is too large by, the oldest first. Among equally old ones std::sort leaves
\* the order open.
Oversize(c) == Cardinality(DOMAIN c) > MaxSize
ToEraseCount(c) ==
  LET excess == Cardinality(DOMAIN c) - MaxSize
      idle   == Cardinality(Idle(c))
  IN  IF excess < idle THEN excess ELSE idle
OldestFirst(c, gone) ==
  \A k \in gone, s \in Idle(c) \ gone : c[k].last_access <= c[s].last_access
CleanupChoices(c) ==
  IF Oversize(c)
  THEN {gone \in SUBSET Idle(c) : /\ Cardinality(gone) = ToEraseCount(c)
                                  /\ OldestFirst(c, gone)}
  ELSE {{}}

\* A gapless handler is wanted and all there is, is idle and not gapless.
PretendMissing(k, prefer_gapless) ==
  prefer_gapless /\ k \in Idle(cache) /\ cache[k].handler \notin in_gapless

\* Unpin erases an entry that becomes idle while the cache is too large.
\* Mutant: only Insert cleans up.
NothingErasedByUnpin(c, k) == {}
ErasedByUnpin(c, k) == IF k \in Idle(c) /\ Oversize(c) THEN {k} ELSE {}

-----------------------------------------------------------------------------
(* Operations.                                                             *)

\* A thread deletes what it erased before it does anything else.
Ready(c) == to_delete[c] = {}

FindAndPinMiss(c, k) ==
  /\ Ready(c)
  /\ k \notin DOMAIN cache
  /\ UNCHANGED cache_vars

FindAndPinReplace(c, k, prefer_gapless) ==
  /\ Ready(c)
  /\ PretendMissing(k, prefer_gapless)
  /\ cache' = Erase(cache, {k})
  /\ to_delete' = [to_delete EXCEPT ![c] = HandlersOf(cache, {k})]
  /\ UNCHANGED <<alive, in_gapless, created, now>>

FindAndPinHit(c, k, prefer_gapless) ==
  /\ Ready(c)
  /\ k \in DOMAIN cache
  /\ ~PretendMissing(k, prefer_gapless)
  /\ cache' = [cache EXCEPT ![k] = Pinned(@)]
  /\ UNCHANGED <<alive, in_gapless, created, to_delete, now>>

\* The caller's new handler h is discarded inside the lock if k is taken.
\* Mutant: the handler that lost the race is forgotten.
SurvivorsAll(k, h) == alive
Survivors(k, h) == IF k \in DOMAIN cache THEN alive \ {h} ELSE alive

InsertPinned(c, k, h) ==
  /\ Ready(c)
  /\ h \in created[c]
  /\ created' = [created EXCEPT ![c] = @ \ {h}]
  /\ alive' = Survivors(k, h)
  /\ in_gapless' = in_gapless \cap alive'
  /\ LET grown == Store(cache, k, Inserted(cache, k, h))
     IN  \E gone \in CleanupChoices(grown) :
           /\ cache' = Erase(grown, gone)
           /\ to_delete' = [to_delete EXCEPT ![c] = HandlersOf(grown, gone)]
  /\ UNCHANGED now

Unpin(c, k) ==
  /\ Ready(c)
  /\ k \in DOMAIN cache      \* the assert; see UnpinFindsEntry
  /\ LET unpinned == [cache EXCEPT ![k] = Unpinned(@)]
         gone     == ErasedByUnpin(unpinned, k)
     IN  /\ cache' = Erase(unpinned, gone)
         /\ to_delete' = [to_delete EXCEPT ![c] = HandlersOf(cache, gone)]
  /\ UNCHANGED <<alive, in_gapless, created, now>>

\* The deletes after the critical section, one object at a time.
DeleteErased(c, h) ==
  /\ h \in to_delete[c]
  /\ to_delete' = [to_delete EXCEPT ![c] = @ \ {h}]
  /\ alive' = alive \ {h}
  /\ in_gapless' = in_gapless \ {h}
  /\ UNCHANGED <<cache, created, now>>

\* The client: constructing a handler, and a handler becoming gapless while
\* somebody has it pinned.
Construct(c, h) ==
  /\ Ready(c)
  /\ created[c] = {}
  /\ h \notin alive
  /\ created' = [created EXCEPT ![c] = {h}]
  /\ alive' = alive \cup {h}
  /\ UNCHANGED <<cache, in_gapless, to_delete, now>>

BecomeGapless(k) ==
  /\ k \in DOMAIN cache \ Idle(cache)
  /\ in_gapless' = in_gapless \cup {cache[k].handler}
  /\ UNCHANGED <<cache, alive, created, to_delete, now>>

Tick ==
  /\ now < MaxTime
  /\ now' = now + 1
  /\ UNCHANGED <<cache, alive, in_gapless, created, to_delete>>

CacheNext ==
  \/ \E c \in Caller, k \in Key :
       \/ FindAndPinMiss(c, k)
       \/ \E g \in BOOLEAN : FindAndPinReplace(c, k, g) \/ FindAndPinHit(c, k, g)
       \/ \E h \in Handler : InsertPinned(c, k, h)
       \/ k \notin Idle(cache) /\ Unpin(c, k)
  \/ \E c \in Caller, h \in Handler : Construct(c, h) \/ DeleteErased(c, h)
  \/ \E k \in Key : BecomeGapless(k)
  \/ Tick

\* As a property of FolveFilesystem: whatever its users do, the filesystem is a
\* client that keeps to the contract, and so has what the cache guarantees.
CacheSpec == CacheInit /\ [][CacheNext]_cache_vars

-----------------------------------------------------------------------------
(* What the cache guarantees whatever its callers do.                      *)

\* "we are already beyond cache size, clean up as soon as we get idle"
\* (file-handler-cache.cc:108): the cache never grows beyond max_size_ on
\* account of handlers nobody uses. Insert, Unpin and FindAndPin share this
\* duty: none of them establishes it alone.
OverfullOnlyWhenPinned ==
  Cardinality(DOMAIN cache) > MaxSize => Idle(cache) = {}

Owned(h) ==
  \/ \E k \in DOMAIN cache : cache[k].handler = h
  \/ \E c \in Caller : h \in created[c] \cup to_delete[c]

\* "this Cache handles deletion" (file-handler-cache.h:37): every handler that
\* exists has exactly one owner who will delete it - the thread that made it,
\* one cache entry, or one thread that erased it - and nobody owns a handler
\* that is gone. A handler without an owner leaks; one with two is deleted
\* twice.
OneOwner ==
  /\ \A h \in Handler : h \in alive <=> Owned(h)
  /\ \A k1, k2 \in DOMAIN cache :
       cache[k1].handler = cache[k2].handler => k1 = k2
  /\ \A k \in DOMAIN cache, c \in Caller :
       cache[k].handler \notin created[c] \cup to_delete[c]
  /\ \A c1, c2 \in Caller :
       /\ created[c1] \cap to_delete[c2] = {}
       /\ c1 # c2 => /\ created[c1] \cap created[c2] = {}
                     /\ to_delete[c1] \cap to_delete[c2] = {}
=============================================================================
