----------------------- MODULE FileHandlerCache_proofs -----------------------
(***************************************************************************)
(* Proofs that the handler cache keeps its types, never grows beyond its   *)
(* size on account of idle handlers, and that every handler has one owner, *)
(* for any keys, handlers, callers and cache size.                         *)
(***************************************************************************)
EXTENDS FileHandlerCache, FiniteSetTheorems, TLAPS

\* The three invariants need each other: the type of in_gapless needs that a
\* cached handler is alive, and the count of entries needs that there are
\* finitely many.
IInv == CacheTypeOK /\ OneOwner /\ OverfullOnlyWhenPinned

-----------------------------------------------------------------------------
(* Tables.                                                                 *)

\* Room is only made at the cost of idle entries.
LEMMA CleanupErasesIdle ==
  ASSUME NEW c, NEW gone \in CleanupChoices(c)
  PROVE  gone \subseteq Idle(c)
BY DEF CleanupChoices

\* What CleanupOldestUnreferenced_Locked leaves is no larger than the cache
\* wants to be, or pinned from end to end (file-handler-cache.cc:159).
LEMMA CleanupMakesRoom ==
  ASSUME NEW c, IsFiniteSet(DOMAIN c), NEW gone \in CleanupChoices(c),
         Cardinality(DOMAIN Erase(c, gone)) > MaxSize
  PROVE  Idle(Erase(c, gone)) = {}
<1> DEFINE D == DOMAIN c
<1>1. gone \subseteq Idle(c) /\ Idle(c) \subseteq D
  BY CleanupErasesIdle DEF Idle
<1>2. DOMAIN Erase(c, gone) = D \ gone
  BY DEF Erase
<1>3. IsFiniteSet(Idle(c)) /\ IsFiniteSet(gone)
  BY <1>1, FS_Subset
<1>4. /\ Cardinality(D) \in Nat
      /\ Cardinality(Idle(c)) \in Nat
      /\ Cardinality(gone) \in Nat
  BY <1>3, FS_CardinalityType
<1>5. Cardinality(D \ gone) = Cardinality(D) - Cardinality(gone)
  <2>1. Cardinality(D \ gone) = Cardinality(D) - Cardinality(D \cap gone)
    BY FS_Difference
  <2>2. D \cap gone = gone
    BY <1>1
  <2> QED BY <2>1, <2>2
<1>6. CASE ~Oversize(c)
  BY <1>2, <1>4, <1>5, <1>6, CacheAssumption, FS_EmptySet
  DEF Oversize, CleanupChoices
<1>7. CASE Oversize(c)
  <2>1. Cardinality(gone) = ToEraseCount(c)
    BY <1>7 DEF CleanupChoices
  <2>2. Cardinality(D) > MaxSize
    BY <1>7 DEF Oversize
  <2>3. Cardinality(gone) = Cardinality(Idle(c))
    BY <2>1, <2>2, <1>2, <1>4, <1>5, CacheAssumption DEF ToEraseCount
  <2>4. gone = Idle(c)
    BY <2>3, <1>1, <1>3, FS_Subset
  <2> QED BY <2>4 DEF Idle, Erase
<1> QED BY <1>6, <1>7

\* What is just put in, or found there, is pinned, and so is not erased again.
LEMMA InsertKeepsTheKey ==
  ASSUME IInv, NEW c \in Caller, NEW k, NEW h, InsertPinned(c, k, h)
  PROVE  k \in DOMAIN cache'
<1> DEFINE G == Store(cache, k, Inserted(cache, k, h))
<1>1. PICK gone \in CleanupChoices(G) : cache' = Erase(G, gone)
  BY DEF InsertPinned
<1>2. k \in DOMAIN G /\ G[k] = Inserted(cache, k, h)
  BY DEF Store
<1>3. G[k].references # 0
  BY <1>2 DEF Inserted, Pinned, IInv, CacheTypeOK, Entry
<1>4. k \notin gone
  BY <1>1, <1>3, CleanupErasesIdle DEF Idle
<1> QED BY <1>1, <1>2, <1>4 DEF Erase

-----------------------------------------------------------------------------
(* The invariant holds initially and every operation preserves it.         *)

LEMMA InitIInv == CacheInit => IInv
<1> SUFFICES ASSUME CacheInit PROVE IInv
  OBVIOUS
<1>1. DOMAIN cache = {}
  BY DEF CacheInit
<1>2. CacheTypeOK
  BY <1>1, FS_EmptySet, CacheAssumption DEF CacheInit, CacheTypeOK
<1>3. OneOwner
  BY <1>1 DEF CacheInit, OneOwner, Owned
<1>4. OverfullOnlyWhenPinned
  BY <1>1 DEF OverfullOnlyWhenPinned, Idle
<1> QED BY <1>2, <1>3, <1>4 DEF IInv

LEMMA PinKeepsIInv ==
  ASSUME IInv, NEW c \in Caller, NEW k \in Key, NEW g \in BOOLEAN,
         FindAndPinHit(c, k, g)
  PROVE  IInv'
<1>1. DOMAIN cache' = DOMAIN cache
  BY DEF FindAndPinHit
<1>2. \A x \in DOMAIN cache : cache'[x].handler = cache[x].handler
  BY DEF FindAndPinHit, Pinned, IInv, CacheTypeOK, Entry
<1>3. \A x \in DOMAIN cache : cache'[x] \in Entry
  BY DEF FindAndPinHit, Pinned, IInv, CacheTypeOK, Entry
<1>4. CacheTypeOK'
  BY <1>1, <1>3 DEF FindAndPinHit, IInv, CacheTypeOK
<1>5. OneOwner'
  BY <1>1, <1>2 DEF FindAndPinHit, IInv, OneOwner, Owned
<1>6. OverfullOnlyWhenPinned'
  <2>1. Idle(cache') \subseteq Idle(cache)
    BY DEF FindAndPinHit, Pinned, IInv, CacheTypeOK, Entry, Idle
  <2> QED BY <1>1, <2>1 DEF IInv, OverfullOnlyWhenPinned
<1> QED BY <1>4, <1>5, <1>6 DEF IInv

LEMMA ReplaceKeepsIInv ==
  ASSUME IInv, NEW c \in Caller, NEW k \in Key, NEW g \in BOOLEAN,
         FindAndPinReplace(c, k, g)
  PROVE  IInv'
<1>1. k \in DOMAIN cache /\ k \in Idle(cache)
  BY DEF FindAndPinReplace, PretendMissing, Idle
<1>2. DOMAIN cache' = DOMAIN cache \ {k}
  BY DEF FindAndPinReplace, Erase
<1>3. \A x \in DOMAIN cache' : cache'[x] = cache[x]
  BY DEF FindAndPinReplace, Erase
<1>4. \A d \in Caller : to_delete'[d] = IF d = c THEN {cache[k].handler}
                                               ELSE to_delete[d]
  BY DEF FindAndPinReplace, HandlersOf, IInv, CacheTypeOK
<1>5. CacheTypeOK'
  <2>1. IsFiniteSet(DOMAIN cache')
    BY <1>2, FS_RemoveElement DEF IInv, CacheTypeOK
  <2>2. cache' \in [DOMAIN cache' -> Entry]
    BY <1>2, <1>3 DEF FindAndPinReplace, Erase, IInv, CacheTypeOK
  <2>3. to_delete' \in [Caller -> SUBSET Handler]
    BY <1>1 DEF FindAndPinReplace, HandlersOf, IInv, CacheTypeOK, Entry
  <2> QED BY <1>2, <2>1, <2>2, <2>3 DEF FindAndPinReplace, IInv, CacheTypeOK
<1>6. OneOwner'
  <2>0. to_delete[c] = {} /\ UNCHANGED <<alive, created>>
    BY DEF FindAndPinReplace, Ready
  <2>1. \A h \in Handler : h \in alive' <=> Owned(h)'
    BY <1>1, <1>2, <1>3, <1>4, <2>0 DEF IInv, OneOwner, Owned
  <2>2. \A x, y \in DOMAIN cache' :
          cache'[x].handler = cache'[y].handler => x = y
    BY <1>2, <1>3 DEF IInv, OneOwner
  <2>3. \A x \in DOMAIN cache', d \in Caller :
          cache'[x].handler \notin created'[d] \cup to_delete'[d]
    BY <1>1, <1>2, <1>3, <1>4, <2>0 DEF IInv, OneOwner
  <2>4. \A c1, c2 \in Caller :
          /\ created'[c1] \cap to_delete'[c2] = {}
          /\ c1 # c2 => /\ created'[c1] \cap created'[c2] = {}
                        /\ to_delete'[c1] \cap to_delete'[c2] = {}
    BY <1>1, <1>4, <2>0 DEF IInv, OneOwner
  <2> QED BY <2>1, <2>2, <2>3, <2>4 DEF OneOwner
<1>7. OverfullOnlyWhenPinned'
  <2>1. Cardinality(DOMAIN cache') <= Cardinality(DOMAIN cache)
    BY <1>2, FS_Subset DEF IInv, CacheTypeOK
  <2>2. Cardinality(DOMAIN cache) \in Nat /\ Cardinality(DOMAIN cache') \in Nat
    BY <1>5, FS_CardinalityType DEF IInv, CacheTypeOK
  <2>3. Idle(cache') \subseteq Idle(cache)
    BY <1>2, <1>3 DEF Idle
  <2> QED BY <2>1, <2>2, <2>3, CacheAssumption DEF IInv, OverfullOnlyWhenPinned
<1> QED BY <1>5, <1>6, <1>7 DEF IInv

\* The new handler h moves from its maker to the table, or is discarded where
\* the key is taken; the handlers of the erased entries move to the caller.
LEMMA InsertKeepsIInv ==
  ASSUME IInv, NEW c \in Caller, NEW k \in Key, NEW h \in Handler,
         InsertPinned(c, k, h)
  PROVE  IInv'
<1> DEFINE G == Store(cache, k, Inserted(cache, k, h))
<1>1. PICK gone \in CleanupChoices(G) :
        /\ cache' = Erase(G, gone)
        /\ to_delete' = [to_delete EXCEPT ![c] = HandlersOf(G, gone)]
  BY DEF InsertPinned
<1>2. /\ to_delete[c] = {}
      /\ h \in created[c]
      /\ created' = [created EXCEPT ![c] = @ \ {h}]
      /\ alive' = IF k \in DOMAIN cache THEN alive \ {h} ELSE alive
      /\ in_gapless' = in_gapless \cap alive'
      /\ now' = now
  BY DEF InsertPinned, Ready, Survivors
<1>3. /\ DOMAIN G = DOMAIN cache \cup {k}
      /\ \A x \in DOMAIN cache : G[x].handler = cache[x].handler
      /\ k \notin DOMAIN cache => G[k].handler = h
  BY DEF Store, Inserted, Pinned
<1>4. G \in [DOMAIN G -> Entry]
  <2>1. Inserted(cache, k, h) \in Entry
    BY DEF Inserted, Pinned, IInv, CacheTypeOK, Entry
  <2> QED BY <2>1 DEF Store, IInv, CacheTypeOK
<1>5. gone \subseteq DOMAIN G
  BY CleanupErasesIdle DEF Idle
<1>6. /\ DOMAIN cache' = DOMAIN G \ gone
      /\ \A x \in DOMAIN cache' : cache'[x] = G[x]
  BY <1>1 DEF Erase
<1> HIDE DEF G
<1>7. \A x \in DOMAIN G : G[x].handler \in Handler
  BY <1>4 DEF Entry
<1>8. /\ created'[c] = created[c] \ {h}
      /\ to_delete'[c] = {G[x].handler : x \in gone}
      /\ \A d \in Caller \ {c} : /\ created'[d] = created[d]
                                 /\ to_delete'[d] = to_delete[d]
  BY <1>1, <1>2 DEF IInv, CacheTypeOK, HandlersOf
<1>9. IsFiniteSet(DOMAIN G) /\ IsFiniteSet(DOMAIN cache')
  <2>1. IsFiniteSet(DOMAIN G)
    BY <1>3, FS_AddElement DEF IInv, CacheTypeOK
  <2> QED BY <2>1, <1>6, FS_Subset
<1>10. CacheTypeOK'
  <2>1. cache' \in [DOMAIN cache' -> Entry]
    BY <1>1, <1>4, <1>6 DEF Erase
  <2>2. DOMAIN cache' \subseteq Key
    BY <1>3, <1>6 DEF IInv, CacheTypeOK
  <2>3. created' \in [Caller -> SUBSET Handler]
    BY <1>2 DEF IInv, CacheTypeOK
  <2>4. to_delete' \in [Caller -> SUBSET Handler]
    <3>1. HandlersOf(G, gone) \subseteq Handler
      BY <1>5, <1>7 DEF HandlersOf
    <3> QED BY <1>1, <3>1 DEF IInv, CacheTypeOK
  <2>5. alive' \subseteq Handler /\ in_gapless' \subseteq alive' /\ now' \in 0 .. MaxTime
    BY <1>2 DEF IInv, CacheTypeOK
  <2> QED BY <1>9, <2>1, <2>2, <2>3, <2>4, <2>5 DEF CacheTypeOK
<1>11. OneOwner'
  <2>1. /\ \A y \in DOMAIN cache : cache[y].handler # h
        /\ h \in alive
        /\ \A d \in Caller : h \notin created'[d] \cup to_delete[d]
    BY <1>2, <1>8 DEF IInv, OneOwner, Owned
  <2>2. \A x, y \in DOMAIN G : G[x].handler = G[y].handler => x = y
    <3>1. CASE k \in DOMAIN cache
      BY <1>3, <3>1 DEF IInv, OneOwner
    <3>2. CASE k \notin DOMAIN cache
      BY <1>3, <2>1, <3>2 DEF IInv, OneOwner
    <3> QED BY <3>1, <3>2
  <2>3. \A x \in DOMAIN G, d \in Caller :
          G[x].handler \notin created'[d] \cup to_delete[d]
    <3> SUFFICES ASSUME NEW x \in DOMAIN G, NEW d \in Caller
                 PROVE  G[x].handler \notin created'[d] \cup to_delete[d]
      OBVIOUS
    <3>1. CASE x \in DOMAIN cache
      <4>1. cache[x].handler \notin created[d] \cup to_delete[d]
        BY <3>1 DEF IInv, OneOwner
      <4>2. created'[d] \subseteq created[d]
        BY <1>8
      <4> QED BY <1>3, <3>1, <4>1, <4>2
    <3>2. CASE x \notin DOMAIN cache
      BY <1>3, <2>1, <3>2
    <3> QED BY <3>1, <3>2
  <2>4. \A x \in Handler : x \in alive' <=> Owned(x)'
    <3> SUFFICES ASSUME NEW x \in Handler
                 PROVE  x \in alive' <=> Owned(x)'
      OBVIOUS
    <3>1. x \in alive <=> Owned(x)
      BY DEF IInv, OneOwner
    <3>2. Owned(x)' <=> \/ \E y \in DOMAIN G : G[y].handler = x
                        \/ \E d \in Caller : x \in created'[d] \cup to_delete[d]
      <4>1. (\E y \in DOMAIN cache' : cache'[y].handler = x)
              \/ x \in to_delete'[c]
              <=> \E y \in DOMAIN G : G[y].handler = x
        BY <1>5, <1>6, <1>8
      <4>2. (\E d \in Caller : x \in created'[d] \cup to_delete'[d])
              <=> \/ x \in to_delete'[c]
                  \/ \E d \in Caller : x \in created'[d] \cup to_delete[d]
        BY <1>2, <1>8
      <4> QED BY <4>1, <4>2 DEF Owned
    <3>3. CASE x = h
      BY <1>2, <1>3, <2>1, <3>2, <3>3
    <3>4. CASE x # h
      <4>1. (\E y \in DOMAIN G : G[y].handler = x)
              <=> \E y \in DOMAIN cache : cache[y].handler = x
        BY <1>3, <3>4
      <4>2. \A d \in Caller : x \in created'[d] <=> x \in created[d]
        BY <1>8, <3>4
      <4> QED BY <1>2, <3>1, <3>2, <3>4, <4>1, <4>2 DEF Owned
    <3> QED BY <3>3, <3>4
  <2>5. \A x, y \in DOMAIN cache' :
          cache'[x].handler = cache'[y].handler => x = y
    BY <2>2, <1>6
  <2>6. \A x \in DOMAIN cache', d \in Caller :
          cache'[x].handler \notin created'[d] \cup to_delete'[d]
    <3> SUFFICES ASSUME NEW x \in DOMAIN cache', NEW d \in Caller
                 PROVE  cache'[x].handler \notin created'[d] \cup to_delete'[d]
      OBVIOUS
    <3>1. x \in DOMAIN G /\ x \notin gone /\ cache'[x].handler = G[x].handler
      BY <1>6
    <3>2. CASE d = c
      BY <1>5, <1>8, <2>2, <2>3, <3>1, <3>2
    <3>3. CASE d # c
      BY <1>8, <2>3, <3>1, <3>3
    <3> QED BY <3>2, <3>3
  <2>7. \A c1, c2 \in Caller :
          /\ created'[c1] \cap to_delete'[c2] = {}
          /\ c1 # c2 => /\ created'[c1] \cap created'[c2] = {}
                        /\ to_delete'[c1] \cap to_delete'[c2] = {}
    <3> SUFFICES ASSUME NEW c1 \in Caller, NEW c2 \in Caller
                 PROVE  /\ created'[c1] \cap to_delete'[c2] = {}
                        /\ c1 # c2 => /\ created'[c1] \cap created'[c2] = {}
                                      /\ to_delete'[c1] \cap to_delete'[c2] = {}
      OBVIOUS
    <3>1. /\ created[c1] \cap to_delete[c2] = {}
          /\ c1 # c2 => /\ created[c1] \cap created[c2] = {}
                        /\ to_delete[c1] \cap to_delete[c2] = {}
      BY DEF IInv, OneOwner
    <3>2. \A d \in Caller : created'[d] \subseteq created[d]
      BY <1>8
    <3>3. \A d \in Caller : /\ created'[d] \cap to_delete'[c] = {}
                            /\ to_delete[d] \cap to_delete'[c] = {}
      BY <1>5, <1>8, <2>3
    <3>4. created'[c1] \cap to_delete'[c2] = {}
      BY <1>8, <3>1, <3>2, <3>3
    <3>5. c1 # c2 => to_delete'[c1] \cap to_delete'[c2] = {}
      BY <1>8, <3>1, <3>3
    <3> QED BY <3>1, <3>2, <3>4, <3>5
  <2> QED BY <2>4, <2>5, <2>6, <2>7 DEF OneOwner
<1>12. OverfullOnlyWhenPinned'
  <2> SUFFICES ASSUME Cardinality(DOMAIN cache') > MaxSize
               PROVE  Idle(cache') = {}
    BY DEF OverfullOnlyWhenPinned
  <2> QED BY <1>1, <1>9, CleanupMakesRoom
<1> QED BY <1>10, <1>11, <1>12 DEF IInv

LEMMA UnpinKeepsIInv ==
  ASSUME IInv, NEW c \in Caller, NEW k \in Key, k \notin Idle(cache), Unpin(c, k)
  PROVE  IInv'
<1> DEFINE U    == [cache EXCEPT ![k] = Unpinned(@)]
           gone == ErasedByUnpin(U, k)
<1>1. /\ k \in DOMAIN cache
      /\ to_delete[c] = {}
      /\ cache' = Erase(U, gone)
      /\ to_delete' = [to_delete EXCEPT ![c] = HandlersOf(cache, gone)]
      /\ UNCHANGED <<alive, in_gapless, created, now>>
  BY DEF Unpin, Ready
<1>2. /\ DOMAIN U = DOMAIN cache
      /\ \A x \in DOMAIN cache : U[x].handler = cache[x].handler
      /\ \A x \in DOMAIN cache \ {k} : U[x] = cache[x]
  BY DEF Unpinned, IInv, CacheTypeOK, Entry
<1>3. U \in [DOMAIN U -> Entry]
  <2>1. cache[k] \in Entry /\ cache[k].references # 0
    BY <1>1 DEF IInv, CacheTypeOK, Idle
  <2>2. Unpinned(cache[k]) \in Entry
    BY <2>1 DEF Unpinned, Entry
  <2> QED BY <1>1, <2>2 DEF IInv, CacheTypeOK
<1>4. gone = {} \/ gone = {k}
  BY DEF ErasedByUnpin
<1>5. Oversize(U) /\ k \in Idle(U) => gone = {k}
  BY DEF ErasedByUnpin
<1> HIDE DEF U, gone
<1>6. /\ DOMAIN cache' = DOMAIN cache \ gone
      /\ \A x \in DOMAIN cache' : /\ cache'[x] = U[x]
                                  /\ cache'[x].handler = cache[x].handler
  BY <1>1, <1>2 DEF Erase
<1>7. /\ to_delete'[c] = {cache[x].handler : x \in gone}
      /\ \A d \in Caller \ {c} : to_delete'[d] = to_delete[d]
  BY <1>1 DEF HandlersOf, IInv, CacheTypeOK
<1>8. IsFiniteSet(DOMAIN cache')
  BY <1>6, FS_Subset DEF IInv, CacheTypeOK
<1>9. CacheTypeOK'
  <2>1. cache' \in [DOMAIN cache' -> Entry]
    BY <1>1, <1>2, <1>3, <1>6 DEF Erase
  <2>2. to_delete' \in [Caller -> SUBSET Handler]
    <3>1. cache[k].handler \in Handler
      BY <1>1 DEF IInv, CacheTypeOK, Entry
    <3>2. HandlersOf(cache, gone) \subseteq Handler
      BY <1>4, <3>1 DEF HandlersOf
    <3> QED BY <1>1, <3>2 DEF IInv, CacheTypeOK
  <2> QED BY <1>1, <1>6, <1>8, <2>1, <2>2 DEF IInv, CacheTypeOK
<1>10. OneOwner'
  <2>1. \A h \in Handler : h \in alive' <=> Owned(h)'
    BY <1>1, <1>4, <1>6, <1>7 DEF IInv, OneOwner, Owned
  <2>2. \A x, y \in DOMAIN cache' :
          cache'[x].handler = cache'[y].handler => x = y
    BY <1>6 DEF IInv, OneOwner
  <2>3. \A x \in DOMAIN cache', d \in Caller :
          cache'[x].handler \notin created'[d] \cup to_delete'[d]
    BY <1>1, <1>4, <1>6, <1>7 DEF IInv, OneOwner
  <2>4. \A c1, c2 \in Caller :
          /\ created'[c1] \cap to_delete'[c2] = {}
          /\ c1 # c2 => /\ created'[c1] \cap created'[c2] = {}
                        /\ to_delete'[c1] \cap to_delete'[c2] = {}
    BY <1>1, <1>4, <1>7 DEF IInv, OneOwner
  <2> QED BY <2>1, <2>2, <2>3, <2>4 DEF OneOwner
<1>11. OverfullOnlyWhenPinned'
  <2> SUFFICES ASSUME Cardinality(DOMAIN cache') > MaxSize
               PROVE  Idle(cache') = {}
    BY DEF OverfullOnlyWhenPinned
  <2>1. /\ Cardinality(DOMAIN cache') <= Cardinality(DOMAIN cache)
        /\ Cardinality(DOMAIN cache) \in Nat
        /\ Cardinality(DOMAIN cache') \in Nat
    BY <1>6, <1>8, FS_Subset, FS_CardinalityType DEF IInv, CacheTypeOK
  <2>2. Idle(cache) = {}
    BY <2>1, CacheAssumption DEF IInv, OverfullOnlyWhenPinned
  <2>3. Oversize(U)
    BY <1>2, <2>1, CacheAssumption DEF Oversize
  <2>4. Idle(U) \subseteq {k}
    BY <1>2, <2>2 DEF Idle
  <2>5. Idle(cache') \subseteq Idle(U) \ gone
    BY <1>2, <1>6 DEF Idle
  <2> QED BY <1>5, <2>3, <2>4, <2>5
<1> QED BY <1>9, <1>10, <1>11 DEF IInv

LEMMA DeleteKeepsIInv ==
  ASSUME IInv, NEW c \in Caller, NEW h \in Handler, DeleteErased(c, h)
  PROVE  IInv'
<1>1. /\ h \in to_delete[c]
      /\ to_delete'[c] = to_delete[c] \ {h}
      /\ \A d \in Caller \ {c} : to_delete'[d] = to_delete[d]
      /\ alive' = alive \ {h}
      /\ in_gapless' = in_gapless \ {h}
      /\ UNCHANGED <<cache, created, now>>
  BY DEF DeleteErased, IInv, CacheTypeOK
<1>2. CacheTypeOK'
  BY <1>1 DEF DeleteErased, IInv, CacheTypeOK
<1>3. OneOwner'
  BY <1>1 DEF IInv, OneOwner, Owned
<1>4. OverfullOnlyWhenPinned'
  BY <1>1 DEF IInv, OverfullOnlyWhenPinned, Idle
<1> QED BY <1>2, <1>3, <1>4 DEF IInv

LEMMA ConstructKeepsIInv ==
  ASSUME IInv, NEW c \in Caller, NEW h \in Handler, Construct(c, h)
  PROVE  IInv'
<1>1. /\ created[c] = {}
      /\ created'[c] = {h}
      /\ \A d \in Caller \ {c} : created'[d] = created[d]
      /\ h \notin alive
      /\ alive' = alive \cup {h}
      /\ UNCHANGED <<cache, in_gapless, to_delete, now>>
  BY DEF Construct, IInv, CacheTypeOK
<1>2. CacheTypeOK'
  BY <1>1 DEF Construct, IInv, CacheTypeOK
<1>3. OneOwner'
  <2>1. ~Owned(h)
    BY <1>1 DEF IInv, OneOwner
  <2>2. \A x \in Handler : x \in alive' <=> Owned(x)'
    BY <1>1 DEF IInv, OneOwner, Owned
  <2>3. \A x \in DOMAIN cache', d \in Caller :
          cache'[x].handler \notin created'[d] \cup to_delete'[d]
    BY <1>1, <2>1 DEF IInv, OneOwner, Owned
  <2>4. \A c1, c2 \in Caller :
          /\ created'[c1] \cap to_delete'[c2] = {}
          /\ c1 # c2 => /\ created'[c1] \cap created'[c2] = {}
                        /\ to_delete'[c1] \cap to_delete'[c2] = {}
    BY <1>1, <2>1 DEF IInv, OneOwner, Owned
  <2> QED BY <1>1, <2>2, <2>3, <2>4 DEF IInv, OneOwner
<1>4. OverfullOnlyWhenPinned'
  BY <1>1 DEF IInv, OverfullOnlyWhenPinned, Idle
<1> QED BY <1>2, <1>3, <1>4 DEF IInv

LEMMA GaplessKeepsIInv ==
  ASSUME IInv, NEW k \in Key, BecomeGapless(k)
  PROVE  IInv'
<1>1. cache[k].handler \in alive
  BY DEF BecomeGapless, IInv, CacheTypeOK, Entry, OneOwner, Owned
<1>2. CacheTypeOK'
  BY <1>1 DEF BecomeGapless, IInv, CacheTypeOK
<1>3. OneOwner' /\ OverfullOnlyWhenPinned'
  BY DEF BecomeGapless, IInv, OneOwner, Owned, OverfullOnlyWhenPinned, Idle
<1> QED BY <1>2, <1>3 DEF IInv

LEMMA TickKeepsIInv ==
  ASSUME IInv, Tick
  PROVE  IInv'
<1>1. CacheTypeOK'
  BY CacheAssumption DEF Tick, IInv, CacheTypeOK
<1>2. OneOwner' /\ OverfullOnlyWhenPinned'
  BY DEF Tick, IInv, OneOwner, Owned, OverfullOnlyWhenPinned, Idle
<1> QED BY <1>1, <1>2 DEF IInv

LEMMA StutterKeepsIInv ==
  ASSUME IInv, UNCHANGED cache_vars
  PROVE  IInv'
BY DEF cache_vars, IInv, CacheTypeOK, OneOwner, Owned, OverfullOnlyWhenPinned, Idle

LEMMA NextKeepsIInv == IInv /\ [CacheNext]_cache_vars => IInv'
<1> SUFFICES ASSUME IInv, [CacheNext]_cache_vars PROVE IInv'
  OBVIOUS
<1>1. CASE UNCHANGED cache_vars
  BY <1>1, StutterKeepsIInv
<1>2. ASSUME NEW c \in Caller, NEW k \in Key, FindAndPinMiss(c, k) PROVE IInv'
  BY <1>2, StutterKeepsIInv DEF FindAndPinMiss
<1>3. ASSUME NEW c \in Caller, NEW k \in Key, NEW g \in BOOLEAN,
             FindAndPinReplace(c, k, g)
      PROVE  IInv'
  BY <1>3, ReplaceKeepsIInv
<1>4. ASSUME NEW c \in Caller, NEW k \in Key, NEW g \in BOOLEAN,
             FindAndPinHit(c, k, g)
      PROVE  IInv'
  BY <1>4, PinKeepsIInv
<1>5. ASSUME NEW c \in Caller, NEW k \in Key, NEW h \in Handler,
             InsertPinned(c, k, h)
      PROVE  IInv'
  BY <1>5, InsertKeepsIInv
<1>6. ASSUME NEW c \in Caller, NEW k \in Key, k \notin Idle(cache), Unpin(c, k)
      PROVE  IInv'
  BY <1>6, UnpinKeepsIInv
<1>7. ASSUME NEW c \in Caller, NEW h \in Handler, Construct(c, h) PROVE IInv'
  BY <1>7, ConstructKeepsIInv
<1>8. ASSUME NEW c \in Caller, NEW h \in Handler, DeleteErased(c, h) PROVE IInv'
  BY <1>8, DeleteKeepsIInv
<1>9. ASSUME NEW k \in Key, BecomeGapless(k) PROVE IInv'
  BY <1>9, GaplessKeepsIInv
<1>10. CASE Tick
  BY <1>10, TickKeepsIInv
<1> QED
  BY <1>1, <1>2, <1>3, <1>4, <1>5, <1>6, <1>7, <1>8, <1>9, <1>10 DEF CacheNext

-----------------------------------------------------------------------------
(* The theorems.                                                           *)

LEMMA CacheInvariant == CacheSpec => []IInv
BY InitIInv, NextKeepsIInv, PTL DEF CacheSpec

\* Every reachable cache is a finite table of well-formed entries; in
\* particular no reference count goes below zero under a client that unpins
\* what it pinned.
THEOREM CacheTypeCorrect == CacheSpec => []CacheTypeOK
BY CacheInvariant, PTL DEF IInv

\* The cache is larger than max_size_ only while every handler in it is in use
\* (file-handler-cache.cc:108).
THEOREM CacheOverfullOnlyWhenPinned == CacheSpec => []OverfullOnlyWhenPinned
BY CacheInvariant, PTL DEF IInv

\* No handler is leaked and none is deleted twice, in any interleaving of any
\* number of callers (file-handler-cache.h:37).
THEOREM CacheOneOwner == CacheSpec => []OneOwner
BY CacheInvariant, PTL DEF IInv
=============================================================================
